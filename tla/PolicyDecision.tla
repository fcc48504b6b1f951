-------------------------- MODULE PolicyDecision --------------------------
(***************************************************************************)
(* Stages 3 to 5 for one request: from the collected signals through        *)
(* risk.score to the decision that policy_client.decide returns, with OPA   *)
(* answering, failing or timing out.  Every combination of flags, checks    *)
(* and signals on either side of each threshold is an initial state.        *)
(***************************************************************************)
EXTENDS RiskPolicy

CONSTANTS
  Velocities, CallRates, Continuities, FailureRates,  \* values to try
  AllowLimits, DenyLimits     \* values of the two configured thresholds

ASSUME InputAssumption ==
  /\ Velocities \subseteq Nat /\ CallRates \subseteq Nat
  /\ Continuities \subseteq Nat /\ FailureRates \subseteq Nat
  /\ AllowLimits \subseteq Nat /\ DenyLimits \subseteq Nat

VARIABLES
  flags, limits,        \* configuration
  checks, collected, observed, declared,   \* what the earlier stages found
  stage,                \* "score", "policy" or "done"
  risk, decision, reached  \* results; reached: OPA answered

inputs == <<flags, limits, checks, collected, observed, declared>>
vars == <<inputs, stage, risk, decision, reached>>

Flags  == [dpop : BOOLEAN, binding : BOOLEAN, telemetry : BOOLEAN,
           velocity : BOOLEAN, oracle : BOOLEAN]
Collected == [fpStable : BOOLEAN, geoVelocity : Velocities,
              callRate : CallRates, continuity : Continuities,
              failureRate : FailureRates]
Limits == [allow : AllowLimits, deny : DenyLimits]

TypeOK ==
  /\ flags \in Flags /\ limits \in Limits
  /\ checks \in Checks /\ collected \in Collected
  /\ observed \in BOOLEAN /\ declared \in BOOLEAN
  /\ stage \in {"score", "policy", "done"}
  /\ risk \in 0..100
  /\ decision \in Decision
  /\ reached \in BOOLEAN

Init ==
  /\ flags \in Flags /\ limits \in Limits
  /\ checks \in {c \in Checks : Admitted(flags, c)}
  /\ collected \in Collected
  /\ observed \in BOOLEAN /\ declared \in BOOLEAN
  /\ stage = "score"
  /\ risk = 0 /\ decision = "DENY" /\ reached = FALSE

ScoreRequest ==
  /\ stage = "score"
  /\ risk' = Score(flags, checks, DeviceKnown(flags, observed),
                   Signals(flags, collected), declared)
  /\ stage' = "policy"
  /\ UNCHANGED <<inputs, decision, reached>>

OpaAnswers ==
  /\ stage = "policy"
  /\ decision' = FromOpa(RegoAnswer(flags, checks, risk, limits))
  /\ reached' = TRUE
  /\ stage' = "done"
  /\ UNCHANGED <<inputs, risk>>

(* Connection refused, the 2 s timeout, an HTTP error or an undecodable body. *)
OpaFails ==
  /\ stage = "policy"
  /\ decision' = FromOpa(NoAnswer)
  /\ stage' = "done"
  /\ UNCHANGED <<inputs, risk, reached>>

Next == ScoreRequest \/ OpaAnswers \/ OpaFails

Spec == Init /\ [][Next]_vars

-----------------------------------------------------------------------------
(* Properties. *)

(* A request is let through only on OPA's word and only when its risk is    *)
(* below both thresholds, even when the thresholds are configured the wrong *)
(* way round or OPA cannot be reached (policy_client.decide with zt.rego).  *)
AllowMeansLowRisk ==
  decision = "ALLOW" =>
    reached /\ ~DenyHard(flags, checks) /\ risk < limits.allow /\ risk < limits.deny

(* With ordered thresholds, OPA's three risk rules and the controller's     *)
(* decide_local are the same function: no score falls between two rules of  *)
(* zt.rego or into two of them.                                             *)
AgreesWithLocal ==
  reached /\ limits.allow <= limits.deny => decision = DecideLocal(risk, limits)

(* Every signal that is worse raises the score or leaves it: no combination *)
(* of penalties makes a worse context look better (risk.score).             *)
Worse(c, d) ==
  /\ c.fpStable => d.fpStable
  /\ c.geoVelocity >= d.geoVelocity /\ c.callRate >= d.callRate
  /\ c.continuity <= d.continuity /\ c.failureRate >= d.failureRate

WorseSignalsNeverSofter ==
  stage = "policy" =>
    \A c \in Collected : Worse(c, collected) =>
      risk <= Score(flags, checks, DeviceKnown(flags, observed),
                    Signals(flags, c), declared)

(* Turning enforcement components off never raises a score: an ablation can *)
(* only remove penalties (config flags in risk.score and stage 3).          *)
Weaker(f, g) == \A x \in DOMAIN f : f[x] => g[x]

AblationNeverTightens ==
  stage = "policy" =>
    \A f \in Flags : Weaker(f, flags) =>
      Score(f, checks, DeviceKnown(f, observed), Signals(f, collected), declared)
        <= risk
=============================================================================
