---------------------------- MODULE RiskPolicy ----------------------------
(***************************************************************************)
(* The pure part of stages 3 to 5: what risk.score makes of the signals,    *)
(* what the OPA policy zt.rego makes of the score, and what policy_client   *)
(* makes of OPA's answer.                                                   *)
(*                                                                          *)
(* Scores are in hundredths (0.35 is 35): every penalty is a multiple of    *)
(* 0.01 and score() rounds the sum to four digits, so the comparisons with  *)
(* the thresholds are exact.  Ratios are in thousandths, as collect()       *)
(* rounds them to three digits.                                             *)
(*                                                                          *)
(*   flags     : dpop, binding, telemetry, velocity, oracle (config.py)     *)
(*   signals   : fpStable, geoVelocity, callRate, continuity, failureRate   *)
(*   checks    : tokenValid, dpopValid, jtiReplayed, jktMatch               *)
(*   limits    : allow, deny                                                *)
(***************************************************************************)
EXTENDS Integers, FiniteSets

Decision == {"ALLOW", "CHALLENGE", "DENY"}

-----------------------------------------------------------------------------
(* Stage 3 of main.py. *)

(* Mutant: session continuity defaults to zero like the other numbers. *)
NeutralAllZero == [fpStable |-> TRUE, geoVelocity |-> 0, callRate |-> 0,
                   continuity |-> 0, failureRate |-> 0]

(* _NEUTRAL_TELEMETRY: what stage 4 sees when ENABLE_TELEMETRY is off. *)
Neutral == [fpStable |-> TRUE, geoVelocity |-> 0, callRate |-> 0,
            continuity |-> 1000, failureRate |-> 0]

Signals(flags, collected) == IF flags.telemetry THEN collected ELSE Neutral

(* device_signals stays {} when binding is ablated, and score() then takes  *)
(* device_known to be true.                                                 *)
DeviceKnown(flags, observed) == flags.binding => observed

-----------------------------------------------------------------------------
(* risk.py *)

CallRateLimit    == 30      \* requests per minute
VelocityLimit    == 500     \* km/h
ContinuityFloor  == 500     \* 0.50
FailureLimit     == 100     \* 0.10

R1(flags, checks) == flags.binding /\ ~checks.jktMatch
R2(flags, known, signals) == flags.binding /\ (~known \/ ~signals.fpStable)
R3(signals) == signals.geoVelocity > VelocityLimit
R4(flags, signals) == flags.velocity /\ signals.callRate > CallRateLimit
R5Inverted(signals) == signals.continuity >= ContinuityFloor   \* mutant
R5(signals) == signals.continuity < ContinuityFloor
R6(signals) == signals.failureRate > FailureLimit
R7(flags, declared) == flags.oracle /\ declared

Penalty(fires, weight) == IF fires THEN weight ELSE 0

TotalPenalty(flags, checks, known, signals, declared) ==
  Penalty(R1(flags, checks), 80) + Penalty(R2(flags, known, signals), 35)
  + Penalty(R3(signals), 60) + Penalty(R4(flags, signals), 25)
  + Penalty(R5(signals), 20) + Penalty(R6(signals), 20)
  + Penalty(R7(flags, declared), 90)

Uncapped(total) == total   \* mutant: min(1.0, ...) forgotten

Cap(total) == IF total > 100 THEN 100 ELSE total

Score(flags, checks, known, signals, declared) ==
  Cap(TotalPenalty(flags, checks, known, signals, declared))

-----------------------------------------------------------------------------
(* What stages 1 and 2 find out, as recorded in `checks`. *)
Checks == [tokenValid : BOOLEAN, dpopValid : BOOLEAN,
           jtiReplayed : BOOLEAN, jktMatch : BOOLEAN]

(* The checks of a request that stages 1 and 2 let through: the token       *)
(* verified, the proof when DPoP is enforced, and the key matched when      *)
(* binding is enforced as well.                                             *)
Admitted(flags, checks) ==
  /\ checks.tokenValid /\ ~checks.jtiReplayed
  /\ checks.dpopValid = flags.dpop
  /\ (flags.dpop => flags.binding) => checks.jktMatch

-----------------------------------------------------------------------------
(* opa/policies/zt.rego *)

DenyHardUngated(flags, checks) ==   \* mutant: an ablated check still denies
  \/ checks.jtiReplayed
  \/ ~checks.tokenValid
  \/ ~checks.dpopValid
  \/ ~checks.jktMatch

DenyHard(flags, checks) ==
  \/ checks.jtiReplayed
  \/ ~checks.tokenValid
  \/ ~checks.dpopValid /\ flags.dpop
  \/ ~checks.jktMatch /\ flags.binding

(* Mutant: the CHALLENGE rule excludes its lower bound. *)
RegoActionsGap(flags, checks, risk, limits) ==
  {a \in Decision :
     \/ a = "ALLOW" /\ ~DenyHard(flags, checks) /\ risk < limits.allow
     \/ a = "CHALLENGE" /\ ~DenyHard(flags, checks)
        /\ risk > limits.allow /\ risk < limits.deny
     \/ a = "DENY" /\ (DenyHard(flags, checks) \/ risk >= limits.deny)}

(* The values that the `decision` rules produce.  Each is a complete rule:  *)
(* none of them leaves the default, two different ones are an error.        *)
RegoActions(flags, checks, risk, limits) ==
  {a \in Decision :
     \/ a = "ALLOW" /\ ~DenyHard(flags, checks) /\ risk < limits.allow
     \/ a = "CHALLENGE" /\ ~DenyHard(flags, checks)
        /\ risk >= limits.allow /\ risk < limits.deny
     \/ a = "DENY" /\ (DenyHard(flags, checks) \/ risk >= limits.deny)}

EvalConflict == "eval_conflict_error"

RegoAnswer(flags, checks, risk, limits) ==
  LET actions == RegoActions(flags, checks, risk, limits)
  IN IF actions = {} THEN "DENY"
     ELSE IF \E a \in Decision : actions = {a}
          THEN CHOOSE a \in Decision : actions = {a}
          ELSE EvalConflict

-----------------------------------------------------------------------------
(* policy_client.py: any failure to obtain an action is a DENY. *)

NoAnswer == "no_answer"

FromOpaOpen(answer) ==   \* mutant: an outage lets requests through
  IF answer \in Decision THEN answer ELSE "ALLOW"

FromOpa(answer) == IF answer \in Decision THEN answer ELSE "DENY"

DecideLocal(risk, limits) ==
  IF risk < limits.allow THEN "ALLOW"
  ELSE IF risk < limits.deny THEN "CHALLENGE" ELSE "DENY"
=============================================================================
