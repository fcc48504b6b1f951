----------------------- MODULE PolicyDecisionProofs -----------------------
(***************************************************************************)
(* Proofs about scoring and the policy decision, for all values of the      *)
(* signals and of the configured thresholds.                                *)
(***************************************************************************)
EXTENDS PolicyDecision, TLAPS

(* What the operators of RiskPolicy promise, for all scores and thresholds. *)

(* A decision taken from OPA's answer is produced by a rule of zt.rego, and  *)
(* by no other rule, or it is DENY.                                          *)
LEMMA AnswerIsOnlyAction ==
  ASSUME NEW f, NEW c, NEW r, NEW l, NEW a \in {"ALLOW", "CHALLENGE"},
         FromOpa(RegoAnswer(f, c, r, l)) = a
  PROVE  RegoActions(f, c, r, l) = {a}
<1> DEFINE actions == RegoActions(f, c, r, l)
           single == CHOOSE x \in Decision : actions = {x}
<1>1. \E x \in Decision : actions = {x}
  BY DEF FromOpa, RegoAnswer, EvalConflict, Decision
<1>2. actions = {single}
  BY <1>1
<1>3. actions # {} /\ RegoAnswer(f, c, r, l) = single
  BY <1>1, <1>2 DEF RegoAnswer
<1>4. single \in Decision
  BY <1>1
<1>5. single = a
  BY <1>3, <1>4 DEF FromOpa
<1> QED
  BY <1>2, <1>5

(* An ALLOW obtained from OPA means that no hard rule applies and that the   *)
(* score is below both thresholds, in whichever order they are configured.   *)
LEMMA OpaAllow ==
  ASSUME NEW f, NEW c, NEW r \in Int, NEW l, l.allow \in Int, l.deny \in Int,
         FromOpa(RegoAnswer(f, c, r, l)) = "ALLOW"
  PROVE  ~DenyHard(f, c) /\ r < l.allow /\ r < l.deny
<1>1. RegoActions(f, c, r, l) = {"ALLOW"}
  BY AnswerIsOnlyAction
<1>2. "ALLOW" \in RegoActions(f, c, r, l) /\ "DENY" \notin RegoActions(f, c, r, l)
  BY <1>1
<1> QED
  BY <1>2 DEF RegoActions, Decision

(* For a request that meets no hard rule and for ordered thresholds, the     *)
(* policy evaluated by OPA is decide_local: the three risk rules of zt.rego  *)
(* cover every score and never overlap.                                      *)
LEMMA RegoIsLocal ==
  ASSUME NEW f, NEW c, NEW r \in Int, NEW l, l.allow \in Int, l.deny \in Int,
         ~DenyHard(f, c), l.allow <= l.deny
  PROVE  FromOpa(RegoAnswer(f, c, r, l)) = DecideLocal(r, l)
<1> DEFINE actions == RegoActions(f, c, r, l)
           local == DecideLocal(r, l)
<1>1. local \in Decision
  BY DEF DecideLocal, Decision
<1>2. actions = {local}
  BY <1>1 DEF RegoActions, DecideLocal, Decision
<1>3. RegoAnswer(f, c, r, l) = local
  BY <1>1, <1>2 DEF RegoAnswer
<1> QED
  BY <1>1, <1>3 DEF FromOpa

-----------------------------------------------------------------------------

(* Requests are let through only on OPA's word and below both thresholds     *)
(* (policy_client.decide with zt.rego), for every configuration.             *)
THEOREM AllowIsSafe == Spec => []AllowMeansLowRisk
<1> DEFINE Inv == /\ AllowMeansLowRisk
                  /\ risk \in Int /\ limits.allow \in Int /\ limits.deny \in Int
                  /\ stage # "done" => decision = "DENY" /\ ~reached
<1>1. Init => Inv
  <2> SUFFICES ASSUME Init PROVE Inv
    OBVIOUS
  <2>1. limits.allow \in Int /\ limits.deny \in Int
    <3>1. limits.allow \in AllowLimits /\ limits.deny \in DenyLimits
      BY DEF Init, Limits
    <3>2. limits.allow \in Nat /\ limits.deny \in Nat
      BY <3>1, InputAssumption, Zenon
    <3> QED
      BY <3>2
  <2>2. risk \in Int /\ decision = "DENY" /\ ~reached
    BY DEF Init
  <2> QED
    BY <2>1, <2>2 DEF AllowMeansLowRisk
<1>2. Inv /\ [Next]_vars => Inv'
  <2> SUFFICES ASSUME Inv, [Next]_vars PROVE Inv'
    OBVIOUS
  <2> USE DEF inputs
  <2>1. CASE ScoreRequest
    <3>1. risk' \in Int
      BY <2>1 DEF ScoreRequest, Score, Cap, TotalPenalty, Penalty
    <3> QED
      BY <2>1, <3>1 DEF ScoreRequest, AllowMeansLowRisk
  <2>2. CASE OpaAnswers
    <3>1. decision' = "ALLOW" =>
            ~DenyHard(flags, checks) /\ risk < limits.allow /\ risk < limits.deny
      BY <2>2, OpaAllow DEF OpaAnswers
    <3> QED
      BY <2>2, <3>1 DEF OpaAnswers, AllowMeansLowRisk
  <2>3. CASE OpaFails
    BY <2>3 DEF OpaFails, AllowMeansLowRisk, FromOpa, NoAnswer, Decision
  <2>4. CASE UNCHANGED vars
    BY <2>4 DEF vars, AllowMeansLowRisk
  <2> QED
    BY <2>1, <2>2, <2>3, <2>4 DEF Next
<1> QED
  BY <1>1, <1>2, PTL DEF Spec

-----------------------------------------------------------------------------
Signal == [fpStable : BOOLEAN, geoVelocity : Nat, callRate : Nat,
           continuity : Nat, failureRate : Nat]

(* No signal that gets worse lowers the score, whatever else is true of the  *)
(* request: risk.score adds penalties and never trades one for another.      *)
THEOREM ScoreMonotone ==
  ASSUME NEW f \in Flags, NEW k \in Checks, NEW known \in BOOLEAN,
         NEW declared0 \in BOOLEAN,
         NEW c \in Signal, NEW d \in Signal, Worse(c, d)
  PROVE  Score(f, k, known, d, declared0) <= Score(f, k, known, c, declared0)
<1>1. R2(f, known, d) => R2(f, known, c)
  BY DEF R2, Worse, Signal
<1>2. R3(d) => R3(c)
  BY DEF R3, VelocityLimit, Worse, Signal
<1>3. R4(f, d) => R4(f, c)
  BY DEF R4, CallRateLimit, Worse, Signal
<1>4. R5(d) => R5(c)
  BY DEF R5, ContinuityFloor, Worse, Signal
<1>5. R6(d) => R6(c)
  BY DEF R6, FailureLimit, Worse, Signal
<1> DEFINE total(s) == TotalPenalty(f, k, known, s, declared0)
<1>6. total(d) \in Int /\ total(c) \in Int /\ total(d) <= total(c)
  BY <1>1, <1>2, <1>3, <1>4, <1>5 DEF TotalPenalty, Penalty
<1> QED
  BY <1>6 DEF Score, Cap

(* The initial scores and thresholds are numbers. *)
LEMMA NumbersAtStart ==
  ASSUME Init
  PROVE  risk \in Int /\ limits.allow \in Int /\ limits.deny \in Int
<1>1. limits.allow \in AllowLimits /\ limits.deny \in DenyLimits
  BY DEF Init, Limits
<1>2. limits.allow \in Nat /\ limits.deny \in Nat
  BY <1>1, InputAssumption, Zenon
<1> QED
  BY <1>2 DEF Init

(* With ordered thresholds, every decision obtained from OPA is the one that *)
(* decide_local would take (policy_client.py and zt.rego).                   *)
THEOREM OpaAgreesWithLocal == Spec => []AgreesWithLocal
<1> DEFINE Inv == /\ AgreesWithLocal
                  /\ risk \in Int /\ limits.allow \in Int /\ limits.deny \in Int
                  /\ stage # "done" => ~reached
                  /\ ~DenyHard(flags, checks)
<1>1. Init => Inv
  <2> SUFFICES ASSUME Init PROVE Inv
    OBVIOUS
  <2>1. ~DenyHard(flags, checks)
    BY DEF Init, Admitted, DenyHard, Flags, Checks
  <2> QED
    BY <2>1, NumbersAtStart DEF Init, AgreesWithLocal
<1>2. Inv /\ [Next]_vars => Inv'
  <2> SUFFICES ASSUME Inv, [Next]_vars PROVE Inv'
    OBVIOUS
  <2> USE DEF inputs
  <2>1. CASE ScoreRequest
    <3>1. risk' \in Int
      BY <2>1 DEF ScoreRequest, Score, Cap, TotalPenalty, Penalty
    <3> QED
      BY <2>1, <3>1 DEF ScoreRequest, AgreesWithLocal
  <2>2. CASE OpaAnswers
    <3>1. limits.allow <= limits.deny => decision' = DecideLocal(risk, limits)
      BY <2>2, RegoIsLocal DEF OpaAnswers
    <3> QED
      BY <2>2, <3>1 DEF OpaAnswers, AgreesWithLocal
  <2>3. CASE OpaFails
    BY <2>3 DEF OpaFails, AgreesWithLocal
  <2>4. CASE UNCHANGED vars
    BY <2>4 DEF vars, AgreesWithLocal
  <2> QED
    BY <2>1, <2>2, <2>3, <2>4 DEF Next
<1>3. Inv => AgreesWithLocal
  OBVIOUS
<1> QED
  BY <1>1, <1>2, <1>3, PTL DEF Spec

(* The signals a run enumerates are well-formed signals. *)
LEMMA CollectedAreSignals == Collected \subseteq Signal
<1>1. SUFFICES ASSUME NEW c \in Collected PROVE c \in Signal
  OBVIOUS
<1>2. /\ c.geoVelocity \in Velocities /\ c.callRate \in CallRates
      /\ c.continuity \in Continuities /\ c.failureRate \in FailureRates
  BY DEF Collected
<1>3. /\ c.geoVelocity \in Nat /\ c.callRate \in Nat
      /\ c.continuity \in Nat /\ c.failureRate \in Nat
  BY <1>2, InputAssumption, Zenon
<1>4. c = [fpStable |-> c.fpStable, geoVelocity |-> c.geoVelocity,
           callRate |-> c.callRate, continuity |-> c.continuity,
           failureRate |-> c.failureRate] /\ c.fpStable \in BOOLEAN
  BY DEF Collected
<1> QED
  BY <1>3, <1>4 DEF Signal

(* The score is the one of the request's own flags, checks and signals. *)
ScoredInv ==
  /\ flags \in Flags /\ checks \in Checks /\ collected \in Collected
  /\ observed \in BOOLEAN /\ declared \in BOOLEAN
  /\ stage = "policy" =>
       risk = Score(flags, checks, DeviceKnown(flags, observed),
                    Signals(flags, collected), declared)

LEMMA ScoredInvAlways == Spec => []ScoredInv
<1>1. Init => ScoredInv
  BY DEF Init, ScoredInv
<1>2. ScoredInv /\ [Next]_vars => ScoredInv'
  BY DEF ScoredInv, Next, ScoreRequest, OpaAnswers, OpaFails, vars, inputs
<1> QED
  BY <1>1, <1>2, PTL DEF Spec

(* The score of a request never falls when one of its signals gets worse,    *)
(* for every configuration and every value of the signals (risk.score).      *)
THEOREM ScoringIsMonotone == Spec => []WorseSignalsNeverSofter
<1> DEFINE known == DeviceKnown(flags, observed)
<1>1. ScoredInv => WorseSignalsNeverSofter
  <2>1. SUFFICES ASSUME ScoredInv, stage = "policy",
                        NEW c \in Collected, Worse(c, collected)
                 PROVE  risk <= Score(flags, checks, known, Signals(flags, c), declared)
    BY DEF WorseSignalsNeverSofter
  <2>2. known \in BOOLEAN
    BY <2>1 DEF DeviceKnown, Flags, ScoredInv
  <2>3. Signals(flags, c) \in Signal /\ Signals(flags, collected) \in Signal
    BY <2>1, CollectedAreSignals DEF Signals, Neutral, Signal, ScoredInv
  <2>4. Worse(Signals(flags, c), Signals(flags, collected))
    BY <2>1 DEF Signals, Neutral, Worse
  <2>5. risk = Score(flags, checks, known, Signals(flags, collected), declared)
    BY <2>1 DEF ScoredInv
  <2> HIDE DEF known
  <2> QED
    BY <2>1, <2>2, <2>3, <2>4, <2>5, ScoreMonotone DEF ScoredInv
<1> QED
  BY <1>1, ScoredInvAlways, PTL

-----------------------------------------------------------------------------
(* A weaker configuration sees no signal that the stronger one does not see: *)
(* what _NEUTRAL_TELEMETRY and the empty device_signals stand for is never   *)
(* worse than what was collected.                                            *)
LEMMA AblationLowersScore ==
  ASSUME NEW f \in Flags, NEW g \in Flags, Weaker(f, g), NEW k \in Checks,
         NEW seen \in BOOLEAN, NEW c \in Signal, NEW declared0 \in BOOLEAN
  PROVE  Score(f, k, DeviceKnown(f, seen), Signals(f, c), declared0)
           <= Score(g, k, DeviceKnown(g, seen), Signals(g, c), declared0)
<1> DEFINE sf == Signals(f, c)
           sg == Signals(g, c)
           kf == DeviceKnown(f, seen)
           kg == DeviceKnown(g, seen)
           total(h, known, s) == TotalPenalty(h, k, known, s, declared0)
<1>1. /\ f.binding => g.binding
      /\ f.telemetry => g.telemetry
      /\ f.velocity => g.velocity
      /\ f.oracle => g.oracle
  BY DEF Weaker, Flags
<1>2. /\ f.telemetry => sf = c /\ sg = c
      /\ ~f.telemetry => sf = Neutral
      /\ sf \in Signal /\ sg \in Signal
  BY <1>1 DEF Signals, Neutral, Signal
<1>3. R1(f, k) => R1(g, k)
  BY <1>1 DEF R1
<1>4. R2(f, kf, sf) => R2(g, kg, sg)
  BY <1>1, <1>2 DEF R2, DeviceKnown, Neutral
<1>5. R3(sf) => R3(sg)
  BY <1>2 DEF R3, VelocityLimit, Neutral
<1>6. R4(f, sf) => R4(g, sg)
  BY <1>1, <1>2 DEF R4, CallRateLimit, Neutral
<1>7. R5(sf) => R5(sg)
  BY <1>2 DEF R5, ContinuityFloor, Neutral
<1>8. R6(sf) => R6(sg)
  BY <1>2 DEF R6, FailureLimit, Neutral
<1>9. R7(f, declared0) => R7(g, declared0)
  BY <1>1 DEF R7
<1>10. /\ total(f, kf, sf) \in Int /\ total(g, kg, sg) \in Int
       /\ total(f, kf, sf) <= total(g, kg, sg)
  BY <1>3, <1>4, <1>5, <1>6, <1>7, <1>8, <1>9 DEF TotalPenalty, Penalty
<1> QED
  BY <1>10 DEF Score, Cap

(* Turning enforcement off never raises the score of a request, for every    *)
(* pair of configurations and all values of the signals (risk.score and      *)
(* stage 3 of handle_request).                                               *)
THEOREM AblationIsMonotone == Spec => []AblationNeverTightens
<1>1. ScoredInv => AblationNeverTightens
  <2>1. SUFFICES ASSUME ScoredInv, stage = "policy",
                        NEW f \in Flags, Weaker(f, flags)
                 PROVE  Score(f, checks, DeviceKnown(f, observed),
                              Signals(f, collected), declared) <= risk
    BY DEF AblationNeverTightens
  <2> QED
    BY <2>1, AblationLowersScore, CollectedAreSignals DEF ScoredInv
<1> QED
  BY <1>1, ScoredInvAlways, PTL
=============================================================================
