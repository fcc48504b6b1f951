----------------------------- MODULE Manuscript -----------------------------
(***************************************************************************)
(* The checks of analysis/verify_manuscript.py that are about the attack    *)
(* suite: what the manuscript says of the outcomes, of the threshold sweep  *)
(* and of the rules that fired, as predicates over the tables of one cell.  *)
(* Rates of 30 attempts are given as counts.                                *)
(***************************************************************************)
EXTENDS Tables

Thirty(k) == [k |-> k, n |-> 30]

(* Attack outcomes, table 1. *)
OutcomeChecks(rows) ==
  /\ Outcome(rows, "A4", "P") = Thirty(11)
  /\ Outcome(rows, "A3", "P") = Thirty(30)

(* Table 1b: under P nothing succeeds against a perfect detector. *)
OracleChecks(rows) ==
  \A a \in {"A1", "A2", "A3", "A4", "A5", "A6"} : Outcome(rows, a, "P_oracle").k = 0

(* Table 5. *)
AblationChecks(rows, cell) ==
  /\ cell = "P_minus_device_binding" => Outcome(rows, "A4", cell) = Thirty(29)
  /\ cell = "P_minus_velocity" => Outcome(rows, "A4", cell) = Thirty(20)

(* Table 6, the attack columns: 63.3 % of A4 at 0.40, all of it at 0.30,    *)
(* 30 % of A3 at 0.25.                                                      *)
SweepChecks(recs) ==
  LET sweep(a, tau) == Sweep(AttackRecords(recs, "P", "attacks", a), tau)
  IN /\ sweep("A4", 30) = 30 /\ sweep("A4", 40) = 19
     /\ sweep("A3", 25) = 9 /\ sweep("A3", 30) = 0

(* Table 7: who trips which rule; the oracle rule is never among them.      *)
RuleChecks(recs) ==
  LET of(a) == AttackRecords(recs, "P", "attacks", a)
  IN /\ Fired(of("A4"), "R2") = 30
     /\ RiskSum(of("A4")) = 1520 /\ RiskSum(of("A3")) = 225
     /\ \A a \in {"A1", "A2", "A3", "A4", "A5", "A6"} : Fired(of(a), "R7") = 0

(* Tables 2 and 7 of legitimate traffic. *)
FrictionChecks(legit, label) ==
  /\ FalseChallenge(legit, label, "all").challenges = 0
  /\ Fired(legit, "R4") = Size(legit)

(* Table 6, the columns of legitimate traffic. *)
SweepFrictionChecks(legit, label) ==
  \A profile \in {"stable", "drift"} :
    LET recs == ProfileOf(legit, label, profile)
        f    == FalseChallenge(legit, label, profile)
    IN /\ Sweep(recs, 40) = f.challenges + f.denies
       /\ Sweep(recs, 30) = Sweep(recs, 40)
       /\ Fired(recs, "R4") = Size(recs) => Sweep(recs, 25) = Size(recs)

(* Table 9: the adaptive adversary. *)
AdaptiveChecks(rows, recs, cell) ==
  LET of(c) == AttackRecords(recs, c, "attacks-adaptive", "A7")
  IN /\ cell = "P_adaptive_slow" =>
          Outcome(rows, "A7", cell) = Thirty(30) /\ RiskSum(of(cell)) = 30 * 35
     /\ cell = "P_adaptive" =>
          Outcome(rows, "A7", cell) = Thirty(27) /\ Fired(of(cell), "R4") = 3
     /\ cell \in {"P_adaptive_tau030", "P_adaptive_slow_tau030"} =>
          Outcome(rows, "A7", cell) = Thirty(0)
=============================================================================
