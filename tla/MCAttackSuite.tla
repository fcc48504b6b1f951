---------------------------- MODULE MCAttackSuite ----------------------------
(***************************************************************************)
(* The invocations for model-checking AttackSuite.                          *)
(***************************************************************************)
EXTENDS AttackSuite

(* The suite of an experiment: every cell with its real sizes, for the      *)
(* latencies (in ticks of 0.05 s) at which the published numbers hold.      *)
MCExperiment(c) ==
  [cell : {c}, latency : IF Cells[c].attacks = {"A7"} THEN {0, 1} ELSE {0, 1, 10, 29},
   warmUps : {10}, repetitions : {30}, outages : {0}]

MCExperiments ==
  UNION {MCExperiment(c) : c \in {x \in CellNames : Cells[x].attacks # {}}}

(* Short suites in every cell, of which one outage may hit any step.  A    *)
(* request takes 4.95 s or, unanswered, 5 s more, so that an outage of six  *)
(* attempts outlasts the skew of a proof; an outage of 22 outlasts a token, *)
(* in A7's cells.                                                           *)
MCDisturbed ==
  [cell : {c \in CellNames : Cells[c].attacks # {}}, latency : {99},
   warmUps : {2}, repetitions : {8}, outages : {1}] \cup
  [cell : {c \in CellNames : Cells[c].attacks = {"A7"}}, latency : {99},
   warmUps : {2}, repetitions : {24}, outages : {1}]

MCSuites  == MCExperiments \cup MCDisturbed
MCBinding == MCExperiment("P_minus_device_binding")

(* The hypotheses of EachAttackStartsFresh, CountsAsPublished and            *)
(* BlameIsRight hold of these suites.                                       *)
ASSUME MCWarmUpFits == WarmUpFits /\ AttackFits /\ TokenLasts
=============================================================================
