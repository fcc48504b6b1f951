------------------------------ MODULE MCLoadGen ------------------------------
(***************************************************************************)
(* Loads for model-checking LoadGen.                                        *)
(***************************************************************************)
EXTENDS LoadGen

(* Long enough for the call-rate rule and for the cut of the first seconds, *)
(* and longer than the window at a pace below that rule's threshold.        *)
MCLong ==
  [cell : {"exp_P"}, users : {{"u1"}}, pace : {3}, lag : {0},
   requests : {37}, drifts : {2}] \cup
  [cell : {"exp_P"}, users : {{"u1"}}, pace : {60}, lag : {0},
   requests : {24}, drifts : {2}]

(* Users who overtake each other, in every cell. *)
MCCrossing ==
  [cell : {"exp_B0", "exp_B1", "exp_P", "P_minus_device_binding",
           "P_minus_context", "P_minus_velocity"},
   users : {{"u1", "u2"}}, pace : {3}, lag : {3}, requests : {4}, drifts : {1}]

(* Answers so slow that both users wait across the cut. *)
MCStraddling ==
  [cell : {"exp_P"}, users : {{"u1", "u2"}}, pace : {40}, lag : {80},
   requests : {4}, drifts : {2}]

MCLoads == MCLong \cup MCCrossing \cup MCStraddling
=============================================================================
