--------------------------- MODULE MCDpopReplay ---------------------------
(* Model values and symmetry for model-checking DpopReplay. *)
EXTENDS DpopReplay, TLC

Symmetry == Permutations(Proof) \cup Permutations(Jti)
=============================================================================
