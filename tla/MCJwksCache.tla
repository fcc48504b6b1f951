---------------------------- MODULE MCJwksCache ----------------------------
(* An instance of JwksCache for TLC. *)
EXTENDS JwksCache, TLC

(* Requests differ in their tokens only, keys in when they are published,   *)
(* and no property chooses one of either.                                   *)
Symmetry == Permutations(Requests) \cup Permutations(Kids)
=============================================================================
