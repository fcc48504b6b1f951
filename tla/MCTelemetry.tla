---------------------------- MODULE MCTelemetry ----------------------------
(* Model values and symmetry for model-checking Telemetry. *)
EXTENDS Telemetry, TLC

Symmetry ==
  Permutations(Geo) \cup Permutations(Session) \cup Permutations(Fp)
=============================================================================
