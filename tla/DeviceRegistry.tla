-------------------------- MODULE DeviceRegistry --------------------------
(***************************************************************************)
(* zt-controller/app/device_registry.py: which DPoP keys (cnf.jkt           *)
(* thumbprints) a subject has enrolled.  The registry is a function from    *)
(* subjects to sets of keys.                                                *)
(***************************************************************************)
EXTENDS FiniteSets

NoSubject == ""
NoKey     == ""

Verifiable(s, k) == s # NoSubject /\ k # NoKey

(* Mutant: any key counts as known once the subject has one. *)
KnownSubject(registry, s, k) ==
  Verifiable(s, k) => registry[s] # {} \/ k \in registry[s]

(* The answer of observe(): device_known. *)
KnownDevice(registry, s, k) ==
  Verifiable(s, k) => registry[s] = {} \/ k \in registry[s]

(* Mutant: every key seen is enrolled. *)
ObservedEnrolling(registry, s, k) ==
  IF Verifiable(s, k)
  THEN [registry EXCEPT ![s] = @ \cup {k}] ELSE registry

(* The registry after observe(): the first key of a subject is enrolled and *)
(* no later one.                                                            *)
Observed(registry, s, k) ==
  IF Verifiable(s, k) /\ registry[s] = {}
  THEN [registry EXCEPT ![s] = {k}] ELSE registry
=============================================================================
