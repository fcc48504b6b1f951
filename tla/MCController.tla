---------------------------- MODULE MCController ----------------------------
(***************************************************************************)
(* Requests, tokens, proofs and configurations for model-checking           *)
(* Controller.                                                              *)
(***************************************************************************)
EXTENDS Controller

CONSTANTS r1, r2, r3

MCRequest == {r1, r2, r3}
MCPair    == {r1, r2}
MCSubject == {"alice"}
MCLimits  == [allow |-> 40, deny |-> 70]

(* The flag sets of config._MODES, two cells of the ablation experiment and *)
(* the override that leaves proofs unchecked.                               *)
P  == [dpop |-> TRUE, binding |-> TRUE, telemetry |-> TRUE, policy |-> TRUE,
       velocity |-> TRUE, oracle |-> FALSE, passthrough |-> FALSE]
B1 == [P EXCEPT !.telemetry = FALSE, !.policy = FALSE, !.velocity = FALSE]
B0 == [B1 EXCEPT !.dpop = FALSE, !.binding = FALSE, !.passthrough = TRUE]
PMinusDpop      == [P EXCEPT !.dpop = FALSE]
PMinusBinding   == [P EXCEPT !.binding = FALSE]
PMinusContext   == [P EXCEPT !.telemetry = FALSE]

MCConfig == {P, B1, B0, PMinusDpop, PMinusBinding, PMinusContext}
MCJustP   == {P}

(* Alice's token for her own key, one for another device, and a forged one. *)
Home    == [sub |-> "alice", jkt |-> "k1", genuine |-> TRUE]
Away    == [sub |-> "alice", jkt |-> "k2", genuine |-> TRUE]
Forged  == [sub |-> "alice", jkt |-> "k1", genuine |-> FALSE]

Proof(j, k, t) == [jti |-> j, key |-> k, ath |-> t,
                   wellFormed |-> TRUE, forThisUrl |-> TRUE]

Request0(t, p) == [token |-> t, proof |-> p, geo |-> "AU", session |-> "s1",
                   fp |-> "f1", declared |-> FALSE, urlSaysReplay |-> FALSE]

AtHome      == Request0(Home, Proof(1, "k1", Home))
Roaming     == [Request0(Home, Proof(3, "k1", Home)) EXCEPT !.geo = "NZ"]
NewDevice   == [Request0(Away, Proof(4, "k2", Away))
                  EXCEPT !.geo = "NZ", !.session = "s2", !.fp = "f2"]
SameContext == Request0(Away, Proof(5, "k2", Away))
OtherKey    == Request0(Home, Proof(2, "k2", Home))
OtherToken  == Request0(Home, Proof(1, "k1", Away))
Misdirected == Request0(Home, [Proof(6, "k1", Home) EXCEPT !.forThisUrl = FALSE])
Unproven    == Request0(Home, NoProof)
Untrusted   == Request0(Forged, Proof(7, "k1", Forged))
Anonymous   == Request0(NoToken, NoProof)

MCInput == {AtHome, Roaming, NewDevice, OtherKey, OtherToken, Misdirected,
            Unproven, Untrusted, Anonymous}
MCTrio  == {AtHome, SameContext, OtherToken}
MCNamed == {AtHome, [Misdirected EXCEPT !.urlSaysReplay = TRUE]}
=============================================================================
