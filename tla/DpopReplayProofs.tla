------------------------- MODULE DpopReplayProofs -------------------------
(***************************************************************************)
(* Proofs about the DPoP replay cache, for every set of proofs and jtis,    *)
(* every cache size, every skew, TTL, client-clock error and set-back.      *)
(*                                                                          *)
(* The argument for single use: a proof that passed at wall time w has      *)
(* iat <= w + Skew and iat <= w + Ahead + back, so it stops being fresh     *)
(* less than Ttl seconds of monotonic time later even if the wall clock is  *)
(* set back by all that is left of MaxBack.  While its cache entry is       *)
(* neither evicted nor reset, a presentation therefore finds the entry live *)
(* or the proof stale.                                                      *)
(***************************************************************************)
EXTENDS DpopReplay, TLAPS

(* The reachable states are well typed (all of DpopReplay). *)
THEOREM TypeCorrect == Spec => []TypeOK
<1>1. Init => TypeOK
  <2>1. SUFFICES ASSUME Init PROVE TypeOK
    OBVIOUS
  <2>2. PICK j \in Jti : jti = [p \in Proof |-> j]
    BY <2>1 DEF Init
  <2>3. last \in [proof : Proof, verdict : Verdict]
    BY <2>1 DEF Init, Verdict
  <2> QED
    BY <2>1, <2>2, <2>3, ParameterAssumption DEF Init, TypeOK
<1>2. TypeOK /\ [Next]_vars => TypeOK'
  <2> SUFFICES ASSUME TypeOK, [Next]_vars PROVE TypeOK'
    OBVIOUS
  <2> USE DEF clocks, claims, cache, past
  <2>1. ASSUME NEW p \in Proof, NEW j \in Jti, NEW t \in 0..(MaxTime + Ahead),
               Sign(p, j, t)
        PROVE  TypeOK'
    <3>1. t \in Int
      BY ParameterAssumption
    <3> QED
      BY <2>1, <3>1 DEF TypeOK, Sign
  <2>2. ASSUME NEW p \in Proof,
               RefuseMalformed(p) \/ RefuseStale(p) \/ RefuseReplay(p)
        PROVE  TypeOK'
    BY <2>2 DEF TypeOK, RefuseMalformed, RefuseStale, RefuseReplay, Answer, Verdict
  <2>3. ASSUME NEW p \in Proof, NEW a \in BOOLEAN, Pass(p, a)
        PROVE  TypeOK'
    <3>1. PICK out \in Evictable :
            /\ expires' = [k \in Jti |-> IF k = jti[p] THEN NewExpiry
                                         ELSE IF Live(k) /\ k \notin out THEN expires[k]
                                         ELSE 0]
            /\ lost' = (lost \cup out) \ {jti[p]}
      BY <2>3 DEF Pass, Insert
    <3>2. out \subseteq Jti
      BY DEF Evictable
    <3>3. NewExpiry \in Nat
      BY ParameterAssumption DEF NewExpiry, TypeOK
    <3>4. expires' \in [Jti -> Nat] /\ lost' \subseteq Jti
      BY <3>1, <3>2, <3>3 DEF TypeOK
    <3>5. last' \in [proof : Proof, verdict : Verdict]
      BY <2>3 DEF Pass, Answer, Verdict
    <3>6. consumed' \subseteq minted' /\ replayed' \subseteq Proof
      BY <2>3 DEF Pass, TypeOK
    <3> QED
      BY <2>3, <3>4, <3>5, <3>6 DEF TypeOK, Pass
  <2>4. CASE Reset
    BY <2>4 DEF TypeOK, Reset
  <2>5. CASE Tick \/ StepForward \/ StepBack
    BY <2>5, ParameterAssumption DEF TypeOK, Tick, StepForward, StepBack
  <2>6. CASE UNCHANGED vars
    BY <2>6 DEF TypeOK, vars
  <2> QED
    BY <2>1, <2>2, <2>3, <2>4, <2>5, <2>6 DEF Next
<1> QED
  BY <1>1, <1>2, PTL DEF Spec

-----------------------------------------------------------------------------
(* What an insertion does to the cache: the inserted jti gets the longest    *)
(* lifetime, and any other entry that was live and is not recorded as lost   *)
(* keeps its expiry.                                                         *)
LEMMA InsertKeeps ==
  ASSUME TypeOK, NEW j \in Jti, Insert(j), NEW k \in Jti
  PROVE  /\ k = j => expires'[k] = mono + Ttl /\ k \notin lost'
         /\ k # j /\ k \notin lost' =>
              /\ k \notin lost
              /\ Live(k) => expires'[k] = expires[k]
              /\ ~Live(k) => expires'[k] = 0
BY DEF Insert, NewExpiry, TypeOK

(* The two bounds on iat survive every step (verify_dpop_proof line 192, and  *)
(* the iat written by sign_dpop_proof).                                       *)
LEMMA IatBoundedStep ==
  ASSUME TypeOK, IatBounded, [Next]_vars
  PROVE  IatBounded'
<1> USE DEF clocks, claims, cache, past, IatBounded
<1>1. ASSUME NEW p \in Proof, NEW j \in Jti, NEW t \in 0..(MaxTime + Ahead),
             Sign(p, j, t)
      PROVE  IatBounded'
  <2>1. \A q \in Proof : q # p => iat'[q] = iat[q]
    BY <1>1 DEF Sign, TypeOK
  <2>2. iat'[p] = t /\ p \notin consumed
    BY <1>1 DEF Sign, TypeOK
  <2>3. t <= wall + Ahead + back
    BY <1>1, ParameterAssumption DEF Sign, TypeOK
  <2>4. minted \subseteq Proof /\ consumed \subseteq minted
    BY DEF TypeOK
  <2> QED
    BY <1>1, <2>1, <2>2, <2>3, <2>4 DEF Sign
<1>2. ASSUME NEW p \in Proof,
             RefuseMalformed(p) \/ RefuseStale(p) \/ RefuseReplay(p)
      PROVE  IatBounded'
  BY <1>2 DEF RefuseMalformed, RefuseStale, RefuseReplay
<1>3. ASSUME NEW p \in Proof, NEW a \in BOOLEAN, Pass(p, a)
      PROVE  IatBounded'
  <2>1. iat[p] <= wall + Skew + back
    BY <1>3, ParameterAssumption DEF Pass, InWindow, TypeOK
  <2> QED
    BY <1>3, <2>1 DEF Pass
<1>4. CASE Reset
  BY <1>4 DEF Reset
<1>5. CASE Tick \/ StepForward \/ StepBack
  <2>1. UNCHANGED <<minted, iat, consumed>>
    BY <1>5 DEF Tick, StepForward, StepBack
  <2>2. wall \in Int /\ back \in Int
    BY ParameterAssumption DEF TypeOK
  <2>3. ASSUME NEW p \in minted PROVE iat[p] <= wall' + Ahead + back'
    <3>1. iat[p] \in Int /\ iat[p] <= wall + Ahead + back
      BY DEF TypeOK
    <3> QED
      BY <1>5, <2>2, <3>1, ParameterAssumption DEF Tick, StepForward, StepBack
  <2>4. ASSUME NEW p \in consumed PROVE iat[p] <= wall' + Skew + back'
    <3>1. iat[p] \in Int /\ iat[p] <= wall + Skew + back
      BY DEF TypeOK
    <3> QED
      BY <1>5, <2>2, <3>1, ParameterAssumption DEF Tick, StepForward, StepBack
  <2> QED
    BY <2>1, <2>3, <2>4
<1>6. CASE UNCHANGED vars
  BY <1>6 DEF vars
<1> QED
  BY <1>1, <1>2, <1>3, <1>4, <1>5, <1>6 DEF Next

(* A cache entry that is not lost outlives the window of every consumed      *)
(* proof carrying its jti; this is the step where Ttl must exceed the skew   *)
(* on both sides (WindowCovered).                                            *)
LEMMA EntryStep ==
  ASSUME TypeOK, IatBounded, EntryOutlivesWindow, WindowCovered, [Next]_vars
  PROVE  EntryOutlivesWindow'
<1> USE DEF clocks, claims, cache, past
<1> DEFINE Outlives(p) ==
      \/ iat[p] + Skew + MaxBack < wall + back
      \/ expires[jti[p]] - mono > iat[p] + Skew - wall + (MaxBack - back)
<1>0. \A p \in consumed : jti[p] \notin lost => Outlives(p)
  BY DEF EntryOutlivesWindow
<1>1. ASSUME NEW p \in Proof, NEW j \in Jti, NEW t \in 0..(MaxTime + Ahead),
             Sign(p, j, t)
      PROVE  EntryOutlivesWindow'
  <2>1. \A q \in consumed : q \in Proof /\ iat'[q] = iat[q] /\ jti'[q] = jti[q]
    BY <1>1 DEF Sign, TypeOK
  <2> QED
    BY <1>1, <2>1 DEF Sign, EntryOutlivesWindow
<1>2. ASSUME NEW p \in Proof,
             RefuseMalformed(p) \/ RefuseStale(p) \/ RefuseReplay(p)
      PROVE  EntryOutlivesWindow'
  BY <1>2 DEF RefuseMalformed, RefuseStale, RefuseReplay, EntryOutlivesWindow
<1>3. ASSUME NEW p \in Proof, NEW a \in BOOLEAN, Pass(p, a)
      PROVE  EntryOutlivesWindow'
  <2> DEFINE j == jti[p]
  <2>1. Insert(j) /\ j \in Jti /\ p \in minted
    BY <1>3 DEF Pass, TypeOK
  <2>2. UNCHANGED <<mono, wall, back, iat, jti>>
    BY <1>3 DEF Pass
  <2>3. SUFFICES ASSUME NEW q \in consumed', jti[q] \notin lost'
                 PROVE  Outlives(q)'
    BY <2>2 DEF EntryOutlivesWindow
  <2>4. q \in Proof /\ q \in minted /\ jti[q] \in Jti /\ iat[q] \in Int
    BY <1>3 DEF Pass, TypeOK
  <2>5. iat[q] <= wall + Ahead + back
    BY <2>4 DEF IatBounded
  <2>6. iat[q] <= wall + Skew + back
    <3>1. CASE q = p
      BY <1>3, <3>1, <2>4, ParameterAssumption DEF Pass, InWindow, TypeOK
    <3>2. CASE q # p
      BY <1>3, <3>2 DEF Pass, IatBounded
    <3> QED
      BY <3>1, <3>2
  <2>7. CASE jti[q] = j
    <3>1. expires'[jti[q]] = mono + Ttl
      BY <2>1, <2>4, <2>7, InsertKeeps
    <3>2. Ttl > iat[q] + Skew - wall + (MaxBack - back)
      BY <2>4, <2>5, <2>6, ParameterAssumption DEF WindowCovered, TypeOK
    <3> QED
      BY <3>1, <3>2, <2>2, <2>4, ParameterAssumption DEF TypeOK
  <2>8. CASE jti[q] # j
    <3>1. q # p
      BY <2>8
    <3>2. q \in consumed
      BY <1>3, <3>1 DEF Pass
    <3>3. /\ jti[q] \notin lost
          /\ Live(jti[q]) => expires'[jti[q]] = expires[jti[q]]
          /\ ~Live(jti[q]) => expires'[jti[q]] = 0
      BY <2>1, <2>3, <2>4, <2>8, InsertKeeps
    <3>4. Outlives(q)
      BY <1>0, <3>2, <3>3
    <3>5. CASE Live(jti[q])
      BY <3>3, <3>4, <3>5, <2>2
    <3>6. CASE ~Live(jti[q])
      <4>1. iat[q] + Skew + MaxBack < wall + back
        BY <3>4, <3>6, <2>4, ParameterAssumption DEF Live, TypeOK
      <4> QED
        BY <4>1, <2>2
    <3> QED
      BY <3>5, <3>6
  <2> QED
    BY <2>7, <2>8
<1>4. CASE Reset
  <2>1. SUFFICES ASSUME NEW q \in consumed, jti[q] \notin lost'
                 PROVE  Outlives(q)'
    BY <1>4 DEF Reset, EntryOutlivesWindow
  <2>2. q \in Proof /\ jti[q] \in Jti /\ iat[q] \in Int
    BY DEF TypeOK
  <2>3. jti[q] \notin lost /\ ~Live(jti[q])
    BY <1>4, <2>1, <2>2 DEF Reset
  <2>4. iat[q] + Skew + MaxBack < wall + back
    BY <1>0, <2>2, <2>3, ParameterAssumption DEF Live, TypeOK
  <2> QED
    BY <1>4, <2>4 DEF Reset
<1>5. CASE Tick \/ StepForward \/ StepBack
  <2>1. SUFFICES ASSUME NEW q \in consumed, jti[q] \notin lost
                 PROVE  Outlives(q)'
    BY <1>5 DEF Tick, StepForward, StepBack, EntryOutlivesWindow
  <2>2. q \in Proof /\ jti[q] \in Jti /\ iat[q] \in Int /\ expires[jti[q]] \in Nat
    BY DEF TypeOK
  <2>3. UNCHANGED <<iat, jti, expires>>
    BY <1>5 DEF Tick, StepForward, StepBack
  <2>4. Outlives(q)
    BY <1>0, <2>1
  <2> QED
    BY <1>5, <2>2, <2>3, <2>4, ParameterAssumption
    DEF TypeOK, Tick, StepForward, StepBack
<1>6. CASE UNCHANGED vars
  BY <1>6 DEF vars, EntryOutlivesWindow
<1> QED
  BY <1>1, <1>2, <1>3, <1>4, <1>5, <1>6 DEF Next

(* While the bounds hold, a proof that passes was not consumed before, or    *)
(* its entry has been lost: no step puts a proof into `replayed`.            *)
LEMMA NoReplayStep ==
  ASSUME TypeOK, EntryOutlivesWindow, NoReplay, [Next]_vars
  PROVE  NoReplay'
<1> USE DEF clocks, claims, cache, past, NoReplay
<1>1. ASSUME NEW p \in Proof, NEW a \in BOOLEAN, Pass(p, a)
      PROVE  NoReplay'
  <2>1. SUFFICES ASSUME p \in consumed, jti[p] \notin lost PROVE FALSE
    BY <1>1 DEF Pass
  <2>2. \/ iat[p] + Skew + MaxBack < wall + back
        \/ expires[jti[p]] - mono > iat[p] + Skew - wall + (MaxBack - back)
    BY <2>1 DEF EntryOutlivesWindow
  <2>3. wall - iat[p] <= Skew /\ ~(mono < expires[jti[p]])
    BY <1>1 DEF Pass, InWindow, Live
  <2>4. iat[p] \in Int /\ expires[jti[p]] \in Nat
    BY DEF TypeOK
  <2> QED
    BY <2>2, <2>3, <2>4, ParameterAssumption DEF TypeOK
<1>2. ASSUME NEW p \in Proof,
             RefuseMalformed(p) \/ RefuseStale(p) \/ RefuseReplay(p)
      PROVE  NoReplay'
  BY <1>2 DEF RefuseMalformed, RefuseStale, RefuseReplay
<1>3. ASSUME NEW p \in Proof, NEW j \in Jti, NEW t \in 0..(MaxTime + Ahead),
             Sign(p, j, t)
      PROVE  NoReplay'
  BY <1>3 DEF Sign
<1>4. CASE Reset \/ Tick \/ StepForward \/ StepBack \/ UNCHANGED vars
  BY <1>4 DEF Reset, Tick, StepForward, StepBack, vars
<1> QED
  BY <1>1, <1>2, <1>3, <1>4 DEF Next

(* Single use of DPoP proofs: when the cache TTL covers the skew window and  *)
(* the errors of the two clocks, no proof passes the jti check twice while   *)
(* its cache entry is neither evicted nor reset (verify_dpop_proof).         *)
THEOREM SingleUse ==
  ASSUME WindowCovered
  PROVE  Spec => []NoReplay
<1>1. Init => ReplayInv
  BY DEF Init, ReplayInv, IatBounded, EntryOutlivesWindow, NoReplay
<1>2. TypeOK /\ ReplayInv /\ [Next]_vars => ReplayInv'
  BY IatBoundedStep, EntryStep, NoReplayStep, WindowCovered DEF ReplayInv
<1>3. ReplayInv => NoReplay
  BY DEF ReplayInv
<1> QED
  BY <1>1, <1>2, <1>3, TypeCorrect, PTL DEF Spec

-----------------------------------------------------------------------------
(* ReplayRefusalJustified looks at the latest answer only; what makes it     *)
(* true is where the entries of the cache come from.                         *)
EntriesEarned == \A j \in Jti : expires[j] > 0 => \E q \in consumed : jti[q] = j

AnsweredIsMinted == last.verdict # "none" => last.proof \in minted

JustifiedInv == EntriesEarned /\ AnsweredIsMinted /\ ReplayRefusalJustified

(* A new entry belongs to the proof that passes; no other step adds one, and *)
(* a proof keeps its jti once it is signed.                                  *)
LEMMA JustifiedStep ==
  ASSUME TypeOK, JustifiedInv, [Next]_vars
  PROVE  JustifiedInv'
<1> USE DEF clocks, claims, cache, past, JustifiedInv
<1>1. ASSUME NEW p \in Proof, NEW j \in Jti, NEW t \in 0..(MaxTime + Ahead),
             Sign(p, j, t)
      PROVE  JustifiedInv'
  <2>1. \A q \in minted : jti'[q] = jti[q]
    BY <1>1 DEF Sign, TypeOK
  <2>2. consumed \subseteq minted /\ last.proof \in Proof
    BY DEF TypeOK
  <2>3. UNCHANGED <<expires, consumed, last>> /\ minted \subseteq minted'
    BY <1>1 DEF Sign
  <2>4. EntriesEarned'
    BY <2>1, <2>2, <2>3 DEF EntriesEarned
  <2>5. AnsweredIsMinted'
    BY <2>3 DEF AnsweredIsMinted
  <2>6. ReplayRefusalJustified'
    BY <2>1, <2>2, <2>3 DEF ReplayRefusalJustified, AnsweredIsMinted
  <2> QED
    BY <2>4, <2>5, <2>6
<1>2. ASSUME NEW p \in Proof, RefuseMalformed(p) \/ RefuseStale(p)
      PROVE  JustifiedInv'
  BY <1>2 DEF RefuseMalformed, RefuseStale, Answer, EntriesEarned, AnsweredIsMinted,
              ReplayRefusalJustified
<1>3. ASSUME NEW p \in Proof, RefuseReplay(p) PROVE JustifiedInv'
  <2>1. jti[p] \in Jti /\ expires[jti[p]] > 0
    BY <1>3 DEF RefuseReplay, Live, TypeOK
  <2>2. \E q \in consumed : jti[q] = jti[p]
    BY <2>1 DEF EntriesEarned
  <2> QED
    BY <1>3, <2>2 DEF RefuseReplay, Answer, EntriesEarned, AnsweredIsMinted,
                      ReplayRefusalJustified
<1>4. ASSUME NEW p \in Proof, NEW a \in BOOLEAN, Pass(p, a) PROVE JustifiedInv'
  <2>1. Insert(jti[p]) /\ jti[p] \in Jti
    BY <1>4 DEF Pass, TypeOK
  <2>2. \A k \in Jti : k # jti[p] => expires'[k] \in {0, expires[k]}
    BY <2>1 DEF Insert
  <2>3. EntriesEarned'
    BY <1>4, <2>2 DEF Pass, EntriesEarned
  <2>4. AnsweredIsMinted' /\ ReplayRefusalJustified'
    BY <1>4 DEF Pass, Answer, AnsweredIsMinted, ReplayRefusalJustified
  <2> QED
    BY <2>3, <2>4
<1>5. CASE Reset
  BY <1>5 DEF Reset, EntriesEarned, AnsweredIsMinted, ReplayRefusalJustified
<1>6. CASE Tick \/ StepForward \/ StepBack \/ UNCHANGED vars
  BY <1>6 DEF Tick, StepForward, StepBack, vars, EntriesEarned, AnsweredIsMinted,
              ReplayRefusalJustified
<1> QED
  BY <1>1, <1>2, <1>3, <1>4, <1>5, <1>6 DEF Next

(* A proof is refused as a replay only if one with its jti has passed the    *)
(* check before: steps 8 and 9 of verify_dpop_proof in this order never use  *)
(* up a jti for a proof they refuse.                                         *)
THEOREM ReplaysAreReplays == Spec => []ReplayRefusalJustified
<1>1. Init => JustifiedInv
  BY DEF Init, JustifiedInv, EntriesEarned, AnsweredIsMinted, ReplayRefusalJustified
<1>2. JustifiedInv => ReplayRefusalJustified
  BY DEF JustifiedInv
<1> QED
  BY <1>1, <1>2, JustifiedStep, TypeCorrect, PTL DEF Spec
=============================================================================
