---------------------------- MODULE DpopReplay ----------------------------
(***************************************************************************)
(* The replay cache of zt-controller/app/dpop_verify.py: which DPoP proofs  *)
(* pass the freshness check (iat within the skew window, step 8) and the    *)
(* single-use check (jti not in a TTLCache, step 9).                        *)
(*                                                                          *)
(* Two clocks matter.  The skew window compares the iat that the client     *)
(* wrote with the controller's wall clock (time.time()); the cache expires  *)
(* its entries on the monotonic clock that cachetools uses.  They advance   *)
(* together except when the host's wall clock is stepped.                   *)
(*                                                                          *)
(* Time is counted in whole seconds.  Signature, key and URL checks are     *)
(* abstracted to "this presentation is malformed" (steps 1-7).              *)
(***************************************************************************)
EXTENDS Integers, FiniteSets

CONSTANTS
  Proof,     \* proofs that clients may sign
  Jti,       \* jti values; two proofs may carry the same one
  Skew,      \* config.DPOP_SKEW_SECONDS, 60 by default
  Ttl,       \* config.JTI_CACHE_TTL_SECONDS, 120 by default
  MaxSize,   \* maxsize of the cache, 100 000 in the code
  Ahead,     \* how far a client's clock may run ahead of the controller's
  MaxBack,   \* total time by which the wall clock may be stepped back
  MaxTime    \* bound on both clocks, for model checking only

ASSUME ParameterAssumption ==
  /\ Skew \in Nat /\ Ahead \in Nat /\ MaxBack \in Nat /\ MaxTime \in Nat
  /\ Ttl \in Nat \ {0}
  /\ MaxSize \in Nat \ {0}

(***************************************************************************)
(* The relation between the parameters under which single use holds: an     *)
(* entry must outlive the window in which its proof is still fresh.  With   *)
(* the default 60 s / 120 s it says Ahead + MaxBack < 60.                   *)
(***************************************************************************)
WindowCovered ==
  \/ Skew + Ahead + MaxBack < Ttl
  \/ 2 * Skew + MaxBack < Ttl

VARIABLES
  mono,      \* time.monotonic(), the timer of the TTLCache
  wall,      \* time.time()
  back,      \* total set-back of wall so far
  minted,    \* proofs signed so far
  iat, jti,  \* the claims of each signed proof
  expires,   \* _jti_cache: jti -> expiry on mono, 0 when there is no entry
  consumed,  \* history: proofs that passed the jti check at least once
  lost,      \* history: jtis whose entry was dropped before it expired
  replayed,  \* history: proofs that passed twice with no loss in between
  last       \* the latest presentation: the proof and the verdict on it

clocks == <<mono, wall, back>>
claims == <<minted, iat, jti>>
cache  == <<expires, lost>>
past   == <<consumed, replayed>>
vars   == <<clocks, claims, cache, past, last>>

Verdict == {"none", "malformed", "stale", "replay", "ath", "accepted"}

(* `jti in _jti_cache`: an entry counts while timer() < expires. *)
Live(j) == mono < expires[j]

(* `abs(time.time() - iat) > skew` rejects. *)
InWindow(p) == wall - iat[p] <= Skew /\ iat[p] - wall <= Skew

(* Mutant: entries live for one skew instead of both sides of the window. *)
NewExpiryOneSkew == mono + Skew

(* The expiry a new entry gets. *)
NewExpiry == mono + Ttl

(***************************************************************************)
(* `_jti_cache[jti] = True`: expired entries are purged first, and when the *)
(* cache is still full the oldest live entry makes room.                    *)
(***************************************************************************)
Evictable ==
  LET live == {j \in Jti : Live(j)}
  IN IF Cardinality(live) < MaxSize
     THEN {{}}
     ELSE {{j} : j \in {k \in live : \A m \in live : expires[k] <= expires[m]}}

Insert(j) ==
  \E out \in Evictable :
    /\ expires' = [k \in Jti |-> IF k = j THEN NewExpiry
                                 ELSE IF Live(k) /\ k \notin out THEN expires[k]
                                 ELSE 0]
    /\ lost' = (lost \cup out) \ {j}

-----------------------------------------------------------------------------
TypeOK ==
  /\ mono \in Nat \ {0}
  /\ wall \in Int
  /\ back \in 0..MaxBack
  /\ minted \subseteq Proof
  /\ iat \in [Proof -> Int]
  /\ jti \in [Proof -> Jti]
  /\ expires \in [Jti -> Nat]
  /\ consumed \subseteq minted
  /\ lost \subseteq Jti
  /\ replayed \subseteq Proof
  /\ last \in [proof : Proof, verdict : Verdict]

Init ==
  /\ mono = 1
  /\ wall = MaxBack
  /\ back = 0
  /\ minted = {}
  /\ iat = [p \in Proof |-> 0]
  /\ jti \in {[p \in Proof |-> j] : j \in Jti}
  /\ expires = [j \in Jti |-> 0]
  /\ consumed = {}
  /\ lost = {}
  /\ replayed = {}
  /\ last \in [proof : Proof, verdict : {"none"}]

(***************************************************************************)
(* A client signs a proof (sign_dpop_proof).  The jti is fresh or, with     *)
(* override_jti, one already in use; the iat is any time up to what the     *)
(* client's clock can read.                                                 *)
(***************************************************************************)
Sign(p, j, t) ==
  /\ p \notin minted
  /\ t <= wall + Ahead
  /\ minted' = minted \cup {p}
  /\ iat' = [iat EXCEPT ![p] = t]
  /\ jti' = [jti EXCEPT ![p] = j]
  /\ UNCHANGED <<clocks, cache, past, last>>

(***************************************************************************)
(* verify_dpop_proof.  A captured proof may be presented any number of      *)
(* times, so nothing but `minted` guards a presentation.                    *)
(***************************************************************************)
Answer(p, v) == last' = [proof |-> p, verdict |-> v]

RefuseMalformed(p) ==
  /\ p \in minted
  /\ Answer(p, "malformed")
  /\ UNCHANGED <<clocks, claims, cache, past>>

RefuseStaleBurning(p) ==   \* mutant: the jti is stored before iat is checked
  /\ p \in minted
  /\ ~InWindow(p)
  /\ Insert(jti[p])
  /\ Answer(p, "stale")
  /\ UNCHANGED <<clocks, claims, past>>

RefuseStale(p) ==
  /\ p \in minted
  /\ ~InWindow(p)
  /\ Answer(p, "stale")
  /\ UNCHANGED <<clocks, claims, cache, past>>

RefuseReplay(p) ==
  /\ p \in minted
  /\ InWindow(p)
  /\ Live(jti[p])
  /\ Answer(p, "replay")
  /\ UNCHANGED <<clocks, claims, cache, past>>

(* The jti is consumed before ath is compared, so a proof sent with the     *)
(* wrong access token is refused and used up at the same time.              *)
Pass(p, athMatches) ==
  /\ p \in minted
  /\ InWindow(p)
  /\ ~Live(jti[p])
  /\ Insert(jti[p])
  /\ consumed' = consumed \cup {p}
  /\ replayed' = IF p \in consumed /\ jti[p] \notin lost
                 THEN replayed \cup {p} ELSE replayed
  /\ Answer(p, IF athMatches THEN "accepted" ELSE "ath")
  /\ UNCHANGED <<clocks, claims>>

(* reset(), or a restart of the process: the cache is empty afterwards. *)
Reset ==
  /\ expires' = [j \in Jti |-> 0]
  /\ lost' = lost \cup {j \in Jti : Live(j)}
  /\ UNCHANGED <<clocks, claims, past, last>>

(* Time passes on both clocks; an administrator or a time daemon steps the  *)
(* wall clock forward, or back within the MaxBack budget.                   *)
Tick ==
  /\ mono < MaxTime /\ wall < MaxTime
  /\ mono' = mono + 1 /\ wall' = wall + 1
  /\ UNCHANGED <<back, claims, cache, past, last>>

StepForward ==
  /\ wall < MaxTime
  /\ wall' = wall + 1
  /\ UNCHANGED <<mono, back, claims, cache, past, last>>

StepBack ==
  /\ back < MaxBack
  /\ wall' = wall - 1 /\ back' = back + 1
  /\ UNCHANGED <<mono, claims, cache, past, last>>

Next ==
  \/ \E p \in Proof :
       \/ \E j \in Jti, t \in 0..(MaxTime + Ahead) : Sign(p, j, t)
       \/ RefuseMalformed(p) \/ RefuseStale(p) \/ RefuseReplay(p)
       \/ \E athMatches \in BOOLEAN : Pass(p, athMatches)
  \/ Reset \/ Tick \/ StepForward \/ StepBack

Spec == Init /\ [][Next]_vars

-----------------------------------------------------------------------------
(* Safety. *)

(* No proof gets past the jti check twice unless the cache entry that       *)
(* remembered it was evicted or reset in between: verify_dpop_proof, steps  *)
(* 8 and 9 together, with the TTL of the cache and the skew of the window.  *)
NoReplay == replayed = {}

(* A proof is refused as a replay only if some proof with the same jti      *)
(* really passed the check: a stale or malformed presentation never burns   *)
(* a jti (the order of steps 8 and 9 in verify_dpop_proof).                 *)
ReplayRefusalJustified ==
  last.verdict = "replay" => \E q \in consumed : jti[q] = jti[last.proof]

(* The strengthening of NoReplay that every step preserves: a fresh iat is  *)
(* never too far ahead of the wall clock, and the entry of a consumed proof *)
(* outlives the proof's window even if the rest of the set-back budget were *)
(* spent (dpop_verify.py, lines 186-205).                                   *)
IatBounded ==
  /\ \A p \in minted : iat[p] <= wall + Ahead + back
  /\ \A p \in consumed : iat[p] <= wall + Skew + back

EntryOutlivesWindow ==
  \A p \in consumed :
    jti[p] \notin lost =>
      \/ iat[p] + Skew + MaxBack < wall + back
      \/ expires[jti[p]] - mono > iat[p] + Skew - wall + (MaxBack - back)

ReplayInv == IatBounded /\ EntryOutlivesWindow /\ NoReplay
=============================================================================
