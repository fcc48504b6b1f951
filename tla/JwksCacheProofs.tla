-------------------------- MODULE JwksCacheProofs --------------------------
(***************************************************************************)
(* Proofs about the signing-key cache, for any handlers, keys, tokens and   *)
(* clock errors, any TTL and any limits on a fetch and on a policy call.    *)
(*                                                                          *)
(* The argument: the answer of a fetch is the realm's key set at a moment   *)
(* after the fetch began, and what is stored as _jwks_fetched_at is never   *)
(* later than that beginning, up to the error of the clock.  So whichever   *)
(* of the concurrent fetches is the last to store its answer, the time      *)
(* stamp is not younger than the keys, and `now - _jwks_fetched_at` errs by *)
(* two clock errors at most, one when it was written and one when read.     *)
(***************************************************************************)
EXTENDS JwksCache, TLAPS

-----------------------------------------------------------------------------
(* The inductive invariant, in parts. *)

(* What `keys` holds too much has left the realm at `from` or later, and     *)
(* what it lacks was published at `from` or later.                           *)
ValidFrom(keys, from) ==
  \A k \in Kids :
    /\ k \in keys /\ retired[k] # Never => from <= retired[k]
    /\ k \notin keys /\ published[k] # Never /\ retired[k] = Never
         => from <= published[k]

(* The realm's keys came and went in the past. *)
RealmDated == \A k \in Kids : published[k] <= now /\ retired[k] <= now

(* The time stamp lies in the past and is not younger than the keys, up to   *)
(* the clock's error.                                                        *)
CacheDated ==
  cached # {} => fetchedAt - Drift <= now /\ ValidFrom(cached, fetchedAt - Drift)

(* A request under way carries a token that Keycloak has issued. *)
TokenIssued(r) ==
  pc[r] # "free" => token[r] \in Tokens /\ published[token[r].kid] # Never

(* A fetch is no older than its timeout, its time stamp no younger than its  *)
(* beginning, and an answer on its way no older.                             *)
FetchDated(r) ==
  /\ pc[r] \in {"fetching", "served"} =>
       now - since[r] <= FetchLimit /\ asked[r] <= since[r] + Drift
  /\ pc[r] = "served" => ValidFrom(got[r], since[r])

(* A policy call is no older than its timeout; when it began, the token had  *)
(* not expired and its key was recent, up to the clock's error.              *)
PolicyDated(r) ==
  pc[r] = "policy" =>
    /\ now - since[r] <= OpaLimit
    /\ since[r] - token[r].exp <= Drift
    /\ retired[token[r].kid] # Never => since[r] - retired[token[r].kid] < Lifetime

(* A key that was refused was new, or had left the realm. *)
RefusalDated(r) ==
  pc[r] = "unknownKey" =>
    LET kid == token[r].kid
    IN (retired[kid] = Never \/ since[r] < retired[kid])
         => since[r] - published[kid] < Lifetime

HandlerInv(r) ==
  /\ since[r] <= now /\ TokenIssued(r)
  /\ FetchDated(r) /\ PolicyDated(r) /\ RefusalDated(r)

HandlersInv == \A r \in Requests : HandlerInv(r)

KeyInv == RealmDated /\ CacheDated /\ HandlersInv

-----------------------------------------------------------------------------
(* Enough of TypeOK for the arithmetic. *)
LEMMA Numbers ==
  ASSUME TypeOK
  PROVE  /\ now \in Nat /\ offset \in Int /\ -Drift <= offset /\ offset <= Drift
         /\ fetchedAt \in Int
         /\ \A k \in Kids : published[k] \in Int /\ retired[k] \in Int
         /\ \A r \in Requests : since[r] \in Nat /\ asked[r] \in Int
         /\ \A k \in Kids : published[k] # Never => published[k] \in Nat
         /\ \A k \in Kids : retired[k] # Never => retired[k] \in Nat
BY TimeAssumption DEF TypeOK, Time, WallTime, Never

-----------------------------------------------------------------------------
(* Type correctness. *)

(* The moves of a handler keep the locals well typed. *)
LEMMA GotoTypes ==
  ASSUME TypeOK, NEW r \in Requests,
         NEW place \in {"free", "fetching", "served", "policy", "unknownKey"},
         NEW t \in Tokens \cup {NoToken}, NEW keys \in SUBSET Kids,
         NEW at \in WallTime, Goto(r, place, t, keys, at)
  PROVE  /\ pc' \in [Requests -> {"free", "fetching", "served", "policy", "unknownKey"}]
         /\ token' \in [Requests -> Tokens \cup {NoToken}]
         /\ asked' \in [Requests -> WallTime]
         /\ got' \in [Requests -> SUBSET Kids]
         /\ since' \in [Requests -> Time]
<1>1. 0 \in Time /\ now \in Time /\ since[r] \in Time
  BY TimeAssumption DEF TypeOK, Time
<1>2. since' \in [Requests -> Time]
  BY <1>1 DEF Goto, TypeOK
<1> QED
  BY <1>2 DEF Goto, TypeOK

LEMMA VerifyTypes ==
  ASSUME TypeOK, NEW r \in Requests, NEW t \in Tokens \cup {NoToken},
         NEW keys \in SUBSET Kids, Verify(r, t, keys)
  PROVE  /\ pc' \in [Requests -> {"free", "fetching", "served", "policy", "unknownKey"}]
         /\ token' \in [Requests -> Tokens \cup {NoToken}]
         /\ asked' \in [Requests -> WallTime]
         /\ got' \in [Requests -> SUBSET Kids]
         /\ since' \in [Requests -> Time]
<1>1. 0 \in WallTime
  BY TimeAssumption DEF WallTime
<1>2. PICK place \in {"free", "policy", "unknownKey"}, u \in {t, NoToken} :
        Goto(r, place, u, {}, 0)
  BY DEF Verify, End
<1> QED
  BY <1>1, <1>2, GotoTypes

(* The reachable states are well typed (all of JwksCache). *)
THEOREM TypeCorrect == Spec => []TypeOK
<1>1. Init => TypeOK
  <2> SUFFICES ASSUME Init PROVE TypeOK
    OBVIOUS
  <2>1. 0 \in Time /\ 0 \in WallTime /\ now \in Time
    BY TimeAssumption DEF Init, Time, WallTime
  <2>2. published \in [Kids -> Time \cup {Never}]
    BY <2>1 DEF Init
  <2> QED
    BY <2>1, <2>2 DEF Init, TypeOK
<1>2. TypeOK /\ [Next]_vars => TypeOK'
  <2> SUFFICES ASSUME TypeOK, [Next]_vars PROVE TypeOK'
    OBVIOUS
  <2> USE DEF clocks, realm, cache, locals
  <2>0. Wall \in WallTime /\ 0 \in WallTime
    BY TimeAssumption DEF TypeOK, Wall, Time, WallTime
  <2>1. ASSUME NEW r \in Requests, PresentWarm(r) PROVE TypeOK'
    <3>1. PICK t \in Tokens : Verify(r, t, cached)
      BY <2>1 DEF PresentWarm
    <3>2. cached \in SUBSET Kids
      BY DEF TypeOK
    <3> QED
      BY <2>1, <3>1, <3>2, VerifyTypes DEF PresentWarm, TypeOK
  <2>2. ASSUME NEW r \in Requests, PresentCold(r) PROVE TypeOK'
    <3>1. PICK t \in Tokens : Goto(r, "fetching", t, {}, Wall)
      BY <2>2 DEF PresentCold
    <3> QED
      BY <2>0, <2>2, <3>1, GotoTypes DEF PresentCold, TypeOK
  <2>3. ASSUME NEW r \in Requests, Serve(r) PROVE TypeOK'
    <3>1. Current \in SUBSET Kids /\ asked[r] \in WallTime
          /\ token[r] \in Tokens \cup {NoToken}
      BY DEF Current, TypeOK
    <3>2. Goto(r, "served", token[r], Current, asked[r])
      BY <2>3 DEF Serve
    <3> QED
      BY <2>3, <3>1, <3>2, GotoTypes DEF Serve, TypeOK
  <2>4. ASSUME NEW r \in Requests, KeysArrive(r) PROVE TypeOK'
    <3>1. /\ got[r] \in SUBSET Kids /\ asked[r] \in WallTime
          /\ token[r] \in Tokens \cup {NoToken}
      BY DEF TypeOK
    <3>2. Verify(r, token[r], got[r])
      BY <2>4 DEF KeysArrive
    <3> QED
      BY <2>4, <3>1, <3>2, VerifyTypes DEF KeysArrive, TypeOK, Stamp
  <2>5. ASSUME NEW r \in Requests, FetchFails(r) \/ PolicyAnswers(r) PROVE TypeOK'
    <3>1. Goto(r, "free", NoToken, {}, 0)
      BY <2>5 DEF FetchFails, PolicyAnswers, End
    <3> QED
      BY <2>0, <2>5, <3>1, GotoTypes DEF FetchFails, PolicyAnswers, TypeOK
  <2>6. ASSUME NEW k \in Kids, Rotate(k) PROVE TypeOK'
    <3>1. now \in Time
      BY DEF TypeOK
    <3> QED
      BY <2>6, <3>1 DEF Rotate, TypeOK
  <2>7. CASE Tick
    BY <2>7, TimeAssumption DEF Tick, TypeOK, Time
  <2>8. CASE SetClock
    BY <2>8 DEF SetClock, TypeOK
  <2>9. CASE UNCHANGED vars
    BY <2>9 DEF vars, TypeOK
  <2> QED
    BY <2>1, <2>2, <2>3, <2>4, <2>5, <2>6, <2>7, <2>8, <2>9 DEF Next, Handle
<1> QED
  BY <1>1, <1>2, PTL DEF Spec

-----------------------------------------------------------------------------
(* The dates.                                                                *)

(* The key set that Keycloak answers with is exact at that moment. *)
LEMMA CurrentIsValid ==
  ASSUME TypeOK, NEW from
  PROVE  ValidFrom(Current, from)
BY DEF ValidFrom, Current, TypeOK

(* A key set stays as valid as it was while the realm's keys change: what    *)
(* happens to a key happens at `now`, and `from` is not later.               *)
LEMMA RotationKeepsValid ==
  ASSUME TypeOK, NEW kid \in Kids, Rotate(kid),
         NEW keys, NEW from \in Int, from <= now, ValidFrom(keys, from)
  PROVE  ValidFrom(keys, from)'
<1>1. ASSUME NEW k \in Kids
      PROVE  /\ published'[k] = IF k = kid THEN now ELSE published[k]
             /\ retired'[k] \in {retired[k], now}
             /\ retired[k] # Never => retired'[k] = retired[k]
  BY DEF Rotate, TypeOK, Current
<1>2. kid \in Kids /\ published[kid] = Never
  BY DEF Rotate
<1>3. now \in Nat
  BY Numbers
<1> QED
  BY <1>1, <1>2, <1>3, Numbers DEF ValidFrom, Never

(* What a key set may be wrong about happened less than Lifetime ago.        *)
Recent(keys) ==
  \A k \in Kids :
    /\ k \in keys /\ retired[k] # Never => now - retired[k] < Lifetime
    /\ k \notin keys /\ published[k] # Never /\ retired[k] = Never
         => now - published[k] < Lifetime

LEMMA CacheIsRecent ==
  ASSUME TypeOK, CacheDated, Warm
  PROVE  Recent(cached)
<1>1. now + offset - fetchedAt < Ttl /\ cached # {}
  BY Numbers, TimeAssumption DEF Warm, Wall
<1>2. now - (fetchedAt - Drift) < Lifetime
  BY <1>1, Numbers, TimeAssumption DEF Lifetime
<1>3. ValidFrom(cached, fetchedAt - Drift)
  BY <1>1 DEF CacheDated
<1> QED
  BY <1>2, <1>3, Numbers, TimeAssumption DEF Recent, ValidFrom, Lifetime

LEMMA AnswerIsRecent ==
  ASSUME TypeOK, NEW r \in Requests, pc[r] = "served", FetchDated(r)
  PROVE  Recent(got[r])
<1>1. now - since[r] < Lifetime
  BY Numbers, TimeAssumption DEF FetchDated, Lifetime
<1>2. ValidFrom(got[r], since[r])
  BY DEF FetchDated
<1> QED
  BY <1>1, <1>2, Numbers, TimeAssumption DEF Recent, ValidFrom, Lifetime

(* A handler's move leaves the other handlers alone. *)
LEMMA GotoOthers ==
  ASSUME TypeOK, NEW r \in Requests, NEW place, NEW t, NEW keys, NEW at,
         Goto(r, place, t, keys, at), NEW q \in Requests
  PROVE  /\ q # r => /\ pc'[q] = pc[q] /\ token'[q] = token[q] /\ got'[q] = got[q]
                     /\ asked'[q] = asked[q] /\ since'[q] = since[q]
         /\ q = r => /\ pc'[q] = place /\ got'[q] = keys /\ asked'[q] = at
                     /\ place # "free" => token'[q] = t
                     /\ place = "free" => since'[q] = 0
                     /\ place = "served" => since'[q] = since[q]
                     /\ place \notin {"free", "served"} => since'[q] = now
BY DEF Goto, TypeOK

(* With recent keys at hand a handler ends, refuses a new key, or goes on    *)
(* with a token that has not expired, under a key that is in the realm or    *)
(* left it less than Lifetime ago.                                           *)
LEMMA VerifyCases ==
  ASSUME TypeOK, NEW r \in Requests, NEW t \in Tokens, published[t.kid] # Never,
         NEW keys \in SUBSET Kids, Recent(keys), Verify(r, t, keys)
  PROVE  \/ End(r)
         \/ /\ Goto(r, "unknownKey", t, {}, 0)
            /\ retired[t.kid] = Never => now - published[t.kid] < Lifetime
         \/ /\ Goto(r, "policy", t, {}, 0)
            /\ retired[t.kid] # Never => now - retired[t.kid] < Lifetime
            /\ now - t.exp <= Drift
<1>1. t.kid \in Kids /\ t.exp \in Nat
  BY TimeAssumption DEF Tokens
<1>2. CASE VerdictOn(r, t, keys) = "valid"
  <2>1. Goto(r, "policy", t, {}, 0)
    BY <1>2, Zenon DEF Verify
  <2>2. t.kid \in keys /\ ~(now + offset > t.exp)
    BY <1>2 DEF VerdictOn, Wall
  <2> QED
    BY <1>1, <2>1, <2>2, Numbers, TimeAssumption DEF Recent
<1>3. CASE VerdictOn(r, t, keys) = "unknownKey"
  <2>1. Goto(r, "unknownKey", t, {}, 0)
    BY <1>3 DEF Verify
  <2>2. t.kid \notin keys
    BY <1>3 DEF VerdictOn
  <2> QED
    BY <1>1, <2>1, <2>2 DEF Recent
<1>4. CASE VerdictOn(r, t, keys) \notin {"valid", "unknownKey"}
  BY <1>4 DEF Verify
<1> QED
  BY <1>2, <1>3, <1>4

-----------------------------------------------------------------------------
(* Every step preserves the invariant.                                       *)

(* A handler that nothing touched keeps its part of the invariant. *)
LEMMA HandlerStays ==
  ASSUME NEW r \in Requests, HandlerInv(r), UNCHANGED <<now, published, retired>>,
         /\ pc'[r] = pc[r] /\ token'[r] = token[r] /\ got'[r] = got[r]
         /\ asked'[r] = asked[r] /\ since'[r] = since[r]
  PROVE  HandlerInv(r)'
BY DEF HandlerInv, TokenIssued, FetchDated, PolicyDated, RefusalDated, ValidFrom

(* A handler that is free has nothing to keep. *)
LEMMA EndKeeps ==
  ASSUME TypeOK, HandlersInv, NEW r \in Requests, End(r),
         UNCHANGED <<now, published, retired>>
  PROVE  HandlersInv'
<1>1. Goto(r, "free", NoToken, {}, 0)
  BY DEF End
<1>2. HandlerInv(r)'
  BY <1>1, GotoOthers, Numbers
  DEF HandlerInv, TokenIssued, FetchDated, PolicyDated, RefusalDated
<1>3. ASSUME NEW q \in Requests, q # r PROVE HandlerInv(q)'
  BY <1>1, <1>3, GotoOthers, HandlerStays DEF HandlersInv
<1> QED
  BY <1>2, <1>3 DEF HandlersInv

(* What follows the look-up of recent keys, in _fetch_jwks or after it. *)
LEMMA VerifyKeeps ==
  ASSUME TypeOK, RealmDated, HandlersInv, NEW r \in Requests, NEW t \in Tokens,
         published[t.kid] # Never, NEW keys \in SUBSET Kids, Recent(keys),
         Verify(r, t, keys), UNCHANGED <<now, published, retired>>
  PROVE  HandlersInv'
<1>1. CASE End(r)
  BY <1>1, EndKeeps
<1>2. CASE /\ Goto(r, "unknownKey", t, {}, 0)
           /\ retired[t.kid] = Never => now - published[t.kid] < Lifetime
  <2>1. t.kid \in Kids /\ ~(now < retired[t.kid])
    BY Numbers DEF RealmDated, Tokens
  <2>2. HandlerInv(r)'
    BY <1>2, <2>1, GotoOthers, Numbers
    DEF HandlerInv, TokenIssued, FetchDated, PolicyDated, RefusalDated
  <2>3. ASSUME NEW q \in Requests, q # r PROVE HandlerInv(q)'
    BY <1>2, <2>3, GotoOthers, HandlerStays DEF HandlersInv
  <2> QED
    BY <2>2, <2>3 DEF HandlersInv
<1>3. CASE /\ Goto(r, "policy", t, {}, 0)
           /\ retired[t.kid] # Never => now - retired[t.kid] < Lifetime
           /\ now - t.exp <= Drift
  <2>1. HandlerInv(r)'
    BY <1>3, GotoOthers, Numbers, TimeAssumption
    DEF HandlerInv, TokenIssued, FetchDated, PolicyDated, RefusalDated
  <2>2. ASSUME NEW q \in Requests, q # r PROVE HandlerInv(q)'
    BY <1>3, <2>2, GotoOthers, HandlerStays DEF HandlersInv
  <2> QED
    BY <2>1, <2>2 DEF HandlersInv
<1> QED
  BY <1>1, <1>2, <1>3, VerifyCases

LEMMA WarmKeeps ==
  ASSUME TypeOK, KeyInv, NEW r \in Requests, PresentWarm(r)
  PROVE  KeyInv'
<1> USE DEF clocks, realm, cache
<1>1. PICK t \in Tokens : Arrives(r, t) /\ Warm /\ Verify(r, t, cached)
  BY DEF PresentWarm
<1>2. UNCHANGED <<now, published, retired, cached, fetchedAt>>
  BY DEF PresentWarm
<1>3. cached \in SUBSET Kids /\ Recent(cached) /\ published[t.kid] # Never
  BY <1>1, CacheIsRecent DEF TypeOK, KeyInv, Arrives
<1>4. HandlersInv'
  BY <1>1, <1>2, <1>3, VerifyKeeps DEF KeyInv
<1> QED
  BY <1>2, <1>4 DEF KeyInv, RealmDated, CacheDated, ValidFrom

LEMMA ColdKeeps ==
  ASSUME TypeOK, KeyInv, NEW r \in Requests, PresentCold(r)
  PROVE  KeyInv'
<1> USE DEF clocks, realm, cache
<1>1. PICK t \in Tokens : Arrives(r, t) /\ Goto(r, "fetching", t, {}, now + offset)
  BY DEF PresentCold, Wall
<1>2. UNCHANGED <<now, published, retired, cached, fetchedAt>>
  BY DEF PresentCold
<1>3. HandlerInv(r)'
  BY <1>1, <1>2, GotoOthers, Numbers, TimeAssumption
  DEF HandlerInv, TokenIssued, FetchDated, PolicyDated, RefusalDated, Arrives
<1>4. ASSUME NEW q \in Requests, q # r PROVE HandlerInv(q)'
  BY <1>1, <1>2, <1>4, GotoOthers, HandlerStays DEF KeyInv, HandlersInv
<1> QED
  BY <1>2, <1>3, <1>4 DEF KeyInv, HandlersInv, RealmDated, CacheDated, ValidFrom

LEMMA ServeKeeps ==
  ASSUME TypeOK, KeyInv, NEW r \in Requests, Serve(r)
  PROVE  KeyInv'
<1> USE DEF clocks, realm, cache
<1>1. pc[r] = "fetching" /\ Goto(r, "served", token[r], Current, asked[r])
  BY DEF Serve
<1>2. UNCHANGED <<now, published, retired, cached, fetchedAt>>
  BY DEF Serve
<1>3. ValidFrom(Current, since[r]) /\ HandlerInv(r)
  BY CurrentIsValid DEF KeyInv, HandlersInv
<1>4. /\ pc'[r] = "served" /\ token'[r] = token[r] /\ got'[r] = Current
      /\ asked'[r] = asked[r] /\ since'[r] = since[r]
  BY <1>1, GotoOthers
<1>5. ValidFrom(got[r], since[r])'
  BY <1>2, <1>3, <1>4 DEF ValidFrom
<1>6. HandlerInv(r)'
  BY <1>1, <1>2, <1>3, <1>4, <1>5
  DEF HandlerInv, TokenIssued, FetchDated, PolicyDated, RefusalDated
<1>7. ASSUME NEW q \in Requests, q # r PROVE HandlerInv(q)'
  BY <1>1, <1>2, <1>7, GotoOthers, HandlerStays DEF KeyInv, HandlersInv
<1> QED
  BY <1>2, <1>6, <1>7 DEF KeyInv, HandlersInv, RealmDated, CacheDated, ValidFrom

(* The answer overwrites the cache, whatever a concurrent fetch left there,  *)
(* and its time stamp comes with it.                                         *)
LEMMA KeysArriveKeeps ==
  ASSUME TypeOK, KeyInv, NEW r \in Requests, KeysArrive(r)
  PROVE  KeyInv'
<1> USE DEF clocks, realm
<1>1. /\ pc[r] = "served" /\ Verify(r, token[r], got[r])
      /\ cached' = got[r] /\ fetchedAt' = asked[r]
      /\ UNCHANGED <<now, published, retired>>
  BY DEF KeysArrive, Stamp
<1>2. FetchDated(r) /\ TokenIssued(r) /\ since[r] <= now
  BY DEF KeyInv, HandlersInv, HandlerInv
<1>3. got[r] \in SUBSET Kids /\ Recent(got[r])
  BY <1>1, <1>2, AnswerIsRecent DEF TypeOK
<1>4. HandlersInv'
  BY <1>1, <1>2, <1>3, VerifyKeeps DEF KeyInv, TokenIssued
<1>5. ValidFrom(got[r], since[r]) /\ asked[r] - Drift <= since[r]
  BY <1>1, <1>2, Numbers, TimeAssumption DEF FetchDated
<1>6. ValidFrom(got[r], asked[r] - Drift)
  BY <1>5, Numbers, TimeAssumption DEF ValidFrom
<1>7. asked[r] - Drift <= now
  BY <1>2, <1>5, Numbers, TimeAssumption
<1>8. CacheDated'
  BY <1>1, <1>6, <1>7 DEF CacheDated, ValidFrom
<1> QED
  BY <1>1, <1>4, <1>8 DEF KeyInv, RealmDated

(* A rotation dates what it changes with `now`, which is not before anything *)
(* the invariant compares it with.                                           *)
LEMMA RotateKeeps ==
  ASSUME TypeOK, KeyInv, NEW k \in Kids, Rotate(k)
  PROVE  KeyInv'
<1> USE DEF clocks, cache, locals
<1>1. UNCHANGED <<now, cached, fetchedAt, pc, token, asked, got, since>>
  BY DEF Rotate
<1>2. ASSUME NEW x \in Kids
      PROVE  /\ published'[x] = IF x = k THEN now ELSE published[x]
             /\ retired'[x] \in {retired[x], now}
             /\ retired[x] # Never => retired'[x] = retired[x]
  BY DEF Rotate, TypeOK, Current
<1>3. published[k] = Never /\ now \in Nat
  BY Numbers DEF Rotate
<1>4. RealmDated'
  BY <1>1, <1>2, <1>3 DEF KeyInv, RealmDated
<1>5. CacheDated'
  <2>1. SUFFICES ASSUME cached # {} PROVE (fetchedAt - Drift <= now /\ ValidFrom(cached, fetchedAt - Drift))'
    BY <1>1 DEF CacheDated
  <2>2. fetchedAt - Drift <= now /\ ValidFrom(cached, fetchedAt - Drift)
    BY <2>1 DEF KeyInv, CacheDated
  <2>3. fetchedAt - Drift \in Int
    BY Numbers, TimeAssumption
  <2>4. ValidFrom(cached, fetchedAt - Drift)'
    BY <1>1, <2>2, <2>3, RotationKeepsValid
  <2> QED
    BY <1>1, <2>2, <2>4
<1>6. ASSUME NEW r \in Requests PROVE HandlerInv(r)'
  <2>1. HandlerInv(r)
    BY DEF KeyInv, HandlersInv
  <2>2. TokenIssued(r)'
    BY <1>1, <1>2, <1>3, <2>1 DEF HandlerInv, TokenIssued, Tokens, Never
  <2>3. FetchDated(r)'
    BY <1>1, <2>1, RotationKeepsValid, Numbers DEF HandlerInv, FetchDated
  <2>4. PolicyDated(r)'
    BY <1>1, <1>2, <1>3, <2>1, Numbers, TimeAssumption
    DEF HandlerInv, TokenIssued, PolicyDated, Tokens, Lifetime
  <2>5. RefusalDated(r)'
    BY <1>1, <1>2, <1>3, <2>1, Numbers DEF HandlerInv, TokenIssued, RefusalDated, Tokens
  <2> QED
    BY <1>1, <2>1, <2>2, <2>3, <2>4, <2>5 DEF HandlerInv
<1> QED
  BY <1>4, <1>5, <1>6 DEF KeyInv, HandlersInv

(* Time passes for a handler only as long as no timeout has struck. *)
LEMMA TickKeeps ==
  ASSUME TypeOK, KeyInv, Tick
  PROVE  KeyInv'
<1> USE DEF realm, cache, locals
<1>1. /\ now' = now + 1
      /\ UNCHANGED <<published, retired, cached, fetchedAt, pc, token, asked, got, since>>
  BY DEF Tick
<1>2. RealmDated' /\ CacheDated'
  BY <1>1, Numbers, TimeAssumption DEF KeyInv, RealmDated, CacheDated, ValidFrom
<1>3. ASSUME NEW r \in Requests PROVE HandlerInv(r)'
  <2>1. HandlerInv(r)
    BY DEF KeyInv, HandlersInv
  <2>2. pc[r] \in {"fetching", "served"} => now - since[r] < FetchLimit
    BY DEF Tick, AwaitLimit
  <2>3. pc[r] = "policy" => now - since[r] < OpaLimit
    BY DEF Tick, AwaitLimit
  <2>4. TokenIssued(r)' /\ RefusalDated(r)'
    BY <1>1, <2>1 DEF HandlerInv, TokenIssued, RefusalDated
  <2>5. FetchDated(r)'
    BY <1>1, <2>1, <2>2, Numbers, TimeAssumption DEF HandlerInv, FetchDated, ValidFrom
  <2>6. PolicyDated(r)'
    BY <1>1, <2>1, <2>3, Numbers, TimeAssumption DEF HandlerInv, PolicyDated
  <2>7. since'[r] <= now'
    BY <1>1, <2>1, Numbers DEF HandlerInv
  <2> QED
    BY <2>4, <2>5, <2>6, <2>7 DEF HandlerInv
<1> QED
  BY <1>2, <1>3 DEF KeyInv, HandlersInv

LEMMA KeyInvStep ==
  ASSUME TypeOK, KeyInv, [Next]_vars
  PROVE  KeyInv'
<1> USE DEF clocks, realm, cache, locals
<1>1. ASSUME NEW r \in Requests, FetchFails(r) \/ PolicyAnswers(r) PROVE KeyInv'
  <2>1. End(r) /\ UNCHANGED <<now, published, retired, cached, fetchedAt>>
    BY <1>1 DEF FetchFails, PolicyAnswers
  <2>2. HandlersInv'
    BY <2>1, EndKeeps DEF KeyInv
  <2> QED
    BY <2>1, <2>2 DEF KeyInv, RealmDated, CacheDated, ValidFrom
<1>2. CASE SetClock \/ UNCHANGED vars
  <2>1. UNCHANGED <<now, published, retired, cached, fetchedAt,
                    pc, token, asked, got, since>>
    BY <1>2 DEF SetClock, vars
  <2> QED
    BY <2>1, HandlerStays DEF KeyInv, HandlersInv, RealmDated, CacheDated, ValidFrom
<1> QED
  BY <1>1, <1>2, WarmKeeps, ColdKeeps, ServeKeeps, KeysArriveKeeps, RotateKeeps, TickKeeps
  DEF Next, Handle

LEMMA KeyInvAlways == Spec => []KeyInv
<1>1. Init => KeyInv
  <2> SUFFICES ASSUME Init PROVE KeyInv
    OBVIOUS
  <2>1. RealmDated
    BY DEF Init, RealmDated, Never
  <2> QED
    BY <2>1 DEF Init, KeyInv, CacheDated, HandlersInv, HandlerInv, TokenIssued,
                FetchDated, PolicyDated, RefusalDated
<1> QED
  BY <1>1, KeyInvStep, TypeCorrect, PTL DEF Spec

-----------------------------------------------------------------------------
(* The results. *)

(* However many fetches of the keys are under way at a time, and in whatever *)
(* order their answers overwrite each other, no token is accepted under a    *)
(* key that left the realm _JWKS_TTL and two clock errors ago (_fetch_jwks   *)
(* and verify_token).                                                        *)
THEOREM RetiredKeysExpire == Spec => []AcceptedKeyIsRecent
<1>1. KeyInv => AcceptedKeyIsRecent
  BY DEF KeyInv, HandlersInv, HandlerInv, PolicyDated, AcceptedKeyIsRecent
<1> QED
  BY <1>1, KeyInvAlways, PTL

(* A token under a current key is refused for an unknown kid only in the     *)
(* same time after the key was published.                                    *)
THEOREM NewKeysAreLearnt == Spec => []RefusedKeyIsNew
<1>1. KeyInv => RefusedKeyIsNew
  BY DEF KeyInv, HandlersInv, HandlerInv, RefusalDated, RefusedKeyIsNew
<1> QED
  BY <1>1, KeyInvAlways, PTL

(* While a request waits for the policy its token is expired for no longer   *)
(* than that call may take and the clock may err (verify_token, and          *)
(* handle_request after stage 4).                                            *)
THEOREM TokensAreLive == Spec => []UsedTokenIsLive
<1>1. TypeOK /\ KeyInv => UsedTokenIsLive
  <2> SUFFICES ASSUME TypeOK, KeyInv, NEW r \in Requests, pc[r] = "policy"
               PROVE  now - token[r].exp <= OpaLimit + Drift
    BY DEF UsedTokenIsLive
  <2>1. PolicyDated(r) /\ TokenIssued(r)
    BY DEF KeyInv, HandlersInv, HandlerInv
  <2>2. token[r].exp \in Nat
    BY <2>1, TimeAssumption DEF TokenIssued, Tokens
  <2> QED
    BY <2>1, <2>2, Numbers, TimeAssumption DEF PolicyDated
<1> QED
  BY <1>1, KeyInvAlways, TypeCorrect, PTL
=============================================================================
