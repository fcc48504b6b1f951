----------------------------- MODULE JwksCache -----------------------------
(***************************************************************************)
(* The signing-key cache of zt-controller/app/token_verify.py, over time:   *)
(* requests that find it cold fetch the keys concurrently, their answers    *)
(* may arrive in any order, Keycloak rotates its keys meanwhile, and a      *)
(* verified token is only used after the policy call.                       *)
(*                                                                          *)
(* One realm: a controller process verifies tokens of one realm only, so    *)
(* that _jwks_fetched_at, shared by all realms, has one meaning.            *)
(***************************************************************************)
EXTENDS Integers

CONSTANTS
  Requests,    \* handlers of the controller process that may run at a time
  Kids,        \* ids of the realm's signing keys
  Ttl,         \* _JWKS_TTL, 300 s in the code
  FetchLimit,  \* longest key fetch, ended by httpx's timeouts (5 s each)
  OpaLimit,    \* longest policy call (2 s each)
  Drift,       \* the controller's clock is at most this far from Keycloak's
  Expiries,    \* expiry times of the tokens that are presented
  MaxTime      \* bound of the model

ASSUME TimeAssumption ==
  /\ Ttl \in Nat /\ FetchLimit \in Nat /\ OpaLimit \in Nat /\ Drift \in Nat
  /\ MaxTime \in Nat /\ Expiries \subseteq Nat
  /\ FetchLimit < Ttl

VARIABLES
  now, offset,    \* Keycloak's clock; the controller reads now + offset
  published, retired,   \* when each key entered and left the realm's key set
  cached, fetchedAt,    \* _jwks_cache[realm], {} if missing, _jwks_fetched_at
  pc, token,      \* where each handler stands; its token's kid and exp
  asked, got,     \* local `now` of _fetch_jwks; the answer on its way
  since           \* when the handler came to where it stands

realm   == <<published, retired>>
cache   == <<cached, fetchedAt>>
clocks  == <<now, offset>>
locals  == <<pc, token, asked, got, since>>
vars    == <<clocks, realm, cache, locals>>

Never    == -1
Time     == 0..MaxTime
WallTime == -Drift..(MaxTime + Drift)
Tokens   == [kid : Kids, exp : Expiries]
NoToken  == [kid |-> Never, exp |-> Never]
Wall     == now + offset

Current == {k \in Kids : published[k] # Never /\ retired[k] = Never}

(* A handler is "free" before its request and after the answer, except that *)
(* a refusal for an unknown key is kept for inspection until it is reused.  *)
TypeOK ==
  /\ now \in Time /\ offset \in -Drift..Drift
  /\ published \in [Kids -> Time \cup {Never}]
  /\ retired \in [Kids -> Time \cup {Never}]
  /\ cached \subseteq Kids /\ fetchedAt \in WallTime
  /\ pc \in [Requests -> {"free", "fetching", "served", "policy", "unknownKey"}]
  /\ token \in [Requests -> Tokens \cup {NoToken}]
  /\ asked \in [Requests -> WallTime]
  /\ got \in [Requests -> SUBSET Kids]
  /\ since \in [Requests -> Time]

Init ==
  /\ now = 0 /\ offset \in -Drift..Drift
  /\ \E k \in Kids : published = [x \in Kids |-> IF x = k THEN 0 ELSE Never]
  /\ retired = [x \in Kids |-> Never]
  /\ cached = {} /\ fetchedAt = 0
  /\ pc = [r \in Requests |-> "free"]
  /\ token = [r \in Requests |-> NoToken]
  /\ asked = [r \in Requests |-> 0]
  /\ got = [r \in Requests |-> {}]
  /\ since = [r \in Requests |-> 0]

(* `_jwks_cache.get(realm) and now - _jwks_fetched_at < _JWKS_TTL` *)
WarmAtEdge == cached # {} /\ Wall - fetchedAt <= Ttl   \* mutant: <= for <
Warm       == cached # {} /\ Wall - fetchedAt < Ttl

(* The key look-up by kid and jose's expiry check, on the keys at hand. *)
VerdictLate(r, t, keys) ==   \* mutant: expiry as of when the request came in
  IF t.kid \notin keys THEN "unknownKey"
  ELSE IF asked[r] > t.exp THEN "expired" ELSE "valid"
VerdictOn(r, t, keys) ==
  IF t.kid \notin keys THEN "unknownKey"
  ELSE IF Wall > t.exp THEN "expired" ELSE "valid"

(* The handler of r stands at `place` from now on; locals that it no longer *)
(* reads are cleared.                                                       *)
Goto(r, place, t, keys, at) ==
  /\ pc' = [pc EXCEPT ![r] = place]
  /\ token' = [token EXCEPT ![r] = IF place = "free" THEN NoToken ELSE t]
  /\ got' = [got EXCEPT ![r] = keys]
  /\ asked' = [asked EXCEPT ![r] = at]
  /\ since' = [since EXCEPT ![r] = CASE place = "free"   -> 0
                                     [] place = "served" -> @
                                     [] OTHER            -> now]

End(r) == Goto(r, "free", NoToken, {}, 0)

(* The handler of r has the keys: it ends, or goes on to the policy call.   *)
Verify(r, t, keys) ==
  CASE VerdictOn(r, t, keys) = "valid"      -> Goto(r, "policy", t, {}, 0)
    [] VerdictOn(r, t, keys) = "unknownKey" -> Goto(r, "unknownKey", t, {}, 0)
    [] OTHER                                -> End(r)

(* A request carries a token that Keycloak has issued. *)
Arrives(r, t) ==
  /\ pc[r] \in {"free", "unknownKey"}
  /\ published[t.kid] # Never

PresentWarm(r) ==
  \E t \in Tokens :
    /\ Arrives(r, t) /\ Warm
    /\ Verify(r, t, cached)
    /\ UNCHANGED <<clocks, realm, cache>>

PresentCold(r) ==
  \E t \in Tokens :
    /\ Arrives(r, t) /\ ~Warm
    /\ Goto(r, "fetching", t, {}, Wall)
    /\ UNCHANGED <<clocks, realm, cache>>

(* Keycloak answers with the keys of that moment. *)
Serve(r) ==
  /\ pc[r] = "fetching"
  /\ Goto(r, "served", token[r], Current, asked[r])
  /\ UNCHANGED <<clocks, realm, cache>>

(* The time stamp belongs to the start of the fetch, taken before the       *)
(* await, and overwrites whatever a concurrent fetch stored meanwhile.      *)
StampAtEnd(r) == Wall   \* mutant: time.time() read after the await
Stamp(r) == asked[r]

KeysArrive(r) ==
  /\ pc[r] = "served"
  /\ cached' = got[r] /\ fetchedAt' = Stamp(r)
  /\ Verify(r, token[r], got[r])
  /\ UNCHANGED <<clocks, realm>>

(* A timeout, an HTTP error or an undecodable body: 503, cache untouched.   *)
FetchFails(r) ==
  /\ pc[r] \in {"fetching", "served"}
  /\ End(r)
  /\ UNCHANGED <<clocks, realm, cache>>

(* The policy answered and the request goes to the resource server or not:  *)
(* neither the keys nor the expiry are looked at again.                     *)
PolicyAnswers(r) ==
  /\ pc[r] = "policy"
  /\ End(r)
  /\ UNCHANGED <<clocks, realm, cache>>

(* Keycloak starts to sign with k; older keys may be dropped or kept.       *)
Rotate(k) ==
  /\ published[k] = Never
  /\ published' = [published EXCEPT ![k] = now]
  /\ \E gone \in SUBSET Current :
       retired' = [x \in Kids |-> IF x \in gone THEN now ELSE retired[x]]
  /\ UNCHANGED <<clocks, cache, locals>>

AwaitLimit(r) ==
  CASE pc[r] \in {"fetching", "served"} -> FetchLimit
    [] pc[r] = "policy" -> OpaLimit
    [] OTHER -> MaxTime

(* Time passes, but no await outlives its timeout. *)
Tick ==
  /\ now < MaxTime
  /\ \A r \in Requests :
       pc[r] \in {"fetching", "served", "policy"} => now - since[r] < AwaitLimit(r)
  /\ now' = now + 1
  /\ UNCHANGED <<offset, realm, cache, locals>>

(* The controller's clock is corrected, either way. *)
SetClock ==
  /\ offset' \in -Drift..Drift
  /\ UNCHANGED <<now, realm, cache, locals>>

Handle(r) ==
  \/ PresentWarm(r) \/ PresentCold(r)
  \/ Serve(r) \/ KeysArrive(r) \/ FetchFails(r) \/ PolicyAnswers(r)

Next ==
  \/ \E r \in Requests : Handle(r)
  \/ \E k \in Kids : Rotate(k)
  \/ Tick \/ SetClock

Spec == Init /\ [][Next]_vars

-----------------------------------------------------------------------------
(* Properties. *)

(* How long a fetched key set may be in use, the clock's error included.    *)
Lifetime == Ttl + 2 * Drift

(* A token is never accepted under a key that left the realm Lifetime ago   *)
(* or more, however the concurrent fetches of _fetch_jwks overwrite each    *)
(* other and although a key set may replace a newer one.                    *)
AcceptedKeyIsRecent ==
  \A r \in Requests : pc[r] = "policy" =>
    LET gone == retired[token[r].kid]
    IN gone # Never => since[r] - gone < Lifetime

(* A token signed with a key of the realm is refused for an unknown kid     *)
(* only in the first Lifetime after a rotation (there is no second fetch    *)
(* on a miss, so this is how long clients must wait).                       *)
RefusedKeyIsNew ==
  \A r \in Requests : pc[r] = "unknownKey" =>
    LET kid == token[r].kid
    IN (retired[kid] = Never \/ since[r] < retired[kid])
         => since[r] - published[kid] < Lifetime

(* The token is not checked again after the policy call: whenever the       *)
(* request may go on, it expired at most one policy call and the clock's    *)
(* error ago, whether or not its handler had to wait for the keys.          *)
UsedTokenIsLive ==
  \A r \in Requests : pc[r] = "policy" =>
    now - token[r].exp <= OpaLimit + Drift
=============================================================================
