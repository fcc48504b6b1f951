---------------------------- MODULE Controller ----------------------------
(***************************************************************************)
(* handle_request of zt-controller/app/main.py: the per-request pipeline    *)
(* with several requests in flight in one asyncio process.                  *)
(*                                                                          *)
(* A handler gives up control only where it awaits: fetching the signing    *)
(* keys (on a cold cache), asking OPA, reading the body of an allowed       *)
(* request from its client, and forwarding to the resource server.          *)
(* Everything between two awaits is one action.  The harness may reset the  *)
(* continuous-trust state at any time, and the process may be restarted,    *)
(* possibly with other flags, at any time.                                  *)
(*                                                                          *)
(* Time is abstracted: no event leaves the telemetry window and no jti      *)
(* leaves the replay cache except by a reset or a restart.  The modules     *)
(* Telemetry and DpopReplay treat time.                                     *)
(***************************************************************************)
EXTENDS RiskPolicy, TelemetrySignals, DeviceRegistry

CONSTANTS
  Request,   \* request identities; each is received at most once
  Input,     \* what a request can carry: the header values that matter
  Config,    \* the flag combinations the process may run with
  Subject,   \* subjects (token `sub` claims)
  Limits,    \* the risk thresholds: [allow, deny]
  NoToken, NoProof   \* stand for a missing Authorization or DPoP header

ASSUME ConfigAssumption ==
  Config \subseteq [dpop : BOOLEAN, binding : BOOLEAN, telemetry : BOOLEAN,
                    policy : BOOLEAN, velocity : BOOLEAN, oracle : BOOLEAN,
                    passthrough : BOOLEAN]

ASSUME RequestAssumption ==
  /\ Input # {}
  /\ \A i \in Input : i.token = NoToken \/ i.token.sub \in Subject
  /\ NoSubject \notin Subject

ASSUME LimitsAssumption == Limits.allow \in Nat /\ Limits.deny \in Nat

VARIABLES
  cfg,       \* flags of the running process (config.py)
  keysWarm,  \* the signing keys are in _jwks_cache and younger than its TTL
  spent,     \* the jtis in _jti_cache
  known,     \* the telemetry dictionaries, by subject
  registry,  \* _subject_keys of device_registry
  pc,        \* where the handler of each request stands
  input,     \* the request being handled
  checks, risk, decision,   \* local variables of the handler
  status,    \* HTTP status of the answer, 0 before it
  audit,     \* records written for each request (_emit)
  contacted, \* history: requests sent to the resource server
  admitted   \* history: requests that passed stages 1 and 2 since the state
             \* was last lost

trust   == <<spent, known, registry, admitted>>
handler == <<pc, checks, risk, decision, status, audit, contacted>>
vars    == <<cfg, keysWarm, trust, input, handler>>

Waiting == {"keys", "policy", "body", "upstream"}

NoChecks == [tokenValid |-> FALSE, dpopValid |-> FALSE,
             jtiReplayed |-> FALSE, jktMatch |-> FALSE]

-----------------------------------------------------------------------------
(* Stage 1 and stage 2 as functions of the request. *)

(* verify_access_token after the keys are known: signature, issuer, expiry  *)
(* (abstracted to `genuine`) and, with DPoP enforced, a cnf.jkt claim.      *)
TokenValid(i) ==
  i.token # NoToken /\ i.token.genuine /\ (cfg.dpop => i.token.jkt # NoKey)

(* Mutant: a proof made for another method or URL is not noticed. *)
ProofVerdictAnyUrl(i) ==
  IF i.proof = NoProof \/ ~i.proof.wellFormed        THEN "malformed"
  ELSE IF cfg.binding /\ i.proof.key # i.token.jkt   THEN "jkt_mismatch"
  ELSE IF i.proof.jti \in spent                      THEN "replay"
  ELSE IF i.proof.ath # i.token                      THEN "ath_mismatch"
  ELSE "ok"

(* verify_dpop_proof: the first check that fails, in the order of the code. *)
ProofVerdict(i) ==
  IF i.proof = NoProof \/ ~i.proof.wellFormed        THEN "malformed"
  ELSE IF cfg.binding /\ i.proof.key # i.token.jkt   THEN "jkt_mismatch"
  ELSE IF ~i.proof.forThisUrl                        THEN "htu_mismatch"
  ELSE IF i.proof.jti \in spent                      THEN "replay"
  ELSE IF i.proof.ath # i.token                      THEN "ath_mismatch"
  ELSE "ok"

(* Mutant: the jti is stored only on the way to the ath error. *)
SpendsJtiOnError(i) == ProofVerdict(i) = "ath_mismatch"

(* The jti is stored before ath is compared. *)
SpendsJti(i) == ProofVerdict(i) \in {"ath_mismatch", "ok"}

NowSpent(i) == IF SpendsJti(i) THEN spent \cup {i.proof.jti} ELSE spent

(* `"replay" in str(exc).lower()`: the text of an htu mismatch quotes the   *)
(* request's URL.                                                           *)
ReplayFlag(i) ==
  \/ ProofVerdict(i) = "replay"
  \/ ProofVerdict(i) = "htu_mismatch" /\ i.urlSaysReplay

-----------------------------------------------------------------------------
(* Stage 3: signals for scoring, and what is remembered. *)

EventOf(i, failed) ==
  [ts |-> 0, geo |-> i.geo, session |-> i.session, fp |-> i.fp,
   failed |-> failed]

NowKnown(i, failed) ==
  IF cfg.telemetry
  THEN [known EXCEPT ![i.token.sub] = Remember(@, EventOf(i, failed))]
  ELSE known

SignalsFor(i) ==
  Signals(cfg, SignalsOf(known[i.token.sub], EventOf(i, FALSE)))

KnownFor(i) ==
  DeviceKnown(cfg, KnownDevice(registry, i.token.sub, i.token.jkt))

NowRegistry(i) ==
  IF cfg.binding THEN Observed(registry, i.token.sub, i.token.jkt) ELSE registry

-----------------------------------------------------------------------------
Place  == {"absent", "done", "lost"} \cup Waiting
Status == {0, 200, 401, 403, 500, 502, 503}
Record == [decision : Decision, checks : Checks, flags : Config]
Keys   == {i.token.jkt : i \in {x \in Input : x.token # NoToken}}

TypeOK ==
  /\ cfg \in Config
  /\ keysWarm \in BOOLEAN
  /\ registry \in [Subject -> SUBSET Keys]
  /\ pc \in [Request -> Place]
  /\ input \in [Request -> Input]
  /\ checks \in [Request -> Checks]
  /\ risk \in [Request -> 0..100]
  /\ decision \in [Request -> Decision]
  /\ status \in [Request -> Status]
  /\ audit \in [Request -> Seq(Record)]
  /\ contacted \subseteq Request /\ admitted \subseteq Request

Init ==
  /\ cfg \in Config
  /\ keysWarm = FALSE
  /\ spent = {}
  /\ known = [s \in Subject |-> Unseen]
  /\ registry = [s \in Subject |-> {}]
  /\ pc = [r \in Request |-> "absent"]
  /\ input = [r \in Request |-> CHOOSE i \in Input : TRUE]
  /\ checks = [r \in Request |-> NoChecks]
  /\ risk = [r \in Request |-> 0]
  /\ decision = [r \in Request |-> "DENY"]
  /\ status = [r \in Request |-> 0]
  /\ audit = [r \in Request |-> <<>>]
  /\ contacted = {}
  /\ admitted = {}

(* _emit and the answer to the client, which every exit of the handler does *)
(* together.                                                                *)
Finish(r, st, d, c) ==
  /\ pc' = [pc EXCEPT ![r] = "done"]
  /\ status' = [status EXCEPT ![r] = st]
  /\ audit' = [audit EXCEPT ![r] =
                 Append(@, [decision |-> d, checks |-> c, flags |-> cfg])]

-----------------------------------------------------------------------------
(* From the signing keys to the next await or the answer. *)

RefuseToken(r, i) ==
  /\ ~TokenValid(i)
  /\ Finish(r, 401, "DENY", NoChecks)
  /\ UNCHANGED <<trust, checks, risk, decision, contacted>>

(* Mutant: the device of a refused request is observed as well. *)
RefuseProofEnrolling(r, i) ==
  /\ TokenValid(i) /\ cfg.dpop /\ ProofVerdict(i) # "ok"
  /\ spent' = NowSpent(i)
  /\ known' = NowKnown(i, TRUE)
  /\ registry' = NowRegistry(i)
  /\ Finish(r, 401, "DENY",
            [tokenValid |-> TRUE, dpopValid |-> FALSE,
             jtiReplayed |-> ReplayFlag(i), jktMatch |-> FALSE])
  /\ UNCHANGED <<admitted, checks, risk, decision, contacted>>

(* A failed proof is counted in the telemetry of the token's subject before *)
(* it is refused.                                                           *)
RefuseProof(r, i) ==
  /\ TokenValid(i) /\ cfg.dpop /\ ProofVerdict(i) # "ok"
  /\ spent' = NowSpent(i)
  /\ known' = NowKnown(i, TRUE)
  /\ Finish(r, 401, "DENY",
            [tokenValid |-> TRUE, dpopValid |-> FALSE,
             jtiReplayed |-> ReplayFlag(i), jktMatch |-> FALSE])
  /\ UNCHANGED <<registry, admitted, checks, risk, decision, contacted>>

(* Mutant: cnf_jkt_match set from the presence of the claim. *)
ChecksByPresence(i) ==
  [tokenValid |-> TRUE, dpopValid |-> cfg.dpop, jtiReplayed |-> FALSE,
   jktMatch |-> i.token.jkt # NoKey]

ChecksOf(i) ==
  [tokenValid |-> TRUE, dpopValid |-> cfg.dpop, jtiReplayed |-> FALSE,
   jktMatch |-> cfg.dpop => i.proof.key = i.token.jkt]

(* Stages 3 and 4, up to the OPA request, or up to proxy.forward when the   *)
(* risk policy is off.                                                      *)
Admit(r, i) ==
  /\ TokenValid(i) /\ (cfg.dpop => ProofVerdict(i) = "ok")
  /\ spent' = IF cfg.dpop THEN NowSpent(i) ELSE spent
  /\ known' = NowKnown(i, FALSE)
  /\ registry' = NowRegistry(i)
  /\ admitted' = admitted \cup {r}
  /\ checks' = [checks EXCEPT ![r] = ChecksOf(i)]
  /\ IF cfg.policy
     THEN /\ risk' = [risk EXCEPT ![r] =
                        Score(cfg, ChecksOf(i), KnownFor(i), SignalsFor(i), i.declared)]
          /\ pc' = [pc EXCEPT ![r] = "policy"]
          /\ UNCHANGED decision
     ELSE /\ decision' = [decision EXCEPT ![r] = "ALLOW"]
          /\ pc' = [pc EXCEPT ![r] = "body"]
          /\ UNCHANGED risk
  /\ UNCHANGED <<status, audit, contacted>>

Verify(r, i) == RefuseToken(r, i) \/ RefuseProof(r, i) \/ Admit(r, i)

-----------------------------------------------------------------------------
(* A request arrives. *)

Take(r, i) == pc[r] = "absent" /\ input' = [input EXCEPT ![r] = i]

(* B0: no verification at all, straight to proxy.forward. *)
ReceivePassthrough(r, i) ==
  /\ cfg.passthrough
  /\ Take(r, i)
  /\ decision' = [decision EXCEPT ![r] = "ALLOW"]
  /\ pc' = [pc EXCEPT ![r] = "body"]
  /\ UNCHANGED <<cfg, keysWarm, trust, checks, risk, status, audit, contacted>>

ReceiveNoBearer(r, i) ==
  /\ ~cfg.passthrough /\ i.token = NoToken
  /\ Take(r, i)
  /\ Finish(r, 401, "DENY", NoChecks)
  /\ UNCHANGED <<cfg, keysWarm, trust, checks, risk, decision, contacted>>

ReceiveCold(r, i) ==
  /\ ~cfg.passthrough /\ i.token # NoToken /\ ~keysWarm
  /\ Take(r, i)
  /\ pc' = [pc EXCEPT ![r] = "keys"]
  /\ UNCHANGED <<cfg, keysWarm, trust, checks, risk, decision, status, audit,
                 contacted>>

ReceiveWarm(r, i) ==
  /\ ~cfg.passthrough /\ i.token # NoToken /\ keysWarm
  /\ Take(r, i)
  /\ Verify(r, i)
  /\ UNCHANGED <<cfg, keysWarm>>

Receive(r, i) ==
  \/ ReceivePassthrough(r, i) \/ ReceiveNoBearer(r, i)
  \/ ReceiveCold(r, i) \/ ReceiveWarm(r, i)

-----------------------------------------------------------------------------
(* An awaited call returns or fails. *)

KeysArrive(r) ==
  /\ pc[r] = "keys"
  /\ keysWarm' = TRUE
  /\ Verify(r, input[r])
  /\ UNCHANGED <<cfg, input>>

KeysFailUnrecorded(r) ==   \* mutant: answers 503 without a record
  /\ pc[r] = "keys"
  /\ pc' = [pc EXCEPT ![r] = "done"]
  /\ status' = [status EXCEPT ![r] = 503]
  /\ UNCHANGED <<cfg, keysWarm, trust, input, checks, risk, decision, audit,
                 contacted>>

KeysFail(r) ==
  /\ pc[r] = "keys"
  /\ Finish(r, 503, "DENY", NoChecks)
  /\ UNCHANGED <<cfg, keysWarm, trust, input, checks, risk, decision, contacted>>

(* decide() has its action; stage 6 starts in the same step. *)
Enforce(r, d) ==
  /\ decision' = [decision EXCEPT ![r] = d]
  /\ IF d = "ALLOW"
     THEN /\ pc' = [pc EXCEPT ![r] = "body"]
          /\ UNCHANGED <<status, audit>>
     ELSE Finish(r, IF d = "CHALLENGE" THEN 401 ELSE 403, d, checks[r])
  /\ UNCHANGED <<cfg, keysWarm, trust, input, checks, risk, contacted>>

OpaAnswers(r) ==
  /\ pc[r] = "policy"
  /\ Enforce(r, FromOpa(RegoAnswer(cfg, checks[r], risk[r], Limits)))

OpaFails(r) ==
  /\ pc[r] = "policy"
  /\ Enforce(r, FromOpa(NoAnswer))

(* forward has the whole body of the request (a GET comes without one) and  *)
(* sends it on.  Nothing bounds how long the client may take.               *)
BodyArrives(r) ==
  /\ pc[r] = "body"
  /\ contacted' = contacted \cup {r}
  /\ pc' = [pc EXCEPT ![r] = "upstream"]
  /\ UNCHANGED <<cfg, keysWarm, trust, input, checks, risk, decision, status,
                 audit>>

(* The client hung up: request.body() raises ClientDisconnect, which is no  *)
(* httpx error.  The pipeline records its decision and raises it again, the *)
(* pass-through branch turns it into a 502.                                 *)
ClientLeaves(r) ==
  /\ pc[r] = "body"
  /\ Finish(r, IF cfg.passthrough THEN 502 ELSE 500, "ALLOW", checks[r])
  /\ UNCHANGED <<cfg, keysWarm, trust, input, checks, risk, decision, contacted>>

(* The resource server serves the request or refuses it (ownership). *)
UpstreamAnswers(r) ==
  /\ pc[r] = "upstream"
  /\ \E st \in {200, 403} : Finish(r, st, "ALLOW", checks[r])
  /\ UNCHANGED <<cfg, keysWarm, trust, input, checks, risk, decision, contacted>>

UpstreamFailsUnrecorded(r) ==   \* mutant: the 502 path forgets _emit
  /\ pc[r] = "upstream"
  /\ pc' = [pc EXCEPT ![r] = "done"]
  /\ status' = [status EXCEPT ![r] = 502]
  /\ UNCHANGED <<cfg, keysWarm, trust, input, checks, risk, decision, audit,
                 contacted>>

UpstreamFailsRetried(r) ==   \* mutant: evaluates the request again, for ever
  /\ pc[r] = "upstream"
  /\ pc' = [pc EXCEPT ![r] = "policy"]
  /\ UNCHANGED <<cfg, keysWarm, trust, input, checks, risk, decision, status,
                 audit, contacted>>

UpstreamFails(r) ==
  /\ pc[r] = "upstream"
  /\ Finish(r, 502, "ALLOW", checks[r])
  /\ UNCHANGED <<cfg, keysWarm, trust, input, checks, risk, decision, contacted>>

-----------------------------------------------------------------------------
(* Around the requests. *)

(* 300 s after they were fetched, the signing keys have to be fetched again. *)
KeysExpire ==
  /\ keysWarm
  /\ keysWarm' = FALSE
  /\ UNCHANGED <<cfg, trust, input, handler>>

LoseTrust ==
  /\ spent' = {}
  /\ known' = [s \in Subject |-> Unseen]
  /\ registry' = [s \in Subject |-> {}]
  /\ admitted' = {}

(* POST /admin/reset-state with the internal secret. *)
ResetState ==
  /\ LoseTrust
  /\ UNCHANGED <<cfg, keysWarm, input, handler>>

(* docker compose recreates the controller: handlers are lost, everything   *)
(* kept in memory is lost, and the flags may differ.                        *)
Restart ==
  /\ cfg' \in Config
  /\ keysWarm' = FALSE
  /\ LoseTrust
  /\ pc' = [r \in Request |-> IF pc[r] \in Waiting THEN "lost" ELSE pc[r]]
  /\ UNCHANGED <<input, checks, risk, decision, status, audit, contacted>>

Handle(r) ==
  \/ KeysArrive(r) \/ KeysFail(r) \/ OpaAnswers(r) \/ OpaFails(r)
  \/ UpstreamAnswers(r) \/ UpstreamFails(r)

ReadBody(r) == BodyArrives(r) \/ ClientLeaves(r)

Next ==
  \/ \E r \in Request :
       (\E i \in Input : Receive(r, i)) \/ Handle(r) \/ ReadBody(r)
  \/ KeysExpire \/ ResetState \/ Restart

Spec == Init /\ [][Next]_vars

(* The calls to Keycloak, OPA and the resource server end: their answers    *)
(* are finite, and httpx bounds the wait for every part of one (5 s for     *)
(* keys, 2 s for OPA, 10 s upstream), after which the handler goes on.      *)
(* Nothing is assumed of the client: request.body() has no timeout, so      *)
(* ReadBody need never happen.                                              *)
Fairness == \A r \in Request : WF_vars(Handle(r))

FairSpec == Spec /\ Fairness

-----------------------------------------------------------------------------
(* Properties. *)

(* The checks of verify_dpop_proof that do not depend on the replay cache.  *)
ProofSound(flags, i) ==
  /\ i.proof # NoProof /\ i.proof.wellFormed /\ i.proof.forThisUrl
  /\ i.proof.ath = i.token
  /\ flags.binding => i.proof.key = i.token.jkt

Genuine(i) == i.token # NoToken /\ i.token.genuine

Vetted(r) ==
  /\ Genuine(input[r])
  /\ cfg.dpop => input[r].token.jkt # NoKey /\ ProofSound(cfg, input[r])

(* Complete mediation: outside pass-through mode proxy.forward gets, and    *)
(* the resource server hears of, a request only after its token verified,   *)
(* its proof passed every check that the flags leave on, and the policy,    *)
(* when it is on, answered ALLOW on a score below both thresholds (stages 1 *)
(* to 6 of handle_request).                                                 *)
CompleteMediation ==
  \A r \in Request :
    pc[r] \in {"body", "upstream"} /\ ~cfg.passthrough =>
      /\ Vetted(r)
      /\ cfg.policy => risk[r] < Limits.allow /\ risk[r] < Limits.deny

(* Stages 1 and 2 leave nothing for the hard rules of zt.rego: whatever is  *)
(* ablated, a request waiting for OPA has passed every check that is still  *)
(* enforced and triggers no deny_hard rule (enforce_dpop and check_binding  *)
(* ablate a check in the policy together with the stage).                   *)
DenyHardPreempted ==
  \A r \in Request :
    pc[r] = "policy" =>
      Admitted(cfg, checks[r]) /\ ~DenyHard(cfg, checks[r])

(* One DPoP proof admits one request: between two losses of the trust state *)
(* no two admitted requests carry the same jti, however their handlers      *)
(* interleave (the cache is read and written without an await in between).  *)
ProofAdmitsOnce ==
  cfg.dpop =>
    \A r, q \in admitted :
      r # q => input[r].proof.jti # input[q].proof.jti

(* Every answered request left exactly one record, every unanswered one     *)
(* none; the resource server was contacted only for records that say ALLOW, *)
(* and an ALLOW that was not forwarded is answered as a broken connection:  *)
(* on every exit path, the failing ones included (_emit).                   *)
AuditMatchesOutcome ==
  \A r \in Request :
    /\ pc[r] # "done" => audit[r] = <<>>
    /\ pc[r] = "done" =>
         /\ Len(audit[r]) = 1
         /\ IF audit[r][1].decision = "ALLOW"
            THEN r \in contacted \/ status[r] \in {500, 502}
            ELSE r \notin contacted /\ status[r] \in {401, 403, 503}

(* What the outcomes c, recorded under some flags, say about request i.     *)
(* Nothing follows from an outcome that is false.                           *)
Truthful(flags, c, i) ==
  /\ c.tokenValid => Genuine(i)
  /\ c.dpopValid => flags.dpop /\ c.tokenValid /\ ProofSound(flags, i)
  /\ c.jktMatch /\ flags.dpop => c.dpopValid /\ i.proof.key = i.token.jkt
  /\ c.jtiReplayed => flags.dpop /\ c.tokenValid /\ ~c.dpopValid

(* A verified request whose proof got as far as storing its jti. *)
Burnt(q, flags, jti) ==
  /\ pc[q] \notin {"absent", "keys"}
  /\ Genuine(input[q]) /\ input[q].proof # NoProof
  /\ input[q].proof.wellFormed /\ input[q].proof.forThisUrl
  /\ flags.binding => input[q].proof.key = input[q].token.jkt
  /\ input[q].proof.jti = jti

(* Why a proof can be flagged as a replay: another request had burnt its    *)
(* jti, or it was made for another URL and the request's own URL, quoted in *)
(* the refusal, contains the word.                                          *)
ReplayExplained(r, flags) ==
  LET p == input[r].proof
  IN /\ p # NoProof /\ p.wellFormed
     /\ \/ ~p.forThisUrl /\ input[r].urlSaysReplay
        \/ \E q \in Request \ {r} : Burnt(q, flags, p.jti)

(* The check outcomes of a record are true of the request, as far as the    *)
(* code goes: a valid proof passed every check that the flags leave on; a   *)
(* key match was verified, or DPoP is not enforced (main.py 180-190); a     *)
(* replay had an original, unless it is the URL that says "replay"; and no  *)
(* request is forwarded under DPoP without both checks on record.           *)
ChecksTellTruth ==
  \A r \in Request :
    pc[r] = "done" =>
      LET rec == audit[r][1]
      IN /\ Truthful(rec.flags, rec.checks, input[r])
         /\ rec.checks.jtiReplayed => ReplayExplained(r, rec.flags)
         /\ rec.decision = "ALLOW" /\ rec.flags.dpop /\ ~rec.flags.passthrough
              => rec.checks.tokenValid /\ rec.checks.dpopValid

(* The key enrolled for a subject came from an admitted request of that     *)
(* subject whose proof was made with that very key: a refused request never *)
(* becomes the baseline (device_registry.observe after stages 1 and 2).     *)
EnrolledKeyIsProven ==
  \A s \in Subject : \A k \in registry[s] :
    \E r \in admitted :
      /\ input[r].token.genuine
      /\ input[r].token.sub = s /\ input[r].token.jkt = k
      /\ cfg.dpop => input[r].proof.key = k

(* A device that is not the enrolled one is scored as such on every one of  *)
(* its requests, not only on the first: whatever the order in which the     *)
(* requests were verified, R2 counts against each admitted foreign key.     *)
ForeignDeviceScored ==
  \A r \in admitted :
    LET t == input[r].token
    IN cfg.binding /\ cfg.policy /\ t.jkt # NoKey /\ t.jkt \notin registry[t.sub]
         => risk[r] >= 35

(* Enrolment is never extended: once a subject has a key, a step leaves its *)
(* enrolled keys alone or forgets all of them (device_registry docstring).  *)
EnrolmentNeverExtended ==
  [][\A s \in Subject :
       registry[s] # {} => registry'[s] = registry[s] \/ registry'[s] = {}]_vars

(* The controller implements the abstract enforcement point Gateway.        *)
FateOf(r) ==
  CASE pc[r] \in {"keys", "policy"} -> "held"
    [] pc[r] = "body"               -> "receiving"
    [] pc[r] = "upstream"           -> "passed_on"
    [] pc[r] = "done"               -> "answered"
    [] OTHER                        -> pc[r]

Promise == INSTANCE Gateway WITH
  fate  <- [r \in Request |-> FateOf(r)],
  trail <- [r \in Request |->
              [k \in 1..Len(audit[r]) |-> audit[r][k].decision]]

ImplementsGateway == Promise!Spec

(* Every request that arrives is answered, unless a restart loses it, even  *)
(* if the key server, OPA and the resource server all time out.  The one    *)
(* place where it can stay for ever is proxy.py line 37, where its client   *)
(* owes the body.                                                           *)
EveryRequestSettled == Promise!EveryRequestSettled

(* jsonl_logger.py line 36: "jti_replayed: the proof's jti was already in   *)
(* the replay cache", so another request must have brought the same jti.    *)
ReplayFlagMeansReplay ==
  \A r \in Request :
    pc[r] = "done" /\ audit[r][1].checks.jtiReplayed =>
      \E q \in Request \ {r} :
        /\ pc[q] # "absent" /\ input[q].proof # NoProof
        /\ input[q].proof.jti = input[r].proof.jti
=============================================================================
