------------------------------ MODULE Pipeline ------------------------------
(***************************************************************************)
(* handle_request of zt-controller/app/main.py for clients that wait for    *)
(* the answer to a request before anybody sends the next: a request goes    *)
(* through the whole pipeline in one step and leaves one record.  (Module   *)
(* Controller interleaves the stages of concurrent requests.)  The          *)
(* controller runs with the flags of a Makefile cell, its continuous-trust  *)
(* state is that of one subject, the realm's test user, and anything it     *)
(* depends on may be out of order.                                          *)
(*                                                                          *)
(* Time is in twentieths of a second; a region change inside the window is  *)
(* above 500 km/h in ticks as in seconds.                                   *)
(***************************************************************************)
EXTENDS ZtConfig, RiskPolicy, TelemetrySignals, DeviceRegistry, Manuscript

CONSTANTS
  Skew,       \* config.DPOP_SKEW_SECONDS (60 s), in ticks
  TokenLife   \* accessTokenLifespan of the realms (300 s), in ticks

(* DPOP_SKEW_SECONDS is a positive number of seconds. *)
Second == 20
ASSUME PipelineAssumption == Skew \in Nat /\ Second <= Skew /\ TokenLife \in Nat

VARIABLES
  cell, flags, threshold,   \* the cell, and the controller's configuration
  clock,
  issued,            \* when the token in use was issued
  known, registry,   \* continuous-trust state
  captured,          \* the captured proof is in the replay cache
  keysWarm,          \* the controller has the signing keys
  down,              \* what is out of order: a member of Outage or "nothing"
  log                \* the records written

setup == <<cell, flags, threshold>>   \* fixed in the initial state
trust == <<known, registry, captured>>

User == "testuser"
Outage == {"controller", "keycloak", "opa", "upstream", "slow_upstream"}

PipelineInit ==
  /\ flags = CellFlags(cell, Keep) /\ threshold = Limits(Cells[cell].allow, 70)
  /\ clock = 0 /\ issued = 0
  /\ known = Unseen /\ registry = [s \in {User} |-> {}] /\ captured = FALSE
  /\ keysWarm = FALSE /\ down = "nothing" /\ log = <<>>

(* int(time.time()): the clock in whole seconds. *)
Whole(t) == t - (t % Second)

(* A request: whose key the token and the proof are for, the context        *)
(* headers, the attack and profile labels, whose object it asks for,        *)
(* whether its proof is a captured one, and when the proof was signed.      *)
Request(token, proof, context, attack, object) ==
  [token |-> token, proof |-> proof, context |-> context, attack |-> attack,
   object |-> object, profile |-> "", captured |-> attack = "A1",
   iat |-> Whole(clock)]

Replayed(q) == q.captured /\ captured

(* Stage 2 refuses the request, and why.  A proof too old is refused before *)
(* its jti is looked up.                                                    *)
ProofRefusal(q) ==
  IF ~flags.dpop                               THEN "none"
  ELSE IF flags.binding /\ q.proof # q.token   THEN "jkt"
  ELSE IF clock - q.iat > Skew                 THEN "stale"
  ELSE IF Replayed(q)                          THEN "replay"
  ELSE "none"

ChecksFor(q) ==
  [tokenValid  |-> TRUE,
   dpopValid   |-> flags.dpop /\ ProofRefusal(q) = "none",
   jtiReplayed |-> ProofRefusal(q) = "replay",
   jktMatch    |-> flags.dpop => q.proof = q.token /\ ProofRefusal(q) = "none"]

EventFor(q) ==
  [ts |-> clock, geo |-> q.context.geo, session |-> q.context.session,
   fp |-> q.context.fp, failed |-> ProofRefusal(q) # "none"]

SignalsFor(q) == Signals(flags, SignalsOf(known, EventFor(q)))

DeviceKnownFor(q) == DeviceKnown(flags, KnownDevice(registry, User, q.token))

Declared(q) == Cells[cell].tag /\ q.attack # NotAttack

Scored(q) == flags.risk /\ ~flags.passthrough /\ ProofRefusal(q) = "none"

RiskOf(q) ==
  IF Scored(q)
  THEN Score(flags, ChecksFor(q), DeviceKnownFor(q), SignalsFor(q), Declared(q))
  ELSE 0

RulesOf(q) ==
  LET s == SignalsFor(q)
  IN IF ~Scored(q) THEN {}
     ELSE {r \in {"R1", "R2", "R3", "R4", "R5", "R6", "R7"} :
             \/ r = "R1" /\ R1(flags, ChecksFor(q))
             \/ r = "R2" /\ R2(flags, DeviceKnownFor(q), s)
             \/ r = "R3" /\ R3(s)
             \/ r = "R4" /\ R4(flags, s)
             \/ r = "R5" /\ R5(s)
             \/ r = "R6" /\ R6(s)
             \/ r = "R7" /\ R7(flags, Declared(q))}

DecisionFor(q) ==
  IF flags.passthrough             THEN "ALLOW"
  ELSE IF ProofRefusal(q) # "none" THEN "DENY"
  ELSE IF ~flags.risk              THEN "ALLOW"
  ELSE FromOpa(IF down = "opa" THEN NoAnswer
               ELSE RegoAnswer(flags, ChecksFor(q), RiskOf(q), threshold))

(* Why the request is answered as it is; "served" is the only 200. *)
CauseFor(q) ==
  IF DecisionFor(q) = "CHALLENGE"  THEN "challenge"
  ELSE IF DecisionFor(q) = "DENY"  THEN
         IF ProofRefusal(q) = "none" THEN "denied" ELSE ProofRefusal(q)
  ELSE IF down = "upstream"        THEN "unavailable"
  ELSE IF q.object = "other"       THEN "ownership"
  ELSE IF q.object = "missing"     THEN "not_found"
  ELSE "served"

(* `succeeded`: data came back, as far as the controller can tell.          *)
(* build_record stamps a record when it is written, after the answers of    *)
(* OPA and of the resource server; here it is not stamped yet.              *)
Unstamped == 0
RecordFor(q, decision, checks) ==
  [run |-> [target |-> Cells[cell].target, cell |-> cell], label |-> LabelOf(cell),
   attack |-> q.attack,
   profile |-> q.profile,
   decision |-> decision, checks |-> checks, risk |-> RiskOf(q),
   rules |-> RulesOf(q), ts |-> Unstamped,
   succeeded |-> decision = "ALLOW" /\ CauseFor(q) = "served"]

NothingChecked == [tokenValid |-> FALSE, dpopValid |-> FALSE,
                   jtiReplayed |-> FALSE, jktMatch |-> FALSE]

NoKeys == ~flags.passthrough /\ ~keysWarm /\ down = "keycloak"

(* `exp` is compared in whole seconds, once the signing key is there. *)
TokenExpired == ~flags.passthrough /\ Whole(clock) - Whole(issued) > TokenLife

(* The record of a request that stage 1 refuses. *)
TokenRefused(q) ==
  [RecordFor(q, "DENY", NothingChecked) EXCEPT !.risk = 0, !.rules = {}]

(* The request never reaches the pipeline's second stage: the controller is *)
(* unreachable, it has no signing keys and cannot fetch them, or the token  *)
(* has expired.                                                             *)
Unreached(q) ==
  /\ \/ down = "controller" /\ UNCHANGED <<keysWarm, log>>
     \/ /\ down # "controller" /\ (NoKeys \/ TokenExpired)
        /\ keysWarm' = ~NoKeys
        /\ log' = Append(log, TokenRefused(q))
  /\ UNCHANGED trust

(* The record of a request that stage 2 saw: every branch writes one. *)
Recorded(q) ==
  RecordFor(q, DecisionFor(q), IF flags.passthrough THEN NothingChecked ELSE ChecksFor(q))

(* What stages 2 to 6 do to the controller's state. *)
Collected(q) ==
  /\ down # "controller" /\ ~NoKeys /\ ~TokenExpired
  /\ keysWarm' = (keysWarm \/ ~flags.passthrough)
  /\ known' = IF flags.telemetry /\ ~flags.passthrough
              THEN Remember(known, EventFor(q)) ELSE known
  /\ registry' = IF flags.binding /\ ~flags.passthrough /\ ProofRefusal(q) = "none"
                 THEN Observed(registry, User, q.token) ELSE registry
  /\ captured' = (captured \/ q.captured)

Handled(q) == Collected(q) /\ log' = Append(log, Recorded(q))

Send(q) == Unreached(q) \/ Handled(q)
=============================================================================
