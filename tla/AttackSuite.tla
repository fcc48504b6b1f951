---------------------------- MODULE AttackSuite ----------------------------
(***************************************************************************)
(* attacks/runner.py with the modules A1 to A7: one invocation of the       *)
(* runner for one cell of the Makefile, against the controller that the     *)
(* cell's flags configure.  For each selected attack the runner resets the  *)
(* controller, logs the victim in, warms up, attacks and writes a result;   *)
(* at the end it appends all results to the summary.                        *)
(*                                                                          *)
(* The suite sends one request at a time, so Pipeline takes each request    *)
(* from its arrival to its answer in one step.                              *)
(***************************************************************************)
EXTENDS Pipeline

CONSTANTS
  Suites,     \* the invocations considered: the cell, the time a request
              \* takes in ticks, WARMUP_REQUESTS (10 in the code), the attempts
              \* per attack (30 in the experiments) and a bound of outages
  SlowTicks   \* what a request costs that the client gives up on (5 s)

ASSUME SuiteAssumption ==
  /\ Suites \subseteq [cell : {c \in CellNames : Cells[c].attacks # {}},
                       latency : Nat, warmUps : Nat,
                       repetitions : Nat \ {0}, outages : Nat]
  /\ SlowTicks \in Nat

VARIABLES
  suite,             \* fixed in the initial state, as is cell
  signed,            \* when the proof that A1 captures was signed
  pc, todo, n,       \* where run_all stands, the set of attacks left, requests sent
  own,               \* warm_up found the victim's own account
  faults,            \* outages so far
  result,            \* the AttackResult under construction
  files, summary     \* results in the per-attack files, rows of summary.jsonl

tokens == <<issued, signed>>

vars == <<setup, suite, pc, todo, n, clock, tokens, trust, keysWarm, own, down,
          faults, result, log, files, summary>>

(* The blocks of run_all, in the order in which they stand. *)
Place == [A1 |-> 1, A2 |-> 2, A3 |-> 3, A4 |-> 4, A5 |-> 5, A6 |-> 6, A7 |-> 7]

Attack == CHOOSE a \in todo : \A b \in todo : Place[a] <= Place[b]

-----------------------------------------------------------------------------
(* The requests.  V is the victim's device, X the adversary's. *)


From(geo, id) == [geo |-> geo, session |-> id, fp |-> id]
VictimContext == From("AU", "V")

WarmUpRequest   == [Request("V", "V", VictimContext, NotAttack, "own")
                      EXCEPT !.profile = "warmup"]
CapturedRequest == [WarmUpRequest EXCEPT !.captured = TRUE]   \* signed for it

(* A3's second path names the account that warm_up found; the empty id is   *)
(* nobody's account.                                                        *)
A3Object == IF n % 2 = 1 /\ ~own THEN "missing" ELSE "own"

(* The adversary of A4 logs in and so gets a token for their own key. *)
A4TokenStolen == "V"   \* mutant: A4 sends the victim's token
A4Token == "X"

(* Each attack's n-th attempt: A1 replays the captured request; A2 has the  *)
(* stolen token and a proof by another key; A3 rides the victim's device on *)
(* two paths in turn; A4 acts as the adversary, from abroad; A5 asks for    *)
(* another user's objects; A6 is a burst; A7 is A4 in the victim's context. *)
A1Request == [Request("V", "V", VictimContext, "A1", "own") EXCEPT !.iat = signed]
A2Request == Request("V", "X", From("CN", "X"), "A2", "own")
A3Request == Request("V", "V", VictimContext, "A3", A3Object)
A4Request == Request(A4Token, "X", From("RU", "X"), "A4", "own")
A5Request == Request("V", "V", VictimContext, "A5", "other")
A6Request == Request("V", "V", VictimContext, "A6", "own")
A7Request == Request("X", "X", VictimContext, "A7", "own")

AttackRequest ==
  [A1 |-> A1Request, A2 |-> A2Request, A3 |-> A3Request, A4 |-> A4Request,
   A5 |-> A5Request, A6 |-> A6Request, A7 |-> A7Request][Attack]

-----------------------------------------------------------------------------
(* What the client makes of it: no answer, or the cause of the answer.  The *)
(* client gives up after 5 s, before the controller does.                   *)
Unheard(q) ==
  \/ down = "controller"
  \/ /\ down = "slow_upstream" /\ ~NoKeys /\ ~TokenExpired /\ DecisionFor(q) = "ALLOW"
     /\ q.attack \notin {NotAttack, "A7"}

Answer(q) ==
  IF Unheard(q)    THEN "unheard"
  ELSE IF NoKeys   THEN "no_keys"
  ELSE IF TokenExpired  THEN "expired"
  ELSE CauseFor(q)

Elapsed(q) == suite.latency + (IF Unheard(q) THEN SlowTicks ELSE 0)

-----------------------------------------------------------------------------
(* _infer_stage of each attack module. *)

(* A 401 of stage 2; A4, A5 and A7 take every 401 for one. *)
Refused2 == {"jkt", "stale", "replay"}

(* Mutant: A5 asks for 403 before it asks for access_denied. *)
A5StageStatusFirst(cause) ==
  CASE cause = "challenge"               -> "policy:CHALLENGE"
    [] cause \in {"ownership", "denied"} -> "resource_server:ownership"
    [] cause = "not_found"               -> "resource_server:not_found"
    [] cause \in Refused2 \cup {"expired"} -> "dpop_verify"
    [] OTHER                             -> "unknown"

A5Stage(cause) ==
  CASE cause = "challenge"         -> "policy:CHALLENGE"
    [] cause = "denied"            -> "policy:DENY"
    [] cause = "ownership"         -> "resource_server:ownership"
    [] cause = "not_found"         -> "resource_server:not_found"
    [] cause \in Refused2 \cup {"expired"} -> "dpop_verify"
    [] OTHER                       -> "unknown"

A1Stage(cause) ==
  CASE cause = "replay"                 -> "dpop_verify"
    [] cause \in {"jkt", "stale", "expired", "challenge"} -> "token_verify"
    [] cause \in {"denied", "ownership"} -> "policy"
    [] OTHER                            -> "unknown"

A2Stage(cause) ==
  IF cause \in Refused2 THEN "dpop_verify" ELSE A1Stage(cause)

A3Stage(cause) ==
  CASE cause = "challenge"               -> "policy:CHALLENGE"
    [] cause \in {"denied", "ownership"} -> "policy:DENY"
    [] cause \in Refused2 \cup {"expired"} -> "token_verify"
    [] OTHER                             -> "unknown"

A4Stage(cause) ==   \* and A7
  CASE cause = "challenge"               -> "policy:CHALLENGE"
    [] cause \in {"denied", "ownership"} -> "policy:DENY"
    [] cause \in Refused2 \cup {"expired"} -> "dpop_verify"
    [] OTHER                             -> "unknown"

StageFor(attack, cause) ==
  CASE attack = "A1" -> A1Stage(cause)
    [] attack = "A2" -> A2Stage(cause)
    [] attack = "A3" -> A3Stage(cause)
    [] attack = "A5" -> A5Stage(cause)
    [] attack = "A6" -> "policy:velocity"
    [] OTHER         -> A4Stage(cause)

(* `first` is a history field: the cause of the first refusal. *)
NewResult(attack) ==
  [attack |-> attack, config |-> cell, attempts |-> 0, successes |-> 0,
   errors |-> 0, detected |-> FALSE, stage |-> "", first |-> ""]

(* Mutant: an exception counts as a refusal. *)
TalliedErrors(r, cause) ==
  [r EXCEPT !.attempts = @ + 1,
            !.successes = IF cause = "served" THEN @ + 1 ELSE @,
            !.errors = IF cause = "unheard" THEN @ + 1 ELSE @,
            !.detected = @ \/ cause # "served",
            !.stage = IF r.detected \/ cause = "served"
                      THEN @ ELSE StageFor(r.attack, cause),
            !.first = IF r.detected \/ cause = "served" THEN @ ELSE cause]

(* One attempt, answered or not. *)
Tallied(r, cause) ==
  IF cause = "unheard"
  THEN [r EXCEPT !.attempts = @ + 1, !.errors = @ + 1]
  ELSE [r EXCEPT !.attempts = @ + 1,
                 !.successes = IF cause = "served" THEN @ + 1 ELSE @,
                 !.detected = @ \/ cause # "served",
                 !.stage = IF r.detected \/ cause = "served"
                           THEN @ ELSE StageFor(r.attack, cause),
                 !.first = IF r.detected \/ cause = "served" THEN @ ELSE cause]

-----------------------------------------------------------------------------
Selected == Cells[cell].attacks

Causes == {"", "served", "challenge", "denied", "jkt", "stale", "replay",
           "ownership", "not_found", "unavailable", "no_keys", "expired"}

TypeOK ==
  /\ suite \in Suites /\ cell = suite.cell
  /\ {clock, issued, signed} \subseteq Nat
  /\ pc \in {"reset", "login", "warm_up", "attack",
             "summarise", "done", "aborted"}
  /\ n \in 0..suite.warmUps + suite.repetitions
  /\ registry \in [{User} -> SUBSET {"V", "X"}]
  /\ Len(known.history) <= suite.warmUps + suite.repetitions + 1
  /\ keysWarm \in BOOLEAN /\ captured \in BOOLEAN /\ own \in BOOLEAN
  /\ down \in Outage \cup {"nothing"} /\ faults \in 0..suite.outages
  /\ result.attempts \in 0..suite.repetitions
  /\ result.successes + result.errors <= result.attempts
  /\ result.first \in Causes

Init ==
  /\ suite \in Suites /\ cell = suite.cell
  /\ PipelineInit
  /\ pc = "reset" /\ todo = Selected /\ n = 0 /\ own = FALSE /\ faults = 0
  /\ signed = 0
  /\ result = NewResult("") /\ files = <<>> /\ summary = <<>>

(* What a step of the runner leaves alone. *)
Elsewhere == UNCHANGED <<setup, suite, down, faults>>

(* An exception leaves run_all: what is in memory is lost. *)
Abort ==
  /\ pc' = "aborted"
  /\ UNCHANGED <<setup, suite, todo, n, clock, tokens, trust, keysWarm, own,
                 down, faults, result, log, files, summary>>

ResetKeepingTelemetry ==   \* mutant: telemetry.reset() forgotten
  /\ pc = "reset" /\ down # "controller"
  /\ registry' = [s \in {User} |-> {}] /\ captured' = FALSE
  /\ pc' = "login"
  /\ Elsewhere
  /\ UNCHANGED <<todo, n, clock, tokens, known, keysWarm, own, result, log, files, summary>>

(* reset_controller_state *)
ResetState ==
  /\ pc = "reset" /\ down # "controller"
  /\ known' = Unseen /\ registry' = [s \in {User} |-> {}] /\ captured' = FALSE
  /\ pc' = "login"
  /\ Elsewhere
  /\ UNCHANGED <<todo, n, clock, tokens, keysWarm, own, result, log, files, summary>>

ResetFails == pc = "reset" /\ down = "controller" /\ Abort

(* The victim gets a token. *)
Login ==
  /\ pc = "login" /\ down # "keycloak"
  /\ pc' = "warm_up" /\ n' = 0 /\ own' = FALSE /\ issued' = clock
  /\ Elsewhere
  /\ UNCHANGED <<todo, clock, signed, trust, keysWarm, result, log, files, summary>>

LoginFails == pc = "login" /\ down = "keycloak" /\ Abort

(* One of warm_up's requests: whatever it is answered, the next follows.    *)
WarmUp ==
  /\ pc = "warm_up" /\ n < suite.warmUps
  /\ Send(WarmUpRequest)
  /\ own' = (own \/ Answer(WarmUpRequest) = "served")
  /\ n' = n + 1
  /\ clock' = clock + Elapsed(WarmUpRequest) + 1
  /\ Elsewhere
  /\ UNCHANGED <<pc, todo, tokens, result, files, summary>>

(* Between the warm-up and the attempts: A1 lets the victim use the request *)
(* it captured, whose proof was signed before; A4 and A7 get a token for    *)
(* the adversary's own key.                                                 *)
Prepare ==
  /\ pc = "warm_up" /\ n = suite.warmUps
  /\ Attack \in {"A4", "A7"} => down # "keycloak"
  /\ IF Attack = "A1"
     THEN Send(CapturedRequest) /\ clock' = clock + Elapsed(CapturedRequest)
     ELSE UNCHANGED <<trust, keysWarm, clock, log>>
  /\ signed' = (IF Attack = "A1" THEN Whole(clock) ELSE signed)
  /\ issued' = (IF Attack \in {"A4", "A7"} THEN clock ELSE issued)
  /\ pc' = "attack" /\ n' = 0 /\ result' = NewResult(Attack)
  /\ Elsewhere
  /\ UNCHANGED <<todo, own, files, summary>>

PrepareFails ==
  /\ pc = "warm_up" /\ n = suite.warmUps /\ Attack \in {"A4", "A7"} /\ down = "keycloak"
  /\ Abort

(* One attempt of the attack. *)
Attempt ==
  /\ pc = "attack" /\ n < suite.repetitions
  /\ Send(AttackRequest)
  /\ result' = Tallied(result, Answer(AttackRequest))
  /\ n' = n + 1
  /\ clock' = clock + Elapsed(AttackRequest)
              + (IF Attack = "A7" /\ n < suite.repetitions - 1 THEN Cells[cell].pace ELSE 0)
  /\ Elsewhere
  /\ UNCHANGED <<pc, todo, tokens, own, files, summary>>

SummariseEach ==   \* mutant: each result is appended at once
  /\ pc = "attack" /\ n = suite.repetitions
  /\ files' = Append(files, result) /\ summary' = Append(summary, result)
  /\ todo' = todo \ {Attack}
  /\ pc' = IF todo = {Attack} THEN "done" ELSE "reset"
  /\ n' = 0
  /\ Elsewhere
  /\ UNCHANGED <<clock, tokens, trust, keysWarm, own, result, log>>

(* write_attack_result, and on to the next attack. *)
Save ==
  /\ pc = "attack" /\ n = suite.repetitions
  /\ files' = Append(files, result)
  /\ todo' = todo \ {Attack}
  /\ pc' = IF todo = {Attack} THEN "summarise" ELSE "reset"
  /\ n' = 0
  /\ Elsewhere
  /\ UNCHANGED <<clock, tokens, trust, keysWarm, own, result, log, summary>>

(* The rows in memory are the results just saved. *)
Summarise ==
  /\ pc = "summarise"
  /\ summary' = files
  /\ pc' = "done"
  /\ Elsewhere
  /\ UNCHANGED <<todo, n, clock, tokens, trust, keysWarm, own, result, log, files>>

(* An outage begins and ends. *)
Break ==
  /\ down = "nothing" /\ faults < suite.outages /\ pc \notin {"done", "aborted"}
  /\ down' \in Outage /\ faults' = faults + 1
  /\ UNCHANGED <<setup, suite, pc, todo, n, clock, tokens, trust, keysWarm, own,
                 result, log, files, summary>>

Mend ==
  /\ down # "nothing"
  /\ down' = "nothing"
  /\ UNCHANGED <<setup, suite, pc, todo, n, clock, tokens, trust, keysWarm, own,
                 faults, result, log, files, summary>>

Next ==
  \/ ResetState \/ ResetFails \/ Login \/ LoginFails \/ WarmUp
  \/ Prepare \/ PrepareFails \/ Attempt \/ Save \/ Summarise
  \/ Break \/ Mend

Spec == Init /\ [][Next]_vars

-----------------------------------------------------------------------------
(* Properties. *)

(* An invocation with the sizes of the experiments that nothing disturbed.  *)
AsInExperiments ==
  suite.warmUps = 10 /\ suite.repetitions = 30 /\ faults = 0

Published ==
  LET b1 == <<0, 0, 30, 30, 0, 30>>
      p  == <<0, 0, 30, 11, 0, 30>>
  IN [B0 |-> <<30, 30, 30, 30, 0, 30>>, B1 |-> b1, P |-> p,
      B1_oracle |-> b1, P_oracle |-> <<0, 0, 0, 0, 0, 0>>,
      abl_P |-> p, abl_B1 |-> b1,
      P_minus_device_binding |-> <<0, 0, 30, 29, 0, 30>>,
      P_minus_context |-> <<0, 0, 30, 30, 0, 30>>,
      P_minus_velocity |-> <<0, 0, 30, 20, 0, 30>>]

PublishedBinding == Published["P_minus_device_binding"]

(* The pipeline, the rules, the sliding windows and the harness's own       *)
(* traffic together give the success counts of data/tables 1, 1b and 5, for *)
(* every cell and at every latency considered: run_all's reset and warm-up  *)
(* make each attack's number independent of the attacks before it.  (A2     *)
(* without device binding: BindingAblationAsPublished.)                     *)
OutcomesAsPublished ==
  AsInExperiments => \A i \in DOMAIN summary :
    LET r == summary[i]
    IN r.attack # "A7" /\ <<cell, r.attack>> # <<"P_minus_device_binding", "A2">> =>
         r.successes = Published[cell][i]

(* README.md 124-128: A4's successes under P are exactly the requests on    *)
(* which the unknown-device rule is the only one to fire.  It is so wherever *)
(* the policy scores and keys are bound, at any pace and load, for A7 too,  *)
(* unless the limit is at or below that rule's weight (0.35) or an outage   *)
(* kept the victim from enrolling.                                          *)
UnknownDeviceAloneIsServed ==
  flags.risk /\ flags.binding /\ faults = 0 /\ suite.warmUps > 0 =>
    \A i \in DOMAIN log :
      log[i].attack \in {"A4", "A7"} =>
        (log[i].succeeded <=> log[i].rules = {"R2"} /\ threshold.allow > 35)

(* What verify_manuscript.py checks about the attack tables holds of what   *)
(* the suite measures on this code: outcomes, oracle ceiling, ablation,     *)
(* threshold sweep, firing rules and the adaptive adversary.                *)
ManuscriptHolds ==
  AsInExperiments /\ pc = "done" =>
    /\ cell = "P" => /\ OutcomeChecks(summary) /\ SweepChecks(log)
                     /\ RuleChecks(log)
    /\ cell = "P_oracle" => OracleChecks(summary)
    /\ AblationChecks(summary, cell)
    /\ AdaptiveChecks(summary, log, cell)

(* The warm-up is over before its first request leaves the window, and the  *)
(* deque has room for it.  (Ten requests in 60 s: their timeout, 10 s each, *)
(* does not promise it.)                                                    *)
WarmUpFits ==
  \A s \in Suites :
    /\ s.warmUps \in 1..(MaxLen - 1)
    /\ (s.warmUps + 1) * (s.latency + 1) <= Window

(* Until A4's last attempt, nothing of its warm-up has left the window.     *)
(* (A request may take 1.45 s.)                                             *)
AttackFits ==
  \A s \in Suites :
    s.warmUps = 10 /\ s.repetitions = 30 /\ Cells[s.cell].attacks = Primary =>
      /\ s.warmUps * (s.latency + 1) + s.repetitions * s.latency <= Window
      /\ s.warmUps + s.repetitions < MaxLen

(* A token outlasts the warm-up, the captured request and the attempts, and *)
(* a proof the request it is made for.                                      *)
Paced(s) == IF "A7" \in Cells[s.cell].attacks THEN Cells[s.cell].pace ELSE 0

TokenLasts ==
  \A s \in Suites :
    /\ s.latency + Second <= Skew
    /\ (s.warmUps + 1) * (s.latency + 1) + s.repetitions * (s.latency + Paced(s))
         + Second <= TokenLife

(* Before its first attempt an attack meets the victim's baseline of this   *)
(* preparation and nothing older: as many requests as were sent since the   *)
(* reset, all of them the victim's, and the victim's key enrolled.  Only an *)
(* outage takes that away: warm_up (runner.py 156) swallows its failures.   *)
Baseline ==
  /\ flags.telemetry =>
       /\ Len(known.history) = suite.warmUps + (IF Attack = "A1" THEN 1 ELSE 0)
       /\ \A i \in DOMAIN known.history : known.history[i].session = "V"
       /\ known.failures = 0
  /\ flags.binding => registry[User] = {"V"}

BaselineIsFresh ==
  pc = "attack" /\ n = 0 /\ ~flags.passthrough /\ faults = 0 => Baseline

StageOf(cause) ==
  CASE cause \in Refused2           -> {"dpop_verify"}
    [] cause = "expired"           -> {"token_verify"}
    [] cause = "challenge"         -> {"policy", "policy:CHALLENGE"}
    [] cause = "denied"            -> {"policy", "policy:DENY"}
    [] cause = "ownership"         -> {"resource_server:ownership"}
    [] OTHER                       -> {"unknown", "resource_server:not_found"}

(* The two answers that _infer_stage takes for another stage's: A1 knows a  *)
(* refusal of the proof by the word "replay", and A4, A5 and A7 take a 401  *)
(* to be one of the proof.                                                  *)
Misbooked == {<<"A1", "stale">>} \cup ({"A4", "A5", "A7"} \X {"expired"})

(* The stage a result blames is the one that refused the first blocked      *)
(* attempt, although _infer_stage sees only the status and the text of the  *)
(* answer (A6 always blames the velocity rule and is left out); except when *)
(* an outage has made a captured proof or a token too old.                  *)
StageNamesRefusal ==
  \A i \in DOMAIN files :
    LET f == files[i]
    IN f.detected /\ f.attack # "A6" =>
         \/ f.stage \in StageOf(f.first)
         \/ faults > 0 /\ <<f.attack, f.first>> \in Misbooked

(* Whatever fails in between, the harness and the controller agree on an    *)
(* attack: no success without a record of data that came back, no such      *)
(* record that the harness neither counted nor missed, and `detected` means *)
(* an answer that was a refusal, never an exception.                        *)
HarnessAgreesWithLog ==
  pc = "attack" =>
    LET recorded == Count(log, LAMBDA r : r.attack = Attack /\ r.succeeded)
    IN /\ result.successes <= recorded
       /\ recorded <= result.successes + result.errors
       /\ result.detected <=> result.attempts > result.successes + result.errors

(* The summary holds the whole suite of a cell, each attack once and in     *)
(* order, or nothing of it, so that a run that was cut short never enters a *)
(* table with part of its attacks.                                          *)
SummaryHoldsWholeCells ==
  summary # <<>> =>
    /\ {summary[i].attack : i \in DOMAIN summary} = Selected
    /\ \A i, k \in DOMAIN summary :
         i < k => Place[summary[i].attack] < Place[summary[k].attack]
    /\ \A i \in DOMAIN summary : summary[i].attempts = suite.repetitions

(* data/tables/table5_ablation.csv line 3: without device binding, A2 is    *)
(* still refused every time.                                                *)
BindingAblationAsPublished ==
  \A i \in DOMAIN summary :
    cell = "P_minus_device_binding" /\ summary[i].attack = "A2" =>
      summary[i].successes = PublishedBinding[2]
=============================================================================
