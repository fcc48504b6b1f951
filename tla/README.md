# A TLA+ verification of OpenBank's Zero Trust controller

OpenBank is a testbed for Zero Trust enforcement in front of an Open Banking
API. Clients hold DPoP-bound access tokens; the **ZT controller** verifies each
request, scores its risk, asks an OPA policy for a decision and forwards the
request to a mock resource server or refuses it. An attack suite, a load
generator and an ablation matrix drive the controller, and the published results
are computed from the audit record that it writes for each request.

What makes it worth modelling: one asyncio process interleaves many requests at
its awaits; correctness depends on two clocks, three in-memory caches, eight
flags and three remote services that fail; and an error in any of them changes a
measured number without any test failing.

## 1. Inventory

| Component | State it keeps | Operations | What makes it correct |
|---|---|---|---|
| Request pipeline, `zt-controller/app/main.py` | local variables per request | stages 1-6, `POST /admin/reset-state`, `_emit` | nothing unverified is forwarded; one truthful record on each of its exits; every request is answered |
| DPoP verification, `dpop_verify.py` | `_jti_cache` (TTL 120 s, 100 000 entries, monotonic clock) | `verify_dpop_proof`, `reset` | a proof is accepted once while it is fresh; only the step that should use a jti up does |
| Token verification, `token_verify.py` | `_jwks_cache`, `_jwks_fetched_at` | `verify_access_token`, `_fetch_jwks` | signature, issuer, expiry, key binding; 503 when keys cannot be fetched; a bounded age of the keys |
| Telemetry, `telemetry.py` | history deque, fingerprints, failure counts, per subject | `collect`, `reset` | signals describe the last 60 s of the subject; the baseline fingerprint never moves |
| Device registry, `device_registry.py` | enrolled keys per subject | `observe`, `enroll` (never called), `reset` | enrols the first key only, and only one that was proven |
| Risk scoring, `risk.py` | none | `score` (R1-R7) | monotone in the signals, capped, each flag removes its own rules |
| Policy client and policy, `policy_client.py`, `opa/policies/zt.rego` | none | `decide`, `decide_local`; `deny_hard`, `decision` | fails closed; every score gets exactly one decision |
| Upstream proxy, `proxy.py` | none | `forward` | adds the internal identity; a failure is a 502 |
| Configuration, `config.py` | flags, constant per process | environment overrides of B0/B1/P | overrides do what the experiment cell says |
| Audit log, `jsonl_logger.py` | one file per run | `build_record`, `write_record` | the fields mean what its comment says |
| Mock ADR API, `mock-adr-api/` | generated users, accounts, transactions, consents | five routers, internal-secret check, `generate` | a user sees own objects only, and all of them |
| Client simulator, `client_sim/` | key pair, token | `authenticate`, `request_headers`, `sign_dpop_proof` | a fresh jti per proof |
| Attack suite and harness, `attacks/` | results in memory and in files | `run_all`: reset, login, warm-up, seven attacks, summary | an attack inherits nothing from the one before; counts and stages are what happened; a summary row belongs to a complete cell |
| Load generator, `load/locustfile.py` | one device, one session per process | users that draw a context and send requests | legitimate friction has the cause that the tables give it |
| Orchestration, `Makefile`, compose | containers, files, `.env` | `experiments`, `attacks*`, `ablation`, `clean`, ... | a cell runs with the flags it names; a file holds one invocation |
| Analysis, `analysis/` | none | tables from records, `verify_manuscript` | rates count the rows that they claim to count |
| Keycloak | realm keys, users | token endpoint, keys | external |

Interactions. The pipeline calls telemetry, registry, DPoP verification and risk
scoring synchronously: they interleave with nothing. It awaits three services,
Keycloak's keys (5 s timeout), OPA (2 s) and the resource server (10 s), and, before
the last, its own client (the body of an allowed request, without a timeout); other
requests and a reset run at those points only. The record of a request is built, and
stamped, after the last of them. The harness shares state
with the measured requests through the reset, with later runs through container
restarts and append-only files, and with the analysis through those files: every
published number depends on the flags of the container that wrote a line, on what
was sent to it in the 60 s before, and on which lines a table keeps.

The hard behaviours, each with its line, are the `hazards` of `PROJECT.json`.

## 2. Modules

| Module | Models | Kind |
|---|---|---|
| `DpopReplay` | `_jti_cache` and steps 8-10 of `verify_dpop_proof`, with both clocks | state machine |
| `DpopReplayProofs` | type correctness, single use, justified refusals | proofs |
| `RiskPolicy` | `risk.score`, `zt.rego`, `policy_client` | pure operators |
| `PolicyDecision` | stages 3-5 of one request over all inputs, OPA up or down | state machine |
| `PolicyDecisionProofs` | four properties for all thresholds and signals | proofs |
| `TelemetrySignals` | `collect` as two functions, signals and new state | pure operators |
| `Telemetry` | `collect` and `reset` over time | state machine |
| `TelemetryProofs` | the deque, the baseline and the counts against the complete log | proofs |
| `DeviceRegistry` | `observe` | pure operators |
| `Gateway` | what the controller promises, abstractly | abstract specification |
| `Controller` | `handle_request` with requests in flight, reset, restart | composition of `RiskPolicy`, `TelemetrySignals`, `DeviceRegistry`; implements `Gateway` |
| `ControllerProofs` | types, the audit trail, the refinement of `Gateway`; the replay cache and the enrolled keys under interleaving; complete mediation and truthful records | proofs |
| `JwksCache` | `_fetch_jwks` and the life of a token in a request, with clocks | state machine |
| `JwksCacheProofs` | types, ages of keys and tokens in use | proofs |
| `MockAdr` | `synthetic_data.generate`, every handler of the routers, `proxy.forward`'s headers | state machine |
| `MockAdrProofs` | types, ownership and consistency of the generated data | proofs |
| `ZtConfig` | `config.py`, compose's environment, the Makefile's cells | pure operators |
| `Tables` | the count tables of `make_figures.py` | pure operators |
| `Manuscript` | the checks of `verify_manuscript.py` about those tables | pure operators |
| `Pipeline` | `handle_request` for one client at a time, under a cell's flags, with outages | composition of `ZtConfig`, `RiskPolicy`, `TelemetrySignals`, `DeviceRegistry` |
| `AttackSuite` | `run_all` and the attacks A1-A7 | state machine over `Pipeline` |
| `PipelineProofs` | attack suite: types, whole summaries, harness against log, fresh baselines, stage blamed, published counts, the reason of A4's successes; load generator: types, causes of friction, its tables | proofs |
| `LoadGen` | `locustfile.py` | state machine over `Pipeline` |
| `Campaign` | experiment targets, container restarts, record files | state machine over `ZtConfig` |
| `CampaignProofs` | flags of each cell, one invocation per file, records lost, rows mislabelled | proofs |
| `MCDpopReplay`, `MCTelemetry`, `MCController`, `MCJwksCache`, `MCAttackSuite`, `MCLoadGen`, `MCCampaign` | instances for TLC | |

Definitions marked `mutant` are deliberately wrong variants kept beside the
definition that they vary; no specification uses them. Each shows that a property
would notice that bug.

### DpopReplay

`mono` and `wall` are `time.monotonic()` (the cache's timer) and `time.time()`
(the skew check). They tick together; the wall clock may also be stepped forward
freely and back by at most `MaxBack` in total. `Sign` is the client: it may reuse
a jti (`override_jti`) and choose an `iat` (`override_iat`), up to `Ahead` beyond
the controller's clock. A proof may be presented any number of times. `Pass`,
`RefuseReplay`, `RefuseStale` and `RefuseMalformed` are the outcomes of
`verify_dpop_proof`; `Pass` stores the jti whether or not `ath` then matches, in
the order of the code. `Insert` is `TTLCache.__setitem__`: purge, evict the
oldest live entry when full, store. Three history variables remember what the
cache forgot (`lost`), who passed (`consumed`) and who passed twice without such
a loss (`replayed`).

### PolicyDecision and RiskPolicy

Scores are integers in hundredths and ratios in thousandths, which is exact: the
weights are multiples of 0.01, `score` rounds to four digits, and `collect`
rounds ratios to three. The initial states are all combinations of flags,
checks that stages 1 and 2 can leave behind (`Admitted`), signals and
thresholds. `RegoActions` is the *set* of values the decision rules produce: an
empty set is the default rule, two values are OPA's evaluation conflict, which
the client turns into DENY like any other failure.

### TelemetrySignals and Telemetry

`Remember` and `SignalsOf` are one call of `collect`. `Telemetry` keeps the
complete `log` of each subject as a history variable and compares what `collect`
remembers and reports with what the log implies, while the clock ticks, is set
back, and the harness resets.

### Controller and Gateway

`pc[r]` is where the handler of request `r` stands: `absent`, waiting for
`keys`, `policy`, its client's `body` or `upstream`, `done`, or `lost` to a restart. Everything
between two awaits is one action, because asyncio runs it without interruption:

| Action | Code |
|---|---|
| `ReceivePassthrough` | B0 branch up to forwarding |
| `ReceiveNoBearer` | the refusal before the key fetch |
| `ReceiveCold`, `KeysArrive`, `KeysFail` | `_fetch_jwks` on a cold or expired cache |
| `ReceiveWarm` | the same without an await |
| `RefuseToken`, `RefuseProof`, `Admit` | the rest of stage 1, stages 2-4 (to the OPA call, or to forwarding when the policy is off) |
| `OpaAnswers`, `OpaFails` | stage 5 and the start of stage 6 |
| `BodyArrives`, `ClientLeaves` | `proxy.forward` up to its call: the client's body is there, or the client has hung up (500, in B0 502, and a record that says ALLOW) |
| `UpstreamAnswers`, `UpstreamFails` | the end of stage 6, or of the B0 branch |
| `KeysExpire` | 300 s after a fetch |
| `ResetState`, `Restart` | the harness; a new container, possibly with other flags |

`spent`, `known` and `registry` are the three module-level stores. `admitted` and
`contacted` are history variables. `Gateway` is what a reader would want promised:
each request is refused, or allowed, received in full and passed on once, and is
answered with exactly one record, ALLOW iff it was allowed; only a crash loses requests,
and only a client that stalls keeps one waiting. The mapping
(`FateOf`, `Promise`) hides flags, checks and scores.

Abstractions in `Controller`: no time (events never leave the window, jtis never
expire; `Telemetry` and `DpopReplay` treat that), signatures and encodings are
whether they verify, the stale-`iat` refusal is among the `malformed` ones, and
an exception that is not an HTTP error (a claim of the wrong JSON type, answered
500) is left out.

### JwksCache

Two or more handlers share `cached` and `fetchedAt`. A handler finds the cache warm
(no await) or waits in `fetching` until Keycloak has served the keys of that moment
(`served`: the answer is on its way) and then overwrites the cache with what it got
and the time at which *its* call began, whoever stored something meanwhile. `now` is
Keycloak's clock, the controller reads `now + offset`; `SetClock` changes the offset
anywhere within `Drift`. Awaits end within their httpx timeouts (`AwaitLimit` in
`Tick`). Keycloak rotates keys and may or may not keep the old one. A handler slot is
reused once its request has been answered.

### MockAdr

`Generate` is one call of `generate(seed, users)`: it adds to the module-level
dictionaries, as the code does, and gives the extra consent to the first user that
is in them. Each handler is an operator of the data and the caller's headers;
`Forwarded` is what `proxy.forward` makes of headers. The state changes only when
data are generated (tests do so before the application's own start-up); requests
are checked in each state, for every header combination and every object id.

### ZtConfig, Pipeline, Tables, Manuscript

`Cells` lists the cells of the Makefile with the variables that each target sets.
`CellFlags` resolves them as compose (shell over `.env`) and `config._bool` (an empty
value is unset) do. `Pipeline` reuses the scoring, telemetry, registry and policy
operators of the modules above, so that the harness is checked against the same
definitions that the proofs are about. Proofs and tokens age: `ProofRefusal` has the
binding, skew and replay checks in the code's order (the harness fails no other), and
`TokenExpired` compares whole seconds, as `jwt.decode` does. Its `Send` is atomic,
because the harness is sequential. `Recorded` builds a record without its stamp, which
only `LoadGen` needs: there `Collected` (stages 1 to 4) and the record are separate steps.
The signing keys do not age here (`JwksCache`), and the clock starts on a whole second. `Tables` and `Manuscript` are applied to the records and rows
that a run of `AttackSuite` or `LoadGen` leaves; what a table selects keeps its
positions, so that counting needs no copy of the records.

### AttackSuite

`pc` walks through `run_all`: `reset`, `login`, `warm_up`, `attack`, `summarise`, then
`done`, or `aborted` when an exception leaves the loop. `todo` is the set of attacks
left, of which `Attack` is the one whose block stands first in `run_all`. Each warm-up request and each
attempt is a step. `Break` and `Mend` let the controller, Keycloak, OPA or the
resource server fail, or answer too slowly, between any two steps; an attempt that is
not answered costs the client's 5 s, so that a long outage makes A1's captured proof
(`signed`) and the tokens (`issued`) too old. `Answer` is what
the client sees; `Tallied` is the bookkeeping of an attempt; `StageFor` collects the
seven `_infer_stage` functions, which see words and status codes only, as functions
of the cause that produces those words. `first` is a history field. Time is in
twentieths of a second, so that A7's paces (2.5 s, 4 s) and a few milliseconds of
latency are both representable.

### LoadGen

A user draws the region (`Build`) and sends later (`Arrive`); users overtake each
other in between. `Arrive` is the handler up to its awaits: telemetry, registry and
score. The record is stamped and written when OPA and the resource server have answered
(`Record`), which takes up to `lag`, and so the log is in another order than the requests
were collected in; a user sends its next request after that. `Pass` lets the time to the
next arrival pass. `collected` holds the records to come; `trail`, `by` and `order` (region
and user of each arrival, and the arrival each record is of) are history variables.

### Campaign

A target runs `up`, removes its own outputs, and loops over its cells; it may be
stopped at any step. `container` remembers the cell, flags and invocation it was
started for; `files` holds lines, a line being the pieces written since the last
line feed, so that a record cut off by a full disk swallows the next one.

## 3. Runs

| Run | Shows | Instance and why it is enough |
|---|---|---|
| `dpop_replay` | single use, justified refusals | 2 proofs that may share a jti, Skew 1, Ttl 4, 1 cache entry (so eviction happens), one second ahead and one back, 7 s: longer than a window and a TTL. Ttl 4 is the least for which `WindowCovered` holds; with 3 TLC finds a replay |
| `policy_decision` | fail-closed decisions, agreement of `zt.rego` and `decide_local`, monotone scoring, ablations | both sides of each threshold, thresholds in both orders and equal: all cases of the guards |
| `telemetry` | history is the window, velocity, baseline, failure rate | Window 2 (before, on and after the edge), deque of 2 with 3 events (it overflows), 2 regions, sessions and fingerprints; subjects share no state, so one subject |
| `controller` | mediation, `deny_hard` preempted, audit, checks, refinement of `Gateway` | 2 requests, 9 kinds covering each refusal and each score band, 6 configurations: B0, B1, P, the binding and context cells of the ablation, and P without DPoP |
| `controller_trio` | one admission per proof, enrolment, foreign devices, and that every request is settled | 3 requests of one subject, two keys, a shared jti: a reset between any two of them; configuration P, the one with every await |
| `jwks_cache` | ages of keys and tokens in use | 2 handler slots, reused, 2 keys, Ttl 2, one tick for each await, a clock one tick off either way, 6 ticks: a rotation, a full lifetime and another fetch fit in. Two slots suffice for a fetch that ends after others began and ended: the slow one keeps its slot, the others follow each other in the second |
| `mock_adr` | ownership, consistency of the data | 2 seeds, up to 2 users, 2 accounts each, 1 transaction; generations in any order and number. Ids are injective in seed and indices, so more rows repeat these |
| `attack_suite` | published counts, manuscript claims, the reason of A4's successes, fresh baselines, stages, agreement of harness and record, whole summaries | every cell that attacks with its real sizes (10 warm-ups, 30 attempts, 60 s) and latencies of 0, 50, 500 ms and 1.45 s, the largest that `AttackFits` admits (A7: 0 and 50 ms), undisturbed; and every cell with 2 warm-ups, 8 attempts and one outage of any kind, from any step to any other. There a request takes 4.95 s, just within the client's patience, and an unanswered one 5 s more, so that six lost attempts outlast the 60 s of a proof and the first answer to A1 is a refusal for skew. A7's cells also run with 24 attempts, of which 22 outlast a token |
| `load_gen` | causes of friction, the tables about it | one user and 37 requests with two drifting ones anywhere, every 0.15 s (the call-rate rule begins to fire before the 5 s that the analysis cuts off are over) and every 3 s (it never fires); two users who overtake each other on arrival and before they are recorded, for 4 requests with a drifting one, in six cells; two users with answers of up to 4 s, every 2 s, so that both have a request under way when the 5 s are over and two departures can be cut off while their refused returns are kept (with 1 instead of the number of users as the bound, TLC violates `LoadTablesHold`) |
| `campaign` | flags per cell, one invocation per file, the cost of a torn line and of a failed restart | two targets, 3 invocations (one interrupted, the other in between, and a re-run), 4 requests, 2 failures; all 18 cells of the five targets under 131 `.env` files without requests; a foreign `OUT_DIR` |
| `controller_replay_flag`, `suite_binding` | the findings below | the instances above |

Bounds that only exist for TLC: `MaxTime` (clocks), `MaxEvents` (events between two
resets), each request of `Controller` received at most once, the sizes in `Suites`,
`Loads` and `Campaigns` (records of an instance; the initial state chooses one, so
that one run covers them all). Deadlock checking is off where it is off because these
systems may stop: all requests answered, a suite done, or the clock at its bound.

Each module also states its types (`TypeOK`): the theorems `TypeCorrect` show them, and
the one that a cap on the scores makes interesting is checked in a run as well.
Properties that are conjunctions (`LoadTablesHold`, `ManuscriptHolds`, `CellsAsDefined`,
`OwnObjectsReachable`) name their parts, each with its own comment.

Fairness. `Fairness` of `Controller` asks weak fairness of each handler's next step and
nothing else: not of arrivals, key expiry, resets or restarts, and not of the client.
It is justified for the awaits of Keycloak, OPA and the resource server, which are httpx
calls with a timeout (5 s, 2 s, 10 s for each part of an exchange, and their answers
are finite) whose exception the handler catches; asyncio resumes a handler whose call
has ended. Weak fairness is of `Handle(r)` as a whole, so the services may fail every
time. `await request.body()` (`proxy.py:37`) has no timeout, so `ReadBody` has no fairness:
`EveryRequestSettled` says that a request is settled or stays with its client for ever, and
nowhere else.

## 4. Findings and notes

Two disagreements between a document and the code have a run that shows them:

* `controller_replay_flag`: `jsonl_logger.py:36` defines `jti_replayed` as a cache hit;
  the flag is set when the error text contains "replay", and an `htu` mismatch quotes
  the URL.
* `suite_binding`: `data/tables/table5_ablation.csv:3` publishes A2 without device
  binding as refused every time; the code serves 29 of the 30 attempts, all but the
  first, whose region differs from the victim's. Every other attack count of tables 1,
  1b and 5 is reproduced (`OutcomesAsPublished`).

Further ones follow from a property that passes, named in brackets:

* `policy_client.py:7` announces a local threshold check when OPA is unreachable;
  `decide` denies and never calls `decide_local` (`AllowMeansLowRisk`).
* `README.md:112` puts R7's 0.90 "just under" the 0.70 deny threshold; it is above, and
  denies alone (weights in `RiskPolicy`).
* `risk.py:11` says that each ablation flag removes exactly one group of rules; turning
  telemetry off also silences the fingerprint half of R2, which belongs to device
  binding (`Neutral` in `RiskPolicy`).
* `telemetry.py:24` calls the DPoP failure rate rolling; its counters are never pruned
  (`FailureRateIsCumulative`).
* `a7_paced_ato.py:44` says that A7's pace keeps the call rate below the rule; the
  victim's ten warm-up requests share its first window, and the rule fires on three
  attempts (`ManuscriptHolds`, which agrees with `verify_manuscript.py`).
* `runner.py:16-23` promises a warm-up, and with it an established baseline, before each
  attack; `warm_up` (`runner.py:156`) swallows its failures,
  so after an outage an attack may meet a subject without a baseline, whose device is
  then enrolled (`BaselineIsFresh` is about undisturbed suites only, `faults = 0`, and
  would not hold of others).
* `risk.py:90-91` says that a request by another key than the token's "still reaches here
  when binding enforcement is ablated", here being R1. The request does, but R1 is inside
  `if config.CHECK_DEVICE_BINDING`: it is off when binding is ablated, and stage 2 refuses
  the mismatch when it is not, so R1 never fires (`R1` in `RiskPolicy`, `ProofVerdict` in
  `Controller`; no record of `OnlyRateAndRegionFire` or `ManuscriptHolds` names it).
* `jsonl_logger.py:35` calls a proof `dpop_valid` when it "passed every RFC 9449 check";
  with binding ablated the comparison of its key with `cnf.jkt`, one of these checks, is
  skipped (`dpop_verify.py:172`), and a proof by another key is recorded as valid, with
  `cnf_jkt_match` false. `ChecksTellTruth` therefore says that a valid proof passed every
  check *that the flags leave on*, and that a key match was verified.
* `a1_network_replay.py:13` counts the iat skew among A1's defences, which `main.py:6` puts
  in stage 2; the text of that refusal has neither "replay" nor "jti", so A1 books it on
  `token_verify`. It takes an outage of a minute between the capture and the first answer.
  A4, A5 and A7 likewise book an expired token on `dpop_verify`. `StageNamesRefusal` lists
  these pairs (`Misbooked`), and shows that there is no other and none without an outage.
* `a5_bola_bfla.py:5` requires that the victim's object exists; the harness derives its
  id from its own `MOCK_ADR_SEED`, and with another seed A5 is refused with 404
  (`A5RefusedByOwnership` says when).
* `Makefile:81-83` removes outputs so that no re-run mixes records; it removes them below
  `OUT_DIR`, the controller writes to `data/raw` (`OneInvocationPerFile` needs them
  equal).
* `Makefile:129-131` restarts the controller for each cell; the loop goes on when the
  restart fails, and the attacks measure the cell before (`OneWrongRowPerFailure`).
* `README.md:94-95` asks to leave a flag unset, "not empty-string", for the mode's default;
  an empty value has the same effect, and the ablation target relies on it, to keep a
  flag in `.env` out of its cells (`CellsAsDefined`).
* `manuscript.md:407` has two refusals for each excursion; two excursions back to back
  share one, and where an excursion's record falls into the start-up that the tables cut
  off, its refused return may be kept: one for each user at most (`StableFrictionIsShadow`).
* A6's result always blames the velocity rule, whatever refused it
  (`StageNamesRefusal` leaves it out); an attempt on which the client's 5 s ran out may
  have been served (`HarnessAgreesWithLog` bounds these by the errors).

Facts that contradict no document but that a maintainer should know: after the wall
clock is set back, pruning from the head can keep an event older than the window behind
a fresher one, and R3 then compares with it (`VelocityMeansRegionChange` says exactly
what survives); a request whose client hangs up while its body is read is recorded as ALLOW
although nothing was forwarded (`AuditMatchesOutcome`), and one whose client stalls is never
recorded (`EveryRequestSettled`); a key set that replaces a newer
one, or a rotation within 300 s, is never repaired by a second fetch, so tokens under a
new key are refused for up to the lifetime of the cache (`RefusedKeyIsNew`).

## 5. Proofs

The assumptions are the named ones of each module, which TLC evaluates on every run:
`ParameterAssumption` (`DpopReplay`), `InputAssumption` (`PolicyDecision`, numeric
thresholds and signals), in `Controller` `ConfigAssumption` (flags are Booleans),
`RequestAssumption` (there is an input, and tokens name known subjects) and
`LimitsAssumption` (thresholds are numbers, in any order), `TimeAssumption`
(`JwksCache`: the fetch timeout is below the TTL, 5 s and 300 s in the code),
`WindowAssumption` (`TelemetrySignals`: a window below two hours; the code has 60 s),
`DataAssumption` (`MockAdr`: sizes are numbers and a user has an account),
`CampaignAssumption` (`Campaign`: a target loops over cells of its own),
`PipelineAssumption` (`Pipeline`: the skew is at least a second, 60 s in the code),
`SuiteAssumption` (`AttackSuite`: the cell has attacks, each is tried at least once) and
`LoadAssumption` (`LoadGen`: finitely many users; the pace, a second at most in the code,
and the start-up that the analysis cuts off, 5 s, are together within the window of 60 s;
the run, 60 s as published, is over within the life of a token, 300 s; and the call-rate
rule fires before the deque is full, beyond 30 and at 5000). Nothing
bounds the number of requests, handlers, subjects, keys, proofs, users, events,
configurations, invocations or failures.

* **`SingleUse`** (`DpopReplayProofs`): if `WindowCovered`, then `[]NoReplay`, for
  any sets of proofs and jtis, any skew, TTL, cache size and set-back budget. The
  default of 60 s and 120 s meets it while `Ahead + MaxBack < 60`. `NoReplay` is
  not inductive: that a consumed proof cannot pass again follows from how long its
  entry lives. `ReplayInv` adds `IatBounded` (a fresh iat is not too far ahead of
  the wall clock, plus what the clock was set back since) and `EntryOutlivesWindow`
  (an entry that was not lost expires after its proof goes stale, even if the rest
  of the set-back budget is spent). The lemmas
  `IatBoundedStep`, `EntryStep` and `NoReplayStep` prove it one action at a time.
  **`ReplaysAreReplays`** needs no such relation: `JustifiedInv` says where the
  entries of the cache come from (`EntriesEarned`).
* **`AllowIsSafe`, `OpaAgreesWithLocal`, `ScoringIsMonotone`, `AblationIsMonotone`**
  (`PolicyDecisionProofs`): four policy properties for every threshold and every
  natural-valued signal. They rest on lemmas about the operators (`RegoIsLocal`,
  `AnswerIsOnlyAction`, `OpaAllow`, `AblationLowersScore`, rule by rule) and on the
  numeric inputs never changing.
* **`AuditIsComplete`** (`ControllerProofs`). `AuditMatchesOutcome` says nothing of
  who has been forwarded before a handler ends, so it is not inductive; `SettleInv`
  adds that exactly the handlers waiting for the resource server have been.
  `StepCases` reduces each of the pipeline's actions to one of four (a handler ends,
  moves to an await, all are lost, none changes), and the two results that do not
  depend on what is verified are proved over those four.
* **`ControllerRefinesGateway`** (`ControllerProofs`): `EndRefines`, `MoveRefines`
  and `LoseRefines` map each of the four cases to a step of `Gateway` or a stutter.
* **`OneAdmissionPerProof`, `EnrolmentIsProven`, `ForeignDevicesAreScored`,
  `EnrolmentIsFinal`** (`ControllerProofs`). The invariant is `TrustInv`: the jti of an
  admitted request is in the cache, and a request that was admitted is past
  verification, so what it carries no longer changes. `TrustCases` shows that a step
  verifies one request, loses the whole trust state, or leaves it alone.
* **`NothingUnverifiedForwarded`, `HardRulesPreempted`, `RecordsTellTruth`**
  (`ControllerProofs`). `MediationInv` says for each place of a handler what is known
  of its request there: nothing before verification; after it, that its token and
  proof were sound and that `checks` says so truthfully; after OPA, that the score is
  below both thresholds; at the end, that the record repeats it. A replay on record is
  explained (`ReplayExplained`) by a request that burnt the same jti, or by a URL with the
  word in it; the former needs that whatever is in the cache was put there by a request
  that is past verification (`ReplayInv`). `DenyHardPreempted` follows from `AdmittedPreempts`.
* **`RetiredKeysExpire`, `NewKeysAreLearnt`, `TokensAreLive`** (`JwksCacheProofs`), for
  any number of handlers, keys and rotations. The properties look at the answers; what
  makes them true is the age of what is in the cache and on its way to it. `KeyInv`
  dates both: a key set was the realm's at a time that the fetch's own time stamp
  bounds (`CacheDated`, `FetchDated`), which survives that a slow fetch overwrites a
  newer set, because its older time stamp comes with it. The bound is `Ttl + 2 * Drift`
  and `FetchLimit < Ttl` is used.
* **`NothingForeignShown`, `CrossUserRefused`, `OwnDataReachable`** (`MockAdrProofs`),
  for any seeds, sizes and order of generations. `DataInv` says that each row is a
  function of its key (`UsersExact`, `AccountsExact`, `TransactionsExact`,
  `ConsentsExact`), so that generating a seed again, or fewer users of it, overwrites
  rows with themselves. Ownership alone is not inductive: the accounts that a new
  consent covers are those of the first user in the dictionaries, of whatever seed.
* **`HistoryIsRecent`, `VelocityIsRegionChange`, `FirstFpStays`, `FailuresAreKept`**
  (`TelemetryProofs`), for any window, deque length and sequence of events, set-backs
  and resets. `MemoryInv` ties what `collect` remembers to the complete log: the deque
  is the end of the log (`EndOfLog`) under any clock; while the clock runs forward the
  log is in order and what the deque misses has expired unless it is full (`InOrder`);
  counts and baseline are those of the log (`Counted`, `Enrolled`). `FirstPosition`, the
  least element of a set of positions, comes from `<` being well-founded.
  `ChangeIsFast` is the arithmetic of R3: whole km/h reach the limit at 7186 s, which
  is where `WindowAssumption` comes from.
* **`CellsEnforceTheirFlags`, `OneInvocationEach`, `RecordsAreKept`,
  `WrongRowsAreFailures`** (`CampaignProofs`), for any plan of cells and `.env` file.
  The first is a table of 18 cells and 7 flags: `FlagsOf` and `FlagsDefined` compute
  it through compose and `_bool`, `FlagsAlways` carries it to every state. The second
  needs `EraInv`: not only is a file of one era, the era is that of the running
  controller if it has the cell's name, and once a target has removed its outputs,
  what is in its cells' files, and any controller with a cell's name, is of that
  target. That `up` comes before `rm` is what makes it inductive. The third counts:
  `LossInv` gives a file whose last line is torn one more record to lose, and
  `WriteSeen` is the effect of one write on what is read back. `RowInv` likewise holds
  one failure in reserve while a cell is driven against another controller.
* **`WholeCellsOnly`, `HarnessIsHonest`, `EachAttackStartsFresh`, `BlameIsRight`**
  (`PipelineProofs`), for any cell, number of warm-ups and attempts, latency and outages.
  All rest on
  `StageInv` and on `AttackIsFirst`: the attack under way precedes those left. `SummaryInv`
  adds that the files hold exactly the attacks that are no longer to do, in order, and
  that nothing is in the summary while one is left. `HarnessInv` compares the tally with
  the log after every attempt; it needs that an attack still to come has left no record
  of data, which the attack ids of the requests give (`SendRecords` relates a request's
  record to what its client sees, over every branch of the pipeline). `BaselineInv`
  follows the warm-up: while nothing fails, n requests leave n events of the victim, none
  older than n requests take, so that `collect` only appends (`CollectAppends`). This
  needs `WarmUpFits`: the warm-up ends within the window. The code does not check that;
  ten requests slower than 6 s each would break it.
  `BlameIsRight` (property `StageNamesRefusal`) needs no such condition, only that an
  undisturbed attack is shorter than the life of a token and a request than the skew
  (`TokenLasts`): from it `PunctualInv` shows that without an outage no proof is refused for
  skew and no token for its age, and with one these are the pairs of `Misbooked`. `Misread` lists the
  causes that an `_infer_stage` names wrongly (`StageTable`: all others are right); all but
  one are excluded by what the requests carry. The last, that A1 and A2 are never challenged
  before they are first refused, depends on the scores, and is why `BlameInv` follows the
  telemetry: it holds the victim's traffic, or, for A2 without device binding, only the
  adversary's (`Unmixed`). While it is unmixed, R3 and R5 fire together or not at all
  (`SameSource`, `OtherSource`), and no such score lies between the limits (`NoMiddle`). A
  request that an outage keeps from the controller leaves the telemetry as it was; one that
  is allowed found nothing of the victim's in the window (`ThiefStays`). The
  proof covers warm-ups that have left the window, as slow requests make them.
* **`CountsAsPublished`** (`PipelineProofs`, property `OutcomesAsPublished`): the counts
  of A1 to A6 in every cell that runs them, not for the latencies of the run but for all
  that meet three hypotheses: `WarmUpFits` and `AttackFits`, that the ten warm-ups and
  A4's thirty attempts fit into one window, which they do up to 1.45 s per request, and
  `TokenLasts`. The
  code does not check it; a slower testbed would publish other numbers. `CountInv` gives
  for each attack the spans of attempts that are served (`Opens`, `Closes`), carries the
  tally through them (`Standing`), and keeps the counts of the attacks that are over with
  the places of their rows (`Shelved`). The interesting attack is A4: its
  requests lie over the victim's ten in one window (`Overlaid`), so that R5 refuses them
  until they are half of it and R4 from thirty on, and `AttackFits` keeps the victim's part
  from leaving the window before the last attempt.
* **`OwnKeyIsTheOnlyRule`** (`PipelineProofs`, property `UnknownDeviceAloneIsServed`):
  what `README.md:124-128` gives as the reason of A4's successes, for any sizes, latency
  and pace, A7's too, those included that outlast the adversary's token, whose requests are
  then refused with no rule on record. `AloneInv` adds to `BlameInv` that the victim's key is the only one
  enrolled, which takes one warm-up that reached the controller; the weight of R2 then leaves
  no room below 0.40 for a second rule, and the rule that fires alone below it can be no
  other.
* **`OnlyRegionCostsRefusals`, `LoadTablesAreRight`** (`PipelineProofs`), for any number of
  users and requests, any order of arrival and any pace that `LoadAssumption` admits.
  `LoadInv` has a part for the arrivals and one for the records. `ArrivalInv`: what a
  request will be recorded as is determined by its region, the region of the arrival
  before it and the number of arrivals within a window (`LoadRemembers`, which rests on
  pruning leaving the end of the history, `PrunedEnd`); the clock is between the last
  arrival's time and the next one's. `RecordInv`: each record is of one arrival, stamped
  at most `lag` after it, and when a user's next request arrives the one before has been
  recorded (`Answered`). That stable friction is at most the drift's and one a user is an
  injection: each refused stable request has a drifting arrival just before it, and of
  those whose record the analysis cuts off, no two belong to one user
  (`AnsweredBeforeTheCut`, `FewAcrossTheCut`).
* The **`TypeCorrect`** theorems of the modules above. That of `AttackSuite` includes that a
  subject's history never exceeds the requests of one preparation and its attack
  (`RoomLeft`), which is where the reset between attacks comes in.

Proving found three errors that the instances had not shown, all corrected:
`WindowAssumption` allowed windows of up to 7199 s, for which R3 misses a region
change; `Defined` gave the load cells of B0 and B1 the flags of P, and no instance ran
these cells; and `CampaignAssumption` let a target loop over another target's cells.

Operators that choose between overlapping conditions (`ProofVerdict`, `ProofRefusal`,
`DecisionFor`, `CauseFor`, `Answer`) were `CASE` expressions, whose value TLA+ leaves open when two guards hold;
TLC takes the first, a proof may not. They are now conditionals in the order of the code.

Only model-checked, and why: liveness (`EveryRequestSettled`) is outside the prover's
reach, and so is what a table sums over the rows of a file, because sums are folds and
a fact about all folds is an induction over data. That is why `ManuscriptHolds` stays with
TLC: it adds counts of several attacks up, and A7's part of it depends on the two paces
and sizes of that attack, which nothing parameterises. The counts it adds up are those
of `CountsAsPublished`, except A7's.

## 6. Not modelled

* Keycloak itself (external): seen through tokens, keys and failures.
* `analysis/`: latency, resource and scaling tables, intervals and effect sizes
  (`stats.py`), figures: floating-point processing of finished files, without state.
* The scaling sweep and the resource sampler of the Makefile: they set no flag. (Under
  `make all`, which runs `up` once, a failed first restart of the sweep lets its requests
  add to the last file of `experiments`; `Campaign` has such foreign requests, only not
  from this target.) Image builds, certificates and realm provisioning.
* The HTTP of the token endpoint, signatures, encodings and JSON shapes.
* `device_registry.enroll` (no caller) and required scopes (no caller passes any).

## 7. Plan

All safety invariants but `ManuscriptHolds` are proved. What would come next: A7's counts in the
manner of `CountsAsPublished`, whose window slides over the warm-up while the attack
runs; and `Controller` with time, so that the replay cache and the event window of
`DpopReplay` and `Telemetry` expire under interleaving.
