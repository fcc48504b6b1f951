------------------------------ MODULE LoadGen ------------------------------
(***************************************************************************)
(* load/locustfile.py: concurrent simulated users of one account and one    *)
(* enrolled device, whose requests now and then come from another region.   *)
(* A user draws the context of a request when it builds the headers; the    *)
(* request reaches the controller later, and the requests of different      *)
(* users overtake each other in between.  They overtake each other again    *)
(* between the telemetry and the record, while the controller waits for OPA *)
(* and for the resource server: the log is in the order in which the        *)
(* records were written, and so are its stamps.                             *)
(*                                                                          *)
(* With the tables of analysis/make_figures.py over the records this        *)
(* leaves.                                                                  *)
(***************************************************************************)
EXTENDS Pipeline

CONSTANTS
  Loads,      \* the loads considered: the cell, the simulated users, the mean
              \* time between two arrivals and the longest that an answer
              \* takes, in ticks, and two bounds: of the requests, and of those
              \* among them that come from elsewhere
  StartUp     \* WARMUP_SECONDS of the analysis, in ticks

(* A user waits at most a second between two requests, the start-up is 5 s  *)
(* of a window of 60 s, and a run of 60 s ends before its tokens do.        *)
ASSUME LoadAssumption ==
  /\ \A l \in Loads :
       /\ l.cell \in CellNames /\ IsFiniteSet(l.users)
       /\ {l.pace, l.lag, l.requests, l.drifts} \subseteq Nat
       /\ l.pace + StartUp <= Window /\ l.requests * l.pace <= TokenLife
  /\ StartUp \in Nat /\ CallRateLimit < MaxLen

VARIABLES
  load,       \* fixed in the initial state, as is cell
  pending,    \* the region of the request each user has built, or NotStarted,
              \* or Idle
  underway,   \* which arrival the controller is handling for each user, or 0
  drifts,     \* drifting requests drawn so far
  collected,  \* the records to come, in the order of the arrivals
  trail, by,  \* regions and users of the arrivals, history variables
  order       \* which arrival each record of the log is of, another one

arrivals == <<collected, trail, by>>
loadVars == <<setup, load, pending, underway, drifts, clock, issued, trust,
              keysWarm, down, arrivals, log, order>>

NotStarted == "not started"
Idle       == "idle"
None       == 0

Home == "AU"
Away == {"NZ", "SG"}

(* _ENROLLED_DEVICE, shared by every user. *)
DeviceOf(u) == "load"

(* _build_headers: the context and its label.  A request is on its way for  *)
(* less than the skew a proof is allowed, so that its proof may as well be  *)
(* signed when it arrives.                                                  *)
Built(u, geo) ==
  LET d == DeviceOf(u)
  IN [Request(d, d, [geo |-> geo, session |-> d, fp |-> d], NotAttack, "own")
        EXCEPT !.profile = IF geo = Home THEN "stable" ELSE "drift"]

(* When the n-th request arrives. *)
Due(n) == (n - 1) * load.pace

-----------------------------------------------------------------------------
LoadTypeOK ==
  /\ load \in Loads /\ cell = load.cell /\ clock \in Nat
  /\ pending \in [load.users -> {NotStarted, Idle, Home} \cup Away]
  /\ underway \in [load.users -> 0..Len(collected)]
  /\ drifts \in 0..load.drifts
  /\ Len(collected) <= load.requests
  /\ Len(trail) = Len(collected) /\ Len(by) = Len(collected)
  /\ Len(log) <= Len(collected) /\ Len(order) = Len(log)

(* The controller has been reset before the first user starts. *)
LoadInit ==
  /\ load \in Loads /\ cell = load.cell
  /\ PipelineInit
  /\ pending = [u \in load.users |-> NotStarted]
  /\ underway = [u \in load.users |-> None]
  /\ drifts = 0 /\ collected = <<>> /\ trail = <<>> /\ by = <<>> /\ order = <<>>

(* on_start: the user logs in with the shared device's key. *)
Start(u) ==
  /\ pending[u] = NotStarted
  /\ pending' = [pending EXCEPT ![u] = Idle]
  /\ UNCHANGED <<setup, load, underway, drifts, clock, issued, trust, keysWarm,
                 down, arrivals, log, order>>

(* A task draws the region of its request. *)
Build(u) ==
  /\ pending[u] = Idle
  /\ \E geo \in Away \cup {Home} :
       /\ geo # Home => drifts < load.drifts
       /\ drifts' = IF geo = Home THEN drifts ELSE drifts + 1
       /\ pending' = [pending EXCEPT ![u] = geo]
  /\ UNCHANGED <<setup, load, underway, clock, issued, trust, keysWarm, down,
                 arrivals, log, order>>

(* The request arrives: the controller checks it, collects its telemetry,   *)
(* scores it, and asks OPA and the resource server.                         *)
Arrive(u) ==
  /\ pending[u] \notin {NotStarted, Idle} /\ underway[u] = None
  /\ Len(collected) < load.requests /\ clock = Due(Len(collected) + 1)
  /\ LET q == Built(u, pending[u])
     IN Collected(q) /\ collected' = Append(collected, Recorded(q))
  /\ trail' = Append(trail, pending[u]) /\ by' = Append(by, u)
  /\ underway' = [underway EXCEPT ![u] = Len(collected) + 1]
  /\ UNCHANGED <<setup, load, pending, drifts, clock, issued, down, log, order>>

(* They have answered: build_record stamps the record, it is written, and   *)
(* the user's task ends with the controller's answer.                       *)
Record(u) ==
  LET i == underway[u]
  IN /\ i # None
     /\ log' = Append(log, [collected[i] EXCEPT !.ts = clock])
     /\ order' = Append(order, i)
     /\ underway' = [underway EXCEPT ![u] = None]
     /\ pending' = [pending EXCEPT ![u] = Idle]
     /\ UNCHANGED <<setup, load, drifts, clock, issued, trust, keysWarm, down, arrivals>>

(* Time passes until the next arrival. *)
Pass ==
  /\ clock < Due(Len(collected) + 1)
  /\ clock' = clock + load.pace
  /\ \A u \in load.users : underway[u] # None => clock' <= Due(underway[u]) + load.lag
  /\ UNCHANGED <<setup, load, pending, underway, drifts, issued, trust, keysWarm,
                 down, arrivals, log, order>>

LoadNext ==
  \/ \E u \in load.users : Start(u) \/ Build(u) \/ Arrive(u) \/ Record(u)
  \/ Pass

LoadSpec == LoadInit /\ [][LoadNext]_loadVars

-----------------------------------------------------------------------------
(* Properties. *)

Refused(r) == r.decision # "ALLOW"

(* A legitimate request is refused exactly when it comes from another       *)
(* region than the request that reached the controller before it, whatever  *)
(* its own label says and whichever record was written first; without the   *)
(* risk rules or without telemetry never.  Nothing else of the workload     *)
(* (its rate, its concurrency, its shared device, the order of the users'   *)
(* requests and of their answers) costs a refusal.                          *)
FrictionFollowsRegion ==
  \A k \in DOMAIN log :
    LET i == order[k]
    IN Refused(log[k]) <=> /\ flags.risk /\ flags.telemetry
                           /\ i > 1 /\ trail[i] # trail[i - 1]

Reported == Legit(log, Cells[cell].target, StartUp)

(* The parts of LoadTablesHold, over the records that the tables are        *)
(* computed from.                                                           *)
(*                                                                          *)
(* manuscript.md 407: the friction reported for stable traffic is the       *)
(* shadow of the drift, in table 2 as reported, that is, after the first    *)
(* seconds of the run are cut off: at most one refused return for each      *)
(* drifting request, and for those whose departure was cut off, of which    *)
(* there are no more than users: each waits for the answer to one request   *)
(* when the seconds are over.                                               *)
StableFrictionIsShadow(recs) ==
  LET stable == FalseChallenge(recs, LabelOf(cell), "stable")
      drift  == FalseChallenge(recs, LabelOf(cell), "drift")
  IN stable.challenges + stable.denies
       <= drift.n + (IF Size(recs) < Len(log) THEN Cardinality(load.users) ELSE 0)

(* paper_figures.py's figure 12 names every rule combination there is on    *)
(* this workload: nothing, R3, R4, and both.  The shared device and session *)
(* keep R2, R5 and R6 silent.                                               *)
OnlyRateAndRegionFire ==
  \A k \in DOMAIN log : log[k].rules \subseteq {"R3", "R4"}

(* verify_manuscript.py 54-60 and 119-125 for a workload above the call     *)
(* rate rule's threshold: that rule fires on every request reported, so     *)
(* that a region change is always denied and nobody is ever challenged.     *)
BusyMeansNoChallenge(recs) ==
  cell = "exp_P" /\ load.pace * CallRateLimit + load.lag < StartUp =>
    FrictionChecks(recs, LabelOf(cell))

(* verify_manuscript.py 107-117: the threshold sweep, recomputed from the   *)
(* recorded scores, refuses at 0.40 exactly what the controller refused,    *)
(* refuses the same at 0.30, and everything at 0.25 once the rate rule      *)
(* fires on everything.                                                     *)
SweepMatchesDecisions(recs) ==
  cell = "exp_P" => SweepFrictionChecks(recs, LabelOf(cell))

(* Every request that arrived has been answered. *)
Settled == \A u \in load.users : underway[u] = None

(* What the manuscript, verify_manuscript.py and the figures say of the     *)
(* friction on this workload holds of every log that the code can leave     *)
(* when the last answer is out.                                             *)
LoadTablesHold ==
  LET recs == Reported
  IN /\ Settled => StableFrictionIsShadow(recs)
     /\ OnlyRateAndRegionFire
     /\ BusyMeansNoChallenge(recs) /\ SweepMatchesDecisions(recs)
=============================================================================
