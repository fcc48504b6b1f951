----------------------------- MODULE Telemetry -----------------------------
(***************************************************************************)
(* The Policy Information Point of the controller over time: requests of    *)
(* several subjects are collected one at a time while the wall clock        *)
(* advances, is occasionally stepped back, and the harness resets the       *)
(* state between measurements.                                              *)
(***************************************************************************)
EXTENDS TelemetrySignals

CONSTANTS
  Subject, Geo, Session, Fp,
  MaxTime,    \* bound on the wall clock, for model checking only
  MaxEvents   \* bound on the events between two resets, likewise

VARIABLES
  wall,      \* time.time(), read by main.py and passed as request_ts
  known,     \* the four dictionaries, by subject
  reported,  \* the signals last reported for each subject
  log,       \* history: every event of each subject since the last reset
  stepped    \* history: the wall clock was stepped back since the last reset

vars == <<wall, known, reported, log, stepped>>

Steady == [fpStable |-> TRUE, callRate |-> 0, geoVelocity |-> 0,
           continuity |-> 1000, failureRate |-> 0]

Event == [ts : Int, geo : Geo, session : Session, fp : Fp, failed : BOOLEAN]

TypeOK ==
  /\ wall \in 0..MaxTime
  /\ \A s \in Subject :
       /\ Len(known[s].history) <= MaxLen
       /\ known[s].fps \subseteq Fp /\ Cardinality(known[s].fps) <= 1
       /\ known[s].failures \in 0..known[s].total
       /\ reported[s].continuity \in 0..1000
       /\ reported[s].failureRate \in 0..1000
       /\ \A i \in 1..Len(log[s]) : log[s][i] \in Event
  /\ stepped \in BOOLEAN

Forget ==
  /\ known' = [s \in Subject |-> Unseen]
  /\ reported' = [s \in Subject |-> Steady]
  /\ log' = [s \in Subject |-> <<>>]
  /\ stepped' = FALSE

Init ==
  /\ wall = 0
  /\ known = [s \in Subject |-> Unseen]
  /\ reported = [s \in Subject |-> Steady]
  /\ log = [s \in Subject |-> <<>>]
  /\ stepped = FALSE

Events == [s \in Subject |-> Len(log[s])]

(* collect(), called by stage 2 for a failed proof and by stage 3 otherwise. *)
Collect(s, geo, session, fp, failed) ==
  LET e == [ts |-> wall, geo |-> geo, session |-> session, fp |-> fp,
            failed |-> failed]
  IN /\ Events[s] < MaxEvents
     /\ reported' = [reported EXCEPT ![s] = SignalsOf(known[s], e)]
     /\ known' = [known EXCEPT ![s] = Remember(known[s], e)]
     /\ log' = [log EXCEPT ![s] = Append(@, e)]
     /\ UNCHANGED <<wall, stepped>>

(* reset(), from the harness control plane. *)
Reset == Forget /\ UNCHANGED wall

Tick ==
  /\ wall < MaxTime
  /\ wall' = wall + 1
  /\ UNCHANGED <<known, reported, log, stepped>>

StepBack ==
  /\ wall > 0
  /\ wall' = wall - 1
  /\ stepped' = TRUE
  /\ UNCHANGED <<known, reported, log>>

Next ==
  \/ \E s \in Subject, geo \in Geo, session \in Session, fp \in Fp,
        failed \in BOOLEAN : Collect(s, geo, session, fp, failed)
  \/ Reset \/ Tick \/ StepBack

Spec == Init /\ [][Next]_vars

-----------------------------------------------------------------------------
(* Properties. *)

(* The sliding window as indices of the complete log: the events at most    *)
(* Window seconds old, and of these the MaxLen latest.                      *)
InLastWindow(s) ==
  LET fresh == {i \in 1..Len(log[s]) : wall - log[s][i].ts <= Window}
  IN {i \in fresh : Cardinality({k \in fresh : k > i}) < MaxLen}

Entry(e) == [ts |-> e.ts, geo |-> e.geo, session |-> e.session]

(* Pruning from the head is enough: while the wall clock has not been set   *)
(* back, what the next request is compared with is exactly the subject's    *)
(* traffic of the last Window seconds, at every boundary and at maxlen.     *)
HistoryIsWindow ==
  ~stepped => \A s \in Subject :
    LET seen == Prune(known[s].history, wall)
        kept == InLastWindow(s)
    IN /\ Len(seen) = Cardinality(kept)
       /\ \A i \in kept :
            seen[Cardinality({k \in kept : k <= i})] = Entry(log[s][i])

Latest(s) == log[s][Len(log[s])]
Previous(s) == log[s][Len(log[s]) - 1]

(* Rule R3 cannot tell travel from a jump: any change of region between two *)
(* events at most Window seconds apart is reported above the 500 km/h limit *)
(* and, while the wall clock has not been set back, nothing else is.  After *)
(* a set-back an event older than the window can stay behind a fresh head   *)
(* and be compared with, but two events from one region never fire R3.      *)
VelocityMeansRegionChange ==
  \A s \in Subject :
    LET fires == reported[s].geoVelocity > 500
        moved == Len(log[s]) > 1 /\ Latest(s).geo # Previous(s).geo
    IN /\ fires => moved
       /\ moved /\ Latest(s).ts - Previous(s).ts <= Window => fires
       /\ fires /\ ~stepped => Latest(s).ts - Previous(s).ts <= Window

(* A fingerprint is reported stable exactly when it is the fingerprint of   *)
(* the subject's first event since the reset: nothing that happens later    *)
(* enrols a second one or replaces the baseline.                            *)
BaselineIsFirstFp ==
  \A s \in Subject :
    log[s] # <<>> => (reported[s].fpStable <=> Latest(s).fp = log[s][1].fp)

(* The failure rate never recovers below what the subject's whole traffic   *)
(* since the reset implies, and never exceeds it: it counts every failed    *)
(* proof, including those whose events have left the window or the deque.   *)
FailureRateIsCumulative ==
  \A s \in Subject :
    log[s] # <<>> =>
      reported[s].failureRate =
        Thousandths(Cardinality({i \in 1..Len(log[s]) : log[s][i].failed}), Len(log[s]))
=============================================================================
