------------------------- MODULE TelemetrySignals -------------------------
(***************************************************************************)
(* telemetry.collect of zt-controller/app/telemetry.py as a function: from  *)
(* what is remembered about a subject and one event, the signals for risk   *)
(* scoring and what is remembered afterwards.                               *)
(*                                                                          *)
(* An event carries the controller's time, the declared region, the session *)
(* and the device fingerprint, and whether its DPoP proof failed.  Ratios   *)
(* are in thousandths and velocities in km/h, rounded as the code rounds.   *)
(***************************************************************************)
EXTENDS Integers, Sequences, FiniteSets

CONSTANTS
  Window,   \* _WINDOW_SECONDS, 60 in the code
  MaxLen    \* maxlen of a subject's deque, 5000 in the code

(* Up to Window seconds apart, a region change is always above 500 km/h,    *)
(* also in whole km/h: 1000 km in 7185 s are 501.                           *)
ASSUME WindowAssumption ==
  Window \in 1..7185 /\ MaxLen \in Nat \ {0}

(* The entries a subject has in the four module-level dictionaries. *)
Unseen == [history |-> <<>>, fps |-> {}, failures |-> 0, total |-> 0]

(* The while loop at the head of the deque: it stops at the first event     *)
(* still inside the window, whatever lies behind it.                        *)
ExpiredAtEdge(e, now) == now - e.ts >= Window   \* mutant: >= for >
Expired(e, now) == now - e.ts > Window

Prune(history, now) ==
  LET fresh == {i \in 1..Len(history) : ~Expired(history[i], now)}
  IN IF fresh = {} THEN <<>>
     ELSE SubSeq(history, CHOOSE i \in fresh : \A k \in fresh : i <= k, Len(history))

(* deque(maxlen=...).append *)
Push(history, e) ==
  LET longer == Append(history, e)
  IN IF Len(longer) > MaxLen THEN Tail(longer) ELSE longer

(* round(a / b, 3), in thousandths. *)
Thousandths(a, b) == (2000 * a + b) \div (2 * b)

(* 1000 km over the elapsed time, which counts as at least 0.001 h.         *)
ImpliedVelocity(elapsed) ==
  IF elapsed <= 3 THEN 1000000 ELSE 3600000 \div elapsed

(* Mutant: compares with the oldest event of the window, not the latest. *)
RegionChangedSinceHead(history, geo) ==
  history # <<>> /\ history[1].geo # geo

RegionChanged(history, geo) ==
  history # <<>> /\ history[Len(history)].geo # geo

SameSession(history, session) ==
  Cardinality({i \in 1..Len(history) : history[i].session = session})

FpStable(known, fp) == known.fps = {} \/ fp \in known.fps

(* The first fingerprint becomes the baseline, even when it comes with a    *)
(* failed proof; later ones never do.                                       *)
NewFpsEnrolling(known, fp) == known.fps \cup {fp}   \* mutant: auto-enrols
NewFps(known, fp) == IF known.fps = {} THEN {fp} ELSE known.fps

(* _subject_dpop_failures and _subject_dpop_total after event e: nothing    *)
(* ever leaves these counts before a reset.                                 *)
NewFailuresInARow(known, e) ==   \* mutant: a good proof clears the count
  IF e.failed THEN known.failures + 1 ELSE 0
NewFailures(known, e) == known.failures + (IF e.failed THEN 1 ELSE 0)
NewTotal(known, e)    == known.total + 1

(* What collect returns for event e. *)
SignalsOf(known, e) ==
  LET h == Prune(known.history, e.ts)
  IN [fpStable    |-> FpStable(known, e.fp),
      callRate    |-> Len(h),
      geoVelocity |-> IF RegionChanged(h, e.geo)
                      THEN ImpliedVelocity(e.ts - h[Len(h)].ts) ELSE 0,
      continuity  |-> IF h = <<>> THEN 1000
                      ELSE Thousandths(SameSession(h, e.session), Len(h)),
      failureRate |-> Thousandths(NewFailures(known, e), NewTotal(known, e))]

(* What is remembered after event e. *)
Remember(known, e) ==
  [history  |-> Push(Prune(known.history, e.ts),
                     [ts |-> e.ts, geo |-> e.geo, session |-> e.session]),
   fps      |-> NewFps(known, e.fp),
   failures |-> NewFailures(known, e),
   total    |-> NewTotal(known, e)]
=============================================================================
