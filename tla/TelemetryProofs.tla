-------------------------- MODULE TelemetryProofs --------------------------
(***************************************************************************)
(* Proofs about the Policy Information Point, for any number of subjects,   *)
(* any traffic and any window and deque length the assumption allows.       *)
(*                                                                          *)
(* The argument: a subject's deque is always the end of the complete log of *)
(* that subject's events.  What is missing from it in front is too old, or  *)
(* the deque is full.                                                       *)
(***************************************************************************)
EXTENDS Telemetry, FiniteSetTheorems, SequenceTheorems, TLAPS

(* A set of positions that is not empty has a first one. *)
LEMMA FirstPosition ==
  ASSUME NEW F, F \subseteq Nat, F # {}
  PROVE  \E i \in F : \A k \in F : i <= k
<1> DEFINE R == OpToRel(<, Nat)
<1>1. IsWellFoundedOn(R, Nat)
  BY NatLessThanWellFounded
<1>2. \A i, k \in Nat : <<k, i>> \notin R => i <= k
  BY DEF OpToRel
<1> HIDE DEF R
<1>3. \E i \in F : \A k \in F : <<k, i>> \notin R
  BY <1>1, WFMin
<1> QED
  BY <1>2, <1>3

-----------------------------------------------------------------------------
(* What the operators of telemetry.collect return. *)

(* The pruned deque is the end of the deque: what was dropped in front has   *)
(* expired, and the first event left has not.                                *)
LEMMA PruneProperties ==
  ASSUME NEW S, NEW h \in Seq(S), NEW now
  PROVE  LET p == Len(Prune(h, now))
             d == Len(h) - p
         IN /\ Prune(h, now) \in Seq(S)
            /\ p \in Nat /\ d \in Nat
            /\ \A i \in 1..p : Prune(h, now)[i] = h[d + i]
            /\ \A i \in 1..d : Expired(h[i], now)
            /\ p > 0 => ~Expired(h[d + 1], now)
<1> DEFINE n == Len(h)
           fresh == {i \in 1..n : ~Expired(h[i], now)}
<1>0. n \in Nat /\ \A i \in 1..n : h[i] \in S
  BY LenProperties, ElementOfSeq
<1>1. CASE fresh = {}
  <2>1. Prune(h, now) = <<>>
    BY <1>1 DEF Prune
  <2>2. \A i \in 1..n : Expired(h[i], now)
    BY <1>1
  <2> QED
    BY <1>0, <2>1, <2>2, EmptySeq
<1>2. CASE fresh # {}
  <2> DEFINE m == CHOOSE i \in fresh : \A k \in fresh : i <= k
  <2>1. m \in fresh /\ \A k \in fresh : m <= k
    <3>1. fresh \subseteq Nat
      OBVIOUS
    <3> HIDE DEF fresh, n
    <3> QED
      BY <1>2, <3>1, FirstPosition
  <2>2. Prune(h, now) = SubSeq(h, m, n)
    BY <1>2 DEF Prune
  <2>3. m \in 1..n /\ ~Expired(h[m], now)
    BY <2>1
  <2> HIDE DEF m, n
  <2>4. ASSUME NEW i \in 1..(m - 1) PROVE Expired(h[i], now)
    <3>1. i \in 1..n /\ ~(m <= i)
      BY <1>0, <2>3
    <3> QED
      BY <2>1, <3>1
  <2> HIDE DEF fresh
  <2>5. /\ SubSeq(h, m, n) \in Seq(S)
        /\ Len(SubSeq(h, m, n)) = n - m + 1
        /\ \A i \in 1..(n - m + 1) : SubSeq(h, m, n)[i] = h[m + i - 1]
    BY <1>0, <2>3, SubSeqProperties
  <2>6. n - (n - m + 1) = m - 1
    BY <1>0, <2>3
  <2> QED
    BY <1>0, <2>2, <2>3, <2>4, <2>5, <2>6 DEF n
<1> QED
  BY <1>1, <1>2

(* After the append the deque ends with the new event, keeps the end of the  *)
(* old deque and has at most MaxLen events.                                  *)
LEMMA PushProperties ==
  ASSUME NEW S, NEW h \in Seq(S), NEW e \in S, Len(h) <= MaxLen
  PROVE  LET q == Len(Push(h, e))
         IN /\ Push(h, e) \in Seq(S)
            /\ q = IF Len(h) < MaxLen THEN Len(h) + 1 ELSE MaxLen
            /\ Push(h, e)[q] = e
            /\ \A i \in 1..(q - 1) : Push(h, e)[i] = h[Len(h) - (q - 1) + i]
<1> DEFINE n == Len(h)
           a == Append(h, e)
<1>0. n \in Nat /\ MaxLen \in Nat \ {0}
  BY WindowAssumption, LenProperties
<1>1. /\ a \in Seq(S) /\ a # <<>> /\ Len(a) = n + 1
      /\ \A i \in 1..n : a[i] = h[i]
      /\ a[n + 1] = e
  BY AppendProperties
<1> HIDE DEF a, n
<1>2. CASE n < MaxLen
  <2>1. Push(h, e) = a
    BY <1>0, <1>1, <1>2 DEF Push, a
  <2> QED
    BY <1>0, <1>1, <1>2, <2>1 DEF n
<1>3. CASE n = MaxLen
  <2>1. Push(h, e) = Tail(a)
    BY <1>0, <1>1, <1>3 DEF Push, a
  <2>2. /\ Tail(a) \in Seq(S) /\ Len(Tail(a)) = n
        /\ \A i \in 1..n : Tail(a)[i] = a[i + 1]
    BY <1>0, <1>1, HeadTailProperties
  <2> QED
    BY <1>0, <1>1, <1>3, <2>1, <2>2 DEF n
<1> QED
  BY <1>0, <1>2, <1>3 DEF n

(* Inside the window a region change is always above the limit of rule R3.   *)
LEMMA ChangeIsFast ==
  ASSUME NEW elapsed \in Int, elapsed <= Window
  PROVE  ImpliedVelocity(elapsed) > 500
<1>1. elapsed <= 7185
  BY WindowAssumption
<1>2. CASE elapsed <= 3
  BY <1>2 DEF ImpliedVelocity
<1>3. CASE elapsed > 3
  <2> DEFINE q == 3600000 \div elapsed
  <2>1. q \in Int /\ elapsed * q + elapsed > 3600000
    BY <1>3
  <2>2. q > 500
    <3> SUFFICES ASSUME q <= 500 PROVE FALSE
      BY <2>1
    <3>1. elapsed * q <= elapsed * 500
      BY <1>3, <2>1
    <3> QED
      BY <1>1, <2>1, <3>1
  <2> QED
    BY <1>3, <2>2 DEF ImpliedVelocity
<1> QED
  BY <1>2, <1>3

-----------------------------------------------------------------------------
(* The inductive invariant, in parts. *)

Entries == [ts : Int, geo : Geo, session : Session]
Memory  == [history : Seq(Entries), fps : SUBSET Fp, failures : Nat, total : Nat]

MemoryTyped ==
  /\ wall \in Nat
  /\ known \in [Subject -> Memory]
  /\ log \in [Subject -> Seq(Event)]
  /\ DOMAIN reported = Subject
  /\ stepped \in BOOLEAN

Logged(s)  == Len(log[s])
Held(s)    == Len(known[s].history)
Dropped(s) == Logged(s) - Held(s)
Failed(s)  == {i \in 1..Logged(s) : log[s][i].failed}

(* The deque is the end of the log, and ends where the log ends. *)
EndOfLog(s) ==
  /\ Held(s) <= MaxLen /\ Dropped(s) \in Nat
  /\ Logged(s) > 0 => Held(s) > 0
  /\ \A i \in 1..Held(s) : known[s].history[i] = Entry(log[s][Dropped(s) + i])

(* While the clock runs forward the log is in the order of its times, and    *)
(* the events missing from the deque have expired unless it is full.         *)
InOrder(s) ==
  /\ \A i \in 1..Logged(s) : log[s][i].ts <= wall
  /\ \A i, k \in 1..Logged(s) : i <= k => log[s][i].ts <= log[s][k].ts
  /\ Held(s) = MaxLen \/ \A i \in 1..Dropped(s) : Expired(log[s][i], wall)

(* The counts, and the baseline, against the complete log. *)
Counted(s) ==
  /\ known[s].total = Logged(s)
  /\ IsFiniteSet(Failed(s)) /\ known[s].failures = Cardinality(Failed(s))

Enrolled(s) == known[s].fps = IF Logged(s) = 0 THEN {} ELSE {log[s][1].fp}

MemoryInv ==
  /\ MemoryTyped
  /\ \A s \in Subject :
       EndOfLog(s) /\ (~stepped => InOrder(s)) /\ Counted(s) /\ Enrolled(s)

-----------------------------------------------------------------------------
(* The deque when the next request looks at it. *)

Seen(s)   == Prune(known[s].history, wall)
SeenOf(s) == Len(Seen(s))     \* how many events are looked at
First(s)  == Logged(s) - SeenOf(s)   \* how many came before the first of them

LEMMA LogTyped ==
  ASSUME MemoryTyped, NEW s \in Subject
  PROVE  /\ log[s] \in Seq(Event) /\ Logged(s) \in Nat
         /\ \A i \in 1..Logged(s) : log[s][i] \in Event /\ log[s][i].ts \in Int
         /\ known[s] \in Memory /\ Held(s) \in Nat
<1>1. log[s] \in Seq(Event) /\ known[s] \in Memory
  BY DEF MemoryTyped
<1>2. known[s].history \in Seq(Entries)
  BY <1>1 DEF Memory
<1>3. Logged(s) \in Nat /\ \A i \in 1..Logged(s) : log[s][i] \in Event
  BY <1>1, LenProperties, ElementOfSeq DEF Logged
<1>4. Held(s) \in Nat
  BY <1>2, LenProperties DEF Held
<1> QED
  BY <1>1, <1>3, <1>4 DEF Event

LEMMA SeenIsRecent ==
  ASSUME MemoryInv, NEW s \in Subject
  PROVE  /\ Seen(s) \in Seq(Entries)
         /\ SeenOf(s) \in Nat /\ First(s) \in Nat /\ SeenOf(s) <= MaxLen
         /\ \A i \in 1..SeenOf(s) : Seen(s)[i] = Entry(log[s][First(s) + i])
         /\ \A i \in (Dropped(s) + 1)..First(s) : Expired(log[s][i], wall)
         /\ Dropped(s) <= First(s)
         /\ SeenOf(s) > 0 => ~Expired(log[s][First(s) + 1], wall)
<1> DEFINE history == known[s].history
           d == Held(s) - SeenOf(s)
<1>1. history \in Seq(Entries) /\ Logged(s) \in Nat /\ Held(s) \in Nat
  BY LogTyped DEF MemoryInv, Memory
<1>2. /\ Held(s) <= MaxLen /\ Dropped(s) \in Nat /\ MaxLen \in Nat
      /\ \A i \in 1..Held(s) : history[i] = Entry(log[s][Dropped(s) + i])
  BY WindowAssumption DEF MemoryInv, EndOfLog
<1>3. /\ Seen(s) \in Seq(Entries) /\ SeenOf(s) \in Nat /\ d \in Nat
      /\ \A i \in 1..SeenOf(s) : Seen(s)[i] = history[d + i]
      /\ \A i \in 1..d : Expired(history[i], wall)
      /\ SeenOf(s) > 0 => ~Expired(history[d + 1], wall)
  BY <1>1, PruneProperties DEF Seen, SeenOf, Held
<1> HIDE DEF history
<1>4. First(s) = Dropped(s) + d /\ First(s) \in Nat /\ SeenOf(s) <= MaxLen
  <2>1. /\ Logged(s) \in Nat /\ Held(s) \in Nat /\ SeenOf(s) \in Nat /\ d \in Nat
        /\ Held(s) <= MaxLen /\ Dropped(s) \in Nat /\ MaxLen \in Nat
    BY <1>1, <1>2, <1>3
  <2> QED
    BY <2>1 DEF First, Dropped
<1>5. ASSUME NEW i \in 1..Held(s)
      PROVE  Expired(history[i], wall) <=> Expired(log[s][Dropped(s) + i], wall)
  <2>1. history[i] = Entry(log[s][Dropped(s) + i])
    BY <1>2
  <2>2. history[i].ts = log[s][Dropped(s) + i].ts
    BY <2>1 DEF Entry
  <2> QED
    BY <2>2 DEF Expired
<1>6. ASSUME NEW i \in 1..SeenOf(s) PROVE Seen(s)[i] = Entry(log[s][First(s) + i])
  <2>1. d + i \in 1..Held(s) /\ Dropped(s) + (d + i) = First(s) + i
    <3>1. Held(s) \in Nat /\ Dropped(s) \in Nat /\ SeenOf(s) \in Nat /\ d \in Nat
      BY <1>1, <1>2, <1>3
    <3> QED
      BY <1>4, <3>1
  <2> QED
    BY <1>2, <1>3, <2>1
<1>7. ASSUME NEW i \in (Dropped(s) + 1)..First(s) PROVE Expired(log[s][i], wall)
  <2>0. Held(s) \in Nat /\ Dropped(s) \in Nat /\ SeenOf(s) \in Nat /\ d \in Nat
    BY <1>1, <1>2, <1>3
  <2>1. i - Dropped(s) \in 1..d /\ Dropped(s) + (i - Dropped(s)) = i
    BY <1>4, <1>7, <2>0
  <2>2. i - Dropped(s) \in 1..Held(s)
    BY <2>0, <2>1
  <2> QED
    BY <1>3, <1>5, <2>1, <2>2
<1>8. SeenOf(s) > 0 => ~Expired(log[s][First(s) + 1], wall)
  <2>1. SeenOf(s) > 0 => d + 1 \in 1..Held(s) /\ Dropped(s) + (d + 1) = First(s) + 1
    <3>1. Held(s) \in Nat /\ Dropped(s) \in Nat /\ SeenOf(s) \in Nat /\ d \in Nat
      BY <1>1, <1>2, <1>3
    <3> QED
      BY <1>4, <3>1
  <2> QED
    BY <1>3, <1>5, <2>1
<1>9. Dropped(s) <= First(s)
  BY <1>2, <1>3, <1>4
<1> HIDE DEF d
<1> QED
  BY <1>3, <1>4, <1>6, <1>7, <1>8, <1>9

(* While the clock runs forward, all that is not looked at has expired, or   *)
(* the deque is full.                                                        *)
LEMMA UnseenExpired ==
  ASSUME MemoryInv, NEW s \in Subject, InOrder(s)
  PROVE  SeenOf(s) = MaxLen \/ \A i \in 1..First(s) : Expired(log[s][i], wall)
<1>1. /\ SeenOf(s) \in Nat /\ First(s) \in Nat
      /\ \A i \in (Dropped(s) + 1)..First(s) : Expired(log[s][i], wall)
      /\ Dropped(s) <= First(s)
  BY SeenIsRecent
<1>2. /\ Logged(s) \in Nat /\ Held(s) \in Nat /\ Dropped(s) \in Nat /\ wall \in Nat
      /\ \A i \in 1..Logged(s) : log[s][i].ts \in Int
  BY LogTyped DEF MemoryInv, MemoryTyped, EndOfLog
<1>3. CASE \A i \in 1..Dropped(s) : Expired(log[s][i], wall)
  <2>1. \A i \in 1..First(s) : i \in 1..Dropped(s) \/ i \in (Dropped(s) + 1)..First(s)
    BY <1>1, <1>2
  <2> QED
    BY <1>1, <1>3, <2>1
<1>4. CASE Held(s) = MaxLen /\ SeenOf(s) # MaxLen
  <2> DEFINE m == Dropped(s) + 1
  <2>1. m \in 1..Logged(s) /\ m \in (Dropped(s) + 1)..First(s) /\ First(s) <= Logged(s)
    BY <1>1, <1>2, <1>4 DEF First, Dropped
  <2>2. wall - log[s][m].ts > Window
    BY <1>1, <2>1 DEF Expired
  <2>3. \A i \in 1..m : log[s][i].ts <= log[s][m].ts
    BY <2>1, <1>2 DEF InOrder
  <2>4. \A i \in 1..m : log[s][i].ts \in Int
    BY <1>2, <2>1
  <2> HIDE DEF m
  <2>5. \A i \in 1..m : wall - log[s][i].ts > Window
    BY <1>2, <2>1, <2>2, <2>3, <2>4, WindowAssumption
  <2>6. \A i \in 1..First(s) : i \in 1..m \/ i \in (Dropped(s) + 1)..First(s)
    BY <1>1, <1>2 DEF m
  <2> QED
    BY <1>1, <2>5, <2>6 DEF Expired
<1> QED
  BY <1>3, <1>4 DEF InOrder

-----------------------------------------------------------------------------
(* collect() preserves the invariant. *)

(* The event that one call of collect adds. *)
EventAt(geo, session, fp, failed) ==
  [ts |-> wall, geo |-> geo, session |-> session, fp |-> fp, failed |-> failed]

(* What the call changes, for the subject of the event and for the others.   *)
LEMMA Collected ==
  ASSUME MemoryInv, NEW s \in Subject, NEW geo \in Geo, NEW session \in Session,
         NEW fp \in Fp, NEW failed \in BOOLEAN, Collect(s, geo, session, fp, failed),
         NEW e, e = EventAt(geo, session, fp, failed)
  PROVE  /\ e \in Event /\ e.ts = wall /\ e.fp = fp
         /\ wall' = wall /\ stepped' = stepped
         /\ DOMAIN reported' = Subject
         /\ log'[s] = Append(log[s], e) /\ known'[s] = Remember(known[s], e)
         /\ reported'[s] = SignalsOf(known[s], e)
         /\ \A q \in Subject : q # s => /\ log'[q] = log[q] /\ known'[q] = known[q]
                                        /\ reported'[q] = reported[q]
         /\ log' = [log EXCEPT ![s] = Append(@, e)]
         /\ known' = [known EXCEPT ![s] = Remember(known[s], e)]
<1>1. e \in Event /\ e.ts = wall /\ e.fp = fp
  BY DEF EventAt, Event, MemoryInv, MemoryTyped
<1>2. /\ wall' = wall /\ stepped' = stepped
      /\ log' = [log EXCEPT ![s] = Append(@, e)]
      /\ known' = [known EXCEPT ![s] = Remember(known[s], e)]
      /\ reported' = [reported EXCEPT ![s] = SignalsOf(known[s], e)]
  BY DEF Collect, EventAt
<1>3. /\ DOMAIN log = Subject /\ DOMAIN known = Subject /\ DOMAIN reported = Subject
  BY DEF MemoryInv, MemoryTyped
<1> QED
  BY <1>1, <1>2, <1>3

(* The log after the event. *)
LEMMA LogGrows ==
  ASSUME MemoryInv, NEW s \in Subject, NEW e \in Event, log'[s] = Append(log[s], e)
  PROVE  /\ log'[s] \in Seq(Event)
         /\ Logged(s)' = Logged(s) + 1
         /\ \A i \in 1..Logged(s) : log'[s][i] = log[s][i]
         /\ log'[s][Logged(s) + 1] = e
<1>1. log[s] \in Seq(Event)
  BY LogTyped DEF MemoryInv
<1> QED
  BY <1>1, AppendProperties DEF Logged

(* The deque after the event. *)
LEMMA DequeGrows ==
  ASSUME MemoryInv, NEW s \in Subject, NEW e \in Event, e.ts = wall,
         known'[s] = Remember(known[s], e), log'[s] = Append(log[s], e)
  PROVE  /\ known'[s].history \in Seq(Entries)
         /\ Held(s)' = IF SeenOf(s) < MaxLen THEN SeenOf(s) + 1 ELSE MaxLen
         /\ EndOfLog(s)'
<1>1. /\ Seen(s) \in Seq(Entries)
      /\ SeenOf(s) \in Nat /\ First(s) \in Nat /\ SeenOf(s) <= MaxLen
      /\ Logged(s) \in Nat /\ MaxLen \in Nat \ {0}
  BY SeenIsRecent, LogTyped, WindowAssumption DEF MemoryInv
<1>2. \A i \in 1..SeenOf(s) : Seen(s)[i] = Entry(log[s][First(s) + i])
  BY SeenIsRecent
<1>3. known'[s].history = Push(Seen(s), Entry(e))
  BY DEF Remember, Seen, Entry
<1>4. Entry(e) \in Entries
  BY DEF Entry, Entries, Event
<1>5. /\ known'[s].history \in Seq(Entries)
      /\ Held(s)' = IF SeenOf(s) < MaxLen THEN SeenOf(s) + 1 ELSE MaxLen
      /\ known'[s].history[Held(s)'] = Entry(e)
      /\ \A i \in 1..(Held(s)' - 1) :
           known'[s].history[i] = Seen(s)[SeenOf(s) - (Held(s)' - 1) + i]
  BY <1>1, <1>3, <1>4, PushProperties DEF SeenOf, Held
<1>6. /\ Logged(s)' = Logged(s) + 1
      /\ \A i \in 1..Logged(s) : log'[s][i] = log[s][i]
      /\ log'[s][Logged(s) + 1] = e
  BY LogGrows
<1>7. /\ Held(s)' \in Nat \ {0} /\ Held(s)' <= MaxLen /\ Held(s)' - 1 <= SeenOf(s)
  BY <1>1, <1>5
<1>8. First(s) = Logged(s) - SeenOf(s) /\ Dropped(s)' = (Logged(s) + 1) - Held(s)'
  <2>1. First(s) = Logged(s) - SeenOf(s)
    BY DEF First
  <2>2. Dropped(s)' = Logged(s)' - Held(s)'
    BY DEF Dropped
  <2> QED
    BY <1>6, <2>1, <2>2
<1>9. Dropped(s)' \in Nat
  BY <1>1, <1>7, <1>8
<1>10. ASSUME NEW i \in 1..Held(s)'
       PROVE  known'[s].history[i] = Entry(log'[s][Dropped(s)' + i])
  <2>1. CASE i = Held(s)'
    <3>1. Dropped(s)' + i = Logged(s) + 1
      BY <1>1, <1>7, <1>8, <2>1
    <3> QED
      BY <1>5, <1>6, <2>1, <3>1
  <2>2. CASE i # Held(s)'
    <3> DEFINE j == SeenOf(s) - (Held(s)' - 1) + i
    <3>1. i \in 1..(Held(s)' - 1)
      BY <1>7, <2>2
    <3>2. /\ j \in 1..SeenOf(s) /\ First(s) + j = Dropped(s)' + i
          /\ Dropped(s)' + i \in 1..Logged(s)
      <4>1. SeenOf(s) \in Nat /\ Logged(s) \in Nat /\ Held(s)' \in Nat /\ First(s) \in Nat
        BY <1>1, <1>7
      <4> QED
        BY <1>7, <1>8, <1>9, <3>1, <4>1
    <3>3. known'[s].history[i] = Seen(s)[j]
      BY <1>5, <3>1
    <3> HIDE DEF j
    <3>4. Seen(s)[j] = Entry(log[s][Dropped(s)' + i])
      BY <1>2, <3>2
    <3> QED
      BY <1>6, <3>2, <3>3, <3>4
  <2> QED
    BY <2>1, <2>2
<1>11. EndOfLog(s)'
  <2>1. Held(s)' <= MaxLen /\ Held(s)' > 0
    BY <1>7
  <2> QED
    BY <1>9, <1>10, <2>1 DEF EndOfLog
<1> QED
  BY <1>5, <1>11

(* The order of the log, and why events are missing from the deque.          *)
LEMMA OrderKept ==
  ASSUME MemoryInv, NEW s \in Subject, InOrder(s), NEW e \in Event, e.ts = wall,
         wall' = wall, known'[s] = Remember(known[s], e), log'[s] = Append(log[s], e)
  PROVE  InOrder(s)'
<1>1. /\ Logged(s)' = Logged(s) + 1
      /\ \A i \in 1..Logged(s) : log'[s][i] = log[s][i]
      /\ log'[s][Logged(s) + 1] = e
  BY LogGrows
<1>2. /\ Logged(s) \in Nat /\ wall \in Nat
      /\ \A i \in 1..Logged(s) : log[s][i].ts \in Int
  BY LogTyped DEF MemoryInv, MemoryTyped
<1>3. \A i \in 1..Logged(s)' : i \in 1..Logged(s) \/ i = Logged(s) + 1
  BY <1>1, <1>2
<1>4. ASSUME NEW i \in 1..Logged(s)' PROVE log'[s][i].ts <= wall
  <2>1. CASE i \in 1..Logged(s)
    BY <1>1, <2>1 DEF InOrder
  <2>2. CASE i = Logged(s) + 1
    <3>1. log'[s][i] = e
      BY <1>1, <2>2
    <3>2. wall <= wall
      BY <1>2
    <3> QED
      BY <3>1, <3>2
  <2> QED
    BY <1>3, <2>1, <2>2
<1>5. ASSUME NEW i \in 1..Logged(s)', NEW k \in 1..Logged(s)', i <= k
      PROVE  log'[s][i].ts <= log'[s][k].ts
  <2>1. CASE k = Logged(s) + 1
    BY <1>1, <1>4, <2>1
  <2>2. CASE k \in 1..Logged(s)
    <3>1. i \in 1..Logged(s)
      BY <1>2, <1>5, <2>2
    <3> QED
      BY <1>1, <1>5, <2>2, <3>1 DEF InOrder
  <2> QED
    BY <1>3, <2>1, <2>2
<1>6. Held(s)' = MaxLen \/ \A i \in 1..Dropped(s)' : Expired(log'[s][i], wall)
  <2> SUFFICES ASSUME Held(s)' # MaxLen, NEW i \in 1..Dropped(s)'
               PROVE  Expired(log'[s][i], wall)
    OBVIOUS
  <2>1. /\ SeenOf(s) \in Nat /\ First(s) \in Nat /\ SeenOf(s) <= MaxLen
        /\ Held(s)' = SeenOf(s) + 1
    BY SeenIsRecent, DequeGrows
  <2>2. /\ First(s) = Logged(s) - SeenOf(s)
        /\ Dropped(s)' = Logged(s)' - Held(s)'
    BY DEF First, Dropped
  <2>3. Dropped(s)' = First(s)
    BY <1>1, <1>2, <2>1, <2>2
  <2>4. MaxLen \in Nat
    BY WindowAssumption
  <2>5. SeenOf(s) # MaxLen
    BY <2>1, <2>4, DequeGrows
  <2>6. Expired(log[s][i], wall)
    BY <2>3, <2>5, UnseenExpired
  <2>7. i \in 1..Logged(s)
    BY <1>2, <2>1, <2>2, <2>3
  <2> QED
    BY <1>1, <2>6, <2>7
<1> QED
  BY <1>4, <1>5, <1>6 DEF InOrder

(* The counts count on, and the baseline stays what it is.                   *)
LEMMA CountsKept ==
  ASSUME MemoryInv, NEW s \in Subject, NEW e \in Event,
         known'[s] = Remember(known[s], e), log'[s] = Append(log[s], e)
  PROVE  Counted(s)' /\ Enrolled(s)'
<1>1. /\ Logged(s)' = Logged(s) + 1
      /\ \A i \in 1..Logged(s) : log'[s][i] = log[s][i]
      /\ log'[s][Logged(s) + 1] = e
  BY LogGrows
<1>2. Logged(s) \in Nat /\ known[s] \in Memory
  BY LogTyped DEF MemoryInv
<1>3. /\ known'[s].total = NewTotal(known[s], e)
      /\ known'[s].failures = NewFailures(known[s], e)
      /\ known'[s].fps = NewFps(known[s], e.fp)
  BY DEF Remember
<1>4. Counted(s) /\ Enrolled(s)
  BY DEF MemoryInv
<1>5. IsFiniteSet(Failed(s)') /\ known'[s].failures = Cardinality(Failed(s)')
  <2>1. Failed(s)' = {i \in 1..Logged(s)' : log'[s][i].failed}
    BY DEF Failed
  <2>2. Logged(s) + 1 \notin Failed(s)
    BY <1>2 DEF Failed
  <2>3. \A i : i \in 1..Logged(s)' <=> i \in 1..Logged(s) \/ i = Logged(s) + 1
    BY <1>1, <1>2
  <2>4. \A i : i \in Failed(s)' <=> i \in Failed(s) \/ (i = Logged(s) + 1 /\ e.failed)
    <3> SUFFICES ASSUME NEW i
                 PROVE  (i \in 1..Logged(s)' /\ log'[s][i].failed) <=>
                          \/ i \in 1..Logged(s) /\ log[s][i].failed
                          \/ i = Logged(s) + 1 /\ e.failed
      BY <2>1 DEF Failed
    <3>1. CASE i \in 1..Logged(s)
      <4>1. log'[s][i] = log[s][i]
        BY <1>1, <3>1
      <4>2. i # Logged(s) + 1
        BY <1>2, <3>1
      <4> QED
        BY <2>3, <3>1, <4>1, <4>2
    <3>2. CASE i = Logged(s) + 1
      <4>1. log'[s][i] = e
        BY <1>1, <3>2
      <4>2. i \notin 1..Logged(s)
        BY <1>2, <3>2
      <4> QED
        BY <2>3, <3>2, <4>1, <4>2
    <3> QED
      BY <2>3, <3>1, <3>2
  <2>5. CASE e.failed
    <3>1. Failed(s)' = Failed(s) \cup {Logged(s) + 1}
      BY <2>4, <2>5
    <3>2. known'[s].failures = known[s].failures + 1
      BY <1>3, <2>5 DEF NewFailures
    <3> QED
      BY <1>4, <2>2, <3>1, <3>2, FS_AddElement DEF Counted
  <2>6. CASE ~e.failed
    <3>1. Failed(s)' = Failed(s)
      BY <2>4, <2>6
    <3>2. known'[s].failures = known[s].failures
      BY <1>2, <1>3, <2>6 DEF NewFailures, Memory
    <3> QED
      BY <1>4, <3>1, <3>2 DEF Counted
  <2> QED
    BY <2>5, <2>6
<1>6. known'[s].total = Logged(s)'
  BY <1>1, <1>3, <1>4 DEF NewTotal, Counted
<1>7. known'[s].fps = IF Logged(s)' = 0 THEN {} ELSE {log'[s][1].fp}
  <2>1. CASE Logged(s) = 0
    <3>1. known[s].fps = {} /\ log'[s][1] = e
      BY <1>1, <1>4, <2>1 DEF Enrolled
    <3> QED
      BY <1>1, <1>3, <2>1, <3>1 DEF NewFps
  <2>2. CASE Logged(s) # 0
    <3>1. known[s].fps = {log[s][1].fp} /\ log'[s][1] = log[s][1]
      BY <1>1, <1>2, <1>4, <2>2 DEF Enrolled
    <3>2. Logged(s)' # 0
      BY <1>1, <1>2
    <3> QED
      BY <1>3, <3>1, <3>2 DEF NewFps
  <2> QED
    BY <2>1, <2>2
<1> QED
  BY <1>5, <1>6, <1>7 DEF Counted, Enrolled

LEMMA CollectKeeps ==
  ASSUME MemoryInv, NEW s \in Subject, NEW geo \in Geo, NEW session \in Session,
         NEW fp \in Fp, NEW failed \in BOOLEAN, Collect(s, geo, session, fp, failed)
  PROVE  MemoryInv'
<1> DEFINE e == EventAt(geo, session, fp, failed)
<1> HIDE DEF e
<1>1. /\ e \in Event /\ e.ts = wall /\ e.fp = fp
      /\ wall' = wall /\ stepped' = stepped /\ DOMAIN reported' = Subject
      /\ log'[s] = Append(log[s], e) /\ known'[s] = Remember(known[s], e)
      /\ \A q \in Subject : q # s => log'[q] = log[q] /\ known'[q] = known[q]
      /\ log' = [log EXCEPT ![s] = Append(@, e)]
      /\ known' = [known EXCEPT ![s] = Remember(known[s], e)]
  BY Collected DEF e
<1>2. MemoryTyped'
  <2>1. log'[s] \in Seq(Event)
    BY <1>1, LogGrows
  <2>2. known'[s].history \in Seq(Entries)
    BY <1>1, DequeGrows
  <2>3. known'[s] \in Memory
    <3>1. known[s] \in Memory
      BY LogTyped DEF MemoryInv
    <3>2. /\ NewFps(known[s], e.fp) \in SUBSET Fp
          /\ NewFailures(known[s], e) \in Nat /\ NewTotal(known[s], e) \in Nat
      BY <1>1, <3>1 DEF NewFps, NewFailures, NewTotal, Memory
    <3> QED
      BY <1>1, <2>2, <3>2 DEF Remember, Memory
  <2> QED
    BY <1>1, <2>1, <2>3 DEF MemoryInv, MemoryTyped
<1>3. EndOfLog(s)' /\ (~stepped' => InOrder(s)') /\ Counted(s)' /\ Enrolled(s)'
  <2>1. EndOfLog(s)' /\ Counted(s)' /\ Enrolled(s)'
    BY <1>1, DequeGrows, CountsKept
  <2>2. ~stepped => InOrder(s)
    BY DEF MemoryInv
  <2> QED
    BY <1>1, <2>1, <2>2, OrderKept
<1>4. ASSUME NEW q \in Subject, q # s
      PROVE  EndOfLog(q)' /\ (~stepped' => InOrder(q)') /\ Counted(q)' /\ Enrolled(q)'
  <2>1. log'[q] = log[q] /\ known'[q] = known[q] /\ wall' = wall /\ stepped' = stepped
    BY <1>1, <1>4
  <2>2. EndOfLog(q) /\ (~stepped => InOrder(q)) /\ Counted(q) /\ Enrolled(q)
    BY DEF MemoryInv
  <2> QED
    BY <2>1, <2>2 DEF EndOfLog, InOrder, Counted, Enrolled, Logged, Held, Dropped, Failed
<1> QED
  BY <1>2, <1>3, <1>4 DEF MemoryInv

-----------------------------------------------------------------------------
(* The other steps: a reset forgets, and the clock alone changes no table.   *)

LEMMA ForgetKeeps ==
  ASSUME known' = [s \in Subject |-> Unseen], log' = [s \in Subject |-> <<>>],
         reported' = [s \in Subject |-> Steady], wall' \in Nat, stepped' \in BOOLEAN
  PROVE  MemoryInv'
<1>1. ASSUME NEW s \in Subject
      PROVE  /\ log'[s] = <<>> /\ known'[s] = Unseen
             /\ Logged(s)' = 0 /\ Held(s)' = 0 /\ Dropped(s)' = 0 /\ Failed(s)' = {}
  BY DEF Logged, Held, Dropped, Failed, Unseen
<1>2. MemoryTyped'
  <2>1. Unseen \in Memory
    BY DEF Unseen, Memory
  <2> QED
    BY <2>1 DEF MemoryTyped
<1>3. ASSUME NEW s \in Subject
      PROVE  EndOfLog(s)' /\ InOrder(s)' /\ Counted(s)' /\ Enrolled(s)'
  <2>1. EndOfLog(s)'
    BY <1>1, WindowAssumption DEF EndOfLog
  <2>2. InOrder(s)'
    BY <1>1 DEF InOrder
  <2>3. Counted(s)' /\ Enrolled(s)'
    BY <1>1, FS_EmptySet DEF Counted, Enrolled, Unseen
  <2> QED
    BY <2>1, <2>2, <2>3
<1> QED
  BY <1>2, <1>3 DEF MemoryInv

LEMMA ClockKeeps ==
  ASSUME MemoryInv, UNCHANGED <<known, reported, log>>, wall' \in Nat,
         stepped' \in BOOLEAN, ~stepped' => ~stepped /\ wall <= wall'
  PROVE  MemoryInv'
<1>1. MemoryTyped'
  BY DEF MemoryInv, MemoryTyped
<1>2. ASSUME NEW s \in Subject PROVE EndOfLog(s)' /\ Counted(s)' /\ Enrolled(s)'
  BY DEF MemoryInv, EndOfLog, Counted, Enrolled, Logged, Held, Dropped, Failed
<1>3. ASSUME NEW s \in Subject, ~stepped' PROVE InOrder(s)'
  <2>1. InOrder(s) /\ wall \in Nat /\ wall <= wall'
    BY <1>3 DEF MemoryInv, MemoryTyped
  <2>2. /\ \A i \in 1..Logged(s) : log[s][i].ts \in Int
        /\ Logged(s) \in Nat /\ Dropped(s) \in Nat /\ Held(s) \in Nat
        /\ Dropped(s) = Logged(s) - Held(s)
    BY LogTyped DEF MemoryInv, EndOfLog, Dropped
  <2>3. Logged(s)' = Logged(s) /\ Held(s)' = Held(s) /\ Dropped(s)' = Dropped(s)
    BY DEF Logged, Held, Dropped
  <2>4. \A i \in 1..Logged(s) : log[s][i].ts <= wall'
    BY <2>1, <2>2 DEF InOrder
  <2>5. \A i \in 1..Dropped(s) : i \in 1..Logged(s)
    BY <2>2
  <2>6. \A i \in 1..Dropped(s) : Expired(log[s][i], wall) => Expired(log[s][i], wall')
    BY <2>1, <2>2, <2>5, WindowAssumption DEF Expired
  <2> QED
    BY <2>1, <2>3, <2>4, <2>6 DEF InOrder
<1> QED
  BY <1>1, <1>2, <1>3 DEF MemoryInv

LEMMA MemoryKept ==
  ASSUME MemoryInv, [Next]_vars
  PROVE  MemoryInv'
<1>1. wall \in Nat /\ stepped \in BOOLEAN
  BY DEF MemoryInv, MemoryTyped
<1>2. CASE \E s \in Subject, geo \in Geo, session \in Session, fp \in Fp,
             failed \in BOOLEAN : Collect(s, geo, session, fp, failed)
  BY <1>2, CollectKeeps
<1>3. CASE Reset
  BY <1>1, <1>3, ForgetKeeps DEF Reset, Forget
<1>4. CASE Tick
  BY <1>1, <1>4, ClockKeeps DEF Tick
<1>5. CASE StepBack
  BY <1>1, <1>5, ClockKeeps DEF StepBack
<1>6. CASE UNCHANGED vars
  BY <1>1, <1>6, ClockKeeps DEF vars
<1> QED
  BY <1>2, <1>3, <1>4, <1>5, <1>6 DEF Next

LEMMA MemoryInvAlways == Spec => []MemoryInv
<1>1. Init => MemoryInv
  <2> SUFFICES ASSUME Init PROVE MemoryInv
    OBVIOUS
  <2>1. ASSUME NEW s \in Subject
        PROVE  /\ log[s] = <<>> /\ known[s] = Unseen
               /\ Logged(s) = 0 /\ Held(s) = 0 /\ Dropped(s) = 0 /\ Failed(s) = {}
    BY DEF Init, Logged, Held, Dropped, Failed, Unseen
  <2>2. MemoryTyped
    <3>1. Unseen \in Memory
      BY DEF Unseen, Memory
    <3>2. DOMAIN reported = Subject
      BY DEF Init
    <3>3. known \in [Subject -> Memory]
      BY <3>1 DEF Init
    <3>4. log \in [Subject -> Seq(Event)]
      BY DEF Init
    <3> QED
      BY <3>2, <3>3, <3>4 DEF Init, MemoryTyped
  <2>3. ASSUME NEW s \in Subject
        PROVE  EndOfLog(s) /\ InOrder(s) /\ Counted(s) /\ Enrolled(s)
    <3>1. EndOfLog(s)
      BY <2>1, WindowAssumption DEF EndOfLog
    <3>2. InOrder(s)
      BY <2>1 DEF InOrder
    <3>3. known[s].total = 0 /\ known[s].failures = 0 /\ known[s].fps = {}
      BY <2>1 DEF Unseen
    <3>4. Counted(s)
      BY <2>1, <3>3, FS_EmptySet DEF Counted
    <3>5. Enrolled(s)
      BY <2>1, <3>3 DEF Enrolled
    <3> QED
      BY <3>1, <3>2, <3>4, <3>5
  <2> QED
    BY <2>2, <2>3 DEF MemoryInv
<1>2. MemoryInv /\ [Next]_vars => MemoryInv'
  BY MemoryKept
<1> QED
  BY <1>1, <1>2, PTL DEF Spec

-----------------------------------------------------------------------------
(* What is reported. *)

(* A step as one subject sees it: one of its events is collected, nothing of *)
(* it changes, or it is forgotten.                                           *)
CollectedFor(s, e) ==
  /\ e.ts = wall /\ stepped' = stepped
  /\ log'[s] = Append(log[s], e) /\ known'[s] = Remember(known[s], e)
  /\ reported'[s] = SignalsOf(known[s], e)

LeftAlone(s) ==
  log'[s] = log[s] /\ reported'[s] = reported[s] /\ (~stepped' => ~stepped)

Forgotten(s) == log'[s] = <<>> /\ reported'[s] = Steady

LEMMA SubjectSteps ==
  ASSUME MemoryInv, [Next]_vars, NEW q \in Subject
  PROVE  (\E e \in Event : CollectedFor(q, e)) \/ LeftAlone(q) \/ Forgotten(q)
<1>1. ASSUME NEW s \in Subject, NEW geo \in Geo, NEW session \in Session,
             NEW fp \in Fp, NEW failed \in BOOLEAN, Collect(s, geo, session, fp, failed)
      PROVE  (\E e \in Event : CollectedFor(q, e)) \/ LeftAlone(q)
  <2> DEFINE e == EventAt(geo, session, fp, failed)
  <2> HIDE DEF e
  <2>1. /\ e \in Event /\ e.ts = wall /\ stepped' = stepped
        /\ log'[s] = Append(log[s], e) /\ known'[s] = Remember(known[s], e)
        /\ reported'[s] = SignalsOf(known[s], e)
        /\ \A p \in Subject : p # s => log'[p] = log[p] /\ reported'[p] = reported[p]
    BY <1>1, Collected DEF e
  <2>2. CASE q = s
    BY <2>1, <2>2 DEF CollectedFor
  <2>3. CASE q # s
    BY <2>1, <2>3 DEF LeftAlone
  <2> QED
    BY <2>2, <2>3
<1>2. CASE Reset
  BY <1>2 DEF Reset, Forget, Forgotten
<1>3. CASE Tick \/ StepBack \/ UNCHANGED vars
  BY <1>3 DEF Tick, StepBack, vars, LeftAlone
<1> QED
  BY <1>1, <1>2, <1>3 DEF Next

LEMMA LatestIs ==
  ASSUME MemoryInv, NEW s \in Subject, NEW e \in Event, log'[s] = Append(log[s], e)
  PROVE  /\ Len(log'[s]) = Logged(s) + 1 /\ Latest(s)' = e
         /\ log'[s] # <<>>
         /\ Logged(s) > 0 => Previous(s)' = log[s][Logged(s)] /\ log'[s][1] = log[s][1]
         /\ Logged(s) = 0 => log'[s][1] = e
<1>1. Logged(s) \in Nat
  BY LogTyped DEF MemoryInv
<1>2. /\ log'[s] \in Seq(Event)
      /\ Len(log'[s]) = Logged(s) + 1
      /\ \A i \in 1..Logged(s) : log'[s][i] = log[s][i]
      /\ log'[s][Logged(s) + 1] = e
  BY LogGrows DEF Logged
<1>3. log'[s] # <<>>
  BY <1>1, <1>2, EmptySeq
<1>4. Latest(s)' = e
  BY <1>2 DEF Latest
<1>5. Len(log'[s]) - 1 = Logged(s)
  BY <1>1, <1>2
<1>6. Logged(s) > 0 => Logged(s) \in 1..Logged(s) /\ 1 \in 1..Logged(s)
  BY <1>1
<1>7. Logged(s) > 0 => Previous(s)' = log[s][Logged(s)] /\ log'[s][1] = log[s][1]
  BY <1>2, <1>5, <1>6 DEF Previous
<1>8. Logged(s) = 0 => log'[s][1] = e
  BY <1>2
<1> QED
  BY <1>2, <1>3, <1>4, <1>7, <1>8

(* A fingerprint is stable exactly when it is that of the subject's first    *)
(* event: telemetry.collect enrols one fingerprint, and nothing later, good  *)
(* or failed, of this subject or another, replaces it or adds a second.      *)
THEOREM FirstFpStays == Spec => []BaselineIsFirstFp
<1> DEFINE Stable(s) ==
             log[s] # <<>> => (reported[s].fpStable <=> Latest(s).fp = log[s][1].fp)
<1>1. Init => BaselineIsFirstFp
  BY DEF Init, BaselineIsFirstFp
<1>2. BaselineIsFirstFp /\ MemoryInv /\ [Next]_vars => BaselineIsFirstFp'
  <2> SUFFICES ASSUME BaselineIsFirstFp, MemoryInv, [Next]_vars, NEW s \in Subject
               PROVE  Stable(s)'
    BY DEF BaselineIsFirstFp
  <2>1. CASE \E e \in Event : CollectedFor(s, e)
    <3>1. PICK e \in Event : CollectedFor(s, e)
      BY <2>1
    <3>2. reported'[s].fpStable <=> known[s].fps = {} \/ e.fp \in known[s].fps
      <4>1. reported'[s].fpStable = FpStable(known[s], e.fp)
        BY <3>1 DEF CollectedFor, SignalsOf
      <4> QED
        BY <4>1 DEF FpStable
    <3>3. Enrolled(s) /\ Logged(s) \in Nat
      BY LogTyped DEF MemoryInv
    <3>4. /\ Latest(s)' = e
          /\ Logged(s) > 0 => log'[s][1] = log[s][1]
          /\ Logged(s) = 0 => log'[s][1] = e
      BY <3>1, LatestIs DEF CollectedFor
    <3>5. CASE Logged(s) = 0
      BY <3>2, <3>3, <3>4, <3>5 DEF Enrolled
    <3>6. CASE Logged(s) > 0
      BY <3>2, <3>3, <3>4, <3>6 DEF Enrolled
    <3> QED
      BY <3>3, <3>5, <3>6
  <2>2. CASE LeftAlone(s)
    BY <2>2 DEF LeftAlone, BaselineIsFirstFp, Latest
  <2>3. CASE Forgotten(s)
    BY <2>3 DEF Forgotten
  <2> QED
    BY <2>1, <2>2, <2>3, SubjectSteps
<1> QED
  BY <1>1, <1>2, MemoryInvAlways, PTL DEF Spec

(* The reported failure rate counts every event since the reset: neither a   *)
(* good proof, nor the window, nor the deque's length takes a failure back   *)
(* out of telemetry.collect's two counters.                                  *)
THEOREM FailuresAreKept == Spec => []FailureRateIsCumulative
<1> DEFINE Rate(s) ==
             log[s] # <<>> =>
               reported[s].failureRate = Thousandths(Cardinality(Failed(s)), Logged(s))
<1>1. Init => FailureRateIsCumulative
  BY DEF Init, FailureRateIsCumulative
<1>2. FailureRateIsCumulative /\ MemoryInv /\ [Next]_vars => FailureRateIsCumulative'
  <2> SUFFICES ASSUME FailureRateIsCumulative, MemoryInv, [Next]_vars, NEW s \in Subject
               PROVE  Rate(s)'
    BY DEF FailureRateIsCumulative, Failed, Logged
  <2>1. CASE \E e \in Event : CollectedFor(s, e)
    <3>1. PICK e \in Event : CollectedFor(s, e)
      BY <2>1
    <3>2. reported'[s].failureRate = Thousandths(NewFailures(known[s], e), NewTotal(known[s], e))
      BY <3>1 DEF CollectedFor, SignalsOf
    <3>3. Counted(s)'
      BY <3>1, CountsKept DEF CollectedFor
    <3>4. /\ known'[s].failures = NewFailures(known[s], e)
          /\ known'[s].total = NewTotal(known[s], e)
      BY <3>1 DEF CollectedFor, Remember
    <3> QED
      BY <3>2, <3>3, <3>4 DEF Counted
  <2>2. CASE LeftAlone(s)
    BY <2>2 DEF LeftAlone, FailureRateIsCumulative, Failed, Logged
  <2>3. CASE Forgotten(s)
    BY <2>3 DEF Forgotten
  <2> QED
    BY <2>1, <2>2, <2>3, SubjectSteps
<1> QED
  BY <1>1, <1>2, MemoryInvAlways, PTL DEF Spec

(* What one event's velocity says about the event before it. *)
LEMMA VelocityReported ==
  ASSUME MemoryInv, NEW s \in Subject, NEW e \in Event, CollectedFor(s, e),
         NEW last, last = log[s][Logged(s)]
  PROVE  /\ reported'[s].geoVelocity > 500 => Logged(s) > 0 /\ last.geo # e.geo
         /\ Logged(s) > 0 /\ last.geo # e.geo /\ e.ts - last.ts <= Window
              => reported'[s].geoVelocity > 500
         /\ reported'[s].geoVelocity > 500 /\ ~stepped => e.ts - last.ts <= Window
<1> DEFINE h == Seen(s)
           p == SeenOf(s)
<1>1. /\ h \in Seq(Entries) /\ p = Len(h) /\ p \in Nat /\ First(s) \in Nat
      /\ \A i \in 1..p : h[i] = Entry(log[s][First(s) + i])
      /\ \A i \in (Dropped(s) + 1)..First(s) : Expired(log[s][i], wall)
      /\ p > 0 => ~Expired(log[s][First(s) + 1], wall)
  BY SeenIsRecent DEF SeenOf
<1>2. /\ Logged(s) \in Nat /\ Held(s) \in Nat /\ wall \in Nat /\ e.ts = wall
      /\ Dropped(s) = Logged(s) - Held(s) /\ First(s) = Logged(s) - p
      /\ Logged(s) > 0 => Held(s) > 0
      /\ \A i \in 1..Logged(s) : log[s][i].ts \in Int
  BY LogTyped DEF MemoryInv, MemoryTyped, EndOfLog, Dropped, First, CollectedFor
<1>3. reported'[s].geoVelocity =
        IF RegionChanged(h, e.geo) THEN ImpliedVelocity(e.ts - h[Len(h)].ts) ELSE 0
  BY <1>2 DEF CollectedFor, SignalsOf, Seen
<1>4. h # <<>> <=> p > 0
  BY <1>1, EmptySeq
<1> HIDE DEF h, p
<1>5. First(s) + p = Logged(s) /\ (p > 0 => Logged(s) > 0)
  BY <1>1, <1>2
<1>6. p > 0 => h[p] = Entry(last)
  <2>1. p > 0 => p \in 1..p
    BY <1>1
  <2> QED
    BY <1>1, <1>5, <2>1
<1>7. p > 0 => h[Len(h)].ts = last.ts /\ h[Len(h)].geo = last.geo
  BY <1>1, <1>6 DEF Entry
<1>8. RegionChanged(h, e.geo) <=> p > 0 /\ last.geo # e.geo
  BY <1>4, <1>7 DEF RegionChanged
<1>9. Logged(s) > 0 => last.ts \in Int
  <2>1. Logged(s) > 0 => Logged(s) \in 1..Logged(s)
    BY <1>2
  <2> QED
    BY <1>2, <2>1
<1>10. reported'[s].geoVelocity > 500 => p > 0 /\ last.geo # e.geo
  BY <1>3, <1>8
<1>11. ASSUME Logged(s) > 0, last.geo # e.geo, e.ts - last.ts <= Window
       PROVE  reported'[s].geoVelocity > 500
  <2>1. ~Expired(last, wall)
    <3>1. last.ts \in Int /\ wall \in Int /\ Window \in Int /\ e.ts = wall
      BY <1>2, <1>9, <1>11, WindowAssumption
    <3> QED
      BY <1>11, <3>1 DEF Expired
  <2>2. p > 0
    <3> SUFFICES ASSUME ~(p > 0) PROVE FALSE
      OBVIOUS
    <3>1. Logged(s) \in (Dropped(s) + 1)..First(s)
      <4>1. p = 0 /\ Held(s) > 0
        BY <1>1, <1>2, <1>11
      <4> QED
        BY <1>2, <4>1
    <3> QED
      BY <1>1, <2>1, <3>1
  <2>3. reported'[s].geoVelocity = ImpliedVelocity(e.ts - last.ts)
    BY <1>3, <1>7, <1>8, <1>11, <2>2
  <2>4. e.ts - last.ts \in Int
    BY <1>2, <1>9, <1>11
  <2> QED
    BY <1>11, <2>3, <2>4, ChangeIsFast
<1>12. ASSUME reported'[s].geoVelocity > 500, ~stepped PROVE e.ts - last.ts <= Window
  <2> DEFINE head == log[s][First(s) + 1]
  <2>1. p > 0 /\ InOrder(s)
    BY <1>10, <1>12 DEF MemoryInv
  <2>2. First(s) + 1 \in 1..Logged(s) /\ Logged(s) \in 1..Logged(s)
        /\ First(s) + 1 <= Logged(s)
    BY <1>1, <1>2, <1>5, <2>1
  <2>3. head.ts \in Int /\ head.ts <= last.ts
    BY <1>2, <2>1, <2>2 DEF InOrder
  <2>4. ~(wall - head.ts > Window)
    BY <1>1, <2>1 DEF Expired
  <2> HIDE DEF head
  <2>5. last.ts \in Int /\ wall \in Int /\ Window \in Int /\ e.ts = wall
    BY <1>2, <1>5, <1>9, <2>1, WindowAssumption
  <2> QED
    BY <2>3, <2>4, <2>5
<1> QED
  BY <1>5, <1>10, <1>11, <1>12

(* Rule R3 fires for a change of region between two events at most Window    *)
(* seconds apart, and, while the wall clock was not set back, for nothing    *)
(* else: what telemetry.collect compares with is the subject's last event.   *)
THEOREM VelocityIsRegionChange == Spec => []VelocityMeansRegionChange
<1> DEFINE Moved(s) == Len(log[s]) > 1 /\ Latest(s).geo # Previous(s).geo
           Fires(s) == reported[s].geoVelocity > 500
           Near(s)  == Latest(s).ts - Previous(s).ts <= Window
           Fair(s)  == /\ Fires(s) => Moved(s)
                       /\ Moved(s) /\ Near(s) => Fires(s)
                       /\ Fires(s) /\ ~stepped => Near(s)
<1>0. VelocityMeansRegionChange <=> \A s \in Subject : Fair(s)
  BY DEF VelocityMeansRegionChange
<1>1. Init => VelocityMeansRegionChange
  <2> SUFFICES ASSUME Init, NEW s \in Subject PROVE Fair(s)
    BY <1>0
  <2>1. log[s] = <<>> /\ reported[s].geoVelocity = 0
    BY DEF Init, Steady
  <2> QED
    BY <2>1
<1>2. VelocityMeansRegionChange /\ MemoryInv /\ [Next]_vars => VelocityMeansRegionChange'
  <2> SUFFICES ASSUME VelocityMeansRegionChange, MemoryInv, [Next]_vars, NEW s \in Subject
               PROVE  Fair(s)'
    BY <1>0 DEF VelocityMeansRegionChange
  <2>1. CASE \E e \in Event : CollectedFor(s, e)
    <3>1. PICK e \in Event : CollectedFor(s, e)
      BY <2>1
    <3> DEFINE last == log[s][Logged(s)]
    <3>2. /\ Len(log'[s]) = Logged(s) + 1 /\ Latest(s)' = e /\ stepped' = stepped
          /\ Logged(s) > 0 => Previous(s)' = last
      BY <3>1, LatestIs DEF CollectedFor
    <3>3. Logged(s) \in Nat
      BY LogTyped DEF MemoryInv
    <3>4. /\ Fires(s)' => Logged(s) > 0 /\ last.geo # e.geo
          /\ Logged(s) > 0 /\ last.geo # e.geo /\ e.ts - last.ts <= Window => Fires(s)'
          /\ Fires(s)' /\ ~stepped => e.ts - last.ts <= Window
      BY <3>1, VelocityReported
    <3>5. Moved(s)' <=> Logged(s) > 0 /\ last.geo # e.geo
      BY <3>2, <3>3
    <3>6. Logged(s) > 0 => (Near(s)' <=> e.ts - last.ts <= Window)
      BY <3>2
    <3> HIDE DEF Fires, Moved, Near, last
    <3> QED
      BY <3>2, <3>3, <3>4, <3>5, <3>6
  <2>2. CASE LeftAlone(s)
    BY <2>2, <1>0 DEF LeftAlone, Latest, Previous
  <2>3. CASE Forgotten(s)
    <3>1. log'[s] = <<>> /\ reported'[s].geoVelocity = 0
      BY <2>3 DEF Forgotten, Steady
    <3> QED
      BY <3>1
  <2> QED
    BY <2>1, <2>2, <2>3, SubjectSteps
<1> QED
  BY <1>1, <1>2, MemoryInvAlways, PTL DEF Spec

(* While the wall clock was not set back, what the next request is compared  *)
(* with is exactly the subject's traffic of the last Window seconds, at most *)
(* the MaxLen latest events of it: pruning telemetry's deque from its head,  *)
(* and only when a request comes, is enough.                                 *)
THEOREM HistoryIsRecent == Spec => []HistoryIsWindow
<1>1. ASSUME MemoryInv PROVE HistoryIsWindow
  <2> SUFFICES ASSUME ~stepped, NEW s \in Subject
               PROVE  /\ SeenOf(s) = Cardinality(InLastWindow(s))
                      /\ \A i \in InLastWindow(s) :
                           Seen(s)[Cardinality({k \in InLastWindow(s) : k <= i})]
                             = Entry(log[s][i])
    BY DEF HistoryIsWindow, Seen, SeenOf
  <2> DEFINE n == Logged(s)
             p == SeenOf(s)
             fresh == {i \in 1..n : wall - log[s][i].ts <= Window}
             kept == InLastWindow(s)
  <2>1. /\ n \in Nat /\ p \in Nat /\ First(s) \in Nat /\ p <= MaxLen
        /\ First(s) = n - p /\ wall \in Int /\ MaxLen \in Nat /\ Window \in Int
    BY <1>1, LogTyped, SeenIsRecent, WindowAssumption
    DEF MemoryInv, MemoryTyped, First
  <2>2. \A i \in 1..p : Seen(s)[i] = Entry(log[s][First(s) + i])
    BY <1>1, SeenIsRecent
  <2>3. ASSUME NEW i \in 1..n PROVE i \in fresh <=> ~Expired(log[s][i], wall)
    <3>1. log[s][i].ts \in Int
      BY <1>1, LogTyped DEF MemoryInv
    <3> QED
      BY <2>1, <3>1 DEF Expired
  <2>4. ASSUME NEW i \in (First(s) + 1)..n PROVE i \in fresh
    <3>1. p > 0 /\ First(s) + 1 \in 1..n /\ i \in 1..n /\ First(s) + 1 <= i
      BY <2>1
    <3>2. ~Expired(log[s][First(s) + 1], wall)
      BY <1>1, <3>1, SeenIsRecent
    <3>3. log[s][First(s) + 1].ts <= log[s][i].ts
      BY <1>1, <3>1 DEF MemoryInv, InOrder
    <3>4. log[s][First(s) + 1].ts \in Int /\ log[s][i].ts \in Int
      BY <1>1, <3>1, LogTyped DEF MemoryInv
    <3> QED
      BY <2>1, <3>1, <3>2, <3>3, <3>4 DEF Expired
  <2>5. p = MaxLen \/ \A i \in 1..First(s) : i \notin fresh
    <3>1. p = MaxLen \/ \A i \in 1..First(s) : Expired(log[s][i], wall)
      BY <1>1, UnseenExpired DEF MemoryInv
    <3>2. \A i \in 1..First(s) : i \in 1..n
      BY <2>1
    <3> QED
      BY <2>3, <3>1, <3>2
  <2>6. kept = {i \in fresh : Cardinality({k \in fresh : k > i}) < MaxLen}
    BY DEF InLastWindow, Logged
  <2>7. fresh \in SUBSET (1..n)
    OBVIOUS
  <2> HIDE DEF fresh, kept, n, p
  <2>8. ASSUME NEW i \in (First(s) + 1)..n PROVE i \in kept
    <3>1. {k \in fresh : k > i} = (i + 1)..n
      <4>1. ASSUME NEW k \in fresh, k > i PROVE k \in (i + 1)..n
        BY <2>1, <2>7, <4>1
      <4>2. ASSUME NEW k \in (i + 1)..n PROVE k \in fresh /\ k > i
        <5>1. k \in (First(s) + 1)..n /\ k > i
          BY <2>1, <4>2
        <5> QED
          BY <2>4, <5>1
      <4> QED
        BY <4>1, <4>2
    <3>2. Cardinality((i + 1)..n) = n - i
      BY <2>1, FS_Interval
    <3>3. n - i < MaxLen
      BY <2>1
    <3> QED
      BY <2>4, <2>6, <3>1, <3>2, <3>3
  <2>9. ASSUME NEW i \in kept PROVE i \in (First(s) + 1)..n
    <3> SUFFICES ASSUME i \notin (First(s) + 1)..n PROVE FALSE
      OBVIOUS
    <3>1. i \in fresh /\ i \in 1..First(s)
      BY <2>1, <2>6, <2>7
    <3>2. p = MaxLen
      BY <2>5, <3>1
    <3>3. (First(s) + 1)..n \in SUBSET {k \in fresh : k > i}
      BY <2>1, <2>4, <3>1
    <3>4. IsFiniteSet({k \in fresh : k > i})
      <4>1. {k \in fresh : k > i} \in SUBSET (1..n)
        BY <2>7
      <4>2. IsFiniteSet(1..n)
        BY <2>1, FS_Interval
      <4> DEFINE later == {k \in fresh : k > i}
      <4> HIDE DEF later
      <4>3. IsFiniteSet(later)
        BY <4>1, <4>2, FS_Subset DEF later
      <4> QED
        BY <4>3 DEF later
    <3>5. /\ Cardinality((First(s) + 1)..n) = p
          /\ Cardinality({k \in fresh : k > i}) \in Nat
      BY <2>1, <3>4, FS_Interval, FS_CardinalityType
    <3>6. Cardinality((First(s) + 1)..n) <= Cardinality({k \in fresh : k > i})
      BY <3>3, <3>4, FS_Subset
    <3>7. Cardinality({k \in fresh : k > i}) < MaxLen
      BY <2>6
    <3> QED
      BY <2>1, <3>2, <3>5, <3>6, <3>7
  <2>10. kept = (First(s) + 1)..n
    BY <2>8, <2>9
  <2>11. Cardinality(kept) = p
    BY <2>1, <2>10, FS_Interval
  <2>12. ASSUME NEW i \in kept
         PROVE  Seen(s)[Cardinality({k \in kept : k <= i})] = Entry(log[s][i])
    <3>1. {k \in kept : k <= i} = (First(s) + 1)..i
      BY <2>1, <2>10
    <3>2. i \in (First(s) + 1)..n
      BY <2>10
    <3>3. Cardinality((First(s) + 1)..i) = i - First(s)
      BY <2>1, <3>2, FS_Interval
    <3>4. i - First(s) \in 1..p /\ First(s) + (i - First(s)) = i
      BY <2>1, <3>2
    <3> QED
      BY <2>2, <3>1, <3>3, <3>4
  <2> QED
    BY <2>11, <2>12 DEF kept, p
<1> QED
  BY <1>1, MemoryInvAlways, PTL
=============================================================================
