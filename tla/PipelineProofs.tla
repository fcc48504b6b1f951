-------------------------- MODULE PipelineProofs --------------------------
(***************************************************************************)
(* Proofs about the two machines that drive Pipeline: one invocation of the *)
(* attack runner, for any cell, sizes, latency and number of outages, and   *)
(* the load generator, for any cell, number of users and of requests.  They *)
(* share the lemmas about Pipeline and the telemetry.                       *)
(***************************************************************************)
EXTENDS AttackSuite, LoadGen, FiniteSetTheorems, SequenceTheorems, TLAPS

Seven == {"A1", "A2", "A3", "A4", "A5", "A6", "A7"}

(* The values of pc at which an attack is under way. *)
Busy == {"reset", "login", "warm_up", "attack"}

-----------------------------------------------------------------------------
(* Sequences whose elements nothing is known of. *)
IsSequence(s) == s \in Seq({s[i] : i \in DOMAIN s})

(* Appending keeps what is there and puts one element behind it. *)
LEMMA Appended ==
  ASSUME NEW s, IsSequence(s), NEW e
  PROVE  /\ IsSequence(Append(s, e))
         /\ Len(s) \in Nat /\ DOMAIN s = 1..Len(s)
         /\ DOMAIN Append(s, e) = 1..(Len(s) + 1)
         /\ Len(Append(s, e)) = Len(s) + 1
         /\ \A i \in 1..Len(s) : Append(s, e)[i] = s[i]
         /\ Append(s, e)[Len(s) + 1] = e
<1> DEFINE S == {s[i] : i \in DOMAIN s} \cup {e}
           q == Append(s, e)
<1>1. s \in Seq({s[i] : i \in DOMAIN s})
  BY DEF IsSequence
<1>2. Len(s) \in Nat /\ DOMAIN s = 1..Len(s) /\ \A i \in 1..Len(s) : s[i] \in S
  BY <1>1, LenProperties
<1>3. s \in Seq(S)
  BY <1>1, <1>2, LenProperties
<1> HIDE DEF S
<1>4. e \in S
  BY DEF S
<1>5. /\ q \in Seq(S) /\ Len(q) = Len(s) + 1
      /\ \A i \in 1..Len(s) : q[i] = s[i]
      /\ q[Len(s) + 1] = e
  BY <1>3, <1>4, AppendProperties
<1>6. DOMAIN q = 1..(Len(s) + 1) /\ q = [i \in 1..Len(q) |-> q[i]]
  BY <1>5, LenProperties
<1> HIDE DEF q
<1>7. q \in Seq({q[i] : i \in DOMAIN q})
  BY <1>2, <1>5, <1>6
<1> QED
  BY <1>2, <1>5, <1>6, <1>7 DEF IsSequence, q

-----------------------------------------------------------------------------
(* The order of the attacks. *)

(* Each attack has a place of its own. *)
LEMMA PlacesDiffer ==
  /\ \A a \in Seven : Place[a] \in Nat
  /\ \A a, b \in Seven : Place[a] = Place[b] => a = b
BY DEF Place, Seven

(* While attacks are left, the current one is the first of them. *)
LEMMA AttackIsFirst ==
  ASSUME todo \subseteq Seven, todo # {}
  PROVE  /\ Attack \in todo /\ Attack \in Seven
         /\ \A b \in todo : b # Attack => Place[Attack] < Place[b]
<1>1. \E a \in todo : \A b \in todo : Place[a] <= Place[b]
  <2> SUFFICES ASSUME \A a \in todo : \E b \in todo : ~(Place[a] <= Place[b])
               PROVE  FALSE
    OBVIOUS
  <2>1. /\ Place["A1"] = 1 /\ Place["A2"] = 2 /\ Place["A3"] = 3 /\ Place["A4"] = 4
        /\ Place["A5"] = 5 /\ Place["A6"] = 6 /\ Place["A7"] = 7
    BY DEF Place
  <2>2. todo \cap {"A1", "A2"} = {}
    BY <2>1 DEF Seven
  <2>3. todo \cap {"A3", "A4"} = {}
    BY <2>1, <2>2 DEF Seven
  <2>4. todo \cap {"A5", "A6"} = {}
    BY <2>1, <2>2, <2>3 DEF Seven
  <2>5. todo = {"A7"}
    BY <2>2, <2>3, <2>4 DEF Seven
  <2> QED
    BY <2>1, <2>5
<1>2. Attack \in todo /\ \A b \in todo : Place[Attack] <= Place[b]
  BY <1>1 DEF Attack
<1> QED
  BY <1>2, PlacesDiffer

(* A cell runs A1 to A6, A7 alone, or no attack: all among the seven. *)
LEMMA CellRuns ==
  ASSUME NEW c \in CellNames
  PROVE  Cells[c].attacks \in {Primary, {"A7"}, {}}
BY DEF CellNames, Cells, AttackCell, LoadCell, AdaptiveCell, OracleCell, AblationCell, Cell

LEMMA CellAttacks ==
  ASSUME NEW c \in CellNames
  PROVE  Cells[c].attacks \subseteq Seven
BY CellRuns DEF Primary, Seven

-----------------------------------------------------------------------------
(* What a request leaves behind. *)

(* Only an allowed request is answered "served". *)
LEMMA ServedIsAllowed ==
  ASSUME NEW q, CauseFor(q) = "served"
  PROVE  DecisionFor(q) = "ALLOW"
<1>1. ProofRefusal(q) \in {"none", "jkt", "stale", "replay"}
  BY DEF ProofRefusal
<1>2. DecisionFor(q) \in Decision
  BY DEF DecisionFor, FromOpa, Decision
<1>3. DecisionFor(q) \notin {"CHALLENGE", "DENY"}
  BY <1>1 DEF CauseFor
<1> QED
  BY <1>2, <1>3 DEF Decision

(* A request writes no record, and then nobody answers it, or one, under    *)
(* its attack id.  A 200 that the client sees is recorded as data that came *)
(* back, and what is so recorded the client saw, unless it had given up.    *)
LEMMA SendRecords ==
  ASSUME NEW CONSTANT q, Send(q)
  PROVE  \/ log' = log /\ Answer(q) = "unheard"
         \/ \E r : /\ log' = Append(log, r)
                   /\ r.attack = q.attack
                   /\ r.succeeded \in BOOLEAN
                   /\ Answer(q) = "served" => r.succeeded
                   /\ r.succeeded => Answer(q) \in {"served", "unheard"}
<1>1. CASE Unreached(q)
  <2>1. CASE down = "controller" /\ UNCHANGED log
    <3>1. Unheard(q) /\ log' = log
      BY <2>1 DEF Unheard
    <3>2. Answer(q) = "unheard"
      BY <3>1 DEF Answer
    <3> QED
      BY <3>1, <3>2
  <2>2. CASE (NoKeys \/ TokenExpired) /\ log' = Append(log, TokenRefused(q))
    <3>1. TokenRefused(q).attack = q.attack /\ TokenRefused(q).succeeded = FALSE
      BY DEF TokenRefused, RecordFor
    <3>2. Answer(q) \in {"unheard", "no_keys", "expired"}
      BY <2>2 DEF Answer
    <3> QED
      BY <2>2, <3>1, <3>2
  <2> QED
    BY <1>1, <2>1, <2>2 DEF Unreached
<1>2. CASE Handled(q)
  <2> DEFINE r == Recorded(q)
  <2>1. log' = Append(log, r)
    BY <1>2 DEF Handled, Collected
  <2>2. r.attack = q.attack
        /\ r.succeeded = (DecisionFor(q) = "ALLOW" /\ CauseFor(q) = "served")
    BY DEF Recorded, RecordFor
  <2>3. ~NoKeys /\ ~TokenExpired
    BY <1>2 DEF Handled, Collected
  <2>4. Answer(q) = IF Unheard(q) THEN "unheard" ELSE CauseFor(q)
    BY <2>3 DEF Answer
  <2> HIDE DEF r
  <2>5. r.succeeded \in BOOLEAN
    BY <2>2
  <2>6. Answer(q) = "served" => r.succeeded
    BY <2>2, <2>4, ServedIsAllowed
  <2>7. r.succeeded => Answer(q) \in {"served", "unheard"}
    BY <2>2, <2>4
  <2> QED
    BY <2>1, <2>2, <2>5, <2>6, <2>7
<1> QED
  BY <1>1, <1>2 DEF Send

-----------------------------------------------------------------------------
(* The records of an attack that tell of data that came back. *)
Came(s, a) == {i \in DOMAIN s : s[i].attack = a /\ s[i].succeeded}

(* One more record is one more of them, or none. *)
LEMMA CameAppended ==
  ASSUME NEW s, IsSequence(s), NEW r, NEW a, r.succeeded \in BOOLEAN,
         IsFiniteSet(Came(s, a))
  PROVE  LET t == Append(s, r)
         IN /\ IsFiniteSet(Came(t, a))
            /\ Cardinality(Came(s, a)) \in Nat
            /\ Cardinality(Came(t, a)) =
                 Cardinality(Came(s, a)) + (IF r.attack = a /\ r.succeeded THEN 1 ELSE 0)
            /\ r.attack # a => Came(t, a) = Came(s, a)
<1> DEFINE t == Append(s, r)
           m == Len(s) + 1
<1>1. /\ Len(s) \in Nat /\ DOMAIN s = 1..Len(s) /\ DOMAIN t = 1..m
      /\ \A i \in 1..Len(s) : t[i] = s[i]
      /\ t[m] = r
  BY Appended
<1> HIDE DEF t
<1>2. m \notin Came(s, a)
  BY <1>1 DEF Came
<1>3. \A i : i \in 1..m <=> i \in 1..Len(s) \/ i = m
  BY <1>1
<1> HIDE DEF m
<1>4. Came(t, a) = IF r.attack = a /\ r.succeeded THEN Came(s, a) \cup {m} ELSE Came(s, a)
  BY <1>1, <1>3 DEF Came
<1>5. Cardinality(Came(s, a)) \in Nat
  BY FS_CardinalityType
<1>6. IsFiniteSet(Came(s, a) \cup {m})
      /\ Cardinality(Came(s, a) \cup {m}) = Cardinality(Came(s, a)) + 1
  BY <1>2, FS_AddElement
<1> QED
  BY <1>4, <1>5, <1>6 DEF t

-----------------------------------------------------------------------------
(* What one attempt does to the result. *)
Fields == {"attack", "config", "attempts", "successes", "errors", "detected",
           "stage", "first"}

LEMMA TalliedFields ==
  ASSUME NEW r, DOMAIN r = Fields, r.attempts \in Nat, r.successes \in Nat,
         r.errors \in Nat, r.detected \in BOOLEAN, NEW cause
  PROVE  LET t == Tallied(r, cause)
         IN /\ DOMAIN t = Fields /\ t.attack = r.attack
            /\ t.attempts = r.attempts + 1
            /\ t.successes = r.successes + (IF cause = "served" THEN 1 ELSE 0)
            /\ t.errors = r.errors + (IF cause = "unheard" THEN 1 ELSE 0)
            /\ t.detected = (r.detected \/ cause \notin {"served", "unheard"})
<1>1. {"attack", "attempts", "successes", "errors", "detected", "stage", "first"}
        \subseteq DOMAIN r
  BY DEF Fields
<1>2. CASE cause = "unheard"
  <2> DEFINE t == [r EXCEPT !.attempts = @ + 1, !.errors = @ + 1]
  <2>1. Tallied(r, cause) = t
    BY <1>2 DEF Tallied
  <2>2. /\ DOMAIN t = Fields /\ t.attack = r.attack /\ t.attempts = r.attempts + 1
        /\ t.successes = r.successes /\ t.errors = r.errors + 1 /\ t.detected = r.detected
    BY <1>1
  <2> HIDE DEF t
  <2> QED
    BY <1>2, <2>1, <2>2
<1>3. CASE cause # "unheard"
  <2> DEFINE t == [r EXCEPT !.attempts = @ + 1,
                   !.successes = IF cause = "served" THEN @ + 1 ELSE @,
                   !.detected = @ \/ cause # "served",
                   !.stage = IF r.detected \/ cause = "served"
                             THEN @ ELSE StageFor(r.attack, cause),
                   !.first = IF r.detected \/ cause = "served" THEN @ ELSE cause]
  <2>1. Tallied(r, cause) = t
    BY <1>3 DEF Tallied
  <2>2. DOMAIN t = Fields /\ t.attack = r.attack /\ t.attempts = r.attempts + 1
        /\ t.errors = r.errors
    BY <1>1
  <2>3. t.successes = IF cause = "served" THEN r.successes + 1 ELSE r.successes
    BY <1>1
  <2>4. t.detected = (r.detected \/ cause # "served")
    BY <1>1
  <2> HIDE DEF t
  <2> QED
    BY <1>3, <2>1, <2>2, <2>3, <2>4
<1> QED
  BY <1>2, <1>3

-----------------------------------------------------------------------------
(* The steps of the runner that matter here.  Only Save and Prepare move on *)
(* in the list of attacks; whatever pc becomes, work is left while it is    *)
(* one of Busy.                                                             *)
StageInv ==
  /\ suite \in Suites /\ cell = suite.cell
  /\ n \in Nat
  /\ todo \subseteq Selected
  /\ pc \in Busy => todo # {}
  /\ pc = "summarise" => todo = {}
  /\ pc \in Busy \cup {"summarise", "done", "aborted"}

LEMMA SelectedIsSome ==
  ASSUME suite \in Suites, cell = suite.cell
  PROVE  /\ Selected \subseteq Seven /\ Selected # {}
         /\ suite.repetitions \in Nat \ {0} /\ suite.warmUps \in Nat /\ suite.latency \in Nat
<1>1. /\ suite.cell \in {c \in CellNames : Cells[c].attacks # {}}
      /\ suite.repetitions \in Nat \ {0} /\ suite.warmUps \in Nat /\ suite.latency \in Nat
  BY SuiteAssumption
<1> QED
  BY <1>1, CellAttacks DEF Selected

LEMMA StageInitial ==
  ASSUME Init
  PROVE  StageInv
BY SelectedIsSome DEF Init, StageInv, Busy

LEMMA AttackAtHand ==
  ASSUME StageInv, pc \in Busy
  PROVE  /\ Attack \in todo /\ Attack \in Seven /\ Attack # NotAttack
         /\ \A b \in todo : b # Attack => Place[Attack] < Place[b]
<1>1. todo \subseteq Seven /\ todo # {}
  BY SelectedIsSome DEF StageInv
<1>2. NotAttack \notin Seven
  BY DEF NotAttack, Seven
<1> QED
  BY <1>1, <1>2, AttackIsFirst

LEMMA StageStep ==
  ASSUME StageInv, [Next]_vars
  PROVE  StageInv'
<1> USE DEF Busy
<1>0. suite.repetitions \in Nat
  BY SelectedIsSome DEF StageInv
<1>1. CASE ResetState
  BY <1>1 DEF ResetState, StageInv, Elsewhere, setup, Selected
<1>2. CASE ResetFails \/ LoginFails \/ PrepareFails
  BY <1>2 DEF ResetFails, LoginFails, PrepareFails, Abort, StageInv, setup, Selected
<1>3. CASE Login
  BY <1>3 DEF Login, StageInv, Elsewhere, setup, Selected
<1>4. CASE WarmUp
  BY <1>4 DEF WarmUp, StageInv, Elsewhere, setup, Selected
<1>5. CASE Prepare
  BY <1>5 DEF Prepare, StageInv, Elsewhere, setup, Selected
<1>6. CASE Attempt
  BY <1>6 DEF Attempt, StageInv, Elsewhere, setup, Selected
<1>7. CASE Save
  <2>1. Attack \in todo
    BY <1>7, AttackAtHand DEF Save
  <2>2. todo' = todo \ {Attack} /\ pc' = (IF todo = {Attack} THEN "summarise" ELSE "reset")
        /\ n' = 0 /\ suite' = suite /\ cell' = cell
    BY <1>7 DEF Save, Elsewhere, setup
  <2> QED
    BY <2>1, <2>2 DEF StageInv, Selected
<1>8. CASE Summarise
  BY <1>8 DEF Summarise, StageInv, Elsewhere, setup, Selected
<1>9. CASE Break \/ Mend
  BY <1>9 DEF Break, Mend, StageInv, setup, Selected
<1>10. CASE UNCHANGED vars
  BY <1>10 DEF vars, StageInv, setup, Selected
<1> QED
  BY <1>1, <1>2, <1>3, <1>4, <1>5, <1>6, <1>7, <1>8, <1>9, <1>10 DEF Next

-----------------------------------------------------------------------------
(* The summary.  The files hold the attacks that are done, in their order;  *)
(* nothing is in the summary before no attack is left.                      *)
FilesInOrder ==
  /\ IsSequence(files)
  /\ {files[i].attack : i \in DOMAIN files} = Selected \ todo
  /\ \A i, k \in DOMAIN files : i < k => Place[files[i].attack] < Place[files[k].attack]
  /\ \A i \in DOMAIN files : \A a \in todo : Place[files[i].attack] < Place[a]
  /\ \A i \in DOMAIN files : files[i].attempts = suite.repetitions

ResultGrows ==
  pc = "attack" =>
    DOMAIN result = Fields /\ result.attack = Attack /\ result.attempts = n

SummaryInv ==
  /\ StageInv /\ FilesInOrder /\ ResultGrows
  /\ \/ summary = <<>>
     \/ summary = files /\ todo = {}

(* The tally of an attempt. *)
LEMMA AttemptTallies ==
  ASSUME StageInv, ResultGrows, Attempt
  PROVE  ResultGrows'
<1>1. /\ pc = "attack" /\ pc' = pc /\ todo' = todo /\ n' = n + 1
      /\ result' = Tallied(result, Answer(AttackRequest))
  BY DEF Attempt
<1>2. DOMAIN result = Fields /\ result.attack = Attack /\ result.attempts = n /\ n \in Nat
  BY <1>1 DEF ResultGrows, StageInv
<1>3. PICK c : c = Answer(AttackRequest)
  OBVIOUS
<1>4. result' = Tallied(result, c)
  BY <1>1, <1>3
<1>5. {"attack", "attempts", "successes", "errors", "detected", "stage", "first"}
        \subseteq DOMAIN result
  BY <1>2 DEF Fields
<1>6. DOMAIN result' = Fields /\ result'.attack = Attack /\ result'.attempts = n + 1
  BY <1>2, <1>4, <1>5 DEF Tallied
<1>7. Attack' = Attack
  BY <1>1 DEF Attack
<1> QED
  BY <1>1, <1>6, <1>7 DEF ResultGrows

LEMMA SavedInOrder ==
  ASSUME SummaryInv, Save
  PROVE  FilesInOrder'
<1> DEFINE a == Attack
<1>1. /\ pc = "attack" /\ n = suite.repetitions /\ files' = Append(files, result)
      /\ todo' = todo \ {a} /\ suite' = suite /\ cell' = cell
  BY DEF Save, Elsewhere, setup
<1>2. a \in todo /\ \A b \in todo : b # a => Place[a] < Place[b]
  BY <1>1, AttackAtHand DEF SummaryInv, Busy
<1>3. result.attack = a /\ result.attempts = suite.repetitions
  BY <1>1 DEF SummaryInv, ResultGrows
<1>4. IsSequence(files) /\ todo \subseteq Selected /\ Selected' = Selected
  BY <1>1 DEF SummaryInv, FilesInOrder, StageInv, Selected
<1>5. PICK s, r : s = files /\ r = result
  OBVIOUS
<1> DEFINE m == Len(s)
<1>6. /\ IsSequence(Append(s, r)) /\ m \in Nat /\ DOMAIN s = 1..m
      /\ DOMAIN Append(s, r) = 1..(m + 1)
      /\ \A i \in 1..m : Append(s, r)[i] = s[i]
      /\ Append(s, r)[m + 1] = r
  BY <1>4, <1>5, Appended
<1>7. /\ IsSequence(files') /\ DOMAIN files = 1..m /\ DOMAIN files' = 1..(m + 1)
      /\ \A i \in 1..m : files'[i] = files[i]
      /\ files'[m + 1] = result
  BY <1>1, <1>5, <1>6
<1> HIDE DEF a, m
<1>8. \A i : i \in 1..(m + 1) <=> i \in 1..m \/ i = m + 1
  BY <1>5, <1>6
<1>9. {files'[i].attack : i \in DOMAIN files'}
        = {files[i].attack : i \in DOMAIN files} \cup {a}
  BY <1>3, <1>7, <1>8
<1>10. /\ {files[i].attack : i \in DOMAIN files} = Selected \ todo
       /\ \A i, k \in 1..m : i < k => Place[files[i].attack] < Place[files[k].attack]
       /\ \A i \in 1..m : \A b \in todo : Place[files[i].attack] < Place[b]
       /\ \A i \in 1..m : files[i].attempts = suite.repetitions
  BY <1>7 DEF SummaryInv, FilesInOrder
<1>11. {files'[i].attack : i \in DOMAIN files'} = Selected' \ todo'
  BY <1>1, <1>2, <1>4, <1>9, <1>10
<1>12. ASSUME NEW i \in 1..(m + 1), NEW k \in 1..(m + 1), i < k
       PROVE  Place[files'[i].attack] < Place[files'[k].attack]
  <2>1. i \in 1..m /\ files'[i] = files[i]
    BY <1>6, <1>7, <1>12 DEF m
  <2>2. CASE k \in 1..m
    BY <1>7, <1>10, <1>12, <2>1, <2>2
  <2>3. CASE k = m + 1
    BY <1>2, <1>3, <1>7, <1>10, <2>1, <2>3
  <2> QED
    BY <1>8, <2>2, <2>3
<1>13. ASSUME NEW i \in 1..(m + 1), NEW b \in todo'
       PROVE  Place[files'[i].attack] < Place[b] /\ files'[i].attempts = suite.repetitions
  <2>1. b \in todo /\ b # a
    BY <1>1
  <2>2. CASE i \in 1..m
    BY <1>7, <1>10, <2>1, <2>2
  <2>3. CASE i = m + 1
    BY <1>2, <1>3, <1>7, <2>1, <2>3
  <2> QED
    BY <1>8, <2>2, <2>3
<1>14. \A i \in 1..(m + 1) : files'[i].attempts = suite.repetitions
  BY <1>3, <1>7, <1>8, <1>10
<1> QED
  BY <1>1, <1>7, <1>11, <1>12, <1>13, <1>14 DEF FilesInOrder

LEMMA SummaryInitial ==
  ASSUME Init
  PROVE  SummaryInv
<1>1. files = <<>> /\ summary = <<>> /\ todo = Selected /\ pc = "reset"
  BY DEF Init
<1>2. IsSequence(files) /\ DOMAIN files = {}
  BY <1>1 DEF IsSequence
<1>3. FilesInOrder
  BY <1>1, <1>2 DEF FilesInOrder
<1> QED
  BY <1>1, <1>3, StageInitial DEF SummaryInv, ResultGrows

LEMMA SummaryStep ==
  ASSUME SummaryInv, [Next]_vars
  PROVE  SummaryInv'
<1>0. StageInv'
  BY StageStep DEF SummaryInv
<1>1. ASSUME UNCHANGED <<suite, cell, files, todo>>
      PROVE  FilesInOrder'
  BY <1>1 DEF SummaryInv, FilesInOrder, Selected
<1>2. CASE ResetState \/ Login \/ WarmUp
  BY <1>0, <1>1, <1>2
  DEF ResetState, Login, WarmUp, Elsewhere, setup, SummaryInv, ResultGrows
<1>3. CASE ResetFails \/ LoginFails \/ PrepareFails
  BY <1>0, <1>1, <1>3
  DEF ResetFails, LoginFails, PrepareFails, Abort, setup, SummaryInv, ResultGrows
<1>4. CASE Prepare
  <2>1. /\ pc' = "attack" /\ n' = 0 /\ result' = NewResult(Attack)
        /\ UNCHANGED <<suite, cell, files, todo, summary>>
    BY <1>4 DEF Prepare, Elsewhere, setup
  <2>2. Attack' = Attack
    BY <2>1 DEF Attack
  <2>3. ResultGrows'
    BY <2>1, <2>2 DEF ResultGrows, NewResult, Fields
  <2> QED
    BY <1>0, <1>1, <2>1, <2>3 DEF SummaryInv
<1>5. CASE Attempt
  <2>1. UNCHANGED <<suite, cell, files, todo, summary>>
    BY <1>5 DEF Attempt, Elsewhere, setup
  <2> QED
    BY <1>0, <1>1, <1>5, <2>1, AttemptTallies DEF SummaryInv
<1>6. CASE Save
  <2>1. todo # {} /\ summary' = summary
    BY <1>6, AttackAtHand DEF Save, SummaryInv, Busy
  <2>2. pc' \in {"summarise", "reset"}
    BY <1>6 DEF Save
  <2> QED
    BY <1>0, <1>6, <2>1, <2>2, SavedInOrder DEF SummaryInv, ResultGrows
<1>7. CASE Summarise
  <2>1. pc = "summarise" /\ summary' = files /\ pc' = "done"
        /\ UNCHANGED <<suite, cell, files, todo>>
    BY <1>7 DEF Summarise, Elsewhere, setup
  <2>2. todo = {}
    BY <2>1 DEF SummaryInv, StageInv
  <2> QED
    BY <1>0, <1>1, <2>1, <2>2 DEF SummaryInv, ResultGrows
<1>8. CASE Break \/ Mend \/ UNCHANGED vars
  <2>1. UNCHANGED <<suite, cell, pc, n, result, files, todo, summary>>
    BY <1>8 DEF Break, Mend, vars, setup
  <2>2. Attack' = Attack
    BY <2>1 DEF Attack
  <2>3. ResultGrows'
    BY <2>1, <2>2 DEF SummaryInv, ResultGrows
  <2> QED
    BY <1>0, <1>1, <2>1, <2>3 DEF SummaryInv
<1> QED
  BY <1>2, <1>3, <1>4, <1>5, <1>6, <1>7, <1>8 DEF Next

(* runner.py 289-297: the summary of a cell holds each selected attack once *)
(* and in order, with all its attempts, or nothing; whatever service fails, *)
(* recovers, or ends the suite with an exception, and at whatever step.     *)
THEOREM WholeCellsOnly == Spec => []SummaryHoldsWholeCells
<1>1. Init => SummaryInv
  BY SummaryInitial
<1>2. SummaryInv /\ [Next]_vars => SummaryInv'
  BY SummaryStep
<1>3. SummaryInv => SummaryHoldsWholeCells
  BY DEF SummaryInv, FilesInOrder, SummaryHoldsWholeCells
<1> QED
  BY <1>1, <1>2, <1>3, PTL DEF Spec

-----------------------------------------------------------------------------
(* The harness and the log.  An attack that is still to come has left no    *)
(* record of data that came back: warm-up requests carry no attack id, and  *)
(* those of earlier attacks carry another.                                  *)
NoneCameYet ==
  /\ IsSequence(log)
  /\ \A a \in todo : (pc = "attack" /\ a = Attack) \/ Came(log, a) = {}

(* The attack at hand: the errors, and only they, separate the successes    *)
(* counted from those recorded.                                             *)
TallyAgrees ==
  LET came == Cardinality(Came(log, Attack))
  IN /\ IsFiniteSet(Came(log, Attack))
     /\ result.successes \in Nat /\ result.errors \in Nat /\ result.detected \in BOOLEAN
     /\ result.successes <= came /\ came <= result.successes + result.errors
     /\ result.successes + result.errors <= result.attempts
     /\ result.detected <=> result.attempts > result.successes + result.errors

HarnessInv ==
  /\ StageInv /\ ResultGrows /\ NoneCameYet
  /\ pc = "attack" => TallyAgrees

(* An attack's requests carry its id. *)
LEMMA RequestIsLabelled ==
  ASSUME Attack \in Seven
  PROVE  AttackRequest.attack = Attack
<1>1. /\ A1Request.attack = "A1" /\ A2Request.attack = "A2" /\ A3Request.attack = "A3"
      /\ A4Request.attack = "A4" /\ A5Request.attack = "A5" /\ A6Request.attack = "A6"
      /\ A7Request.attack = "A7"
  BY DEF A1Request, A2Request, A3Request, A4Request, A5Request, A6Request, A7Request, Request
<1> QED
  BY <1>1 DEF AttackRequest, Seven

(* A request leaves the records of the other attacks alone. *)
LEMMA OthersUntouched ==
  ASSUME NEW CONSTANT q, Send(q), IsSequence(log)
  PROVE  /\ IsSequence(log')
         /\ \A a : a # q.attack => Came(log', a) = Came(log, a)
<1>1. CASE log' = log
  BY <1>1
<1>2. CASE \E r : log' = Append(log, r) /\ r.attack = q.attack
  <2>1. PICK r : log' = Append(log, r) /\ r.attack = q.attack
    BY <1>2
  <2>2. PICK s : s = log
    OBVIOUS
  <2> DEFINE m == Len(s)
  <2>3. /\ IsSequence(Append(s, r)) /\ m \in Nat
        /\ DOMAIN s = 1..m /\ DOMAIN Append(s, r) = 1..(m + 1)
        /\ \A i \in 1..m : Append(s, r)[i] = s[i]
        /\ Append(s, r)[m + 1] = r
    BY <2>2, Appended
  <2> HIDE DEF m
  <2>4. \A i : i \in 1..(m + 1) <=> i \in 1..m \/ i = m + 1
    BY <2>3
  <2>5. ASSUME NEW a, a # q.attack
        PROVE  Came(Append(s, r), a) = Came(s, a)
    BY <2>1, <2>3, <2>4, <2>5 DEF Came
  <2> QED
    BY <2>1, <2>2, <2>3, <2>5
<1> QED
  BY <1>1, <1>2, SendRecords

(* One attempt keeps the tally. *)
LEMMA AttemptAgrees ==
  ASSUME HarnessInv, Attempt
  PROVE  TallyAgrees'
<1>1. /\ pc = "attack" /\ todo' = todo /\ Send(AttackRequest)
      /\ result' = Tallied(result, Answer(AttackRequest))
  BY DEF Attempt
<1>2. Attack \in Seven
  BY <1>1, AttackAtHand DEF HarnessInv, Busy
<1>3. PICK q, c, a, r, s : /\ q = AttackRequest /\ c = Answer(q) /\ a = Attack
                           /\ r = result /\ s = log
  OBVIOUS
<1>4. q.attack = a
  BY <1>2, <1>3, RequestIsLabelled
<1>5. result' = Tallied(r, c) /\ Send(q)
  BY <1>1, <1>3
<1>6. Attack' = a
  BY <1>1, <1>3 DEF Attack
<1> DEFINE came == Cardinality(Came(s, a))
<1>7. /\ IsSequence(s) /\ IsFiniteSet(Came(s, a))
      /\ DOMAIN r = Fields /\ r.attempts \in Nat
      /\ r.successes \in Nat /\ r.errors \in Nat /\ r.detected \in BOOLEAN
      /\ r.successes <= came /\ came <= r.successes + r.errors
      /\ r.successes + r.errors <= r.attempts
      /\ r.detected <=> r.attempts > r.successes + r.errors
  BY <1>1, <1>3 DEF HarnessInv, ResultGrows, NoneCameYet, TallyAgrees, StageInv
<1>8. /\ result'.attempts = r.attempts + 1
      /\ result'.successes = r.successes + (IF c = "served" THEN 1 ELSE 0)
      /\ result'.errors = r.errors + (IF c = "unheard" THEN 1 ELSE 0)
      /\ result'.detected = (r.detected \/ c \notin {"served", "unheard"})
  BY <1>5, <1>7, TalliedFields
<1>9. came \in Nat
  BY <1>7, FS_CardinalityType
<1>10. PICK more \in {0, 1} :
         /\ IsFiniteSet(Came(log', a))
         /\ Cardinality(Came(log', a)) = came + more
         /\ c = "served" => more = 1
         /\ more = 1 => c \in {"served", "unheard"}
  <2>1. CASE log' = log /\ c = "unheard"
    <3>1. IsFiniteSet(Came(log', a)) /\ Cardinality(Came(log', a)) = came
      BY <1>3, <1>7, <2>1
    <3> HIDE DEF came
    <3> QED
      BY <1>9, <2>1, <3>1
  <2>2. CASE \E x : /\ log' = Append(log, x)
                    /\ x.attack = q.attack
                    /\ x.succeeded \in BOOLEAN
                    /\ c = "served" => x.succeeded
                    /\ x.succeeded => c \in {"served", "unheard"}
    <3>1. PICK x : /\ log' = Append(s, x)
                   /\ x.attack = a
                   /\ x.succeeded \in BOOLEAN
                   /\ c = "served" => x.succeeded
                   /\ x.succeeded => c \in {"served", "unheard"}
      BY <1>3, <1>4, <2>2
    <3>2. /\ IsFiniteSet(Came(Append(s, x), a))
          /\ Cardinality(Came(Append(s, x), a)) = came + (IF x.succeeded THEN 1 ELSE 0)
      BY <1>7, <3>1, CameAppended
    <3> HIDE DEF came
    <3> QED
      BY <3>1, <3>2
  <2> QED
    BY <1>3, <1>5, <2>1, <2>2, SendRecords
<1> HIDE DEF came
<1>11. /\ result'.successes \in Nat /\ result'.errors \in Nat /\ result'.detected \in BOOLEAN
       /\ result'.successes <= came + more
       /\ came + more <= result'.successes + result'.errors
  BY <1>7, <1>8, <1>9, <1>10
<1>12. /\ result'.successes + result'.errors <= result'.attempts
       /\ result'.detected <=> result'.attempts > result'.successes + result'.errors
  <2>1. CASE c \in {"served", "unheard"}
    <3>1. /\ result'.successes + result'.errors = r.successes + r.errors + 1
          /\ result'.detected = r.detected
      BY <1>7, <1>8, <2>1
    <3> QED
      BY <1>7, <1>8, <3>1
  <2>2. CASE c \notin {"served", "unheard"}
    <3>1. result'.successes + result'.errors = r.successes + r.errors
      BY <1>7, <1>8, <2>2
    <3>2. result'.detected
      BY <1>8, <2>2
    <3> QED
      BY <1>7, <1>8, <3>1, <3>2
  <2> QED
    BY <2>1, <2>2
<1> QED
  BY <1>6, <1>10, <1>11, <1>12 DEF TallyAgrees

LEMMA HarnessInitial ==
  ASSUME Init
  PROVE  HarnessInv
<1>1. log = <<>> /\ pc = "reset"
  BY DEF Init, PipelineInit
<1>2. IsSequence(log) /\ DOMAIN log = {}
  BY <1>1 DEF IsSequence
<1>3. NoneCameYet
  BY <1>2 DEF NoneCameYet, Came
<1> QED
  BY <1>1, <1>3, StageInitial DEF HarnessInv, ResultGrows

LEMMA HarnessStep ==
  ASSUME HarnessInv, [Next]_vars
  PROVE  HarnessInv'
<1>0. StageInv'
  BY StageStep DEF HarnessInv
<1>1. ASSUME UNCHANGED <<log, todo>>, pc # "attack"
      PROVE  NoneCameYet' /\ \A a \in todo : Came(log, a) = {}
  BY <1>1 DEF HarnessInv, NoneCameYet
<1>2. CASE ResetState \/ Login
  BY <1>0, <1>1, <1>2 DEF ResetState, Login, HarnessInv, ResultGrows
<1>3. CASE ResetFails \/ LoginFails \/ PrepareFails
  BY <1>0, <1>1, <1>3
  DEF ResetFails, LoginFails, PrepareFails, Abort, HarnessInv, ResultGrows
<1>4. CASE WarmUp
  <2>1. pc = "warm_up" /\ pc' = pc /\ todo' = todo /\ Send(WarmUpRequest)
    BY <1>4 DEF WarmUp
  <2>2. PICK q : q = WarmUpRequest
    OBVIOUS
  <2>3. q.attack = NotAttack
    BY <2>2 DEF WarmUpRequest, Request
  <2>4. NotAttack \notin todo
    BY SelectedIsSome DEF HarnessInv, StageInv, NotAttack, Seven
  <2>5. IsSequence(log') /\ \A a \in todo : Came(log', a) = Came(log, a)
    BY <2>1, <2>2, <2>3, <2>4, OthersUntouched DEF HarnessInv, NoneCameYet
  <2> QED
    BY <1>0, <2>1, <2>5 DEF HarnessInv, NoneCameYet, ResultGrows
<1>5. CASE Prepare
  <2>1. /\ pc = "warm_up" /\ pc' = "attack" /\ n' = 0 /\ todo' = todo
        /\ result' = NewResult(Attack)
        /\ Send(CapturedRequest) \/ UNCHANGED log
    BY <1>5 DEF Prepare
  <2>2. Attack' = Attack /\ Attack \in todo
    BY <2>1, AttackAtHand DEF Attack, HarnessInv, Busy
  <2>3. PICK q : q = CapturedRequest
    OBVIOUS
  <2>4. q.attack = NotAttack
    BY <2>3 DEF CapturedRequest, WarmUpRequest, Request
  <2>5. NotAttack \notin todo
    BY SelectedIsSome DEF HarnessInv, StageInv, NotAttack, Seven
  <2>6. IsSequence(log') /\ \A a \in todo : Came(log', a) = Came(log, a)
    BY <2>1, <2>3, <2>4, <2>5, OthersUntouched DEF HarnessInv, NoneCameYet
  <2>7. Came(log', Attack) = {} /\ NoneCameYet'
    BY <2>1, <2>2, <2>6 DEF HarnessInv, NoneCameYet
  <2>8. /\ DOMAIN result' = Fields /\ result'.attack = Attack /\ result'.attempts = 0
        /\ result'.successes = 0 /\ result'.errors = 0 /\ result'.detected = FALSE
    BY <2>1 DEF NewResult, Fields
  <2>9. IsFiniteSet(Came(log', Attack')) /\ Cardinality(Came(log', Attack')) = 0
    BY <2>2, <2>7, FS_EmptySet
  <2>10. TallyAgrees'
    <3>1. /\ result'.successes \in Nat /\ result'.errors \in Nat
          /\ result'.successes <= 0 /\ 0 <= result'.successes + result'.errors
          /\ result'.successes + result'.errors <= result'.attempts
          /\ ~(result'.attempts > result'.successes + result'.errors)
      BY <2>8
    <3>2. result'.detected \in BOOLEAN /\ ~result'.detected
      BY <2>8
    <3> QED
      BY <2>9, <3>1, <3>2 DEF TallyAgrees
  <2> QED
    BY <1>0, <2>1, <2>2, <2>7, <2>8, <2>10 DEF HarnessInv, ResultGrows
<1>6. CASE Attempt
  <2>1. pc = "attack" /\ pc' = pc /\ todo' = todo /\ Send(AttackRequest)
    BY <1>6 DEF Attempt
  <2>2. Attack' = Attack /\ Attack \in Seven
    BY <2>1, AttackAtHand DEF Attack, HarnessInv, Busy
  <2>3. PICK q, b : q = AttackRequest /\ b = Attack
    OBVIOUS
  <2>4. q.attack = b
    BY <2>2, <2>3, RequestIsLabelled
  <2>5. IsSequence(log') /\ \A a \in todo : a # b => Came(log', a) = Came(log, a)
    BY <2>1, <2>3, <2>4, OthersUntouched DEF HarnessInv, NoneCameYet
  <2>6. NoneCameYet'
    BY <2>1, <2>2, <2>3, <2>5 DEF HarnessInv, NoneCameYet
  <2> QED
    BY <1>0, <1>6, <2>6, AttemptAgrees, AttemptTallies DEF HarnessInv
<1>7. CASE Save
  <2>1. /\ pc = "attack" /\ pc' # "attack" /\ todo' = todo \ {Attack} /\ log' = log
    BY <1>7 DEF Save
  <2> QED
    BY <1>0, <2>1 DEF HarnessInv, NoneCameYet, ResultGrows
<1>8. CASE Summarise
  BY <1>0, <1>1, <1>8 DEF Summarise, HarnessInv, ResultGrows
<1>9. CASE Break \/ Mend \/ UNCHANGED vars
  <2>1. UNCHANGED <<pc, n, result, log, todo>>
    BY <1>9 DEF Break, Mend, vars
  <2>2. Attack' = Attack
    BY <2>1 DEF Attack
  <2>3. ResultGrows' /\ NoneCameYet' /\ (pc' = "attack" => TallyAgrees')
    BY <2>1, <2>2 DEF HarnessInv, ResultGrows, NoneCameYet, TallyAgrees
  <2> QED
    BY <1>0, <2>3 DEF HarnessInv
<1> QED
  BY <1>2, <1>3, <1>4, <1>5, <1>6, <1>7, <1>8, <1>9 DEF Next

(* The counts of an attack agree with the controller's records up to the    *)
(* attempts that the client gave up on, and `detected` is the refusal of    *)
(* one; whatever fails in between.                                          *)
THEOREM HarnessIsHonest == Spec => []HarnessAgreesWithLog
<1>1. Init => HarnessInv
  BY HarnessInitial
<1>2. HarnessInv /\ [Next]_vars => HarnessInv'
  BY HarnessStep
<1>3. HarnessInv => HarnessAgreesWithLog
  <2>1. Count(log, LAMBDA r : r.attack = Attack /\ r.succeeded)
          = Cardinality(Came(log, Attack))
    BY DEF Count, Came
  <2> QED
    BY <2>1 DEF HarnessInv, TallyAgrees, HarnessAgreesWithLog
<1> QED
  BY <1>1, <1>2, <1>3, PTL DEF Spec

-----------------------------------------------------------------------------
(* The baseline. *)

(* Pruning leaves a history alone of which nothing has expired. *)
LEMMA NothingPruned ==
  ASSUME NEW h, NEW now, IsSequence(h), \A i \in 1..Len(h) : ~Expired(h[i], now)
  PROVE  Prune(h, now) = h
<1> DEFINE S == {h[i] : i \in DOMAIN h}
           fresh == {i \in 1..Len(h) : ~Expired(h[i], now)}
<1>1. h \in Seq(S) /\ Len(h) \in Nat
  BY LenProperties DEF IsSequence
<1>2. fresh = 1..Len(h)
  OBVIOUS
<1>3. CASE Len(h) = 0
  <2>1. h = <<>> /\ fresh = {}
    BY <1>1, <1>2, <1>3, EmptySeq
  <2> QED
    BY <2>1 DEF Prune
<1>4. CASE Len(h) # 0
  <2>1. 1 \in fresh /\ \A i \in fresh : 1 <= i
    BY <1>1, <1>2, <1>4
  <2>2. \A i \in fresh : (\A j \in fresh : i <= j) => i = 1
    BY <1>1, <1>2, <2>1
  <2> HIDE DEF fresh
  <2>3. (CHOOSE i \in fresh : \A j \in fresh : i <= j) = 1
    BY <2>1, <2>2
  <2>4. Prune(h, now) = SubSeq(h, 1, Len(h))
    BY <2>1, <2>3 DEF Prune, fresh
  <2> HIDE DEF S
  <2>5. /\ SubSeq(h, 1, Len(h)) \in Seq(S) /\ Len(SubSeq(h, 1, Len(h))) = Len(h)
        /\ \A i \in 1..Len(h) : SubSeq(h, 1, Len(h))[i] = h[i]
    BY <1>1, <1>4, SubSeqProperties
  <2> QED
    BY <1>1, <2>4, <2>5, SeqEqual
<1> QED
  BY <1>3, <1>4

(* As long as nothing has expired and there is room, collect only appends.  *)
LEMMA CollectAppends ==
  ASSUME NEW k, NEW e, IsSequence(k.history), Len(k.history) < MaxLen,
         \A i \in 1..Len(k.history) : ~Expired(k.history[i], e.ts),
         k.failures = 0, ~e.failed
  PROVE  /\ Remember(k, e).history
              = Append(k.history, [ts |-> e.ts, geo |-> e.geo, session |-> e.session])
         /\ Remember(k, e).failures = 0
<1> DEFINE h == k.history
           x == [ts |-> e.ts, geo |-> e.geo, session |-> e.session]
<1>1. Prune(h, e.ts) = h
  BY NothingPruned
<1>2. Len(Append(h, x)) = Len(h) + 1 /\ Len(h) \in Nat
  BY Appended
<1>3. MaxLen \in Nat
  BY WindowAssumption
<1> HIDE DEF h, x
<1>4. ~(Len(Append(h, x)) > MaxLen)
  BY <1>2, <1>3 DEF h
<1>5. Push(h, x) = Append(h, x)
  BY <1>4 DEF Push
<1> QED
  BY <1>1, <1>5 DEF Remember, NewFailures, h, x

-----------------------------------------------------------------------------
(* Nothing gets too old while nothing fails. *)

(* A whole second is reached and not a second ago. *)
LEMMA WholeIsNear ==
  ASSUME NEW t \in Nat
  PROVE  Whole(t) \in Nat /\ Whole(t) <= t /\ t < Whole(t) + Second
BY DEF Whole, Second

(* A proof signed for the request it comes with is not refused for its age. *)
LEMMA JustSigned ==
  ASSUME NEW q, q.iat = Whole(clock), clock \in Nat
  PROVE  ProofRefusal(q) # "stale"
<1>1. ~(clock - q.iat > Skew)
  BY WholeIsNear, PipelineAssumption DEF Second
<1> QED
  BY <1>1 DEF ProofRefusal

(* The pace of a cell is a number of ticks. *)
LEMMA PaceIsNumber ==
  ASSUME NEW c \in CellNames
  PROVE  Cells[c].pace \in Nat
<1>1. c \in DOMAIN Cells
  BY DEF CellNames
<1>2. Cells[c].pace \in {50, 80}
  BY <1>1 DEF Cells, AttackCell, LoadCell, AdaptiveCell, OracleCell, AblationCell, Cell
<1> QED
  BY <1>2

(* How old a token can be after m attempts. *)
TokenAge(m) ==
  (suite.warmUps + 1) * (suite.latency + 1) + m * (suite.latency + Paced(suite))

InTime ==
  /\ down = "nothing"
  /\ pc = "warm_up" =>
       n <= suite.warmUps /\ clock - issued <= n * (suite.latency + 1)
  /\ pc = "attack" => n <= suite.repetitions /\ clock - issued <= TokenAge(n)

LiveInv ==
  /\ StageInv
  /\ clock \in Nat /\ issued \in Nat /\ signed \in Nat /\ faults \in Nat
  /\ faults = 0 => InTime

LEMMA SizesAreNumbers ==
  ASSUME suite \in Suites
  PROVE  /\ suite.latency \in Nat /\ suite.warmUps \in Nat
         /\ suite.repetitions \in Nat \ {0} /\ Paced(suite) \in Nat
         /\ SlowTicks \in Nat /\ Cells[suite.cell].pace \in Nat
         /\ \A q : Elapsed(q) \in Nat
<1>1. /\ suite.latency \in Nat /\ suite.warmUps \in Nat
      /\ suite.repetitions \in Nat \ {0} /\ suite.cell \in CellNames /\ SlowTicks \in Nat
  BY SuiteAssumption
<1>2. Cells[suite.cell].pace \in Nat
  BY <1>1, PaceIsNumber
<1> QED
  BY <1>1, <1>2 DEF Paced, Elapsed

(* While nothing fails, a token outlasts the attack that it was issued for. *)
LEMMA TokenIsAlive ==
  ASSUME LiveInv, faults = 0, pc \in {"warm_up", "attack"}, TokenLasts
  PROVE  ~TokenExpired
<1>1. /\ suite \in Suites /\ n \in Nat /\ clock \in Nat /\ issued \in Nat
      /\ suite.latency \in Nat /\ suite.warmUps \in Nat /\ suite.repetitions \in Nat
      /\ Paced(suite) \in Nat
  BY SizesAreNumbers DEF LiveInv, StageInv
<1>2. /\ TokenAge(suite.repetitions) + Second <= TokenLife
      /\ TokenAge(suite.repetitions) \in Nat
  BY <1>1 DEF TokenLasts, TokenAge
<1>3. clock - issued <= TokenAge(suite.repetitions)
  <2> DEFINE l == suite.latency + 1
             s == suite.latency + Paced(suite)
             w == suite.warmUps
  <2>1. l \in Nat /\ s \in Nat /\ w \in Nat
    BY <1>1
  <2>2. \A a, b, c \in Nat : a <= b => a * c <= b * c
    OBVIOUS
  <2>3. CASE pc = "warm_up"
    <3>1. n <= w /\ clock - issued <= n * l
      BY <2>3 DEF LiveInv, InTime
    <3>2. n * l <= w * l /\ (w + 1) * l = w * l + l /\ n * l \in Nat /\ w * l \in Nat
          /\ suite.repetitions * s \in Nat
      BY <1>1, <2>1, <2>2, <3>1
    <3>3. TokenAge(suite.repetitions) = (w + 1) * l + suite.repetitions * s
      BY DEF TokenAge
    <3>4. PICK x \in Nat, y \in Nat, z \in Nat :
            x = n * l /\ y = w * l /\ z = suite.repetitions * s
      BY <3>2
    <3> HIDE DEF l, s, w
    <3>5. x <= y /\ clock - issued <= x /\ TokenAge(suite.repetitions) = y + l + z
      BY <3>1, <3>2, <3>3, <3>4
    <3> QED
      BY <1>1, <2>1, <3>4, <3>5
  <2>4. CASE pc = "attack"
    <3>1. n <= suite.repetitions /\ clock - issued <= TokenAge(n)
      BY <2>4 DEF LiveInv, InTime
    <3>2. n * s <= suite.repetitions * s /\ n * s \in Nat /\ suite.repetitions * s \in Nat
          /\ (w + 1) * l \in Nat
      BY <1>1, <2>1, <2>2, <3>1
    <3>3. \A m : TokenAge(m) = (w + 1) * l + m * s
      BY DEF TokenAge
    <3> HIDE DEF l, s, w
    <3> QED
      BY <1>1, <3>1, <3>2, <3>3
  <2> QED
    BY <2>3, <2>4
<1>4. /\ Whole(clock) \in Nat /\ Whole(clock) <= clock
      /\ Whole(issued) \in Nat /\ issued < Whole(issued) + Second
  BY <1>1, WholeIsNear
<1>5. ~(Whole(clock) - Whole(issued) > TokenLife)
  <2>1. \A c, i, v, w, a, k \in Nat :
          c - i <= a /\ v <= c /\ i < w + 20 /\ a + 20 <= k => ~(v - w > k)
    OBVIOUS
  <2> QED
    BY <1>1, <1>2, <1>3, <1>4, <2>1, PipelineAssumption DEF Second
<1> QED
  BY <1>5 DEF TokenExpired

(* Then every request reaches the pipeline, and none takes longer than it   *)
(* should.                                                                  *)
LEMMA QuietIsHandled ==
  ASSUME LiveInv, faults = 0, pc \in {"warm_up", "attack"}, TokenLasts, NEW q
  PROVE  /\ Send(q) => Handled(q)
         /\ ~Unheard(q) /\ Answer(q) = CauseFor(q) /\ Elapsed(q) = suite.latency
<1>1. down = "nothing" /\ ~TokenExpired /\ ~NoKeys /\ suite.latency \in Nat
  BY TokenIsAlive, SizesAreNumbers DEF LiveInv, InTime, StageInv, NoKeys
<1>2. ~Unheard(q)
  BY <1>1 DEF Unheard
<1> QED
  BY <1>1, <1>2 DEF Send, Unreached, Answer, Elapsed

LEMMA LiveInitial ==
  ASSUME Init
  PROVE  LiveInv
BY StageInitial DEF Init, PipelineInit, LiveInv, InTime

LEMMA LiveStep ==
  ASSUME LiveInv, [Next]_vars
  PROVE  LiveInv'
<1>1. StageInv'
  BY StageStep DEF LiveInv
<1>2. /\ suite \in Suites /\ cell = suite.cell /\ n \in Nat
      /\ clock \in Nat /\ issued \in Nat /\ signed \in Nat /\ faults \in Nat
      /\ suite.latency \in Nat /\ suite.warmUps \in Nat /\ suite.repetitions \in Nat
      /\ Paced(suite) \in Nat /\ Cells[suite.cell].pace \in Nat
      /\ \A q : Elapsed(q) \in Nat
  BY SizesAreNumbers DEF LiveInv, StageInv
<1> DEFINE l == suite.latency + 1
           s == suite.latency + Paced(suite)
<1>3. ASSUME down = "nothing", NEW q
      PROVE  Elapsed(q) = suite.latency
  BY <1>2, <1>3 DEF Elapsed, Unheard
<1>4. \A m \in Nat : (m + 1) * l = m * l + l /\ (m + 1) * s = m * s + s
                     /\ m * l \in Nat /\ m * s \in Nat
  BY <1>2
<1>5. CASE ResetState \/ Save \/ Summarise
  BY <1>1, <1>5 DEF ResetState, Save, Summarise, Elsewhere, tokens, LiveInv, InTime
<1>6. CASE ResetFails \/ LoginFails \/ PrepareFails
  BY <1>1, <1>6 DEF ResetFails, LoginFails, PrepareFails, Abort, tokens, LiveInv, InTime
<1>7. CASE Login
  BY <1>1, <1>2, <1>7 DEF Login, Elsewhere, LiveInv, InTime
<1>8. CASE WarmUp
  <2>1. /\ pc = "warm_up" /\ pc' = pc /\ n < suite.warmUps /\ n' = n + 1
        /\ clock' = clock + Elapsed(WarmUpRequest) + 1
        /\ UNCHANGED <<suite, down, faults, issued, signed>>
    BY <1>8 DEF WarmUp, Elsewhere, tokens
  <2>2. clock' \in Nat
    BY <1>2, <2>1
  <2>3. ASSUME faults = 0
        PROVE  n' <= suite.warmUps /\ clock' - issued' <= n' * l
    <3>1. clock - issued <= n * l /\ Elapsed(WarmUpRequest) = suite.latency
      BY <1>3, <2>1, <2>3 DEF LiveInv, InTime
    <3>2. PICK b \in Nat : b = n * l
      BY <1>2, <1>4
    <3>3. clock' - issued' <= b + l
      BY <1>2, <2>1, <3>1, <3>2
    <3> HIDE DEF l
    <3> QED
      BY <1>2, <1>4, <2>1, <3>2, <3>3
  <2> QED
    BY <1>1, <1>2, <2>1, <2>2, <2>3 DEF LiveInv, InTime
<1>9. CASE Prepare
  <2>1. /\ pc = "warm_up" /\ pc' = "attack" /\ n = suite.warmUps /\ n' = 0
        /\ clock' \in {clock, clock + Elapsed(CapturedRequest)}
        /\ signed' \in {signed, Whole(clock)} /\ issued' \in {issued, clock}
        /\ UNCHANGED <<suite, down, faults>>
    BY <1>9 DEF Prepare, Elsewhere
  <2>2. clock' \in Nat /\ issued' \in Nat /\ signed' \in Nat
    BY <1>2, <2>1, WholeIsNear
  <2>3. ASSUME faults = 0
        PROVE  clock' - issued' <= (TokenAge(0))'
    <3>1. /\ clock - issued <= suite.warmUps * l
          /\ Elapsed(CapturedRequest) = suite.latency
      BY <1>3, <2>1, <2>3 DEF LiveInv, InTime
    <3>2. PICK b \in Nat : b = suite.warmUps * l
      BY <1>2, <1>4
    <3>3. clock' - issued' <= b + l
      BY <1>2, <2>1, <3>1, <3>2
    <3>4. 0 * s = 0
      BY <1>2
    <3>5. TokenAge(0)' = (suite.warmUps + 1) * l + 0 * s
      BY <2>1 DEF TokenAge
    <3> HIDE DEF l, s
    <3>6. b + l \in Int
      BY <1>2, <1>4, <3>2, <3>3 DEF l
    <3> QED
      BY <1>2, <1>4, <3>2, <3>3, <3>4, <3>5, <3>6
  <2> QED
    BY <1>1, <1>2, <2>1, <2>2, <2>3 DEF LiveInv, InTime
<1>10. CASE Attempt
  <2> DEFINE wait == IF Attack = "A7" /\ n < suite.repetitions - 1 THEN Cells[cell].pace ELSE 0
  <2>1. /\ pc = "attack" /\ pc' = pc /\ n < suite.repetitions /\ n' = n + 1
        /\ clock' = clock + Elapsed(AttackRequest) + wait
        /\ UNCHANGED <<suite, down, faults, issued, signed>>
    BY <1>10 DEF Attempt, Elsewhere, tokens
  <2>2. wait \in Nat /\ wait <= Paced(suite)
    <3>1. CASE Attack = "A7"
      <4>1. "A7" \in Cells[suite.cell].attacks
        BY <2>1, <3>1, AttackAtHand DEF LiveInv, StageInv, Busy, Selected
      <4> QED
        BY <1>2, <4>1 DEF Paced
    <3> QED
      BY <1>2, <3>1
  <2> HIDE DEF wait
  <2>3. clock' \in Nat
    BY <1>2, <2>1, <2>2
  <2>4. ASSUME faults = 0
        PROVE  n' <= suite.repetitions /\ clock' - issued' <= (TokenAge(n'))
    <3>1. clock - issued <= TokenAge(n) /\ Elapsed(AttackRequest) = suite.latency
      BY <1>3, <2>1, <2>4 DEF LiveInv, InTime
    <3>2. \A m : TokenAge(m) = (suite.warmUps + 1) * l + m * s
      BY DEF TokenAge
    <3>3. PICK a \in Nat, b \in Nat : a = (suite.warmUps + 1) * l /\ b = n * s
      <4>1. l \in Nat /\ s \in Nat /\ suite.warmUps + 1 \in Nat /\ n \in Nat
        BY <1>2
      <4> HIDE DEF l, s
      <4>2. (suite.warmUps + 1) * l \in Nat /\ n * s \in Nat
        BY <4>1
      <4> QED
        BY <4>2
    <3>4. clock - issued <= a + b
      BY <3>1, <3>2, <3>3
    <3>5. clock' - issued' <= a + b + s
      BY <1>2, <2>1, <2>2, <3>1, <3>3, <3>4
    <3> HIDE DEF l, s
    <3>6. TokenAge(n') = a + (b + s)
      BY <1>2, <1>4, <2>1, <3>2, <3>3
    <3>7. s \in Nat
      BY <1>2 DEF s
    <3> QED
      BY <1>2, <2>1, <3>3, <3>5, <3>6, <3>7
  <2>5. TokenAge(n)' = TokenAge(n')
    BY <2>1 DEF TokenAge
  <2> QED
    BY <1>1, <1>2, <2>1, <2>3, <2>4, <2>5 DEF LiveInv, InTime
<1>11. CASE Break
  BY <1>1, <1>2, <1>11 DEF Break, tokens, LiveInv
<1>12. CASE Mend
  <2>1. faults # 0 /\ UNCHANGED <<clock, issued, signed, faults>>
    BY <1>12 DEF Mend, tokens, LiveInv, InTime
  <2> QED
    BY <1>1, <1>2, <2>1 DEF LiveInv
<1>13. CASE UNCHANGED vars
  BY <1>1, <1>13 DEF vars, tokens, LiveInv, InTime, TokenAge
<1> QED
  BY <1>5, <1>6, <1>7, <1>8, <1>9, <1>10, <1>11, <1>12, <1>13 DEF Next

-----------------------------------------------------------------------------
(* The victim's baseline. *)

(* What n warm-up requests leave of the victim's baseline. *)
Warmed ==
  /\ captured = FALSE /\ n <= suite.warmUps
  /\ flags.telemetry =>
       /\ IsSequence(known.history) /\ Len(known.history) = n /\ known.failures = 0
       /\ \A i \in 1..n :
            /\ known.history[i].session = "V" /\ known.history[i].ts \in Nat
            /\ clock - known.history[i].ts <= n * (suite.latency + 1)
  /\ flags.binding => registry = [s \in {User} |-> IF n = 0 THEN {} ELSE {"V"}]

Fresh ==
  /\ pc = "login" =>
       known = Unseen /\ registry = [s \in {User} |-> {}] /\ captured = FALSE
  /\ pc = "warm_up" => Warmed
  /\ pc = "attack" /\ n = 0 => Baseline

BaselineInv == LiveInv /\ (faults = 0 /\ ~flags.passthrough => Fresh)

(* One of the victim's requests while nothing is out of order. *)
LEMMA QuietSend ==
  ASSUME NEW CONSTANT q, q.token = "V", q.proof = "V", q.iat = Whole(clock),
         q.context.session = "V",
         BaselineInv, faults = 0, ~flags.passthrough, Send(q), pc = "warm_up",
         WarmUpFits, TokenLasts
  PROVE  /\ flags.telemetry =>
              /\ IsSequence(known'.history) /\ Len(known'.history) = n + 1
              /\ known'.failures = 0
              /\ \A i \in 1..n : known'.history[i] = known.history[i]
              /\ known'.history[n + 1].session = "V" /\ known'.history[n + 1].ts = clock
         /\ flags.binding => registry' = [s \in {User} |-> {"V"}]
         /\ ~q.captured => captured' = FALSE
         /\ Elapsed(q) = suite.latency
<1>1. down = "nothing" /\ Warmed /\ n \in Nat /\ clock \in Nat
      /\ suite \in Suites /\ suite.warmUps \in 1..(MaxLen - 1)
      /\ (suite.warmUps + 1) * (suite.latency + 1) <= Window
      /\ suite.latency \in Nat /\ MaxLen \in Nat \ {0} /\ Window \in Nat
  BY SelectedIsSome, WindowAssumption
     DEF BaselineInv, LiveInv, InTime, Fresh, StageInv, WarmUpFits
<1>2. Handled(q) /\ Elapsed(q) = suite.latency
  BY QuietIsHandled DEF BaselineInv
<1>3. ProofRefusal(q) = "none"
  <2>1. ProofRefusal(q) # "stale"
    BY <1>1, JustSigned
  <2> QED
    BY <1>1, <2>1 DEF ProofRefusal, Replayed, Warmed
<1>5. ASSUME flags.telemetry
      PROVE  /\ IsSequence(known'.history) /\ Len(known'.history) = n + 1
             /\ known'.failures = 0
             /\ \A i \in 1..n : known'.history[i] = known.history[i]
             /\ known'.history[n + 1].session = "V" /\ known'.history[n + 1].ts = clock
  <2>1. PICK k, e : k = known /\ e = EventFor(q)
    OBVIOUS
  <2>2. e.ts = clock /\ e.session = "V" /\ ~e.failed
    BY <1>3, <2>1 DEF EventFor
  <2>3. known' = Remember(k, e)
    BY <1>2, <1>5, <2>1 DEF Handled, Collected
  <2>4. /\ IsSequence(k.history) /\ Len(k.history) = n /\ k.failures = 0
        /\ \A i \in 1..n : /\ k.history[i].ts \in Nat
                           /\ clock - k.history[i].ts <= n * (suite.latency + 1)
    BY <1>1, <1>5, <2>1 DEF Warmed
  <2>5. n <= suite.warmUps /\ n < MaxLen
    BY <1>1 DEF Warmed
  <2>6. n * (suite.latency + 1) <= Window
    <3>1. \A w, l, m \in Nat : m <= w => m * (l + 1) <= (w + 1) * (l + 1)
      OBVIOUS
    <3> QED
      BY <1>1, <2>5, <3>1
  <2>7. \A i \in 1..Len(k.history) : ~Expired(k.history[i], e.ts)
    <3>1. n * (suite.latency + 1) \in Nat
      BY <1>1
    <3>2. PICK b \in Nat : b = n * (suite.latency + 1)
      BY <3>1
    <3>3. /\ b <= Window
          /\ \A i \in 1..n : k.history[i].ts \in Nat /\ clock - k.history[i].ts <= b
      BY <2>4, <2>6, <3>2
    <3>4. clock \in Nat /\ Window \in Nat /\ Len(k.history) = n
      BY <1>1, <2>4
    <3>5. \A i \in 1..n : ~(clock - k.history[i].ts > Window)
      BY <3>2, <3>3, <3>4
    <3> QED
      BY <2>2, <3>4, <3>5 DEF Expired
  <2> DEFINE x == [ts |-> e.ts, geo |-> e.geo, session |-> e.session]
  <2>8. Remember(k, e).history = Append(k.history, x) /\ Remember(k, e).failures = 0
    BY <2>2, <2>4, <2>5, <2>7, CollectAppends
  <2>9. x.session = "V" /\ x.ts = clock
    BY <2>2
  <2> HIDE DEF x
  <2>10. PICK h, y : h = k.history /\ y = x
    OBVIOUS
  <2>11. /\ IsSequence(Append(h, y)) /\ Len(Append(h, y)) = n + 1
         /\ \A i \in 1..n : Append(h, y)[i] = h[i]
         /\ Append(h, y)[n + 1] = y
    BY <2>4, <2>10, Appended
  <2>12. known'.history = Append(h, y) /\ known'.failures = 0
    BY <2>3, <2>8, <2>10
  <2> QED
    BY <2>1, <2>9, <2>10, <2>11, <2>12
<1>6. ASSUME flags.binding
      PROVE  registry' = [s \in {User} |-> {"V"}]
  <2>1. registry' = Observed(registry, User, "V")
    BY <1>2, <1>3, <1>6 DEF Handled, Collected
  <2>2. registry = [s \in {User} |-> IF n = 0 THEN {} ELSE {"V"}]
    BY <1>1, <1>6 DEF Warmed
  <2>3. Verifiable(User, "V")
    BY DEF Verifiable, User, NoSubject, NoKey
  <2> QED
    BY <2>1, <2>2, <2>3 DEF Observed
<1>7. ~q.captured => captured' = FALSE
  BY <1>1, <1>2 DEF Handled, Collected, Warmed
<1> QED
  BY <1>2, <1>5, <1>6, <1>7

LEMMA WarmUpWarms ==
  ASSUME BaselineInv, faults = 0, ~flags.passthrough, WarmUpFits, TokenLasts, WarmUp
  PROVE  Warmed'
<1>1. /\ pc = "warm_up" /\ n < suite.warmUps /\ n' = n + 1 /\ Send(WarmUpRequest)
      /\ clock' = clock + Elapsed(WarmUpRequest) + 1 /\ suite' = suite /\ flags' = flags
  BY DEF WarmUp, Elsewhere, setup
<1>2. PICK q : q = WarmUpRequest
  OBVIOUS
<1>3. /\ q.token = "V" /\ q.proof = "V" /\ q.iat = Whole(clock) /\ ~q.captured
      /\ q.context.session = "V"
  BY <1>2 DEF WarmUpRequest, Request, VictimContext, From, NotAttack
<1>4. Send(q) /\ Warmed /\ n \in Nat /\ clock \in Nat
      /\ suite.latency \in Nat /\ suite.warmUps \in Nat
  BY <1>1, <1>2, SelectedIsSome DEF BaselineInv, LiveInv, Fresh, StageInv
<1>5. /\ flags.telemetry =>
           /\ IsSequence(known'.history) /\ Len(known'.history) = n + 1
           /\ known'.failures = 0
           /\ \A i \in 1..n : known'.history[i] = known.history[i]
           /\ known'.history[n + 1].session = "V" /\ known'.history[n + 1].ts = clock
      /\ flags.binding => registry' = [s \in {User} |-> {"V"}]
      /\ captured' = FALSE
      /\ Elapsed(q) = suite.latency
  BY <1>1, <1>3, <1>4, QuietSend
<1> DEFINE l == suite.latency + 1
<1>6. clock' = clock + l /\ l \in Nat
  BY <1>1, <1>2, <1>4, <1>5
<1>7. (n + 1) * l = n * l + l /\ n * l \in Nat
  BY <1>4
<1>8. ASSUME flags.telemetry, NEW i \in 1..(n + 1)
      PROVE  /\ known'.history[i].session = "V" /\ known'.history[i].ts \in Nat
             /\ clock' - known'.history[i].ts <= (n + 1) * l
  <2>1. PICK b \in Nat : b = n * l
    BY <1>7
  <2>2. CASE i \in 1..n
    <3>1. /\ known'.history[i] = known.history[i]
          /\ known.history[i].session = "V" /\ known.history[i].ts \in Nat
          /\ clock - known.history[i].ts <= b
      BY <1>4, <1>5, <1>8, <2>1, <2>2 DEF Warmed
    <3> HIDE DEF l
    <3>2. clock' - known'.history[i].ts <= b + l
      BY <1>4, <1>6, <3>1
    <3> QED
      BY <1>7, <2>1, <3>1, <3>2
  <2>3. CASE i = n + 1
    <3>1. known'.history[i].session = "V" /\ known'.history[i].ts = clock
      BY <1>5, <1>8, <2>3
    <3> HIDE DEF l
    <3>2. clock' - known'.history[i].ts <= b + l
      BY <1>4, <1>6, <3>1
    <3> QED
      BY <1>4, <1>7, <2>1, <3>1, <3>2
  <2> QED
    BY <1>4, <1>8, <2>2, <2>3
<1>9. flags.binding => registry' = [s \in {User} |-> IF n' = 0 THEN {} ELSE {"V"}]
  BY <1>1, <1>4, <1>5
<1>10. n' <= suite'.warmUps
  BY <1>1, <1>4
<1> QED
  BY <1>1, <1>5, <1>8, <1>9, <1>10 DEF Warmed

LEMMA PrepareLeavesBaseline ==
  ASSUME BaselineInv, faults = 0, ~flags.passthrough, WarmUpFits, TokenLasts, Prepare
  PROVE  Baseline'
<1>1. /\ pc = "warm_up" /\ n = suite.warmUps /\ todo' = todo
      /\ suite' = suite /\ flags' = flags
  BY DEF Prepare, Elsewhere, setup
<1>2. Attack' = Attack
  BY <1>1 DEF Attack
<1>3. Warmed /\ n \in Nat /\ suite \in Suites /\ suite.warmUps \in Nat \ {0}
      /\ User \in {User}
  BY <1>1, WindowAssumption DEF BaselineInv, LiveInv, Fresh, StageInv, WarmUpFits
<1>4. CASE Attack # "A1"
  <2>1. known' = known /\ registry' = registry
    BY <1>4 DEF Prepare, trust
  <2>2. ASSUME flags.telemetry
        PROVE  /\ Len(known.history) = suite.warmUps /\ known.failures = 0
               /\ \A i \in DOMAIN known.history : known.history[i].session = "V"
    <3>1. IsSequence(known.history) /\ Len(known.history) = n /\ known.failures = 0
          /\ \A i \in 1..n : known.history[i].session = "V"
      BY <1>3, <2>2 DEF Warmed
    <3>2. DOMAIN known.history = 1..n
      BY <3>1, LenProperties DEF IsSequence
    <3> QED
      BY <1>1, <3>1, <3>2
  <2>3. flags.binding => registry[User] = {"V"}
    BY <1>1, <1>3 DEF Warmed
  <2> QED
    BY <1>1, <1>2, <1>3, <1>4, <2>1, <2>2, <2>3 DEF Baseline
<1>5. CASE Attack = "A1"
  <2>1. Send(CapturedRequest)
    BY <1>5 DEF Prepare
  <2>2. PICK q : q = CapturedRequest
    OBVIOUS
  <2>3. q.token = "V" /\ q.proof = "V" /\ q.iat = Whole(clock) /\ q.context.session = "V"
    BY <2>2 DEF CapturedRequest, WarmUpRequest, Request, VictimContext, From, NotAttack
  <2>4. /\ flags.telemetry =>
             /\ IsSequence(known'.history) /\ Len(known'.history) = n + 1
             /\ known'.failures = 0
             /\ \A i \in 1..n : known'.history[i] = known.history[i]
             /\ known'.history[n + 1].session = "V"
        /\ flags.binding => registry' = [s \in {User} |-> {"V"}]
    BY <1>1, <2>1, <2>2, <2>3, QuietSend
  <2>5. ASSUME flags.telemetry
        PROVE  /\ Len(known'.history) = suite.warmUps + 1 /\ known'.failures = 0
               /\ \A i \in DOMAIN known'.history : known'.history[i].session = "V"
    <3>1. DOMAIN known'.history = 1..(n + 1)
      BY <2>4, <2>5, LenProperties DEF IsSequence
    <3>2. \A i \in 1..n : known.history[i].session = "V"
      BY <1>3, <2>5 DEF Warmed
    <3>3. \A i \in 1..(n + 1) : i \in 1..n \/ i = n + 1
      BY <1>3
    <3> QED
      BY <1>1, <2>4, <2>5, <3>1, <3>2, <3>3
  <2>6. flags.binding => registry'[User] = {"V"}
    BY <2>4
  <2> QED
    BY <1>1, <1>2, <1>5, <2>5, <2>6 DEF Baseline
<1> QED
  BY <1>4, <1>5

LEMMA BaselineInitial ==
  ASSUME Init
  PROVE  BaselineInv
BY LiveInitial DEF Init, BaselineInv, Fresh

LEMMA BaselineStep ==
  ASSUME BaselineInv, WarmUpFits, TokenLasts, [Next]_vars
  PROVE  BaselineInv'
<1>1. LiveInv' /\ n \in Nat /\ faults \in Nat
  BY LiveStep DEF BaselineInv, LiveInv, StageInv
<1>2. CASE ResetState
  BY <1>1, <1>2 DEF ResetState, Elsewhere, setup, BaselineInv, Fresh
<1>3. CASE ResetFails \/ LoginFails \/ PrepareFails
  BY <1>1, <1>3 DEF ResetFails, LoginFails, PrepareFails, Abort, setup, BaselineInv, Fresh
<1>4. CASE Login
  <2>1. /\ pc = "login" /\ pc' = "warm_up" /\ n' = 0
        /\ UNCHANGED <<flags, suite, down, faults, clock, known, registry, captured>>
    BY <1>4 DEF Login, Elsewhere, setup, trust
  <2>2. ASSUME faults = 0, ~flags.passthrough
        PROVE  Warmed'
    <3>1. /\ known = Unseen /\ registry = [s \in {User} |-> {}] /\ captured = FALSE
          /\ suite.warmUps \in Nat
      BY <2>1, <2>2, SelectedIsSome DEF BaselineInv, LiveInv, Fresh, StageInv
    <3>2. known.history = <<>> /\ known.failures = 0
      BY <3>1 DEF Unseen
    <3>3. IsSequence(known.history) /\ Len(known.history) = 0
      BY <3>2 DEF IsSequence
    <3> QED
      BY <2>1, <3>1, <3>2, <3>3 DEF Warmed
  <2> QED
    BY <1>1, <2>1, <2>2 DEF BaselineInv, Fresh
<1>5. CASE WarmUp
  <2>1. pc' = "warm_up" /\ UNCHANGED <<flags, faults>>
    BY <1>5 DEF WarmUp, Elsewhere, setup
  <2> QED
    BY <1>1, <1>5, <2>1, WarmUpWarms DEF BaselineInv, Fresh
<1>6. CASE Prepare
  <2>1. pc' = "attack" /\ UNCHANGED <<flags, faults>>
    BY <1>6 DEF Prepare, Elsewhere, setup
  <2> QED
    BY <1>1, <1>6, <2>1, PrepareLeavesBaseline DEF BaselineInv, Fresh
<1>7. CASE Attempt
  <2>1. pc' = "attack" /\ n' # 0
    BY <1>1, <1>7 DEF Attempt
  <2> QED
    BY <1>1, <2>1 DEF BaselineInv, Fresh
<1>8. CASE Save \/ Summarise
  BY <1>1, <1>8 DEF Save, Summarise, Elsewhere, setup, BaselineInv, Fresh
<1>9. CASE Break
  BY <1>1, <1>9 DEF Break, BaselineInv
<1>10. CASE Mend
  <2>1. faults # 0 /\ faults' = faults
    BY <1>10 DEF Mend, BaselineInv, LiveInv, InTime
  <2> QED
    BY <1>1, <2>1 DEF BaselineInv
<1>11. CASE UNCHANGED vars
  <2>1. UNCHANGED <<pc, n, todo, suite, flags, faults, clock, known, registry, captured>>
    BY <1>11 DEF vars, setup, trust
  <2>2. Attack' = Attack
    BY <2>1 DEF Attack
  <2>3. Fresh' <=> Fresh
    BY <2>1, <2>2 DEF Fresh, Warmed, Baseline
  <2> QED
    BY <1>1, <2>1, <2>3 DEF BaselineInv
<1> QED
  BY <1>2, <1>3, <1>4, <1>5, <1>6, <1>7, <1>8, <1>9, <1>10, <1>11 DEF Next

(* While nothing fails, each attack starts from the victim's baseline of    *)
(* its own preparation and nothing older: for any sizes and latency, if the *)
(* warm-up fits in the telemetry window and in the token's life.            *)
THEOREM EachAttackStartsFresh ==
  ASSUME WarmUpFits, TokenLasts
  PROVE  Spec => []BaselineIsFresh
<1>1. Init => BaselineInv
  BY BaselineInitial
<1>2. BaselineInv /\ [Next]_vars => BaselineInv'
  BY BaselineStep, WarmUpFits, TokenLasts
<1>3. BaselineInv => BaselineIsFresh
  BY DEF BaselineInv, Fresh, BaselineIsFresh
<1> QED
  BY <1>1, <1>2, <1>3, PTL DEF Spec

-----------------------------------------------------------------------------
(* What the score of a request rests on. *)

(* A set of numbers has a least one. *)
LEMMA LeastNumber ==
  ASSUME NEW F, F \subseteq Nat, F # {}
  PROVE  \E i \in F : \A k \in F : i <= k
<1> DEFINE R == OpToRel(<, Nat)
<1>1. IsWellFoundedOn(R, Nat)
  BY NatLessThanWellFounded
<1>2. \A i, k \in Nat : <<k, i>> \notin R => i <= k
  BY DEF OpToRel
<1> HIDE DEF R
<1>3. \E i \in F : \A k \in F : <<k, i>> \notin R
  BY <1>1, WFMin
<1> QED
  BY <1>2, <1>3

(* What pruning leaves is the end of the history, from an event that has    *)
(* not expired.                                                             *)
LEMMA PrunedEnd ==
  ASSUME NEW S, NEW h \in Seq(S), NEW now
  PROVE  LET p == Prune(h, now)
         IN /\ p \in Seq(S) /\ Len(p) <= Len(h)
            /\ \A i \in 1..Len(p) : \E k \in 1..Len(h) : p[i] = h[k]
            /\ p # <<>> => ~Expired(p[1], now) /\ p[Len(p)] = h[Len(h)]
<1> DEFINE l == Len(h)
           fresh == {i \in 1..l : ~Expired(h[i], now)}
<1>1. l \in Nat /\ \A i \in 1..l : h[i] \in S
  BY LenProperties, ElementOfSeq
<1>2. CASE fresh = {}
  <2>1. Prune(h, now) = <<>>
    BY <1>2 DEF Prune
  <2> HIDE DEF l
  <2>2. Len(Prune(h, now)) <= l
    BY <1>1, <2>1, EmptySeq
  <2> QED
    BY <2>1, <2>2, EmptySeq DEF l
<1>3. CASE fresh # {}
  <2> DEFINE m == CHOOSE i \in fresh : \A k \in fresh : i <= k
             p == SubSeq(h, m, l)
  <2>1. m \in fresh
    <3>1. fresh \subseteq Nat
      OBVIOUS
    <3> HIDE DEF fresh
    <3> QED
      BY <1>3, <3>1, LeastNumber
  <2>2. Prune(h, now) = p
    BY <1>3 DEF Prune
  <2>3. m \in 1..l /\ ~Expired(h[m], now)
    BY <2>1
  <2> HIDE DEF m, l
  <2>4. /\ p \in Seq(S) /\ Len(p) = l - m + 1
        /\ \A i \in 1..(l - m + 1) : p[i] = h[m + i - 1]
    BY <1>1, <2>3, SubSeqProperties
  <2> HIDE DEF p
  <2>5. p[1] = h[m]
    BY <1>1, <2>3, <2>4
  <2>6. p[Len(p)] = h[l]
    BY <1>1, <2>3, <2>4
  <2>7. \A i \in 1..Len(p) : m + i - 1 \in 1..l /\ p[i] = h[m + i - 1]
    BY <1>1, <2>3, <2>4
  <2>8. Len(p) <= l
    BY <1>1, <2>3, <2>4
  <2> QED
    BY <2>2, <2>3, <2>4, <2>5, <2>6, <2>7, <2>8 DEF l
<1> QED
  BY <1>2, <1>3

(* Quotients, rounded. *)
LEMMA NoneOfSome ==
  ASSUME NEW b \in Nat \ {0}
  PROVE  Thousandths(0, b) = 0 /\ Thousandths(b, b) = 1000
<1>1. 2000 * 0 + b = b /\ 2000 * b + b = 2001 * b
  OBVIOUS
<1>2. \A a, d \in Nat, q \in Nat : d > 0 /\ d * q <= a /\ a < d * q + d => a \div d = q
  <2> SUFFICES ASSUME NEW a \in Nat, NEW d \in Nat, NEW q \in Nat,
                      d > 0, d * q <= a, a < d * q + d
               PROVE  a \div d = q
    OBVIOUS
  <2> DEFINE x == a \div d
  <2>1. x \in Int /\ d * x <= a /\ a < d * x + d
    OBVIOUS
  <2> HIDE DEF x
  <2>2. ~(x < q)
    <3> SUFFICES ASSUME x < q PROVE FALSE
      OBVIOUS
    <3>1. d * (x + 1) <= d * q
      BY <2>1
    <3>2. d * (x + 1) = d * x + d
      BY <2>1
    <3> QED
      BY <2>1, <3>1, <3>2
  <2>3. ~(q < x)
    <3> SUFFICES ASSUME q < x PROVE FALSE
      OBVIOUS
    <3>1. d * (q + 1) <= d * x
      BY <2>1
    <3>2. d * (q + 1) = d * q + d
      BY <2>1
    <3> QED
      BY <2>1, <3>1, <3>2
  <2>4. x = q
    BY <2>1, <2>2, <2>3
  <2> QED
    BY <2>4 DEF x
<1>3. b \div (2 * b) = 0
  BY <1>2
<1>4. (2001 * b) \div (2 * b) = 1000
  <2>1. (2 * b) * 1000 = 2000 * b
    OBVIOUS
  <2> QED
    BY <1>2, <2>1
<1> QED
  BY <1>1, <1>3, <1>4 DEF Thousandths

-----------------------------------------------------------------------------
(* The causes whose stage _infer_stage would get wrong are not met: A1 and  *)
(* A2 by a challenge, A1 and A3 by a refused key, A3 by a replay or an old  *)
(* proof, and none but A5 by the check of the owner.                        *)
Misread(attack, cause) ==
  \/ cause = "challenge" /\ attack \in {"A1", "A2"}
  \/ cause = "jkt" /\ attack \in {"A1", "A3"}
  \/ cause \in {"stale", "replay"} /\ attack = "A3"
  \/ cause = "ownership" /\ attack # "A5"

(* All the others it reads right, or they are among the misbooked. *)
LEMMA StageTable ==
  ASSUME NEW a \in Seven \ {"A6"}, NEW c, ~Misread(a, c), <<a, c>> \notin Misbooked
  PROVE  StageFor(a, c) \in StageOf(c)
<1>1. CASE a = "A1"
  BY <1>1 DEF StageFor, A1Stage, StageOf, Misread, Misbooked, Refused2
<1>2. CASE a = "A2"
  BY <1>2 DEF StageFor, A1Stage, A2Stage, StageOf, Misread, Misbooked, Refused2
<1>3. CASE a = "A3"
  BY <1>3 DEF StageFor, A3Stage, StageOf, Misread, Misbooked, Refused2
<1>4. CASE a \in {"A4", "A7"}
  BY <1>4 DEF StageFor, A4Stage, StageOf, Misread, Misbooked, Refused2
<1>5. CASE a = "A5"
  BY <1>5 DEF StageFor, A5Stage, StageOf, Misread, Misbooked, Refused2
<1> QED
  BY <1>1, <1>2, <1>3, <1>4, <1>5 DEF Seven

(* What the decision says of the score. *)
LEMMA ChallengeIsMiddling ==
  ASSUME NEW q, DecisionFor(q) = "CHALLENGE"
  PROVE  /\ Scored(q)
         /\ threshold.allow <= RiskOf(q) /\ RiskOf(q) < threshold.deny
<1>1. /\ ~flags.passthrough /\ ProofRefusal(q) = "none" /\ flags.risk /\ down # "opa"
      /\ FromOpa(RegoAnswer(flags, ChecksFor(q), RiskOf(q), threshold)) = "CHALLENGE"
  BY DEF DecisionFor, FromOpa, NoAnswer, Decision
<1> DEFINE x == RegoActions(flags, ChecksFor(q), RiskOf(q), threshold)
           y == RegoAnswer(flags, ChecksFor(q), RiskOf(q), threshold)
<1>2. y = "CHALLENGE"
  BY <1>1 DEF FromOpa
<1>3. x = {"CHALLENGE"}
  BY <1>2 DEF RegoAnswer, EvalConflict
<1> QED
  BY <1>1, <1>3 DEF Scored, RegoActions

(* An allowed request scored below the lower limit, if it was scored. *)
LEMMA AllowedIsLow ==
  ASSUME NEW q, DecisionFor(q) = "ALLOW"
  PROVE  \/ flags.passthrough
         \/ /\ ProofRefusal(q) = "none"
            /\ flags.risk => RiskOf(q) < threshold.allow
<1> SUFFICES ASSUME ~flags.passthrough
             PROVE  /\ ProofRefusal(q) = "none"
                    /\ flags.risk => RiskOf(q) < threshold.allow
  OBVIOUS
<1>1. ProofRefusal(q) = "none"
  BY DEF DecisionFor
<1> SUFFICES ASSUME flags.risk
             PROVE  RiskOf(q) < threshold.allow
  BY <1>1
<1> DEFINE x == RegoActions(flags, ChecksFor(q), RiskOf(q), threshold)
           y == RegoAnswer(flags, ChecksFor(q), RiskOf(q), threshold)
<1>2. y = "ALLOW"
  BY <1>1 DEF DecisionFor, FromOpa, NoAnswer, Decision
<1>3. x = {"ALLOW"}
  BY <1>2 DEF RegoAnswer, EvalConflict
<1> QED
  BY <1>3 DEF RegoActions

(* The cells' limits, and what binding a key to a device rests on. *)
LEMMA CellSettings ==
  ASSUME NEW c \in CellNames
  PROVE  /\ Cells[c].allow \in {30, 40}
         /\ CellFlags(c, Keep).binding => CellFlags(c, Keep).dpop
<1>1. c \in DOMAIN Cells
  BY DEF CellNames
<1>2. Cells[c].allow \in {30, 40}
  BY <1>1 DEF Cells, AttackCell, LoadCell, AdaptiveCell, OracleCell, AblationCell, Cell
<1> DEFINE s == Cells[c].shell
<1>3. s["ENFORCE_DPOP"] = Unset /\ s["CHECK_DEVICE_BINDING"] \in {Unset, Empty, "false"}
  <2>1. \/ s = Keep
        \/ s = [Keep EXCEPT !["ORACLE_ATTACK_CONTEXT"] = "true"]
        \/ \E off \in {"none"} \cup Ablated : s = AblationShell(off)
    BY <1>1 DEF Cells, AttackCell, LoadCell, AdaptiveCell, OracleCell, AblationCell, Cell, Ablated
  <2> HIDE DEF s
  <2> QED
    BY <2>1 DEF Keep, FlagVars, AblationShell, Ablated
<1> DEFINE m == Cells[c].mode
           env == ContainerEnv(s, Keep)
<1>4. env["ENFORCE_DPOP"] = Unset /\ env["CHECK_DEVICE_BINDING"] \in {Unset, Empty, "false"}
  BY <1>3 DEF ContainerEnv, ShellOrFile, Keep, FlagVars
<1> HIDE DEF s, m, env
<1>5. Bool(env["ENFORCE_DPOP"], "ENFORCE_DPOP" \in ModeDefaults(m))
        = ("ENFORCE_DPOP" \in ModeDefaults(m))
  BY <1>4 DEF Bool
<1>6. Bool(env["CHECK_DEVICE_BINDING"], "CHECK_DEVICE_BINDING" \in ModeDefaults(m))
        => "CHECK_DEVICE_BINDING" \in ModeDefaults(m)
  BY <1>4 DEF Bool, Truthy, Unset, Empty
<1>7. "CHECK_DEVICE_BINDING" \in ModeDefaults(m) => "ENFORCE_DPOP" \in ModeDefaults(m)
  BY DEF ModeDefaults
<1>8. Effective(m, env).binding => Effective(m, env).dpop
  BY <1>5, <1>6, <1>7 DEF Effective
<1> QED
  BY <1>2, <1>8 DEF CellFlags, s, m, env

(* Without the rules of the key, the region, the session and the failures,  *)
(* or with both of region and session, no score is between the limits.      *)
LEMMA NoMiddle ==
  ASSUME NEW f, NEW checks, NEW device, NEW s, NEW declared
  PROVE  LET score == Score(f, checks, device, s, declared)
         IN /\ score \in Int
            /\ ~R1(f, checks) /\ ~R2(f, device, s) /\ ~R3(s) /\ ~R5(s) /\ ~R6(s)
                 => score < 30 \/ score >= 70
            /\ R3(s) /\ R5(s) => score >= 70
<1> DEFINE p1 == Penalty(R1(f, checks), 80)
           p2 == Penalty(R2(f, device, s), 35)
           p3 == Penalty(R3(s), 60)
           p4 == Penalty(R4(f, s), 25)
           p5 == Penalty(R5(s), 20)
           p6 == Penalty(R6(s), 20)
           p7 == Penalty(R7(f, declared), 90)
<1>1. /\ p1 \in {0, 80} /\ p2 \in {0, 35} /\ p3 \in {0, 60} /\ p4 \in {0, 25}
      /\ p5 \in {0, 20} /\ p6 \in {0, 20} /\ p7 \in {0, 90}
      /\ ~R1(f, checks) /\ ~R2(f, device, s) /\ ~R3(s) /\ ~R5(s) /\ ~R6(s)
           => p1 = 0 /\ p2 = 0 /\ p3 = 0 /\ p5 = 0 /\ p6 = 0
      /\ R3(s) /\ R5(s) => p3 = 60 /\ p5 = 20
  BY DEF Penalty
<1>2. Score(f, checks, device, s, declared) = Cap(p1 + p2 + p3 + p4 + p5 + p6 + p7)
  BY DEF Score, TotalPenalty
<1> HIDE DEF p1, p2, p3, p4, p5, p6, p7
<1> QED
  BY <1>1, <1>2 DEF Cap

-----------------------------------------------------------------------------
(* Everything remembered comes from one place: the region and the session   *)
(* of all that the window may still hold.                                   *)
Entries(geo, id) == [ts : Nat, geo : {geo}, session : {id}]

HistoryOf(geo, id) ==
  LET h == known.history
  IN /\ h \in Seq(Entries(geo, id))
     /\ \A i \in 1..Len(h) : h[i].ts <= h[Len(h)].ts /\ h[i].ts <= clock

Calm == known.failures = 0 /\ known.total \in Nat

(* Inside the window a region change is always above the limit of rule R3.  *)
LEMMA ChangeIsFast ==
  ASSUME NEW elapsed \in Int, elapsed <= Window
  PROVE  ImpliedVelocity(elapsed) > 500
<1>1. elapsed <= 7185
  BY WindowAssumption
<1>2. CASE elapsed <= 3
  BY <1>2 DEF ImpliedVelocity
<1>3. CASE elapsed > 3
  <2> DEFINE q == 3600000 \div elapsed
  <2>1. q \in Int /\ elapsed * q + elapsed > 3600000
    BY <1>3
  <2>2. q > 500
    <3> SUFFICES ASSUME q <= 500 PROVE FALSE
      BY <2>1
    <3>1. elapsed * q <= elapsed * 500
      BY <1>3, <2>1
    <3> QED
      BY <1>1, <2>1, <3>1
  <2> QED
    BY <1>3, <2>2 DEF ImpliedVelocity
<1> QED
  BY <1>2, <1>3

(* How many events of a history from one place are of a session. *)
LEMMA SessionShare ==
  ASSUME NEW geo, NEW id, NEW p \in Seq(Entries(geo, id)), p # <<>>
  PROVE  /\ Len(p) \in Nat \ {0} /\ p[Len(p)].geo = geo /\ p[Len(p)].ts \in Nat
         /\ SameSession(p, id) = Len(p)
         /\ \A x : x # id => SameSession(p, x) = 0
<1>1. Len(p) \in Nat \ {0} /\ \A i \in 1..Len(p) : p[i] \in Entries(geo, id)
  BY EmptySeq, LenProperties, ElementOfSeq
<1>2. {i \in 1..Len(p) : p[i].session = id} = 1..Len(p)
  BY <1>1 DEF Entries
<1>3. \A x : x # id => {i \in 1..Len(p) : p[i].session = x} = {}
  BY <1>1 DEF Entries
<1>4. Cardinality(1..Len(p)) = Len(p) /\ Cardinality({}) = 0
  BY <1>1, FS_Interval, FS_EmptySet
<1>5. Len(p) \in 1..Len(p)
  BY <1>1
<1> QED
  BY <1>1, <1>2, <1>3, <1>4, <1>5 DEF SameSession, Entries

(* The failure rule does not fire on a subject whose proofs were all good.  *)
LEMMA CalmSignals ==
  ASSUME Calm, NEW q, ProofRefusal(q) = "none"
  PROVE  ~R6(SignalsFor(q))
<1> DEFINE e == EventFor(q)
<1>1. ~e.failed
  BY DEF EventFor
<1> HIDE DEF e
<1>2. NewFailures(known, e) = 0 /\ NewTotal(known, e) \in Nat \ {0}
  BY <1>1 DEF Calm, NewFailures, NewTotal
<1>3. SignalsOf(known, e).failureRate = 0
  BY <1>2, NoneOfSome DEF SignalsOf
<1>4. Signals(flags, SignalsOf(known, e)).failureRate = 0
  BY <1>3 DEF Signals, Neutral
<1> QED
  BY <1>4 DEF R6, FailureLimit, SignalsFor, e

(* A request from the place of what is remembered. *)
LEMMA SameSource ==
  ASSUME NEW q, HistoryOf(q.context.geo, q.context.session)
  PROVE  ~R3(SignalsFor(q)) /\ ~R5(SignalsFor(q))
<1> DEFINE e == EventFor(q)
           h == known.history
           p == Prune(h, e.ts)
<1>1. e.geo = q.context.geo /\ e.session = q.context.session
  BY DEF EventFor
<1> HIDE DEF e
<1>2. p \in Seq(Entries(e.geo, e.session))
  BY <1>1, PrunedEnd DEF HistoryOf
<1> HIDE DEF p
<1>3. ~RegionChanged(p, e.geo)
  BY <1>2, SessionShare DEF RegionChanged
<1>4. p # <<>> => Thousandths(SameSession(p, e.session), Len(p)) = 1000
  BY <1>2, SessionShare, NoneOfSome
<1>5. SignalsOf(known, e).geoVelocity = 0 /\ SignalsOf(known, e).continuity = 1000
  BY <1>3, <1>4 DEF SignalsOf, p
<1>6. /\ Signals(flags, SignalsOf(known, e)).geoVelocity = 0
      /\ Signals(flags, SignalsOf(known, e)).continuity = 1000
  BY <1>5 DEF Signals, Neutral
<1> QED
  BY <1>6 DEF R3, R5, VelocityLimit, ContinuityFloor, SignalsFor, e

(* A request from another place: both rules fire, unless what is remembered *)
(* has left the window.                                                     *)
LEMMA OtherSource ==
  ASSUME NEW q, NEW geo, NEW id, HistoryOf(geo, id), clock \in Nat, flags.telemetry,
         q.context.geo # geo, q.context.session # id
  PROVE  IF Prune(known.history, clock) = <<>>
         THEN ~R3(SignalsFor(q)) /\ ~R5(SignalsFor(q))
         ELSE R3(SignalsFor(q)) /\ R5(SignalsFor(q))
<1> DEFINE e == EventFor(q)
           h == known.history
           p == Prune(h, e.ts)
           s == SignalsOf(known, e)
<1>1. e.geo = q.context.geo /\ e.session = q.context.session /\ e.ts = clock
  BY DEF EventFor
<1> HIDE DEF e
<1>2. /\ p \in Seq(Entries(geo, id)) /\ h \in Seq(Entries(geo, id))
      /\ p # <<>> => ~Expired(p[1], e.ts) /\ p[Len(p)] = h[Len(h)]
      /\ \A i \in 1..Len(p) : \E k \in 1..Len(h) : p[i] = h[k]
  BY <1>1, PrunedEnd DEF HistoryOf
<1>3. /\ s.geoVelocity = IF RegionChanged(p, e.geo)
                         THEN ImpliedVelocity(e.ts - p[Len(p)].ts) ELSE 0
      /\ s.continuity = IF p = <<>> THEN 1000
                        ELSE Thousandths(SameSession(p, e.session), Len(p))
  BY DEF SignalsOf
<1>4. SignalsFor(q) = s
  BY DEF SignalsFor, Signals, e
<1>5. p = Prune(known.history, clock)
  BY <1>1
<1> HIDE DEF p, s
<1>6. CASE p = <<>>
  <2>1. s.geoVelocity = 0 /\ s.continuity = 1000
    BY <1>3, <1>6 DEF RegionChanged
  <2> QED
    BY <1>4, <1>5, <1>6, <2>1 DEF R3, R5, VelocityLimit, ContinuityFloor
<1>7. CASE p # <<>>
  <2>1. /\ Len(p) \in Nat \ {0} /\ p[Len(p)].geo = geo /\ p[Len(p)].ts \in Nat
        /\ SameSession(p, e.session) = 0
    BY <1>1, <1>2, <1>7, SessionShare
  <2>2. s.continuity = 0
    BY <1>3, <1>7, <2>1, NoneOfSome
  <2>3. RegionChanged(p, e.geo)
    BY <1>1, <1>7, <2>1 DEF RegionChanged
  <2>4. e.ts - p[Len(p)].ts <= Window
    <3>1. 1 \in 1..Len(p)
      BY <2>1
    <3>2. PICK k \in 1..Len(h) : p[1] = h[k]
      BY <1>2, <3>1
    <3>3. h[k].ts <= h[Len(h)].ts
      BY DEF HistoryOf
    <3>4. h[k] \in Entries(geo, id)
      BY <1>2, ElementOfSeq
    <3>5. PICK a, b \in Nat : a = p[1].ts /\ b = p[Len(p)].ts
      BY <2>1, <3>2, <3>4 DEF Entries
    <3>6. ~(clock - a > Window) /\ a <= b
      <4>1. ~(clock - a > Window)
        BY <1>1, <1>2, <1>7, <3>5 DEF Expired
      <4>2. a <= b
        BY <1>2, <1>7, <3>2, <3>3, <3>5
      <4> QED
        BY <4>1, <4>2
    <3>7. Window \in Nat
      BY WindowAssumption
    <3> QED
      BY <1>1, <3>5, <3>6, <3>7
  <2>5. s.geoVelocity > 500
    <3>1. e.ts - p[Len(p)].ts \in Int
      BY <1>1, <2>1
    <3> QED
      BY <1>3, <2>3, <2>4, <3>1, ChangeIsFast
  <2> QED
    BY <1>4, <1>5, <1>7, <2>2, <2>5 DEF R3, R5, VelocityLimit, ContinuityFloor
<1> QED
  BY <1>6, <1>7

-----------------------------------------------------------------------------
(* What collect leaves. *)

(* Pushing puts the event at the end and keeps only what was there. *)
LEMMA PushedEnd ==
  ASSUME NEW S, NEW p \in Seq(S), NEW x \in S
  PROVE  LET r == Push(p, x)
         IN /\ r \in Seq(S) /\ Len(r) \in 1..(Len(p) + 1) /\ r[Len(r)] = x
            /\ \A i \in 1..Len(r) : r[i] = x \/ \E k \in 1..Len(p) : r[i] = p[k]
<1>1. PICK m, a : m = Len(p) /\ a = Append(p, x)
  OBVIOUS
<1>2. /\ m \in Nat /\ MaxLen \in Nat \ {0}
      /\ a \in Seq(S) /\ Len(a) = m + 1 /\ a[m + 1] = x
      /\ \A i \in 1..m : a[i] = p[i]
  BY <1>1, WindowAssumption, AppendProperties, LenProperties
<1>3. \E r : /\ r = Push(p, x) /\ r \in Seq(S) /\ Len(r) \in {m, m + 1} \ {0}
             /\ r[Len(r)] = x
             /\ \A i \in 1..Len(r) : r[i] = x \/ \E k \in 1..m : r[i] = p[k]
  <2>1. CASE ~(Len(a) > MaxLen)
    <3>1. a = Push(p, x)
      BY <1>1, <2>1 DEF Push
    <3>2. \A i \in 1..(m + 1) : a[i] = x \/ \E k \in 1..m : a[i] = p[k]
      <4>1. \A i \in 1..(m + 1) : i \in 1..m \/ i = m + 1
        BY <1>2
      <4> QED
        BY <1>2, <4>1
    <3>3. m + 1 # 0
      BY <1>2
    <3> QED
      BY <1>2, <3>1, <3>2, <3>3
  <2>2. CASE Len(a) > MaxLen
    <3>1. Tail(a) = Push(p, x)
      BY <1>1, <2>2 DEF Push
    <3>2. m \in Nat \ {0} /\ a # <<>>
      BY <1>2, <2>2, EmptySeq
    <3>3. /\ Tail(a) \in Seq(S) /\ Len(Tail(a)) = m
          /\ \A i \in 1..m : Tail(a)[i] = a[i + 1]
      BY <1>2, <3>2, HeadTailProperties
    <3>4. PICK t : t = Tail(a)
      OBVIOUS
    <3>5. t \in Seq(S) /\ Len(t) = m /\ \A i \in 1..m : t[i] = a[i + 1]
      BY <3>3, <3>4
    <3>6. t[m] = x
      BY <1>2, <3>2, <3>5
    <3>7. ASSUME NEW i \in 1..m
          PROVE  t[i] = x \/ \E k \in 1..m : t[i] = p[k]
      <4>1. i + 1 \in 1..m \/ i + 1 = m + 1
        BY <3>2
      <4>2. t[i] = a[i + 1]
        BY <3>5
      <4> QED
        BY <1>2, <4>1, <4>2
    <3>8. Len(t) \in {m, m + 1} \ {0} /\ t[Len(t)] = x
      BY <3>2, <3>5, <3>6
    <3>9. \A i \in 1..Len(t) : t[i] = x \/ \E k \in 1..m : t[i] = p[k]
      BY <3>5, <3>7
    <3>10. t = Push(p, x) /\ t \in Seq(S)
      BY <3>1, <3>4, <3>5
    <3> QED
      BY <3>8, <3>9, <3>10
  <2> QED
    BY <2>1, <2>2
<1>4. PICK r : /\ r = Push(p, x) /\ r \in Seq(S) /\ Len(r) \in {m, m + 1} \ {0}
               /\ r[Len(r)] = x
               /\ \A i \in 1..Len(r) : r[i] = x \/ \E k \in 1..m : r[i] = p[k]
  BY <1>3
<1>5. Len(r) \in 1..(Len(p) + 1)
  BY <1>1, <1>2, <1>4
<1>6. \A i \in 1..Len(r) : r[i] = x \/ \E k \in 1..Len(p) : r[i] = p[k]
  BY <1>1, <1>4
<1> QED
  BY <1>4, <1>5, <1>6

(* What the next request finds of a history from one place. *)
LEMMA PrunedHistory ==
  ASSUME NEW geo, NEW id, HistoryOf(geo, id)
  PROVE  LET p == Prune(known.history, clock)
         IN p \in Seq(Entries(geo, id)) /\ \A i \in 1..Len(p) : p[i].ts <= clock
<1>1. known.history \in Seq(Entries(geo, id))
      /\ \A i \in 1..Len(known.history) : known.history[i].ts <= clock
  BY DEF HistoryOf
<1> QED
  BY <1>1, PrunedEnd

(* A request from where the rest of the window comes from. *)
LEMMA HistoryCollected ==
  ASSUME NEW CONSTANT q, NEW CONSTANT geo, NEW CONSTANT id,
         q.context.geo = geo, q.context.session = id,
         Prune(known.history, clock) \in Seq(Entries(geo, id)),
         \A i \in 1..Len(Prune(known.history, clock)) :
           Prune(known.history, clock)[i].ts <= clock,
         known' = Remember(known, EventFor(q)),
         clock \in Nat, clock' \in Nat, clock <= clock'
  PROVE  HistoryOf(geo, id)'
<1> DEFINE S == Entries(geo, id)
<1>1. PICK p, now, x : /\ p = Prune(known.history, clock) /\ now = clock
                       /\ x = [ts |-> now, geo |-> geo, session |-> id]
  OBVIOUS
<1>2. x \in S /\ x.ts = now /\ now \in Nat
  BY <1>1 DEF Entries
<1>3. known'.history = Push(p, x)
  BY <1>1 DEF Remember, EventFor
<1>4. PICK r : r = Push(p, x)
  OBVIOUS
<1>5. p \in Seq(S) /\ \A i \in 1..Len(p) : p[i].ts <= now
  BY <1>1
<1> HIDE DEF S
<1>6. /\ r \in Seq(S) /\ Len(r) \in Nat \ {0} /\ r[Len(r)] = x
      /\ \A i \in 1..Len(r) : r[i] = x \/ \E k \in 1..Len(p) : r[i] = p[k]
  <2>1. x \in S /\ p \in Seq(S)
    BY <1>2, <1>5
  <2> DEFINE y == Push(p, x)
  <2>2. /\ y \in Seq(S) /\ Len(y) \in 1..(Len(p) + 1) /\ y[Len(y)] = x
        /\ \A i \in 1..Len(y) : y[i] = x \/ \E k \in 1..Len(p) : y[i] = p[k]
    BY <2>1, PushedEnd
  <2>3. Len(p) \in Nat
    BY <2>1, LenProperties
  <2>4. Len(y) \in Nat \ {0}
    BY <2>2, <2>3
  <2> QED
    BY <1>4, <2>2, <2>4
<1>7. \A i \in 1..Len(r) : r[i].ts <= now /\ r[i].ts \in Nat
  <2> SUFFICES ASSUME NEW i \in 1..Len(r) PROVE r[i].ts <= now /\ r[i].ts \in Nat
    OBVIOUS
  <2>1. r[i] \in S
    BY <1>6, ElementOfSeq
  <2>2. r[i].ts \in Nat
    BY <2>1 DEF S, Entries
  <2>3. r[i].ts <= now
    BY <1>2, <1>5, <1>6
  <2> QED
    BY <2>2, <2>3
<1>8. \A i \in 1..Len(r) : r[i].ts <= clock'
  BY <1>1, <1>2, <1>7
<1>9. known'.history = r /\ r[Len(r)].ts = now
  BY <1>2, <1>3, <1>4, <1>6
<1> QED
  BY <1>6, <1>7, <1>8, <1>9 DEF HistoryOf, S

(* Time alone changes nothing about it. *)
LEMMA HistoryKept ==
  ASSUME NEW CONSTANT geo, NEW CONSTANT id, HistoryOf(geo, id),
         known' = known, clock \in Nat, clock' \in Nat, clock <= clock'
  PROVE  HistoryOf(geo, id)'
<1> DEFINE h == known.history
<1>1. h \in Seq(Entries(geo, id))
  BY DEF HistoryOf
<1> HIDE DEF h
<1>2. \A i \in 1..Len(h) : h[i] \in Entries(geo, id)
  BY <1>1, ElementOfSeq
<1>3. \A i \in 1..Len(h) : h[i].ts \in Nat
  BY <1>2 DEF Entries
<1> QED
  BY <1>3 DEF HistoryOf, h

(* Another good proof keeps the subject without failures. *)
LEMMA CalmCollected ==
  ASSUME NEW CONSTANT q, Calm, ProofRefusal(q) = "none",
         known' = Remember(known, EventFor(q))
  PROVE  Calm'
<1>1. PICK e : e = EventFor(q)
  OBVIOUS
<1>2. ~e.failed
  BY <1>1 DEF EventFor
<1> QED
  BY <1>1, <1>2 DEF Calm, Remember, NewFailures, NewTotal

-----------------------------------------------------------------------------
(* What is remembered is the victim's, or only the adversary's. *)
VictimOnly ==
  /\ HistoryOf("AU", "V") /\ Calm
  /\ known.fps \subseteq {"V"} /\ registry \in [{User} -> SUBSET {"V"}]

ThiefOnly == HistoryOf("CN", "X") /\ Calm

(* The controller is configured as the cell says. *)
Settings ==
  /\ cell \in CellNames /\ clock \in Nat
  /\ flags = CellFlags(cell, Keep) /\ threshold = Limits(Cells[cell].allow, 70)

(* The limits, and that no cell binds keys without asking for proofs. *)
LEMMA KnownSettings ==
  ASSUME Settings
  PROVE  /\ threshold.allow \in {30, 40} /\ threshold.deny = 70
         /\ flags.binding => flags.dpop
<1>1. /\ Cells[cell].allow \in {30, 40}
      /\ flags.binding => flags.dpop
  BY CellSettings DEF Settings
<1>2. threshold = [allow |-> Cells[cell].allow, deny |-> 70]
  BY <1>1 DEF Settings, Limits, Float
<1> QED
  BY <1>1, <1>2

(* A challenge takes rules that neither the victim nor, without device      *)
(* binding, A2's adversary sets off alone.                                  *)
LEMMA Unchallenged ==
  ASSUME Settings, NEW q,
         LET s == SignalsFor(q)
         IN /\ ~R1(flags, ChecksFor(q)) /\ ~R2(flags, DeviceKnownFor(q), s)
            /\ ~R6(s) /\ (R3(s) <=> R5(s))
  PROVE  DecisionFor(q) # "CHALLENGE"
<1> SUFFICES ASSUME DecisionFor(q) = "CHALLENGE" PROVE FALSE
  OBVIOUS
<1> DEFINE s == SignalsFor(q)
           x == Score(flags, ChecksFor(q), DeviceKnownFor(q), s, Declared(q))
<1>1. Scored(q) /\ threshold.allow <= RiskOf(q) /\ RiskOf(q) < threshold.deny
  BY ChallengeIsMiddling
<1>2. RiskOf(q) = x
  BY <1>1 DEF RiskOf
<1>3. x \in Int /\ (x < 30 \/ x >= 70)
  BY NoMiddle
<1> HIDE DEF x
<1> QED
  BY <1>1, <1>2, <1>3, KnownSettings

(* The victim's own requests. *)
IsVictims(q) == q.token = "V" /\ q.proof = "V" /\ q.context = VictimContext

(* While only the victim is remembered, only the call rate and the oracle   *)
(* tag speak against them.                                                  *)
LEMMA VictimSignals ==
  ASSUME VictimOnly, NEW q, IsVictims(q), ProofRefusal(q) = "none"
  PROVE  LET s == SignalsFor(q)
         IN /\ ~R1(flags, ChecksFor(q)) /\ ~R2(flags, DeviceKnownFor(q), s)
            /\ ~R3(s) /\ ~R5(s) /\ ~R6(s)
<1> DEFINE s == SignalsFor(q)
<1>1. q.context.geo = "AU" /\ q.context.session = "V" /\ q.context.fp = "V"
  BY DEF IsVictims, VictimContext, From
<1>2. ~R3(s) /\ ~R5(s) /\ ~R6(s)
  BY <1>1, SameSource, CalmSignals DEF VictimOnly
<1>3. ~R1(flags, ChecksFor(q))
  BY DEF R1, ChecksFor, IsVictims
<1>4. DeviceKnownFor(q)
  <2>1. registry[User] \in SUBSET {"V"}
    BY DEF VictimOnly
  <2> QED
    BY <2>1 DEF DeviceKnownFor, DeviceKnown, KnownDevice, IsVictims
<1>5. s.fpStable
  <2>1. EventFor(q).fp = "V"
    BY <1>1 DEF EventFor
  <2>2. FpStable(known, EventFor(q).fp)
    BY <2>1 DEF FpStable, VictimOnly
  <2> QED
    BY <2>2 DEF SignalsFor, Signals, Neutral, SignalsOf
<1>6. ~R2(flags, DeviceKnownFor(q), s)
  BY <1>4, <1>5 DEF R2
<1> QED
  BY <1>2, <1>3, <1>6

(* So they are never challenged: the call rate alone is below the limits    *)
(* and the oracle tag alone above.                                          *)
LEMMA VictimUnchallenged ==
  ASSUME Settings, VictimOnly, NEW q, IsVictims(q)
  PROVE  DecisionFor(q) # "CHALLENGE"
<1> SUFFICES ASSUME ProofRefusal(q) = "none" PROVE DecisionFor(q) # "CHALLENGE"
  BY ChallengeIsMiddling DEF Scored
<1> QED
  BY VictimSignals, Unchallenged

(* And they leave only the victim to be remembered. *)
LEMMA VictimStays ==
  ASSUME VictimOnly, NEW CONSTANT q, IsVictims(q), Send(q),
         Unreached(q) \/ flags.passthrough \/ ProofRefusal(q) = "none",
         clock \in Nat, clock' \in Nat, clock <= clock'
  PROVE  VictimOnly'
<1>1. q.context.geo = "AU" /\ q.context.session = "V" /\ q.context.fp = "V"
  BY DEF IsVictims, VictimContext, From
<1>2. registry' \in [{User} -> SUBSET {"V"}]
  <2>1. registry' = registry \/ registry' = Observed(registry, User, "V")
    BY DEF Send, Unreached, Handled, Collected, trust, IsVictims
  <2> QED
    BY <2>1 DEF VictimOnly, Observed
<1>3. CASE known' = known
  BY <1>2, <1>3, HistoryKept DEF VictimOnly, Calm
<1>4. CASE known' # known
  <2>1. known' = Remember(known, EventFor(q)) /\ ProofRefusal(q) = "none"
    BY <1>4 DEF Send, Unreached, Handled, Collected, trust
  <2>2. Calm'
    BY <2>1, CalmCollected DEF VictimOnly
  <2>3. HistoryOf("AU", "V")'
    BY <1>1, <2>1, PrunedHistory, HistoryCollected DEF VictimOnly
  <2>4. known'.fps \subseteq {"V"}
    BY <1>1, <2>1 DEF Remember, NewFps, EventFor, VictimOnly
  <2> QED
    BY <1>2, <2>2, <2>3, <2>4 DEF VictimOnly
<1> QED
  BY <1>3, <1>4

(* A2's requests, without device binding. *)
IsThiefs(q) == q.context = From("CN", "X") /\ ~q.captured

(* They are denied if anything of the victim's is in the window, and allowed *)
(* or denied otherwise, never challenged.                                    *)
LEMMA ThiefUnchallenged ==
  ASSUME Settings, ~flags.binding, VictimOnly \/ ThiefOnly, NEW q, IsThiefs(q)
  PROVE  DecisionFor(q) # "CHALLENGE"
<1> SUFFICES ASSUME ProofRefusal(q) = "none" PROVE DecisionFor(q) # "CHALLENGE"
  BY ChallengeIsMiddling DEF Scored
<1> DEFINE s == SignalsFor(q)
<1>1. q.context.geo = "CN" /\ q.context.session = "X"
  BY DEF IsThiefs, From
<1>2. ~R6(s) /\ ~R1(flags, ChecksFor(q)) /\ ~R2(flags, DeviceKnownFor(q), s)
  BY CalmSignals DEF R1, R2, VictimOnly, ThiefOnly
<1>3. R3(s) <=> R5(s)
  <2>1. CASE ~flags.telemetry
    <3>1. s.geoVelocity = 0 /\ s.continuity = 1000
      BY <2>1 DEF SignalsFor, Signals, Neutral
    <3> QED
      BY <3>1 DEF R3, R5, VelocityLimit, ContinuityFloor
  <2>2. CASE flags.telemetry /\ VictimOnly
    BY <1>1, <2>2, OtherSource DEF VictimOnly, Settings
  <2>3. CASE ThiefOnly
    BY <1>1, <2>3, SameSource DEF ThiefOnly
  <2> QED
    BY <2>1, <2>2, <2>3
<1> QED
  BY <1>2, <1>3, Unchallenged

(* An allowed one found nothing of the victim's in the window. *)
LEMMA ThiefStays ==
  ASSUME Settings, ~flags.binding, flags.risk, VictimOnly \/ ThiefOnly,
         NEW CONSTANT q, IsThiefs(q), Send(q),
         Unreached(q) \/ DecisionFor(q) = "ALLOW",
         clock' \in Nat, clock <= clock'
  PROVE  (VictimOnly \/ ThiefOnly)'
<1>1. q.context.geo = "CN" /\ q.context.session = "X" /\ clock \in Nat
  BY DEF IsThiefs, From, Settings
<1>2. registry' = registry
  BY DEF Send, Unreached, Handled, Collected, trust
<1>3. CASE known' = known
  BY <1>1, <1>2, <1>3, HistoryKept DEF VictimOnly, ThiefOnly, Calm
<1>4. CASE known' # known
  <2>1. /\ known' = Remember(known, EventFor(q)) /\ flags.telemetry /\ ~flags.passthrough
        /\ DecisionFor(q) = "ALLOW"
    BY <1>4 DEF Send, Unreached, Handled, Collected, trust
  <2>2. ProofRefusal(q) = "none" /\ RiskOf(q) < threshold.allow
    BY <2>1, AllowedIsLow
  <2>3. Calm'
    BY <2>1, <2>2, CalmCollected DEF VictimOnly, ThiefOnly
  <2> DEFINE p == Prune(known.history, clock)
  <2>4. p \in Seq(Entries("CN", "X")) /\ \A i \in 1..Len(p) : p[i].ts <= clock
    <3>1. CASE ThiefOnly
      BY <3>1, PrunedHistory DEF ThiefOnly
    <3>2. CASE VictimOnly
      <4>1. p = <<>>
        <5> SUFFICES ASSUME p # <<>> PROVE FALSE
          OBVIOUS
        <5> DEFINE s == SignalsFor(q)
                   x == Score(flags, ChecksFor(q), DeviceKnownFor(q), s, Declared(q))
        <5>1. R3(s) /\ R5(s)
          BY <1>1, <2>1, <3>2, OtherSource DEF VictimOnly
        <5>2. x \in Int /\ x >= 70
          BY <5>1, NoMiddle
        <5>3. RiskOf(q) = x
          BY <2>1, <2>2 DEF RiskOf, Scored
        <5> HIDE DEF x
        <5> QED
          BY <2>2, <5>2, <5>3, KnownSettings
      <4> QED
        BY <4>1, EmptySeq
    <3> QED
      BY <3>1, <3>2
  <2>5. HistoryOf("CN", "X")'
    BY <1>1, <2>1, <2>4, HistoryCollected
  <2> QED
    BY <2>3, <2>5 DEF ThiefOnly
<1> QED
  BY <1>3, <1>4

-----------------------------------------------------------------------------
(* The stage a result blames. *)

(* Until A1 or A2 is first refused, what the rules compare its requests     *)
(* with is not a mixture of the two devices' traffic.                       *)
Unmixed ==
  /\ Attack = "A1" => VictimOnly
  /\ Attack = "A2" /\ ~flags.binding /\ flags.risk => VictimOnly \/ ThiefOnly

Blames(r) ==
  r.detected /\ r.attack # "A6" =>
    r.stage \in StageOf(r.first) \/ <<r.attack, r.first>> \in Misbooked

BlameInv ==
  /\ SummaryInv /\ Settings
  /\ pc \in {"login", "warm_up"} => VictimOnly /\ captured = FALSE
  /\ pc = "attack" =>
       /\ result.detected \in BOOLEAN /\ Blames(result)
       /\ ~result.detected => Unmixed
  /\ \A i \in DOMAIN files : Blames(files[i])

(* What tells the attacks' requests apart. *)
LEMMA RequestsDiffer ==
  ASSUME Attack \in Seven
  PROVE  LET q == AttackRequest
         IN /\ Attack = "A1" => IsVictims(q)
            /\ Attack = "A2" => IsThiefs(q) /\ q.token = "V" /\ q.proof = "X"
            /\ Attack = "A3" => IsVictims(q) /\ ~q.captured
            /\ Attack # "A1" => q.iat = Whole(clock)
            /\ q.object = "other" => Attack = "A5"
<1>0. /\ A2Request.iat = Whole(clock) /\ A3Request.iat = Whole(clock)
      /\ A4Request.iat = Whole(clock) /\ A5Request.iat = Whole(clock)
      /\ A6Request.iat = Whole(clock) /\ A7Request.iat = Whole(clock)
  BY DEF A2Request, A3Request, A4Request, A5Request, A6Request, A7Request, Request
<1>1. /\ IsVictims(A1Request) /\ IsVictims(A3Request) /\ ~A3Request.captured
      /\ IsThiefs(A2Request) /\ A2Request.token = "V" /\ A2Request.proof = "X"
  BY DEF IsVictims, IsThiefs, A1Request, A2Request, A3Request, Request
<1>2. "other" \notin {A1Request.object, A2Request.object, A3Request.object,
                      A4Request.object, A6Request.object, A7Request.object}
  BY DEF A1Request, A2Request, A3Request, A3Object, A4Request, A6Request, A7Request, Request
<1>3. /\ Attack = "A1" => AttackRequest = A1Request
      /\ Attack = "A2" => AttackRequest = A2Request
      /\ Attack = "A3" => AttackRequest = A3Request
      /\ Attack # "A5" => AttackRequest \in {A1Request, A2Request, A3Request,
                                              A4Request, A6Request, A7Request}
      /\ Attack # "A1" => AttackRequest \in {A2Request, A3Request, A4Request,
                                              A5Request, A6Request, A7Request}
  BY DEF AttackRequest, Seven
<1> QED
  BY <1>0, <1>1, <1>2, <1>3

(* What an answer says of the request. *)
LEMMA CauseSays ==
  ASSUME NEW q, NEW c, c = Answer(q)
  PROVE  /\ c = "challenge" => DecisionFor(q) = "CHALLENGE"
         /\ c = "jkt" => q.proof # q.token
         /\ c = "replay" => q.captured
         /\ c = "stale" => ProofRefusal(q) = "stale"
         /\ c = "ownership" => q.object = "other"
<1> SUFFICES ASSUME c \in {"challenge", "jkt", "replay", "stale", "ownership"},
                    c = CauseFor(q)
             PROVE  /\ c = "challenge" => DecisionFor(q) = "CHALLENGE"
                    /\ c = "jkt" => q.proof # q.token
                    /\ c = "replay" => q.captured
                    /\ c = "stale" => ProofRefusal(q) = "stale"
                    /\ c = "ownership" => q.object = "other"
  BY DEF Answer
<1>1. ProofRefusal(q) \in {"none", "jkt", "stale", "replay"}
  BY DEF ProofRefusal
<1>2. /\ c = "challenge" => DecisionFor(q) = "CHALLENGE"
      /\ c \in {"jkt", "stale", "replay"} => ProofRefusal(q) = c
      /\ c = "ownership" => q.object = "other"
  BY <1>1 DEF CauseFor
<1> QED
  BY <1>2 DEF ProofRefusal, Replayed

(* Data, or no answer, means that the controller allowed the request or did *)
(* not get it.                                                              *)
LEMMA HeardIsAllowed ==
  ASSUME NEW q, Send(q), Answer(q) \in {"served", "unheard"}
  PROVE  Unreached(q) \/ DecisionFor(q) = "ALLOW"
<1> SUFFICES ASSUME Handled(q) PROVE DecisionFor(q) = "ALLOW"
  BY DEF Send
<1>1. down # "controller" /\ ~NoKeys /\ ~TokenExpired
  BY DEF Handled, Collected
<1>2. CASE Unheard(q)
  BY <1>1, <1>2 DEF Unheard
<1>3. CASE ~Unheard(q)
  <2>1. CauseFor(q) \in {"served", "unheard"}
    BY <1>1, <1>3 DEF Answer
  <2>2. CauseFor(q) # "unheard"
    BY DEF CauseFor, ProofRefusal
  <2> QED
    BY <2>1, <2>2, ServedIsAllowed
<1> QED
  BY <1>2, <1>3

(* No refusal of a first blocked attempt is one that _infer_stage misreads. *)
LEMMA FirstRefusal ==
  ASSUME Settings, Unmixed, Attack \in Seven, NEW c, c = Answer(AttackRequest)
  PROVE  ~Misread(Attack, c)
<1> DEFINE q == AttackRequest
<1>1. /\ Attack = "A1" => IsVictims(q)
      /\ Attack = "A2" => IsThiefs(q) /\ q.token = "V" /\ q.proof = "X"
      /\ Attack = "A3" => IsVictims(q) /\ ~q.captured
      /\ Attack # "A1" => q.iat = Whole(clock)
      /\ q.object = "other" => Attack = "A5"
  BY RequestsDiffer
<1> HIDE DEF q
<1>2. /\ c = "challenge" => DecisionFor(q) = "CHALLENGE"
      /\ c = "jkt" => q.proof # q.token
      /\ c = "replay" => q.captured
      /\ c = "stale" => ProofRefusal(q) = "stale"
      /\ c = "ownership" => q.object = "other"
  BY CauseSays DEF q
<1>3. Attack = "A1" => DecisionFor(q) # "CHALLENGE"
  BY <1>1, VictimUnchallenged DEF Unmixed
<1>4. Attack = "A2" => DecisionFor(q) # "CHALLENGE"
  <2> SUFFICES ASSUME Attack = "A2", DecisionFor(q) = "CHALLENGE" PROVE FALSE
    OBVIOUS
  <2>1. flags.risk /\ ProofRefusal(q) = "none"
    BY ChallengeIsMiddling DEF Scored
  <2>2. ~flags.binding
    BY <1>1, <2>1, KnownSettings DEF ProofRefusal
  <2> QED
    BY <1>1, <2>1, <2>2, ThiefUnchallenged DEF Unmixed
<1>5. Attack = "A3" => c # "stale"
  BY <1>1, <1>2, JustSigned DEF Settings
<1> QED
  BY <1>1, <1>2, <1>3, <1>4, <1>5 DEF Misread, IsVictims

(* An attempt that is not refused leaves the telemetry unmixed. *)
LEMMA StaysUnmixed ==
  ASSUME Settings, Unmixed, Attack \in Seven, Send(AttackRequest),
         Answer(AttackRequest) \in {"served", "unheard"},
         UNCHANGED <<todo, flags>>, clock' \in Nat, clock <= clock'
  PROVE  Unmixed'
<1>1. PICK q : q = AttackRequest
  OBVIOUS
<1>2. Attack' = Attack /\ flags' = flags /\ clock \in Nat
  BY DEF Attack, Settings
<1>3. Send(q) /\ (Unreached(q) \/ DecisionFor(q) = "ALLOW")
  BY <1>1, HeardIsAllowed
<1>4. /\ Attack = "A1" => IsVictims(q)
      /\ Attack = "A2" => IsThiefs(q)
  BY <1>1, RequestsDiffer
<1>5. Attack = "A1" => VictimOnly'
  <2> SUFFICES ASSUME Attack = "A1" PROVE VictimOnly'
    OBVIOUS
  <2>1. Unreached(q) \/ flags.passthrough \/ ProofRefusal(q) = "none"
    BY <1>3, AllowedIsLow
  <2>2. VictimOnly /\ IsVictims(q)
    BY <1>4 DEF Unmixed
  <2> QED
    BY <1>2, <1>3, <2>1, <2>2, VictimStays
<1>6. Attack = "A2" /\ ~flags.binding /\ flags.risk => (VictimOnly \/ ThiefOnly)'
  BY <1>2, <1>3, <1>4, ThiefStays DEF Unmixed
<1> QED
  BY <1>2, <1>5, <1>6 DEF Unmixed

(* The tally keeps the blame of the first refusal. *)
LEMMA TalliedBlame ==
  ASSUME NEW r, DOMAIN r = Fields, r.detected \in BOOLEAN, r.attack \in Seven,
         Blames(r), NEW c,
         ~r.detected /\ c \notin {"served", "unheard"} => ~Misread(r.attack, c)
  PROVE  /\ Blames(Tallied(r, c)) /\ Tallied(r, c).detected \in BOOLEAN
         /\ ~Tallied(r, c).detected => ~r.detected /\ c \in {"served", "unheard"}
<1> DEFINE t == Tallied(r, c)
<1>1. {"attack", "attempts", "successes", "errors", "detected", "stage", "first"}
        \subseteq DOMAIN r
  BY DEF Fields
<1>2. t.attack = r.attack
  BY <1>1 DEF Tallied
<1>3. CASE c = "unheard"
  <2>1. t.detected = r.detected /\ t.stage = r.stage /\ t.first = r.first
    BY <1>1, <1>3 DEF Tallied
  <2> HIDE DEF t
  <2>2. Blames(t) /\ t.detected \in BOOLEAN /\ (~t.detected => ~r.detected)
    BY <1>2, <2>1 DEF Blames
  <2> QED
    BY <1>3, <2>2 DEF t
<1>4. CASE c # "unheard"
  <2>1. /\ t.detected = (r.detected \/ c # "served")
        /\ t.stage = IF r.detected \/ c = "served" THEN r.stage ELSE StageFor(r.attack, c)
        /\ t.first = IF r.detected \/ c = "served" THEN r.first ELSE c
    BY <1>1, <1>4 DEF Tallied
  <2> HIDE DEF t
  <2>2. t.detected \in BOOLEAN
    BY <2>1
  <2>3. ~t.detected => ~r.detected /\ c \in {"served", "unheard"}
    BY <2>1
  <2>4. Blames(t)
    <3>1. CASE r.detected
      BY <1>2, <2>1, <3>1 DEF Blames
    <3>2. CASE ~r.detected /\ c = "served"
      BY <2>1, <3>2 DEF Blames
    <3>3. CASE ~r.detected /\ c # "served"
      <4>1. ~Misread(r.attack, c)
        BY <1>4, <3>3
      <4>2. t.stage = StageFor(r.attack, c) /\ t.first = c
        BY <2>1, <3>3
      <4>3. r.attack # "A6" /\ <<r.attack, c>> \notin Misbooked =>
              t.stage \in StageOf(t.first)
        BY <4>1, <4>2, StageTable
      <4> QED
        BY <1>2, <4>2, <4>3 DEF Blames
    <3> QED
      BY <3>1, <3>2, <3>3
  <2> QED
    BY <2>2, <2>3, <2>4 DEF t
<1> QED
  BY <1>3, <1>4

(* Nothing the suite does takes negative time. *)
LEMMA TimeGoesOn ==
  ASSUME StageInv
  PROVE  /\ Cells[cell].pace \in Nat
         /\ \A q : Elapsed(q) \in Nat
<1>1. suite.latency \in Nat /\ SlowTicks \in Nat
  BY SelectedIsSome, SuiteAssumption DEF StageInv
<1>2. suite.cell \in CellNames
  BY SuiteAssumption DEF StageInv
<1> QED
  BY <1>1, <1>2, PaceIsNumber DEF StageInv, Elapsed

LEMMA BlameInitial ==
  ASSUME Init
  PROVE  BlameInv
<1>1. cell \in CellNames
  BY SuiteAssumption DEF Init
<1>2. files = <<>> /\ pc = "reset"
  BY DEF Init
<1>3. DOMAIN files = {}
  BY <1>2
<1> QED
  BY <1>1, <1>2, <1>3, SummaryInitial DEF Init, PipelineInit, BlameInv, Settings

(* A request of the warm-up, or the captured one, is the victim's own. *)
LEMMA WarmUpStays ==
  ASSUME VictimOnly, captured = FALSE, NEW CONSTANT q, Send(q),
         q \in {WarmUpRequest, CapturedRequest},
         clock \in Nat, clock' \in Nat, clock <= clock'
  PROVE  /\ VictimOnly'
         /\ q = WarmUpRequest => captured' = FALSE
<1>1. IsVictims(q) /\ (q = WarmUpRequest => ~q.captured)
  BY DEF WarmUpRequest, CapturedRequest, Request, IsVictims, NotAttack
<1>2. ProofRefusal(q) = "none"
  <2>1. q.iat = Whole(clock)
    BY DEF WarmUpRequest, CapturedRequest, Request
  <2> QED
    BY <1>1, <2>1, JustSigned DEF ProofRefusal, Replayed, IsVictims
<1>3. VictimOnly'
  BY <1>1, <1>2, VictimStays
<1>4. ~q.captured => captured' = FALSE
  BY DEF Send, Unreached, Handled, Collected, trust
<1> QED
  BY <1>1, <1>3, <1>4

LEMMA BlameStep ==
  ASSUME BlameInv, [Next]_vars
  PROVE  BlameInv'
<1>0. SummaryInv' /\ clock \in Nat /\ StageInv
  BY SummaryStep DEF BlameInv, SummaryInv, Settings
<1>1. Cells[cell].pace \in Nat /\ \A q : Elapsed(q) \in Nat
  BY <1>0, TimeGoesOn
<1>2. ASSUME UNCHANGED setup, clock' \in Nat
      PROVE  Settings'
  BY <1>2 DEF BlameInv, Settings, setup
<1>3. CASE ResetState
  <2>1. /\ pc' = "login" /\ captured' = FALSE /\ known' = Unseen
        /\ registry' = [s \in {User} |-> {}]
        /\ UNCHANGED <<setup, clock, files>>
    BY <1>3 DEF ResetState, Elsewhere
  <2>2. known'.history = <<>> /\ known'.fps = {} /\ known'.failures = 0 /\ known'.total = 0
    BY <2>1 DEF Unseen
  <2>3. HistoryOf("AU", "V")'
    BY <2>2, EmptySeq DEF HistoryOf
  <2>4. VictimOnly'
    BY <2>1, <2>2, <2>3 DEF VictimOnly, Calm
  <2> QED
    BY <1>0, <1>2, <2>1, <2>4 DEF BlameInv
<1>4. CASE ResetFails \/ LoginFails \/ PrepareFails
  BY <1>0, <1>2, <1>4 DEF ResetFails, LoginFails, PrepareFails, Abort, BlameInv
<1>5. CASE Login
  <2>1. /\ pc = "login" /\ pc' = "warm_up"
        /\ UNCHANGED <<setup, clock, known, registry, captured, files>>
    BY <1>5 DEF Login, Elsewhere, trust
  <2>2. VictimOnly'
    BY <2>1 DEF BlameInv, VictimOnly, HistoryOf, Calm
  <2> QED
    BY <1>0, <1>2, <2>1, <2>2 DEF BlameInv
<1>6. CASE WarmUp
  <2>1. /\ pc = "warm_up" /\ pc' = pc /\ Send(WarmUpRequest) /\ UNCHANGED <<setup, files>>
        /\ clock' = clock + Elapsed(WarmUpRequest) + 1
    BY <1>6 DEF WarmUp, Elsewhere
  <2>2. clock' \in Nat /\ clock <= clock'
    BY <1>0, <1>1, <2>1
  <2>3. PICK q : q = WarmUpRequest
    OBVIOUS
  <2>4. VictimOnly' /\ captured' = FALSE
    BY <1>0, <2>1, <2>2, <2>3, WarmUpStays DEF BlameInv
  <2> QED
    BY <1>0, <1>2, <2>1, <2>2, <2>4 DEF BlameInv
<1>7. CASE Prepare
  <2>1. /\ pc = "warm_up" /\ pc' = "attack" /\ result' = NewResult(Attack)
        /\ UNCHANGED <<setup, files, todo>>
    BY <1>7 DEF Prepare, Elsewhere
  <2>2. clock' \in Nat /\ VictimOnly'
    <3>1. CASE Attack = "A1"
      <4>1. Send(CapturedRequest) /\ clock' = clock + Elapsed(CapturedRequest)
        BY <1>7, <3>1 DEF Prepare
      <4>2. clock' \in Nat /\ clock <= clock'
        BY <1>0, <1>1, <4>1
      <4>3. PICK q : q = CapturedRequest
        OBVIOUS
      <4> QED
        BY <1>0, <2>1, <4>1, <4>2, <4>3, WarmUpStays DEF BlameInv
    <3>2. CASE Attack # "A1"
      BY <1>0, <1>7, <2>1, <3>2
      DEF Prepare, trust, BlameInv, VictimOnly, HistoryOf, Calm
    <3> QED
      BY <3>1, <3>2
  <2>3. Unmixed' /\ result'.detected = FALSE
    BY <2>1, <2>2 DEF Unmixed, NewResult
  <2> QED
    BY <1>0, <1>2, <2>1, <2>2, <2>3 DEF BlameInv, Blames
<1>8. CASE Attempt
  <2>1. /\ pc = "attack" /\ pc' = pc /\ Send(AttackRequest) /\ UNCHANGED <<setup, files, todo>>
        /\ result' = Tallied(result, Answer(AttackRequest))
        /\ clock' = clock + Elapsed(AttackRequest)
             + (IF Attack = "A7" /\ n < suite.repetitions - 1 THEN Cells[cell].pace ELSE 0)
    BY <1>8 DEF Attempt, Elsewhere
  <2>2. clock' \in Nat /\ clock <= clock'
    BY <1>0, <1>1, <2>1
  <2>3. Attack \in Seven
    BY <1>0, <2>1, AttackAtHand DEF Busy
  <2>4. PICK r, c : r = result /\ c = Answer(AttackRequest)
    OBVIOUS
  <2>5. /\ DOMAIN r = Fields /\ r.attack = Attack /\ r.detected \in BOOLEAN /\ Blames(r)
        /\ ~r.detected => Unmixed
    BY <2>1, <2>4 DEF BlameInv, SummaryInv, ResultGrows
  <2>6. ~r.detected => ~Misread(r.attack, c)
    BY <2>3, <2>4, <2>5, FirstRefusal DEF BlameInv
  <2>7. /\ Blames(Tallied(r, c)) /\ Tallied(r, c).detected \in BOOLEAN
        /\ ~Tallied(r, c).detected => ~r.detected /\ c \in {"served", "unheard"}
    BY <2>3, <2>5, <2>6, TalliedBlame
  <2>8. result' = Tallied(r, c)
    BY <2>1, <2>4
  <2>9. ~result'.detected => Unmixed'
    <3> SUFFICES ASSUME ~result'.detected PROVE Unmixed'
      OBVIOUS
    <3>1. Unmixed /\ Answer(AttackRequest) \in {"served", "unheard"}
      BY <2>4, <2>5, <2>7, <2>8
    <3> QED
      BY <2>1, <2>2, <2>3, <3>1, StaysUnmixed DEF BlameInv, setup
  <2>10. Blames(result') /\ result'.detected \in BOOLEAN
    BY <2>7, <2>8
  <2>11. Blames(result)'
    BY <2>10 DEF Blames
  <2> QED
    BY <1>0, <1>2, <2>1, <2>2, <2>9, <2>10, <2>11 DEF BlameInv
<1>9. CASE Save
  <2>1. /\ pc = "attack" /\ pc' \in {"summarise", "reset"} /\ files' = Append(files, result)
        /\ UNCHANGED <<setup, clock>>
    BY <1>9 DEF Save, Elsewhere
  <2>2. PICK s, r : s = files /\ r = result
    OBVIOUS
  <2>3. IsSequence(s) /\ Blames(r) /\ \A i \in DOMAIN s : Blames(s[i])
    BY <2>1, <2>2 DEF BlameInv, SummaryInv, FilesInOrder
  <2>4. \A i \in DOMAIN Append(s, r) : Blames(Append(s, r)[i])
    <3>1. /\ DOMAIN s = 1..Len(s) /\ Len(s) \in Nat
          /\ DOMAIN Append(s, r) = 1..(Len(s) + 1)
          /\ \A i \in 1..Len(s) : Append(s, r)[i] = s[i]
          /\ Append(s, r)[Len(s) + 1] = r
      BY <2>3, Appended
    <3>2. \A i \in 1..(Len(s) + 1) : i \in 1..Len(s) \/ i = Len(s) + 1
      BY <3>1
    <3> QED
      BY <2>3, <3>1, <3>2
  <2>5. (\A i \in DOMAIN files : Blames(files[i]))'
    BY <2>1, <2>2, <2>4 DEF Blames
  <2> QED
    BY <1>0, <1>2, <2>1, <2>5 DEF BlameInv
<1>10. CASE Summarise
  BY <1>0, <1>2, <1>10 DEF Summarise, Elsewhere, BlameInv
<1>11. CASE Break \/ Mend \/ UNCHANGED vars
  <2>1. UNCHANGED <<setup, pc, clock, known, registry, captured, result, files, todo>>
    BY <1>11 DEF Break, Mend, vars, trust
  <2>2. flags' = flags /\ Attack' = Attack
    BY <2>1 DEF Attack, setup
  <2>3. (VictimOnly' <=> VictimOnly) /\ (ThiefOnly' <=> ThiefOnly)
    BY <2>1 DEF VictimOnly, ThiefOnly, HistoryOf, Calm
  <2>4. Unmixed' <=> Unmixed
    BY <2>2, <2>3 DEF Unmixed
  <2> QED
    BY <1>0, <1>2, <2>1, <2>3, <2>4 DEF BlameInv, Blames
<1> QED
  BY <1>3, <1>4, <1>5, <1>6, <1>7, <1>8, <1>9, <1>10, <1>11 DEF Next

(* A refusal that is booked on another stage. *)
OnTime(r) == <<r.attack, r.first>> \notin Misbooked

(* While nothing fails, A1's first replay comes before its proof is too old *)
(* and is refused as a replay, and no token expires.                        *)
PunctualInv ==
  /\ SummaryInv /\ LiveInv
  /\ faults = 0 =>
       /\ pc = "attack" =>
            /\ result.detected \in BOOLEAN /\ OnTime(result)
            /\ Attack = "A1" /\ flags.dpop /\ ~flags.passthrough /\ ~result.detected =>
                 captured /\ clock - signed <= Skew
       /\ \A i \in DOMAIN files : OnTime(files[i])

(* What the answer to an attempt can be then. *)
LEMMA PunctualAnswer ==
  ASSUME PunctualInv, faults = 0, pc = "attack", TokenLasts, ~result.detected,
         NEW c, c = Answer(AttackRequest)
  PROVE  /\ <<Attack, c>> \notin Misbooked
         /\ Attack = "A1" /\ flags.dpop /\ ~flags.passthrough => c = "replay"
<1> DEFINE q == AttackRequest
<1>1. c = CauseFor(q)
  BY QuietIsHandled DEF PunctualInv
<1>2. ProofRefusal(q) \in {"none", "jkt", "stale", "replay"}
  BY DEF ProofRefusal
<1>3. CauseFor(q) # "expired" /\ (CauseFor(q) \in {"stale"} =>
                                     DecisionFor(q) = "DENY" /\ ProofRefusal(q) = "stale")
  BY <1>2 DEF CauseFor
<1>4. Attack = "A1" => q = A1Request
  BY DEF AttackRequest
<1>5. Attack = "A1" => q.token = q.proof /\ q.captured /\ q.iat = signed
  BY <1>4 DEF A1Request, Request
<1>6. ASSUME Attack = "A1", flags.dpop, ~flags.passthrough
      PROVE  c = "replay"
  <2>1. captured /\ ~(clock - signed > Skew)
    <3>1. clock \in Nat /\ signed \in Nat /\ captured /\ clock - signed <= Skew
      BY <1>6 DEF PunctualInv, LiveInv
    <3> QED
      BY <3>1, PipelineAssumption
  <2>2. ProofRefusal(q) = "replay"
    BY <1>5, <1>6, <2>1 DEF ProofRefusal, Replayed
  <2>3. DecisionFor(q) = "DENY"
    BY <1>6, <2>2 DEF DecisionFor
  <2> QED
    BY <1>1, <2>2, <2>3 DEF CauseFor
<1>7. Attack = "A1" /\ (~flags.dpop \/ flags.passthrough) => c # "stale"
  <2>1. flags.passthrough => DecisionFor(q) = "ALLOW"
    BY DEF DecisionFor
  <2>2. ~flags.dpop => ProofRefusal(q) = "none"
    BY DEF ProofRefusal
  <2> QED
    BY <1>1, <1>3, <2>1, <2>2
<1>8. ~(c = "stale" /\ Attack = "A1") /\ c # "expired"
  BY <1>1, <1>3, <1>6, <1>7
<1> QED
  BY <1>6, <1>8 DEF Misbooked

LEMMA PunctualStep ==
  ASSUME PunctualInv, TokenLasts, [Next]_vars
  PROVE  PunctualInv'
<1>1. SummaryInv' /\ LiveInv' /\ StageInv
  BY SummaryStep, LiveStep DEF PunctualInv, LiveInv
<1>2. CASE ResetState \/ Login \/ WarmUp \/ Summarise
  BY <1>1, <1>2 DEF ResetState, Login, WarmUp, Summarise, Elsewhere, PunctualInv, OnTime
<1>3. CASE ResetFails \/ LoginFails \/ PrepareFails
  BY <1>1, <1>3 DEF ResetFails, LoginFails, PrepareFails, Abort, PunctualInv, OnTime
<1>4. CASE Prepare
  <2>1. /\ pc = "warm_up" /\ pc' = "attack" /\ result' = NewResult(Attack)
        /\ UNCHANGED <<suite, setup, files, todo, faults>>
    BY <1>4 DEF Prepare, Elsewhere
  <2>2. Attack' = Attack
    BY <2>1 DEF Attack
  <2>3. result'.detected = FALSE /\ OnTime(result')
    BY <2>1 DEF NewResult, OnTime, Misbooked
  <2>4. ASSUME faults = 0, Attack = "A1"
        PROVE  captured' /\ clock' - signed' <= Skew
    <3>1. PICK q : q = CapturedRequest
      OBVIOUS
    <3>2. /\ Send(q) /\ clock' = clock + Elapsed(q) /\ signed' = Whole(clock)
      BY <1>4, <2>4, <3>1 DEF Prepare
    <3>3. Handled(q) /\ Elapsed(q) = suite.latency
      BY <2>1, <2>4, <3>2, QuietIsHandled DEF PunctualInv
    <3>4. captured'
      BY <3>1, <3>3 DEF Handled, Collected, CapturedRequest, WarmUpRequest, Request
    <3>5. /\ clock \in Nat /\ suite.latency \in Nat /\ suite.latency + Second <= Skew
          /\ Whole(clock) \in Nat /\ clock < Whole(clock) + Second
      BY SizesAreNumbers, WholeIsNear DEF PunctualInv, LiveInv, StageInv, TokenLasts
    <3>6. clock' - signed' <= Skew
      BY <3>2, <3>3, <3>5, PipelineAssumption DEF Second
    <3> QED
      BY <3>4, <3>6
  <2> QED
    BY <1>1, <2>1, <2>2, <2>3, <2>4 DEF PunctualInv, OnTime
<1>5. CASE Attempt
  <2>1. /\ pc = "attack" /\ pc' = pc /\ result' = Tallied(result, Answer(AttackRequest))
        /\ UNCHANGED <<setup, files, todo, faults>>
    BY <1>5 DEF Attempt, Elsewhere
  <2>2. Attack' = Attack /\ flags' = flags
    BY <2>1 DEF Attack, setup
  <2>3. ASSUME faults = 0
        PROVE  /\ result'.detected \in BOOLEAN /\ OnTime(result')
               /\ Attack = "A1" /\ flags.dpop /\ ~flags.passthrough => result'.detected
    <3>1. PICK r, c : r = result /\ c = Answer(AttackRequest)
      OBVIOUS
    <3>2. /\ DOMAIN r = Fields /\ r.attack = Attack
          /\ r.detected \in BOOLEAN /\ OnTime(r)
      BY <2>1, <2>3, <3>1 DEF PunctualInv, SummaryInv, ResultGrows
    <3>3. ~r.detected =>
            /\ <<Attack, c>> \notin Misbooked
            /\ Attack = "A1" /\ flags.dpop /\ ~flags.passthrough => c = "replay"
      BY <2>1, <2>3, <3>1, PunctualAnswer
    <3>4. {"attack", "attempts", "successes", "errors", "detected", "stage", "first"}
            \subseteq DOMAIN r
      BY <3>2 DEF Fields
    <3> DEFINE t == Tallied(r, c)
    <3>5. t.attack = Attack /\ t.first \in {r.first, c}
          /\ (t.first # r.first => ~r.detected)
      <4>1. CASE c = "unheard"
        BY <3>2, <3>4, <4>1 DEF Tallied
      <4>2. CASE c # "unheard"
        <5>1. t.first = IF r.detected \/ c = "served" THEN r.first ELSE c
          BY <3>4, <4>2 DEF Tallied
        <5>2. t.attack = Attack
          BY <3>2, <3>4, <4>2 DEF Tallied
        <5> HIDE DEF t
        <5> QED
          BY <5>1, <5>2
      <4> QED
        BY <4>1, <4>2
    <3>6. t.detected = (r.detected \/ c \notin {"served", "unheard"})
      <4>1. CASE c = "unheard"
        BY <3>2, <3>4, <4>1 DEF Tallied
      <4>2. CASE c # "unheard"
        BY <3>2, <3>4, <4>2 DEF Tallied
      <4> QED
        BY <4>1, <4>2
    <3>7. result' = t
      BY <2>1, <3>1
    <3> HIDE DEF t
    <3> QED
      BY <3>2, <3>3, <3>5, <3>6, <3>7 DEF OnTime
  <2> QED
    BY <1>1, <2>1, <2>2, <2>3 DEF PunctualInv, OnTime
<1>6. CASE Save
  <2>1. /\ pc = "attack" /\ pc' \in {"summarise", "reset"} /\ files' = Append(files, result)
        /\ faults' = faults
    BY <1>6 DEF Save, Elsewhere
  <2>2. ASSUME faults = 0
        PROVE  \A i \in DOMAIN files' : OnTime(files'[i])
    <3>1. PICK s, r : s = files /\ r = result
      OBVIOUS
    <3>2. IsSequence(s) /\ OnTime(r) /\ \A i \in DOMAIN s : OnTime(s[i])
      BY <2>1, <2>2, <3>1 DEF PunctualInv, SummaryInv, FilesInOrder
    <3>3. /\ DOMAIN s = 1..Len(s) /\ Len(s) \in Nat
          /\ DOMAIN Append(s, r) = 1..(Len(s) + 1)
          /\ \A i \in 1..Len(s) : Append(s, r)[i] = s[i]
          /\ Append(s, r)[Len(s) + 1] = r
      BY <3>2, Appended
    <3>4. \A i \in 1..(Len(s) + 1) : i \in 1..Len(s) \/ i = Len(s) + 1
      BY <3>3
    <3> QED
      BY <2>1, <3>1, <3>2, <3>3, <3>4
  <2> QED
    BY <1>1, <2>1, <2>2 DEF PunctualInv, OnTime
<1>7. CASE Break
  BY <1>1, <1>7 DEF Break, PunctualInv, LiveInv
<1>8. CASE Mend
  BY <1>1, <1>8 DEF Mend, PunctualInv, LiveInv, InTime
<1>9. CASE UNCHANGED vars
  <2>1. UNCHANGED <<setup, pc, todo, clock, captured, signed, faults, result, files>>
    BY <1>9 DEF vars, trust, tokens
  <2>2. Attack' = Attack /\ flags' = flags
    BY <2>1 DEF Attack, setup
  <2> QED
    BY <1>1, <2>1, <2>2 DEF PunctualInv, OnTime
<1> QED
  BY <1>2, <1>3, <1>4, <1>5, <1>6, <1>7, <1>8, <1>9 DEF Next

(* The stage that _infer_stage of A1 to A7 writes down is the one that      *)
(* refused the first blocked attempt, although it sees only the status and  *)
(* the text of the answer: in every cell, whatever fails, for any number of *)
(* warm-up requests and attempts and any latency, so whatever of the        *)
(* warm-up the telemetry window still holds.  The exceptions are the pairs  *)
(* of Misbooked; and without an outage none of these comes up, if token and *)
(* proof last as long as the attack.                                        *)
THEOREM BlameIsRight ==
  ASSUME TokenLasts
  PROVE  Spec => []StageNamesRefusal
<1>1. Init => BlameInv /\ PunctualInv
  <2> SUFFICES ASSUME Init PROVE BlameInv /\ PunctualInv
    OBVIOUS
  <2>1. pc = "reset" /\ files = <<>>
    BY DEF Init
  <2>2. DOMAIN files = {}
    BY <2>1
  <2> QED
    BY <2>1, <2>2, BlameInitial, SummaryInitial, LiveInitial DEF PunctualInv
<1>2. BlameInv /\ PunctualInv /\ [Next]_vars => (BlameInv /\ PunctualInv)'
  BY BlameStep, PunctualStep, TokenLasts
<1>3. BlameInv /\ PunctualInv => StageNamesRefusal
  <2> SUFFICES ASSUME BlameInv, PunctualInv, NEW i \in DOMAIN files,
                      files[i].detected, files[i].attack # "A6"
               PROVE  \/ files[i].stage \in StageOf(files[i].first)
                      \/ faults > 0 /\ <<files[i].attack, files[i].first>> \in Misbooked
    BY DEF StageNamesRefusal
  <2>1. Blames(files[i]) /\ faults \in Nat /\ (faults = 0 => OnTime(files[i]))
    BY DEF BlameInv, PunctualInv, LiveInv
  <2> QED
    BY <2>1 DEF Blames, OnTime
<1> QED
  BY <1>1, <1>2, <1>3, PTL DEF Spec

-----------------------------------------------------------------------------
(* Types.  The history has room for one event of each request since the     *)
(* reset, the captured one included.                                        *)
Noted == [ts : Nat, geo : {"AU", "CN", "RU"}, session : {"V", "X"}]

StateTyped ==
  /\ clock \in Nat
  /\ registry \in [{User} -> SUBSET {"V", "X"}]
  /\ known.history \in Seq(Noted)
  /\ keysWarm \in BOOLEAN /\ captured \in BOOLEAN

RoomLeft ==
  /\ pc = "login"   => Len(known.history) = 0
  /\ pc = "warm_up" => n <= suite.warmUps /\ Len(known.history) <= n
  /\ pc = "attack"  => /\ n <= suite.repetitions
                       /\ Len(known.history) <= suite.warmUps + 1 + n

ResultTyped ==
  /\ DOMAIN result = Fields
  /\ result.attempts \in 0..suite.repetitions
  /\ result.successes \in Nat /\ result.errors \in Nat /\ result.detected \in BOOLEAN
  /\ result.successes + result.errors <= result.attempts
  /\ result.first \in Causes

TypeInv ==
  /\ StageInv /\ ResultGrows /\ StateTyped /\ RoomLeft /\ ResultTyped
  /\ n <= suite.warmUps + suite.repetitions
  /\ Len(known.history) <= suite.warmUps + suite.repetitions + 1
  /\ own \in BOOLEAN
  /\ down \in Outage \cup {"nothing"} /\ faults \in 0..suite.outages

(* The requests of the suite. *)
IsSuites(q) ==
  /\ q.token \in {"V", "X"} /\ q.captured \in BOOLEAN
  /\ q.context.geo \in {"AU", "CN", "RU"} /\ q.context.session \in {"V", "X"}

(* They are of two devices and three regions. *)
LEMMA RequestsTyped ==
  /\ IsSuites(WarmUpRequest) /\ IsSuites(CapturedRequest)
  /\ Attack \in Seven => IsSuites(AttackRequest)
<1>1. IsSuites(WarmUpRequest) /\ IsSuites(CapturedRequest)
  BY DEF IsSuites, WarmUpRequest, CapturedRequest, Request, VictimContext, From, NotAttack
<1>2. /\ IsSuites(A1Request) /\ IsSuites(A3Request) /\ IsSuites(A5Request)
      /\ IsSuites(A6Request) /\ IsSuites(A7Request)
  BY DEF IsSuites, A1Request, A3Request, A5Request, A6Request, A7Request, Request,
         VictimContext, From
<1>3. IsSuites(A2Request) /\ IsSuites(A4Request)
  BY DEF IsSuites, A2Request, A4Request, A4Token, Request, From
<1>4. Attack \in Seven =>
        AttackRequest \in {A1Request, A2Request, A3Request, A4Request, A5Request,
                           A6Request, A7Request}
  BY DEF AttackRequest, Seven
<1> QED
  BY <1>1, <1>2, <1>3, <1>4

(* A request adds at most one event. *)
LEMMA SendTyped ==
  ASSUME StateTyped, NEW CONSTANT q, IsSuites(q), Send(q), clock' \in Nat
  PROVE  /\ StateTyped'
         /\ Len(known.history) \in Nat /\ Len(known'.history) \in Nat
         /\ Len(known'.history) <= Len(known.history) + 1
<1>1. registry' \in [{User} -> SUBSET {"V", "X"}]
  <2>1. registry' = registry \/ registry' = Observed(registry, User, q.token)
    BY DEF Send, Unreached, Handled, Collected, trust
  <2> QED
    BY <2>1 DEF StateTyped, Observed, IsSuites
<1>2. keysWarm' \in BOOLEAN /\ captured' \in BOOLEAN
  BY DEF Send, Unreached, Handled, Collected, trust, StateTyped, IsSuites
<1>3. known' = known \/ known' = Remember(known, EventFor(q))
  BY DEF Send, Unreached, Handled, Collected, trust
<1>4. PICK h, now : h = known.history /\ now = clock
  OBVIOUS
<1>5. h \in Seq(Noted) /\ Len(h) \in Nat /\ now \in Nat
  BY <1>4, LenProperties DEF StateTyped
<1>6. CASE known' = known
  BY <1>1, <1>2, <1>4, <1>5, <1>6 DEF StateTyped
<1>7. CASE known' = Remember(known, EventFor(q))
  <2> DEFINE x == [ts |-> now, geo |-> q.context.geo, session |-> q.context.session]
             p == Prune(h, now)
             y == Push(p, x)
  <2>1. known'.history = y
    BY <1>4, <1>7 DEF Remember, EventFor
  <2>2. x \in Noted
    BY <1>5 DEF Noted, IsSuites
  <2> HIDE DEF x
  <2>3. p \in Seq(Noted) /\ Len(p) <= Len(h)
    BY <1>5, PrunedEnd
  <2> HIDE DEF p
  <2>4. y \in Seq(Noted) /\ Len(y) \in 1..(Len(p) + 1)
    BY <2>2, <2>3, PushedEnd
  <2> HIDE DEF y
  <2>5. Len(p) \in Nat /\ Len(y) \in Nat
    BY <2>3, <2>4, LenProperties
  <2>6. Len(y) <= Len(h) + 1
    BY <1>5, <2>3, <2>4, <2>5
  <2> QED
    BY <1>1, <1>2, <1>4, <1>5, <2>1, <2>4, <2>5, <2>6 DEF StateTyped
<1> QED
  BY <1>3, <1>6, <1>7

(* What a client can be answered. *)
LEMMA AnswerIsCause ==
  ASSUME NEW q
  PROVE  Answer(q) \in Causes \cup {"unheard"}
<1>1. ProofRefusal(q) \in {"none", "jkt", "stale", "replay"}
  BY DEF ProofRefusal
<1>2. CauseFor(q) \in Causes
  BY <1>1 DEF CauseFor, Causes
<1> QED
  BY <1>2 DEF Answer, Causes

(* And so what a result remembers of it. *)
LEMMA TalliedFirst ==
  ASSUME NEW r, DOMAIN r = Fields, r.first \in Causes, NEW c \in Causes \cup {"unheard"}
  PROVE  Tallied(r, c).first \in Causes
<1>1. {"attack", "attempts", "successes", "errors", "detected", "stage", "first"}
        \subseteq DOMAIN r
  BY DEF Fields
<1>2. CASE c = "unheard"
  <2>1. Tallied(r, c).first = r.first
    BY <1>1, <1>2 DEF Tallied
  <2> QED
    BY <2>1
<1>3. CASE c # "unheard"
  <2>1. Tallied(r, c).first = IF r.detected \/ c = "served" THEN r.first ELSE c
    BY <1>1, <1>3 DEF Tallied
  <2> QED
    BY <1>3, <2>1
<1> QED
  BY <1>2, <1>3

(* A new result counts nothing. *)
LEMMA NewResultCounts ==
  ASSUME NEW a
  PROVE  LET r == NewResult(a)
         IN /\ DOMAIN r = Fields /\ r.attack = a
            /\ r.attempts = 0 /\ r.successes = 0 /\ r.errors = 0
            /\ r.detected \in BOOLEAN /\ r.first \in Causes
BY DEF NewResult, Fields, Causes

LEMMA TypeInitial ==
  ASSUME Init
  PROVE  TypeInv
<1>1. /\ StageInv /\ suite.repetitions \in Nat /\ suite.warmUps \in Nat
      /\ suite \in Suites
  BY StageInitial, SelectedIsSome DEF StageInv
<1>2. suite.outages \in Nat
  BY <1>1, SuiteAssumption
<1>3. /\ pc = "reset" /\ n = 0 /\ own = FALSE /\ faults = 0 /\ result = NewResult("")
      /\ clock = 0 /\ known = Unseen /\ registry = [s \in {User} |-> {}]
      /\ captured = FALSE /\ keysWarm = FALSE /\ down = "nothing"
  BY DEF Init, PipelineInit
<1>4. known.history \in Seq(Noted) /\ Len(known.history) = 0
  BY <1>3, EmptySeq DEF Unseen
<1>5. ResultTyped
  <2>1. PICK x, r : x = result /\ r = suite.repetitions
    OBVIOUS
  <2>2. /\ DOMAIN x = Fields /\ x.attempts = 0 /\ x.successes = 0 /\ x.errors = 0
        /\ x.detected \in BOOLEAN /\ x.first \in Causes
    BY <1>3, <2>1, NewResultCounts
  <2>3. r \in Nat
    BY <1>1, <2>1
  <2>4. x.successes + x.errors <= x.attempts /\ x.successes \in Nat /\ x.errors \in Nat
        /\ x.attempts \in 0..r
    BY <2>2, <2>3
  <2> QED
    BY <2>1, <2>2, <2>4 DEF ResultTyped
<1>6. StateTyped
  BY <1>3, <1>4 DEF StateTyped
<1>7. /\ n <= suite.warmUps + suite.repetitions
      /\ Len(known.history) <= suite.warmUps + suite.repetitions + 1
  <2>1. PICK w, r, l : w = suite.warmUps /\ r = suite.repetitions /\ l = Len(known.history)
    OBVIOUS
  <2>2. w \in Nat /\ r \in Nat /\ l = 0
    BY <1>1, <1>4, <2>1
  <2>3. 0 <= w + r /\ l <= w + r + 1
    BY <2>2
  <2> QED
    BY <1>3, <2>1, <2>3
<1>8. ResultGrows /\ RoomLeft /\ own \in BOOLEAN /\ down \in Outage \cup {"nothing"}
  BY <1>3 DEF ResultGrows, RoomLeft
<1>9. faults \in 0..suite.outages
  <2>1. faults = 0
    BY <1>3
  <2> QED
    BY <1>2, <2>1
<1> QED
  BY <1>1, <1>5, <1>6, <1>7, <1>8, <1>9 DEF TypeInv

(* The tally of an attempt stays within the attempts asked for. *)
LEMMA AttemptTyped ==
  ASSUME TypeInv, Attempt
  PROVE  ResultTyped'
<1>1. /\ pc = "attack" /\ n < suite.repetitions /\ suite' = suite
      /\ result' = Tallied(result, Answer(AttackRequest))
  BY DEF Attempt, Elsewhere
<1>2. PICK r, c : r = result /\ c = Answer(AttackRequest)
  OBVIOUS
<1>3. /\ DOMAIN r = Fields /\ r.attempts \in Nat /\ r.attempts = n /\ n \in Nat
      /\ r.successes \in Nat /\ r.errors \in Nat /\ r.detected \in BOOLEAN
      /\ r.successes + r.errors <= r.attempts /\ r.first \in Causes
      /\ suite.repetitions \in Nat
  BY <1>1, <1>2, SelectedIsSome DEF TypeInv, ResultTyped, ResultGrows, StageInv
<1>4. c \in Causes \cup {"unheard"}
  BY <1>2, AnswerIsCause
<1>5. result' = Tallied(r, c)
  BY <1>1, <1>2
<1>6. /\ DOMAIN result' = Fields /\ result'.attempts = n + 1
      /\ result'.successes = r.successes + (IF c = "served" THEN 1 ELSE 0)
      /\ result'.errors = r.errors + (IF c = "unheard" THEN 1 ELSE 0)
      /\ result'.detected = (r.detected \/ c \notin {"served", "unheard"})
  BY <1>3, <1>5, TalliedFields
<1>7. result'.first \in Causes
  BY <1>3, <1>4, <1>5, TalliedFirst
<1>8. /\ result'.successes \in Nat /\ result'.errors \in Nat
      /\ result'.successes + result'.errors <= result'.attempts
  BY <1>3, <1>6
<1>9. result'.attempts \in 0..suite'.repetitions
  BY <1>1, <1>3, <1>6
<1>10. result'.detected \in BOOLEAN
  BY <1>6
<1> QED
  BY <1>6, <1>7, <1>8, <1>9, <1>10 DEF ResultTyped

LEMMA TypeStep ==
  ASSUME TypeInv, [Next]_vars
  PROVE  TypeInv'
<1>0. /\ StageInv' /\ StageInv /\ clock \in Nat /\ n \in Nat
      /\ suite.repetitions \in Nat /\ suite.warmUps \in Nat
      /\ Len(known.history) \in Nat
  BY StageStep, SelectedIsSome, LenProperties DEF TypeInv, StageInv, StateTyped
<1>1. Cells[cell].pace \in Nat /\ \A q : Elapsed(q) \in Nat
  BY <1>0, TimeGoesOn
<1>2. ASSUME UNCHANGED <<suite, result>>
      PROVE  ResultTyped'
  BY <1>2 DEF TypeInv, ResultTyped
<1>3. ASSUME UNCHANGED <<clock, trust, keysWarm>>
      PROVE  StateTyped'
  BY <1>3 DEF TypeInv, StateTyped, trust
<1>4. CASE ResetState
  <2>1. /\ pc' = "login" /\ known' = Unseen /\ registry' = [s \in {User} |-> {}]
        /\ captured' = FALSE
        /\ UNCHANGED <<clock, keysWarm, suite, result, n, own, down, faults>>
    BY <1>4 DEF ResetState, Elsewhere
  <2>2. known'.history \in Seq(Noted) /\ Len(known'.history) = 0
    BY <2>1, EmptySeq DEF Unseen
  <2>3. StateTyped'
    BY <2>1, <2>2 DEF StateTyped, TypeInv
  <2>4. Len(known'.history) <= suite'.warmUps + suite'.repetitions + 1
    BY <1>0, <2>1, <2>2
  <2> QED
    BY <1>0, <1>2, <2>1, <2>2, <2>3, <2>4 DEF TypeInv, RoomLeft, ResultGrows
<1>5. CASE ResetFails \/ LoginFails \/ PrepareFails
  <2>1. /\ pc' = "aborted"
        /\ UNCHANGED <<suite, n, clock, trust, keysWarm, own, down, faults, result>>
    BY <1>5 DEF ResetFails, LoginFails, PrepareFails, Abort
  <2> QED
    BY <1>0, <1>2, <1>3, <2>1 DEF TypeInv, RoomLeft, ResultGrows, trust
<1>6. CASE Login
  <2>1. /\ pc = "login" /\ pc' = "warm_up" /\ n' = 0 /\ own' = FALSE
        /\ UNCHANGED <<suite, clock, trust, keysWarm, down, faults, result>>
        /\ known' = known
    BY <1>6 DEF Login, Elsewhere, trust
  <2>2. Len(known.history) = 0
    BY <2>1 DEF TypeInv, RoomLeft
  <2>3. RoomLeft' /\ n' <= suite'.warmUps + suite'.repetitions
    BY <1>0, <2>1, <2>2 DEF RoomLeft
  <2> QED
    BY <1>0, <1>2, <1>3, <2>1, <2>3 DEF TypeInv, ResultGrows
<1>7. CASE WarmUp
  <2>1. /\ pc = "warm_up" /\ n < suite.warmUps /\ pc' = pc /\ n' = n + 1
        /\ Send(WarmUpRequest) /\ own' \in BOOLEAN
        /\ UNCHANGED <<suite, down, faults, result>>
        /\ clock' = clock + Elapsed(WarmUpRequest) + 1
    BY <1>7 DEF WarmUp, Elsewhere
  <2>2. clock' \in Nat
    BY <1>0, <1>1, <2>1
  <2>3. PICK q : q = WarmUpRequest
    OBVIOUS
  <2>4. /\ StateTyped' /\ Len(known'.history) \in Nat
        /\ Len(known'.history) <= Len(known.history) + 1
    BY <2>1, <2>2, <2>3, RequestsTyped, SendTyped DEF TypeInv
  <2>5. Len(known.history) <= n
    BY <2>1 DEF TypeInv, RoomLeft
  <2>6. /\ n' <= suite'.warmUps /\ Len(known'.history) <= n'
        /\ n' <= suite'.warmUps + suite'.repetitions
        /\ Len(known'.history) <= suite'.warmUps + suite'.repetitions + 1
    <3>1. PICK k, l, w, c : /\ k = Len(known.history) /\ l = Len(known'.history)
                            /\ w = suite.warmUps /\ c = suite.repetitions
      OBVIOUS
    <3>2. /\ k \in Nat /\ l \in Nat /\ w \in Nat /\ c \in Nat /\ n \in Nat
          /\ l <= k + 1 /\ k <= n /\ n < w
      BY <1>0, <2>1, <2>4, <2>5, <3>1
    <3>3. n + 1 <= w /\ l <= n + 1 /\ n + 1 <= w + c /\ l <= w + c + 1
      BY <3>2
    <3>4. n' = n + 1 /\ suite' = suite
      BY <2>1
    <3> QED
      BY <3>1, <3>3, <3>4
  <2> QED
    BY <1>0, <1>2, <2>1, <2>4, <2>6 DEF TypeInv, RoomLeft, ResultGrows
<1>8. CASE Prepare
  <2>1. /\ pc = "warm_up" /\ n = suite.warmUps /\ pc' = "attack" /\ n' = 0
        /\ result' = NewResult(Attack) /\ todo' = todo
        /\ UNCHANGED <<suite, down, faults, own>>
    BY <1>8 DEF Prepare, Elsewhere
  <2>2. /\ StateTyped' /\ Len(known'.history) \in Nat
        /\ Len(known'.history) <= Len(known.history) + 1
    <3>1. CASE Attack = "A1"
      <4>1. Send(CapturedRequest) /\ clock' = clock + Elapsed(CapturedRequest)
        BY <1>8, <3>1 DEF Prepare
      <4>2. clock' \in Nat
        BY <1>0, <1>1, <4>1
      <4>3. PICK q : q = CapturedRequest
        OBVIOUS
      <4> QED
        BY <4>1, <4>2, <4>3, RequestsTyped, SendTyped DEF TypeInv
    <3>2. CASE Attack # "A1"
      <4>1. UNCHANGED <<clock, trust, keysWarm>>
        BY <1>8, <3>2 DEF Prepare
      <4> QED
        BY <1>0, <1>3, <4>1 DEF trust
    <3> QED
      BY <3>1, <3>2
  <2>3. Len(known.history) <= n
    BY <2>1 DEF TypeInv, RoomLeft
  <2>4. /\ n' <= suite'.repetitions /\ Len(known'.history) <= suite'.warmUps + 1 + n'
        /\ n' <= suite'.warmUps + suite'.repetitions
        /\ Len(known'.history) <= suite'.warmUps + suite'.repetitions + 1
    <3>1. PICK w, r, k, l \in Nat : /\ w = suite.warmUps /\ r = suite.repetitions
                                   /\ k = Len(known.history) /\ l = Len(known'.history)
      BY <1>0, <2>2
    <3>2. w \in Nat /\ r \in Nat /\ k \in Nat /\ l \in Nat
      BY <3>1
    <3>3. k <= w /\ l <= k + 1
      BY <2>1, <2>2, <2>3, <3>1
    <3>4. 0 <= r /\ l <= w + 1 + 0 /\ 0 <= w + r /\ l <= w + r + 1
      BY <3>2, <3>3
    <3> QED
      BY <2>1, <3>1, <3>4
  <2>5. Attack' = Attack
    BY <2>1 DEF Attack
  <2>6. PICK x, a : x = result' /\ a = Attack
    OBVIOUS
  <2>7. ResultTyped' /\ ResultGrows'
    <3>1. x = NewResult(a)
      BY <2>1, <2>6
    <3>2. /\ DOMAIN x = Fields /\ x.attack = a
          /\ x.attempts = 0 /\ x.successes = 0 /\ x.errors = 0
          /\ x.detected \in BOOLEAN /\ x.first \in Causes
      BY <3>1, NewResultCounts
    <3>3. x.successes + x.errors <= x.attempts /\ x.successes \in Nat /\ x.errors \in Nat
          /\ x.attempts \in 0..suite.repetitions
      BY <1>0, <3>2
    <3> QED
      BY <2>1, <2>5, <2>6, <3>2, <3>3 DEF ResultTyped, ResultGrows
  <2> QED
    BY <1>0, <2>1, <2>2, <2>4, <2>7 DEF TypeInv, RoomLeft
<1>9. CASE Attempt
  <2>1. /\ pc = "attack" /\ n < suite.repetitions /\ pc' = pc /\ n' = n + 1
        /\ Send(AttackRequest)
        /\ UNCHANGED <<suite, down, faults, own>>
        /\ clock' = clock + Elapsed(AttackRequest)
             + (IF Attack = "A7" /\ n < suite.repetitions - 1 THEN Cells[cell].pace ELSE 0)
    BY <1>9 DEF Attempt, Elsewhere
  <2>2. clock' \in Nat
    BY <1>0, <1>1, <2>1
  <2>3. Attack \in Seven
    BY <1>0, <2>1, AttackAtHand DEF Busy
  <2>4. PICK q : q = AttackRequest
    OBVIOUS
  <2>5. /\ StateTyped' /\ Len(known'.history) \in Nat
        /\ Len(known'.history) <= Len(known.history) + 1
    BY <2>1, <2>2, <2>3, <2>4, RequestsTyped, SendTyped DEF TypeInv
  <2>6. Len(known.history) <= suite.warmUps + 1 + n
    BY <2>1 DEF TypeInv, RoomLeft
  <2>7. /\ n' <= suite'.repetitions /\ Len(known'.history) <= suite'.warmUps + 1 + n'
        /\ n' <= suite'.warmUps + suite'.repetitions
        /\ Len(known'.history) <= suite'.warmUps + suite'.repetitions + 1
    <3>1. PICK w, r, k, l, m \in Nat :
                 /\ w = suite.warmUps /\ r = suite.repetitions /\ m = n
                 /\ k = Len(known.history) /\ l = Len(known'.history)
      BY <1>0, <2>5
    <3>2. w \in Nat /\ r \in Nat /\ k \in Nat /\ l \in Nat /\ m \in Nat
      BY <3>1
    <3>3. k <= w + 1 + m /\ l <= k + 1 /\ m < r
      BY <2>1, <2>5, <2>6, <3>1
    <3>4. m + 1 <= r /\ l <= w + 1 + (m + 1) /\ m + 1 <= w + r /\ l <= w + r + 1
      BY <3>2, <3>3
    <3> QED
      BY <2>1, <3>1, <3>4
  <2>8. ResultTyped' /\ ResultGrows'
    BY <1>9, AttemptTyped, AttemptTallies DEF TypeInv
  <2> QED
    BY <1>0, <2>1, <2>5, <2>7, <2>8 DEF TypeInv, RoomLeft
<1>10. CASE Save \/ Summarise
  <2>1. /\ pc' \in {"summarise", "reset", "done"} /\ (n' = 0 \/ n' = n)
        /\ UNCHANGED <<suite, clock, trust, keysWarm, own, down, faults, result>>
    BY <1>10 DEF Save, Summarise, Elsewhere
  <2> QED
    BY <1>0, <1>2, <1>3, <2>1 DEF TypeInv, RoomLeft, ResultGrows, trust
<1>11. CASE Break \/ Mend
  <2>1. /\ UNCHANGED <<suite, pc, todo, n, clock, trust, keysWarm, own, result>>
        /\ down' \in Outage \cup {"nothing"}
    BY <1>11 DEF Break, Mend
  <2>2. faults' \in 0..suite.outages
    <3>1. CASE Break
      <4>1. suite.outages \in Nat
        BY <1>0, SuiteAssumption DEF StageInv
      <4>2. faults < suite.outages /\ faults' = faults + 1
        BY <3>1 DEF Break
      <4> QED
        BY <4>1, <4>2 DEF TypeInv
    <3>2. CASE Mend
      BY <3>2 DEF Mend, TypeInv
    <3> QED
      BY <1>11, <3>1, <3>2
  <2>3. Attack' = Attack
    BY <2>1 DEF Attack
  <2> QED
    BY <1>0, <1>2, <1>3, <2>1, <2>2, <2>3 DEF TypeInv, RoomLeft, ResultGrows, trust
<1>12. CASE UNCHANGED vars
  <2>1. UNCHANGED <<suite, pc, todo, n, clock, trust, keysWarm, own, down, faults, result>>
    BY <1>12 DEF vars
  <2>2. Attack' = Attack
    BY <2>1 DEF Attack
  <2> QED
    BY <1>0, <1>2, <1>3, <2>1, <2>2 DEF TypeInv, RoomLeft, ResultGrows, trust
<1> QED
  BY <1>4, <1>5, <1>6, <1>7, <1>8, <1>9, <1>10, <1>11, <1>12 DEF Next

(* Type correctness: among others, that no step of the runner goes beyond   *)
(* the attempts asked for, and that what collect remembers never exceeds    *)
(* the requests of one preparation and its attack.                          *)
THEOREM TypeCorrect == Spec => []TypeOK
<1>1. Init => TypeInv /\ LiveInv
  BY TypeInitial, LiveInitial
<1>2. TypeInv /\ LiveInv /\ [Next]_vars => (TypeInv /\ LiveInv)'
  BY TypeStep, LiveStep
<1>3. TypeInv /\ LiveInv => TypeOK
  <2> SUFFICES ASSUME TypeInv, LiveInv PROVE TypeOK
    OBVIOUS
  <2>1. n \in 0..suite.warmUps + suite.repetitions
    BY SelectedIsSome DEF TypeInv, StageInv
  <2>2. {clock, issued, signed} \subseteq Nat
    BY DEF LiveInv
  <2> QED
    BY <2>1, <2>2 DEF TypeInv, StageInv, StateTyped, ResultTyped, TypeOK, Busy
<1> QED
  BY <1>1, <1>2, <1>3, PTL DEF Spec

-----------------------------------------------------------------------------
(* The load generator. *)

Regions == {Home} \cup Away

(* What is remembered of the shared device, wherever it has been. *)
Travelled == [ts : Nat, geo : Regions, session : {"load"}]

(* The one request of which all are copies but for the region. *)
IsLoads(q, geo) ==
  /\ q.token = "load" /\ q.proof = "load" /\ ~q.captured
  /\ q.context = [geo |-> geo, session |-> "load", fp |-> "load"]
  /\ q.attack = NotAttack /\ q.profile = (IF geo = Home THEN "stable" ELSE "drift")
  /\ q.iat = Whole(clock)

LEMMA BuiltIsLoads ==
  ASSUME NEW u, NEW geo
  PROVE  IsLoads(Built(u, geo), geo)
BY DEF IsLoads, Built, Request, DeviceOf, NotAttack

(* What pruning leaves is the end of the history; the rest has expired.     *)
LEMMA PrunedTail ==
  ASSUME NEW S, NEW h \in Seq(S), NEW now, NEW p, p = Prune(h, now)
  PROVE  /\ p \in Seq(S) /\ Len(p) \in 0..Len(h)
         /\ \A i \in 1..Len(p) : p[i] = h[Len(h) - Len(p) + i]
         /\ \A i \in 1..(Len(h) - Len(p)) : Expired(h[i], now)
<1> DEFINE l == Len(h)
           fresh == {i \in 1..l : ~Expired(h[i], now)}
<1>1. l \in Nat /\ \A i \in 1..l : h[i] \in S
  BY LenProperties, ElementOfSeq
<1>2. CASE fresh = {}
  <2>1. p = <<>>
    BY <1>2 DEF Prune
  <2>2. \A i \in 1..l : Expired(h[i], now)
    BY <1>2
  <2> HIDE DEF l, fresh
  <2>3. Len(p) = 0 /\ p \in Seq(S)
    BY <2>1, EmptySeq
  <2>4. \A i \in 1..(l - 0) : Expired(h[i], now)
    BY <1>1, <2>2
  <2> QED
    BY <1>1, <2>3, <2>4 DEF l
<1>3. CASE fresh # {}
  <2> DEFINE m == CHOOSE i \in fresh : \A k \in fresh : i <= k
             end == SubSeq(h, m, l)
  <2>1. m \in fresh /\ \A k \in fresh : m <= k
    <3>1. fresh \subseteq Nat
      OBVIOUS
    <3> HIDE DEF fresh
    <3> QED
      BY <1>3, <3>1, LeastNumber
  <2>2. p = end
    BY <1>3 DEF Prune
  <2>3. m \in 1..l
    BY <2>1
  <2>4. \A i \in 1..(m - 1) : Expired(h[i], now)
    <3> HIDE DEF m
    <3> SUFFICES ASSUME NEW i \in 1..(m - 1), ~Expired(h[i], now) PROVE FALSE
      OBVIOUS
    <3>1. i \in 1..l /\ ~(m <= i)
      BY <1>1, <2>3
    <3>2. i \in fresh
      BY <3>1
    <3> HIDE DEF fresh
    <3> QED
      BY <2>1, <3>1, <3>2
  <2> HIDE DEF m, l
  <2>5. /\ p \in Seq(S) /\ Len(p) = l - m + 1
        /\ \A i \in 1..(l - m + 1) : p[i] = h[m + i - 1]
    BY <1>1, <2>2, <2>3, SubSeqProperties
  <2> HIDE DEF end
  <2>6. Len(p) \in 0..l /\ l - Len(p) = m - 1
    BY <1>1, <2>3, <2>5
  <2>7. \A i \in 1..Len(p) : l - Len(p) + i = m + i - 1
    BY <1>1, <2>3, <2>5
  <2> QED
    BY <2>4, <2>5, <2>6, <2>7 DEF l
<1> QED
  BY <1>2, <1>3

(* Pushing adds one element at the end and lets at most one go.             *)
PushedOnto(S, p, x, r) ==
  \E gone \in {0, 1} : /\ r \in Seq(S) /\ Len(r) = Len(p) + 1 - gone
                       /\ Len(p) < MaxLen => gone = 0
                       /\ r[Len(r)] = x
                       /\ \A i \in 1..(Len(r) - 1) : r[i] = p[gone + i]

LEMMA PushedTail ==
  ASSUME NEW S, NEW p \in Seq(S), NEW x \in S
  PROVE  PushedOnto(S, p, x, Push(p, x))
<1> DEFINE m == Len(p)
           a == Append(p, x)
           r == Push(p, x)
<1>1. /\ m \in Nat /\ MaxLen \in Nat \ {0}
      /\ a \in Seq(S) /\ Len(a) = m + 1 /\ a[m + 1] = x
      /\ \A i \in 1..m : a[i] = p[i]
  BY WindowAssumption, AppendProperties, LenProperties
<1>2. SUFFICES \E gone \in {0, 1} : /\ r \in Seq(S) /\ Len(r) = m + 1 - gone
                                    /\ m < MaxLen => gone = 0
                                    /\ r[Len(r)] = x
                                    /\ \A i \in 1..(Len(r) - 1) : r[i] = p[gone + i]
  BY DEF PushedOnto
<1> HIDE DEF m, a
<1>3. CASE m < MaxLen
  <2>1. r = a
    BY <1>1, <1>3 DEF Push, a
  <2> HIDE DEF r
  <2>2. \A i \in 1..((m + 1) - 1) : i \in 1..m /\ 0 + i = i
    BY <1>1
  <2>3. /\ r \in Seq(S) /\ Len(r) = m + 1 - 0 /\ r[Len(r)] = x
        /\ \A i \in 1..(Len(r) - 1) : r[i] = p[0 + i]
    BY <1>1, <2>1, <2>2
  <2> QED
    BY <2>3
<1>4. CASE ~(m < MaxLen)
  <2>1. r = Tail(a)
    BY <1>1, <1>4 DEF Push, a
  <2>2. m \in Nat \ {0}
    BY <1>1, <1>4
  <2>3. a # <<>>
    BY <1>1, EmptySeq
  <2> HIDE DEF r
  <2>4. /\ r \in Seq(S) /\ Len(r) = m
        /\ \A i \in 1..m : r[i] = a[i + 1]
    BY <1>1, <2>1, <2>3, HeadTailProperties
  <2>5. \A i \in 1..(m - 1) : i \in 1..m /\ i + 1 \in 1..m /\ 1 + i = i + 1
    BY <2>2
  <2>6. r[Len(r)] = x /\ Len(r) = m + 1 - 1
    BY <1>1, <2>2, <2>4
  <2>7. \A i \in 1..(Len(r) - 1) : r[i] = p[1 + i]
    BY <1>1, <2>4, <2>5
  <2> QED
    BY <1>4, <2>4, <2>6, <2>7
<1> QED
  BY <1>3, <1>4

(* All that is remembered is of one session. *)
LEMMA OneSession ==
  ASSUME NEW p \in Seq(Travelled), p # <<>>
  PROVE  /\ Len(p) \in Nat \ {0}
         /\ Thousandths(SameSession(p, "load"), Len(p)) = 1000
<1>1. Len(p) \in Nat \ {0} /\ \A i \in 1..Len(p) : p[i] \in Travelled
  BY EmptySeq, LenProperties, ElementOfSeq
<1>2. {i \in 1..Len(p) : p[i].session = "load"} = 1..Len(p)
  BY <1>1 DEF Travelled
<1>3. SameSession(p, "load") = Len(p)
  <2>1. Cardinality(1..Len(p)) = Len(p)
    BY <1>1, FS_Interval
  <2> QED
    BY <1>2, <2>1 DEF SameSession
<1> QED
  BY <1>1, <1>3, NoneOfSome

(* The flags of a cell without an operator's .env file: those of its mode,  *)
(* less what its target switches off.                                       *)
LEMMA FlagsOfCell ==
  ASSUME NEW c \in CellNames
  PROVE  LET f == CellFlags(c, Keep)
             m == Cells[c].mode
             s == Cells[c].shell
         IN /\ m \in {"B0", "B1", "P"}
            /\ f.dpop <=> m # "B0"
            /\ f.risk <=> m = "P"
            /\ f.passthrough <=> m = "B0"
            /\ f.binding <=> m # "B0" /\ s["CHECK_DEVICE_BINDING"] # "false"
            /\ f.telemetry <=> m = "P" /\ s["ENABLE_TELEMETRY"] # "false"
            /\ f.velocity <=> m = "P" /\ s["ENABLE_VELOCITY"] # "false"
            /\ f.oracle <=> s["ORACLE_ATTACK_CONTEXT"] = "true"
<1>1. c \in DOMAIN Cells
  BY DEF CellNames
<1>2. Cells[c].mode \in {"B0", "B1", "P"}
  BY <1>1 DEF Cells, AttackCell, LoadCell, AdaptiveCell, OracleCell, AblationCell, Cell
<1> DEFINE s == Cells[c].shell
           m == Cells[c].mode
           env == ContainerEnv(s, Keep)
           AsSet(v) == IF s[v] \in {Unset, Empty} THEN v \in ModeDefaults(m)
                       ELSE s[v] = "true"
<1>3. /\ \A v \in FlagVars : s[v] \in {Unset, Empty, "true", "false"}
      /\ \A v \in FlagVars \ Ablated : s[v] \notin {Empty, "false"}
      /\ s["ENFORCE_DPOP"] = Unset /\ s["ENABLE_RISK_POLICY"] = Unset
      /\ s["PROXY_PASSTHROUGH"] = Unset
      /\ \A v \in Ablated : s[v] # "true"
  <2>1. \/ s = Keep
        \/ s = [Keep EXCEPT !["ORACLE_ATTACK_CONTEXT"] = "true"]
        \/ \E off \in {"none"} \cup Ablated : s = AblationShell(off)
    BY <1>1 DEF Cells, AttackCell, LoadCell, AdaptiveCell, OracleCell, AblationCell, Cell, Ablated
  <2> HIDE DEF s
  <2> QED
    BY <2>1 DEF Keep, FlagVars, AblationShell, Ablated, Unset, Empty
<1> HIDE DEF s, m
<1>4. \A v \in FlagVars : Bool(env[v], v \in ModeDefaults(m)) <=> AsSet(v)
  <2>1. \A v \in FlagVars : env[v] = s[v]
    BY DEF ContainerEnv, ShellOrFile, Keep
  <2> SUFFICES ASSUME NEW v \in FlagVars
               PROVE  Bool(env[v], v \in ModeDefaults(m)) <=> AsSet(v)
    OBVIOUS
  <2>2. s[v] \in {Unset, Empty, "true", "false"} /\ env[v] = s[v]
    BY <1>3, <2>1
  <2> HIDE DEF env
  <2> QED
    BY <2>2 DEF Bool, Truthy, Unset, Empty
<1>5. LET f == Effective(m, env)
      IN /\ f.dpop <=> AsSet("ENFORCE_DPOP")
         /\ f.binding <=> AsSet("CHECK_DEVICE_BINDING")
         /\ f.telemetry <=> AsSet("ENABLE_TELEMETRY")
         /\ f.risk <=> AsSet("ENABLE_RISK_POLICY")
         /\ f.velocity <=> AsSet("ENABLE_VELOCITY")
         /\ f.passthrough <=> AsSet("PROXY_PASSTHROUGH")
         /\ f.oracle <=> AsSet("ORACLE_ATTACK_CONTEXT")
  <2> HIDE DEF AsSet, env
  <2> QED
    BY <1>4 DEF Effective, FlagVars
<1>6. /\ "ENFORCE_DPOP" \in ModeDefaults(m) <=> m # "B0"
      /\ "CHECK_DEVICE_BINDING" \in ModeDefaults(m) <=> m # "B0"
      /\ "ENABLE_TELEMETRY" \in ModeDefaults(m) <=> m = "P"
      /\ "ENABLE_RISK_POLICY" \in ModeDefaults(m) <=> m = "P"
      /\ "ENABLE_VELOCITY" \in ModeDefaults(m) <=> m = "P"
      /\ "PROXY_PASSTHROUGH" \in ModeDefaults(m) <=> m = "B0"
      /\ "ORACLE_ATTACK_CONTEXT" \notin ModeDefaults(m)
  <2>1. m \in {"B0", "B1", "P"}
    BY <1>2 DEF m
  <2>2. CASE m = "B0"
    BY <2>2 DEF ModeDefaults
  <2>3. CASE m = "B1"
    BY <2>3 DEF ModeDefaults
  <2>4. CASE m = "P"
    BY <2>4 DEF ModeDefaults
  <2> QED
    BY <2>1, <2>2, <2>3, <2>4
<1>7. /\ AsSet("ENFORCE_DPOP") <=> m # "B0"
      /\ AsSet("CHECK_DEVICE_BINDING") <=> m # "B0" /\ s["CHECK_DEVICE_BINDING"] # "false"
      /\ AsSet("ENABLE_TELEMETRY") <=> m = "P" /\ s["ENABLE_TELEMETRY"] # "false"
      /\ AsSet("ENABLE_RISK_POLICY") <=> m = "P"
      /\ AsSet("ENABLE_VELOCITY") <=> m = "P" /\ s["ENABLE_VELOCITY"] # "false"
      /\ AsSet("PROXY_PASSTHROUGH") <=> m = "B0"
      /\ AsSet("ORACLE_ATTACK_CONTEXT") <=> s["ORACLE_ATTACK_CONTEXT"] = "true"
  BY <1>3, <1>6 DEF FlagVars, Ablated, Unset, Empty
<1> HIDE DEF AsSet
<1>8. CellFlags(c, Keep) = Effective(m, env)
  BY DEF CellFlags, m, s
<1> HIDE DEF env
<1> QED
  BY <1>2, <1>5, <1>7, <1>8 DEF m, s

(* The penalty is a number; the decision on one that is low or in between.  *)
LEMMA DecisionByScore ==
  ASSUME NEW q, Settings, down # "opa", Scored(q), RiskOf(q) \in Int,
         ~DenyHard(flags, ChecksFor(q))
  PROVE  DecisionFor(q) = DecideLocal(RiskOf(q), threshold)
<1> DEFINE x == RegoActions(flags, ChecksFor(q), RiskOf(q), threshold)
<1>1. DecisionFor(q) = FromOpa(RegoAnswer(flags, ChecksFor(q), RiskOf(q), threshold))
  BY DEF DecisionFor, Scored
<1>2. threshold.allow \in Int /\ threshold.deny \in Int /\ threshold.allow < threshold.deny
  BY KnownSettings
<1>3. /\ DecideLocal(RiskOf(q), threshold) \in Decision
      /\ x = {DecideLocal(RiskOf(q), threshold)}
  BY <1>2 DEF RegoActions, DecideLocal, Decision
<1> HIDE DEF x
<1>4. RegoAnswer(flags, ChecksFor(q), RiskOf(q), threshold) = DecideLocal(RiskOf(q), threshold)
  BY <1>3 DEF RegoAnswer, x
<1> QED
  BY <1>1, <1>3, <1>4 DEF FromOpa

Tuned ==
  /\ Settings /\ down = "nothing"
  /\ load \in Loads /\ cell = load.cell /\ load.pace \in Nat

(* Time for the next request to arrive. *)
IsDue == clock = Len(collected) * load.pace /\ Len(collected) \in Nat

(* So many requests in the start-up that the call-rate rule is silent only  *)
(* in it.                                                                   *)
Crowded == load.pace * CallRateLimit < StartUp

Remembered ==
  LET h == known.history
  IN /\ Calm /\ known.fps \subseteq {"load"}
     /\ h \in Seq(Travelled) /\ (Len(h) = 0 <=> Len(collected) = 0)
     /\ \A i \in 1..Len(h) :
          h[i].ts + (Len(h) + 1 - i) * load.pace = Len(collected) * load.pace
     /\ Len(h) > 0 => h[Len(h)].geo = trail[Len(trail)]
     /\ Crowded => Len(h) >= Len(collected) \/ Len(h) > CallRateLimit

LEMMA LoadPassesChecks ==
  ASSUME NEW q, NEW geo, IsLoads(q, geo), clock \in Nat
  PROVE  /\ ProofRefusal(q) = "none"
         /\ ChecksFor(q).tokenValid /\ ChecksFor(q).jktMatch
         /\ ~ChecksFor(q).jtiReplayed
         /\ ChecksFor(q).dpopValid <=> flags.dpop
         /\ ~Declared(q)
<1>1. ProofRefusal(q) = "none"
  BY JustSigned DEF ProofRefusal, Replayed, IsLoads
<1>2. q.proof = q.token
  BY DEF IsLoads
<1>3. /\ ChecksFor(q).tokenValid /\ ChecksFor(q).jktMatch
      /\ ~ChecksFor(q).jtiReplayed
      /\ ChecksFor(q).dpopValid <=> flags.dpop
  BY <1>1, <1>2 DEF ChecksFor
<1>4. ~Declared(q)
  BY DEF Declared, IsLoads
<1> QED
  BY <1>1, <1>3, <1>4

(* What the window still holds when the next request arrives. *)
LEMMA WindowHolds ==
  ASSUME Tuned, Remembered, clock \in Nat, IsDue
  PROVE  \E h, p : /\ h = known.history /\ p = Prune(h, clock)
                   /\ p \in Seq(Travelled) /\ Len(p) \in 0..Len(h) /\ Len(h) \in Nat
                   /\ \A i \in 1..Len(p) : p[i] = h[Len(h) - Len(p) + i]
                   /\ Len(h) > 0 => Len(p) > 0
                   /\ Crowded => Len(p) >= Len(collected) \/ Len(p) > CallRateLimit
<1>1. PICK h, now, pace, p : /\ h = known.history /\ now = clock /\ pace = load.pace
                             /\ p = Prune(h, now)
  OBVIOUS
<1>2. /\ h \in Seq(Travelled) /\ Len(h) \in Nat /\ now \in Nat /\ pace \in Nat
      /\ \A i \in 1..Len(h) : h[i] \in Travelled
      /\ \A i \in 1..Len(h) : h[i].ts + (Len(h) + 1 - i) * pace = now
  BY <1>1, LenProperties, ElementOfSeq DEF Remembered, Tuned, IsDue
<1>3. /\ p \in Seq(Travelled) /\ Len(p) \in 0..Len(h)
      /\ \A i \in 1..Len(p) : p[i] = h[Len(h) - Len(p) + i]
      /\ \A i \in 1..(Len(h) - Len(p)) : Expired(h[i], now)
  <2>1. h \in Seq(Travelled) /\ p = Prune(h, now)
    BY <1>1, <1>2
  <2> QED
    BY <2>1, PrunedTail
<1>4. /\ pace + StartUp <= Window /\ StartUp \in Nat /\ Window \in Nat
      /\ CallRateLimit = 30
  BY <1>1, LoadAssumption, WindowAssumption DEF Tuned, CallRateLimit
<1>5. \A i \in 1..Len(h) : (Len(h) + 1 - i) * pace <= Window => i > Len(h) - Len(p)
  <2> SUFFICES ASSUME NEW i \in 1..Len(h), (Len(h) + 1 - i) * pace <= Window,
                      i <= Len(h) - Len(p)
               PROVE  FALSE
    BY <1>2, <1>3
  <2>1. h[i].ts \in Nat /\ h[i].ts + (Len(h) + 1 - i) * pace = now
    BY <1>2 DEF Travelled
  <2>2. Expired(h[i], now)
    BY <1>2, <1>3
  <2>3. PICK age, t : age = (Len(h) + 1 - i) * pace /\ t = h[i].ts
    OBVIOUS
  <2>4. Len(h) \in Nat /\ pace \in Nat /\ now \in Nat /\ Window \in Nat
    BY <1>2, <1>4
  <2>5. age \in Int
    BY <2>3, <2>4
  <2>6. t \in Nat /\ t + age = now /\ age <= Window
    BY <2>1, <2>3
  <2>7. now - t > Window
    BY <2>2, <2>3 DEF Expired
  <2> QED
    BY <2>4, <2>5, <2>6, <2>7
<1>6. Len(h) > 0 => Len(p) > 0
  <2> SUFFICES ASSUME Len(h) > 0 PROVE Len(p) > 0
    OBVIOUS
  <2>1. Len(h) \in 1..Len(h) /\ (Len(h) + 1 - Len(h)) * pace = pace
    BY <1>2
  <2>2. Len(h) > Len(h) - Len(p)
    BY <1>4, <1>5, <2>1, <1>2
  <2> QED
    BY <1>2, <1>3, <2>2
<1>7. Crowded => Len(p) >= Len(collected) \/ Len(p) > 30
  <2> SUFFICES ASSUME Crowded, ~(Len(p) >= Len(collected)), ~(Len(p) > 30) PROVE FALSE
    OBVIOUS
  <2>1. pace * 30 < StartUp
    BY <1>1, <1>4 DEF Crowded
  <2>2. Len(h) >= Len(collected) \/ Len(h) > 30
    BY <1>1, <1>4 DEF Remembered
  <2>3. Len(h) - Len(p) \in 1..Len(h)
    BY <1>2, <1>3, <2>2
  <2>4. (Len(h) + 1 - (Len(h) - Len(p))) * pace = (Len(p) + 1) * pace
    BY <1>2, <1>3
  <2>5. (Len(p) + 1) * pace <= 31 * pace
    <3>1. \A a, b, c \in Nat : a <= b => a * c <= b * c
      OBVIOUS
    <3>2. Len(p) + 1 \in Nat /\ Len(p) + 1 <= 31
      BY <1>2, <1>3
    <3> QED
      BY <1>2, <3>1, <3>2
  <2>6. 31 * pace = pace * 30 + pace
    BY <1>2
  <2>7. (Len(h) + 1 - (Len(h) - Len(p))) * pace <= Window
    <3>1. PICK a \in Int : a = (Len(p) + 1) * pace
      BY <1>2, <1>3
    <3> QED
      BY <1>2, <1>4, <2>1, <2>4, <2>5, <2>6, <3>1
  <2>8. PICK i \in 1..Len(h) : i = Len(h) - Len(p)
    BY <2>3
  <2>9. i > Len(h) - Len(p)
    BY <1>5, <2>7, <2>8
  <2> QED
    BY <1>2, <1>3, <2>8, <2>9
<1> QED
  BY <1>1, <1>2, <1>3, <1>4, <1>6, <1>7

(* A request's signals: only the region and the rate can be odd. *)
LEMMA LoadSignals ==
  ASSUME Tuned, flags.telemetry => Remembered, clock \in Nat, IsDue,
         NEW q, NEW geo, IsLoads(q, geo)
  PROVE  LET s == SignalsFor(q)
         IN /\ R3(s) <=> flags.telemetry /\ Len(collected) > 0 /\ geo # trail[Len(trail)]
            /\ ~R5(s) /\ ~R6(s) /\ s.fpStable
            /\ flags.telemetry /\ Crowded /\ Len(collected) > CallRateLimit
                 => s.callRate > CallRateLimit
<1>1. CASE ~flags.telemetry
  BY <1>1 DEF SignalsFor, Signals, Neutral, R3, R5, R6, VelocityLimit, ContinuityFloor,
              FailureLimit
<1>2. CASE flags.telemetry
  <2>1. PICK h, now, p, e, s : /\ h = known.history /\ now = clock /\ p = Prune(h, now)
                               /\ e = EventFor(q) /\ s = SignalsOf(known, e)
    OBVIOUS
  <2>2. e.ts = now /\ e.geo = geo /\ e.session = "load" /\ e.fp = "load"
    BY <2>1 DEF EventFor, IsLoads
  <2>3. /\ p \in Seq(Travelled) /\ Len(p) \in Nat /\ Len(h) \in Nat
        /\ \A i \in 1..Len(p) : p[i] = h[Len(h) - Len(p) + i]
        /\ Len(h) > 0 => Len(p) > 0
        /\ Len(p) <= Len(h)
        /\ Crowded => Len(p) >= Len(collected) \/ Len(p) > CallRateLimit
    <3>1. Remembered /\ h = known.history /\ p = Prune(h, clock)
      BY <1>2, <2>1
    <3>2. PICK k, r : /\ k = known.history /\ r = Prune(k, clock)
                      /\ r \in Seq(Travelled) /\ Len(r) \in 0..Len(k) /\ Len(k) \in Nat
                      /\ \A i \in 1..Len(r) : r[i] = k[Len(k) - Len(r) + i]
                      /\ Len(k) > 0 => Len(r) > 0
                      /\ Crowded => Len(r) >= Len(collected) \/ Len(r) > CallRateLimit
      BY <3>1, WindowHolds
    <3>3. k = h /\ r = p
      BY <3>1, <3>2
    <3> QED
      BY <3>2, <3>3
  <2>4. /\ s.fpStable = FpStable(known, e.fp)
        /\ s.callRate = Len(p)
        /\ s.geoVelocity = IF RegionChanged(p, e.geo)
                           THEN ImpliedVelocity(e.ts - p[Len(p)].ts) ELSE 0
        /\ s.continuity = IF p = <<>> THEN 1000
                          ELSE Thousandths(SameSession(p, e.session), Len(p))
    BY <2>1, <2>2 DEF SignalsOf
  <2>5. SignalsFor(q) = s
    BY <1>2, <2>1 DEF SignalsFor, Signals
  <2>6. s.fpStable
    BY <1>2, <2>2, <2>4 DEF FpStable, Remembered
  <2>7. ~R5(s)
    BY <2>2, <2>3, <2>4, OneSession DEF R5, ContinuityFloor
  <2>8. ~R6(s)
    BY <1>2, <2>5, CalmSignals, LoadPassesChecks DEF Remembered
  <2>9. R3(s) <=> Len(collected) > 0 /\ geo # trail[Len(trail)]
    <3>1. CASE Len(p) = 0
      <4>1. p = <<>> /\ Len(collected) = 0
        BY <1>2, <2>1, <2>3, <3>1, EmptySeq DEF Remembered
      <4> QED
        BY <2>4, <4>1 DEF R3, VelocityLimit, RegionChanged
    <3>2. CASE Len(p) # 0
      <4>1. p # <<>> /\ Len(p) \in 1..Len(p) /\ p[Len(p)] = h[Len(h)]
        <5>1. Len(p) \in 1..Len(p) /\ Len(h) - Len(p) + Len(p) = Len(h)
          BY <2>3, <3>2
        <5> QED
          BY <2>3, <3>2, <5>1, EmptySeq
      <4>2. /\ Len(collected) > 0 /\ p[Len(p)].geo = trail[Len(trail)]
            /\ p[Len(p)].ts + (Len(h) + 1 - Len(h)) * load.pace = now
        <5>1. Len(h) > 0 /\ Len(h) \in 1..Len(h)
          BY <2>3, <3>2
        <5>2. now = Len(collected) * load.pace
          BY <2>1 DEF IsDue
        <5>3. /\ Len(h) = 0 <=> Len(collected) = 0
              /\ \A i \in 1..Len(h) :
                   h[i].ts + (Len(h) + 1 - i) * load.pace = Len(collected) * load.pace
              /\ h[Len(h)].geo = trail[Len(trail)]
          BY <1>2, <2>1, <5>1 DEF Remembered
        <5>4. h[Len(h)].ts + (Len(h) + 1 - Len(h)) * load.pace = now
          BY <5>1, <5>2, <5>3
        <5>5. Len(collected) > 0
          BY <5>1, <5>3 DEF IsDue
        <5> QED
          BY <4>1, <5>3, <5>4, <5>5
      <4>3. p[Len(p)].ts \in Nat
        <5>1. p[Len(p)] \in Travelled
          BY <2>3, <4>1, ElementOfSeq
        <5> QED
          BY <5>1 DEF Travelled
      <4>4. (Len(h) + 1 - Len(h)) * load.pace = load.pace /\ load.pace <= Window
        BY <2>3, LoadAssumption, WindowAssumption DEF Tuned
      <4>5. e.ts - p[Len(p)].ts = load.pace
        BY <2>1, <2>2, <4>2, <4>3, <4>4 DEF Tuned
      <4>6. ImpliedVelocity(e.ts - p[Len(p)].ts) > 500
        BY <4>4, <4>5, ChangeIsFast DEF Tuned
      <4>7. RegionChanged(p, e.geo) <=> geo # trail[Len(trail)]
        BY <2>2, <4>1, <4>2 DEF RegionChanged
      <4> QED
        BY <2>4, <4>2, <4>6, <4>7 DEF R3, VelocityLimit
    <3> QED
      BY <3>1, <3>2
  <2>10. Crowded /\ Len(collected) > CallRateLimit => s.callRate > CallRateLimit
    BY <2>3, <2>4 DEF CallRateLimit
  <2> QED
    BY <1>2, <2>5, <2>6, <2>7, <2>8, <2>9, <2>10
<1> QED
  BY <1>1, <1>2

-----------------------------------------------------------------------------
(* Load generator: what a record says of its request. *)

(* A record of the i-th request to arrive: what of its score and its        *)
(* decision the two regions and the rate determine.                         *)
RecordFields == {"run", "label", "attack", "profile", "decision", "checks", "risk", "rules",
                 "ts"}

Sent(r, i) ==
  /\ RecordFields \subseteq DOMAIN r
  /\ r.attack = NotAttack
  /\ r.profile = (IF trail[i] = Home THEN "stable" ELSE "drift")
  /\ r.run = [target |-> Cells[cell].target, cell |-> cell] /\ r.label = LabelOf(cell)
  /\ r.rules \subseteq {"R3", "R4"}
  /\ "R3" \in r.rules <=> /\ flags.risk /\ flags.telemetry
                          /\ i > 1 /\ trail[i] # trail[i - 1]
  /\ flags.risk /\ flags.telemetry /\ flags.velocity /\ Crowded /\ i > CallRateLimit + 1
       => "R4" \in r.rules
  /\ r.risk = Penalty("R3" \in r.rules, 60) + Penalty("R4" \in r.rules, 25)
  /\ r.decision = IF "R3" \notin r.rules THEN "ALLOW"
                  ELSE IF "R4" \in r.rules THEN "DENY" ELSE "CHALLENGE"
  /\ flags.risk => ~HardBlocked(r)

UserStates ==
  /\ load \in Loads /\ cell = load.cell
  /\ pending \in [load.users -> {NotStarted, Idle, Home} \cup Away]
  /\ drifts \in 0..load.drifts

(* What has arrived: time is between the last arrival and the next. *)
ArrivalInv ==
  /\ Settings /\ down = "nothing" /\ issued = 0
  /\ IsSequence(collected) /\ Len(collected) <= load.requests
  /\ trail \in Seq(Regions) /\ Len(trail) = Len(collected)
  /\ by \in Seq(load.users) /\ Len(by) = Len(collected)
  /\ \/ clock = Due(Len(collected) + 1)
     \/ Len(collected) > 0 /\ clock = Due(Len(collected))
  /\ registry[User] \in {{}, {"load"}} /\ DOMAIN registry = {User}
  /\ flags.telemetry => Remembered
  /\ \A i \in DOMAIN collected : Sent(collected[i], i)

(* The k-th record of the log: when it was written. *)
Written(k) ==
  /\ order[k] \in 1..Len(collected) /\ Sent(log[k], order[k])
  /\ log[k].ts \in Nat /\ log[k].ts <= clock
  /\ Due(order[k]) <= log[k].ts /\ log[k].ts <= Due(order[k]) + load.lag

(* By the n-th arrival, all that its user had asked for before is answered. *)
Answered(j) ==
  \A i \in 1..(j - 1) :
    by[i] = by[j] => \E k \in DOMAIN log : order[k] = i /\ log[k].ts <= Due(j)

(* Each arrival is under way or has one record. *)
RecordInv ==
  /\ IsSequence(log) /\ order \in Seq(Nat) /\ Len(order) = Len(log)
  /\ underway \in [load.users -> 0..Len(collected)]
  /\ \A k \in DOMAIN log : Written(k)
  /\ \A k, m \in DOMAIN log : order[k] = order[m] => k = m
  /\ \A i \in 1..Len(collected) : \/ \E k \in DOMAIN log : order[k] = i
                                  \/ underway[by[i]] = i
  /\ \A u \in load.users :
       underway[u] # None => /\ by[underway[u]] = u /\ clock <= Due(underway[u]) + load.lag
                             /\ \A k \in DOMAIN log : order[k] # underway[u]
  /\ \A j \in 1..Len(collected) : Answered(j)

LoadInv == UserStates /\ ArrivalInv /\ RecordInv

(* The flags and the limits that a request of this workload meets. *)
LEMMA LoadSettings ==
  ASSUME Settings, down = "nothing"
  PROVE  /\ flags.risk => flags.dpop /\ ~flags.passthrough
         /\ flags.telemetry => flags.risk
         /\ cell = "exp_P" => flags.risk /\ flags.telemetry /\ flags.velocity
         /\ threshold.allow \in {30, 40} /\ threshold.deny = 70 /\ ~NoKeys
<1>1. CellNames # {} /\ cell \in CellNames /\ flags = CellFlags(cell, Keep)
  BY DEF Settings
<1>2. /\ flags.risk => flags.dpop /\ ~flags.passthrough
      /\ flags.telemetry => flags.risk
  BY <1>1, FlagsOfCell
<1>3. cell = "exp_P" => flags.risk /\ flags.telemetry /\ flags.velocity
  <2> SUFFICES ASSUME cell = "exp_P"
               PROVE  flags.risk /\ flags.telemetry /\ flags.velocity
    OBVIOUS
  <2>1. Cells["exp_P"].mode = "P" /\ Cells["exp_P"].shell = Keep
    BY DEF Cells, LoadCell, Cell
  <2>2. Keep["ENABLE_TELEMETRY"] = Unset /\ Keep["ENABLE_VELOCITY"] = Unset
    BY DEF Keep, FlagVars
  <2>3. Keep["ENABLE_TELEMETRY"] # "false" /\ Keep["ENABLE_VELOCITY"] # "false"
    BY <2>2 DEF Unset
  <2> QED
    BY <1>1, <2>1, <2>3, FlagsOfCell
<1>4. threshold.allow \in {30, 40} /\ threshold.deny = 70
  BY <1>1, CellSettings DEF Settings, Limits, Float
<1> QED
  BY <1>2, <1>3, <1>4 DEF NoKeys

(* What the controller makes of a request: rules, score and decision. *)
LEMMA LoadJudged ==
  ASSUME Settings, Tuned, flags.telemetry => Remembered, IsDue,
         registry[User] \in {{}, {"load"}}, NEW q, NEW geo, IsLoads(q, geo)
  PROVE  LET rules == RulesOf(q)
         IN /\ rules \subseteq {"R3", "R4"}
            /\ "R3" \in rules <=> /\ flags.risk /\ flags.telemetry
                                  /\ Len(collected) > 0 /\ geo # trail[Len(trail)]
            /\ flags.risk /\ flags.telemetry /\ flags.velocity
                 /\ Crowded /\ Len(collected) > CallRateLimit => "R4" \in rules
            /\ RiskOf(q) = Penalty("R3" \in rules, 60) + Penalty("R4" \in rules, 25)
            /\ DecisionFor(q) = IF "R3" \notin rules THEN "ALLOW"
                                ELSE IF "R4" \in rules THEN "DENY" ELSE "CHALLENGE"
<1>1. PICK s, checks, device, declared :
        /\ s = SignalsFor(q) /\ checks = ChecksFor(q) /\ device = DeviceKnownFor(q)
        /\ declared = Declared(q)
  OBVIOUS
<1>2. clock \in Nat /\ down = "nothing"
  BY DEF Settings, Tuned
<1>3. /\ R3(s) <=> flags.telemetry /\ Len(collected) > 0 /\ geo # trail[Len(trail)]
      /\ ~R5(s) /\ ~R6(s) /\ s.fpStable
      /\ flags.telemetry /\ Crowded /\ Len(collected) > CallRateLimit
           => s.callRate > CallRateLimit
  BY <1>1, <1>2, LoadSignals
<1>4. /\ ProofRefusal(q) = "none" /\ checks.tokenValid /\ checks.jktMatch
      /\ ~checks.jtiReplayed /\ checks.dpopValid <=> flags.dpop
      /\ ~declared
  BY <1>1, <1>2, LoadPassesChecks
<1>5. device
  <2>1. q.token = "load"
    BY DEF IsLoads
  <2> QED
    BY <1>1, <2>1 DEF DeviceKnownFor, DeviceKnown, KnownDevice
<1>6. ~R1(flags, checks) /\ ~R2(flags, device, s) /\ ~R7(flags, declared)
  BY <1>3, <1>4, <1>5 DEF R1, R2, R7
<1>7. /\ flags.risk => flags.dpop /\ ~flags.passthrough
      /\ threshold.allow \in {30, 40} /\ threshold.deny = 70
  BY <1>2, LoadSettings
<1>8. Scored(q) <=> flags.risk
  BY <1>4, <1>7 DEF Scored
<1>9. CASE ~flags.risk
  <2>1. RulesOf(q) = {} /\ RiskOf(q) = 0
    BY <1>8, <1>9 DEF RulesOf, RiskOf
  <2>2. DecisionFor(q) = "ALLOW"
    BY <1>4, <1>9 DEF DecisionFor
  <2> QED
    BY <1>9, <2>1, <2>2 DEF Penalty
<1>10. CASE flags.risk
  <2>1. RulesOf(q) = {r \in {"R1", "R2", "R3", "R4", "R5", "R6", "R7"} :
           \/ r = "R1" /\ R1(flags, checks)
           \/ r = "R2" /\ R2(flags, device, s)
           \/ r = "R3" /\ R3(s)
           \/ r = "R4" /\ R4(flags, s)
           \/ r = "R5" /\ R5(s)
           \/ r = "R6" /\ R6(s)
           \/ r = "R7" /\ R7(flags, declared)}
    BY <1>1, <1>8, <1>10 DEF RulesOf
  <2>2. "R3" \in RulesOf(q) <=> R3(s)
    BY <2>1, Zenon
  <2>3. "R4" \in RulesOf(q) <=> R4(flags, s)
    BY <2>1, Zenon
  <2>4. RulesOf(q) \subseteq {"R3", "R4"}
    BY <1>3, <1>6, <2>1, Zenon
  <2>5. RiskOf(q) = Penalty(R3(s), 60) + Penalty(R4(flags, s), 25)
    <3>1. RiskOf(q) = Cap(TotalPenalty(flags, checks, device, s, declared))
      BY <1>1, <1>8, <1>10 DEF RiskOf, Score
    <3>2. TotalPenalty(flags, checks, device, s, declared)
            = 0 + 0 + Penalty(R3(s), 60) + Penalty(R4(flags, s), 25) + 0 + 0 + 0
      BY <1>3, <1>6 DEF TotalPenalty, Penalty
    <3>3. PICK a, b : a = Penalty(R3(s), 60) /\ b = Penalty(R4(flags, s), 25)
      OBVIOUS
    <3>4. a \in {0, 60} /\ b \in {0, 25}
      BY <3>3 DEF Penalty
    <3>5. TotalPenalty(flags, checks, device, s, declared) = a + b
      BY <3>2, <3>3, <3>4
    <3> QED
      BY <3>1, <3>3, <3>4, <3>5 DEF Cap
  <2>6. Penalty(R3(s), 60) = Penalty("R3" \in RulesOf(q), 60)
    <3>1. CASE R3(s)
      BY <2>2, <3>1 DEF Penalty
    <3>2. CASE ~R3(s)
      BY <2>2, <3>2 DEF Penalty
    <3> QED
      BY <3>1, <3>2
  <2>7. Penalty(R4(flags, s), 25) = Penalty("R4" \in RulesOf(q), 25)
    <3>1. CASE R4(flags, s)
      BY <2>3, <3>1 DEF Penalty
    <3>2. CASE ~R4(flags, s)
      BY <2>3, <3>2 DEF Penalty
    <3> QED
      BY <3>1, <3>2
  <2>8. ~DenyHard(flags, checks)
    BY <1>4, <1>7, <1>10 DEF DenyHard
  <2>9. RiskOf(q) \in Int
    BY <2>5 DEF Penalty
  <2>10. DecisionFor(q) = DecideLocal(RiskOf(q), threshold)
    BY <1>1, <1>2, <1>8, <1>10, <2>8, <2>9, DecisionByScore
  <2>11. DecisionFor(q) = IF "R3" \notin RulesOf(q) THEN "ALLOW"
                          ELSE IF "R4" \in RulesOf(q) THEN "DENY" ELSE "CHALLENGE"
    BY <1>7, <2>5, <2>6, <2>7, <2>10 DEF DecideLocal, Penalty
  <2>12. flags.velocity /\ s.callRate > CallRateLimit => R4(flags, s)
    BY DEF R4
  <2> QED
    BY <1>3, <1>10, <2>2, <2>3, <2>4, <2>5, <2>6, <2>7, <2>11, <2>12
<1> QED
  BY <1>9, <1>10

(* The window after a request has been collected. *)
LEMMA LoadRemembers ==
  ASSUME Settings, Tuned, Remembered, IsDue, trail \in Seq(Regions),
         NEW q, NEW geo \in Regions, IsLoads(q, geo),
         known' = Remember(known, EventFor(q)), Len(collected') = Len(collected) + 1,
         trail' = Append(trail, geo), load' = load
  PROVE  Remembered'
<1>1. PICK h, now, pace, p, x, r :
        /\ h = known.history /\ now = clock /\ pace = load.pace /\ p = Prune(h, now)
        /\ x = [ts |-> now, geo |-> geo, session |-> "load"] /\ r = Push(p, x)
  OBVIOUS
<1>2. /\ EventFor(q).ts = now /\ EventFor(q).geo = geo
      /\ EventFor(q).session = "load" /\ EventFor(q).fp = "load"
      /\ ~EventFor(q).failed
  <2>1. q.context.geo = geo /\ q.context.session = "load" /\ q.context.fp = "load"
    BY DEF IsLoads
  <2>2. ProofRefusal(q) = "none"
    BY LoadPassesChecks DEF Settings
  <2> QED
    BY <1>1, <2>1, <2>2 DEF EventFor
<1>3. known'.history = r /\ Calm' /\ known'.fps \subseteq {"load"}
  <2>1. known'.history = r
    BY <1>1, <1>2 DEF Remember
  <2>2. known'.failures = 0 /\ known'.total \in Nat
    BY <1>2 DEF Remember, Remembered, Calm, NewFailures, NewTotal
  <2>3. known'.fps \subseteq {"load"}
    BY <1>2 DEF Remember, Remembered, NewFps
  <2> QED
    BY <2>1, <2>2, <2>3 DEF Calm
<1>4. /\ h \in Seq(Travelled) /\ Len(h) \in Nat /\ now \in Nat /\ pace \in Nat
      /\ \A i \in 1..Len(h) : h[i] \in Travelled
      /\ \A i \in 1..Len(h) : h[i].ts + (Len(h) + 1 - i) * pace = now
  BY <1>1, LenProperties, ElementOfSeq DEF Remembered, Tuned, Settings, IsDue
<1>5. /\ p \in Seq(Travelled) /\ Len(p) \in 0..Len(h)
      /\ \A i \in 1..Len(p) : p[i] = h[Len(h) - Len(p) + i]
      /\ Crowded => Len(p) >= Len(collected) \/ Len(p) > 30
  <2>1. PICK k, t : /\ k = known.history /\ t = Prune(k, clock)
                    /\ t \in Seq(Travelled) /\ Len(t) \in 0..Len(k)
                    /\ \A i \in 1..Len(t) : t[i] = k[Len(k) - Len(t) + i]
                    /\ Crowded => Len(t) >= Len(collected) \/ Len(t) > CallRateLimit
    BY WindowHolds DEF Settings
  <2>2. k = h /\ t = p
    BY <1>1, <2>1
  <2> QED
    BY <2>1, <2>2 DEF CallRateLimit
<1>6. x \in Travelled
  BY <1>1, <1>4 DEF Travelled
<1>7. PICK gone \in {0, 1} :
        /\ r \in Seq(Travelled) /\ Len(r) = Len(p) + 1 - gone
        /\ Len(p) < MaxLen => gone = 0
        /\ r[Len(r)] = x
        /\ \A i \in 1..(Len(r) - 1) : r[i] = p[gone + i]
  <2>1. p \in Seq(Travelled) /\ x \in Travelled /\ r = Push(p, x)
    BY <1>1, <1>5, <1>6
  <2>2. PushedOnto(Travelled, p, x, r)
    BY <2>1, PushedTail
  <2> QED
    BY <2>2 DEF PushedOnto
<1>8. MaxLen \in Nat /\ MaxLen > 30
  BY WindowAssumption, LoadAssumption DEF CallRateLimit
<1>9. /\ Len(r) \in Nat \ {0} /\ Len(r) <= Len(h) + 1
      /\ Crowded => Len(r) >= Len(collected) + 1 \/ Len(r) > 30
  <2>1. PICK k, l, m, j : k = Len(p) /\ l = Len(r) /\ m = Len(h) /\ j = Len(collected)
    OBVIOUS
  <2>2. l = k + 1 - gone /\ (k < MaxLen => gone = 0)
    BY <1>7, <2>1
  <2>3. m \in Nat /\ k \in 0..m /\ j \in Nat /\ (Crowded => k >= j \/ k > 30)
    BY <1>4, <1>5, <2>1
  <2>4. l # 0
    BY <1>8, <2>2, <2>3
  <2>5. l \in Nat /\ l <= m + 1 /\ (k > 30 => l > 30) /\ (k <= 30 => l = k + 1)
    BY <1>8, <2>2, <2>3
  <2>6. Crowded => l >= j + 1 \/ l > 30
    BY <2>3, <2>5
  <2> QED
    BY <2>1, <2>4, <2>5, <2>6
<1>10. \A i \in 1..Len(r) : r[i].ts + (Len(r) + 1 - i) * pace = now + pace
  <2> SUFFICES ASSUME NEW i \in 1..Len(r)
               PROVE  r[i].ts + (Len(r) + 1 - i) * pace = now + pace
    OBVIOUS
  <2>1. CASE i = Len(r)
    <3>1. r[i].ts = now
      BY <1>1, <1>7, <2>1
    <3>2. Len(r) + 1 - i = 1
      BY <1>9, <2>1
    <3>3. (Len(r) + 1 - i) * pace = pace
      <4>1. 1 * pace = pace
        BY <1>4
      <4> QED
        BY <3>2, <4>1
    <3> QED
      BY <3>1, <3>3
  <2>2. CASE i # Len(r)
    <3>1. PICK j : j = Len(h) + 1 - Len(r) + i
      OBVIOUS
    <3>2. i \in 1..(Len(r) - 1) /\ gone + i \in 1..Len(p)
      <4>1. Len(h) \in Nat /\ Len(p) \in 0..Len(h) /\ Len(r) \in Nat \ {0}
        BY <1>4, <1>5, <1>9
      <4>2. Len(r) = Len(p) + 1 - gone
        BY <1>7
      <4>3. PICK k, l : k = Len(p) /\ l = Len(r)
        OBVIOUS
      <4>4. k \in Nat /\ l = k + 1 - gone /\ i \in 1..l /\ i # l
        BY <2>2, <4>1, <4>2, <4>3
      <4>5. i \in 1..(l - 1) /\ gone + i \in 1..k
        BY <4>4
      <4> QED
        BY <4>3, <4>5
    <3>3. j \in 1..Len(h) /\ r[i] = h[j]
      <4>1. Len(h) - Len(p) + (gone + i) = j /\ j \in 1..Len(h)
        <5>1. /\ Len(h) \in Nat /\ Len(p) \in 0..Len(h) /\ Len(r) = Len(p) + 1 - gone
              /\ Len(r) \in Nat /\ Len(r) <= Len(h) + 1 /\ i \in 1..(Len(r) - 1)
          BY <1>4, <1>5, <1>7, <1>9, <3>2
        <5>2. PICK k, l, m : k = Len(p) /\ l = Len(r) /\ m = Len(h)
          OBVIOUS
        <5>3. /\ m \in Nat /\ k \in 0..m /\ l = k + 1 - gone /\ l \in Nat
              /\ l <= m + 1 /\ i \in 1..(l - 1) /\ j = m + 1 - l + i
          BY <3>1, <5>1, <5>2
        <5>4. m - k + (gone + i) = j /\ j \in 1..m
          BY <5>3
        <5> QED
          BY <5>2, <5>4
      <4>2. r[i] = p[gone + i]
        BY <1>7, <3>2
      <4>3. PICK m \in 1..Len(p) : m = gone + i
        BY <3>2
      <4>4. p[m] = h[Len(h) - Len(p) + m]
        BY <1>5
      <4> QED
        BY <4>1, <4>2, <4>3, <4>4
    <3>4. PICK d \in Nat : d = Len(r) - i /\ d = Len(h) + 1 - j
      <4>1. Len(h) \in Nat /\ Len(r) \in Nat
        BY <1>4, <1>9
      <4>2. i \in 1..(Len(r) - 1)
        BY <3>2
      <4>3. Len(r) - i \in Nat /\ Len(r) - i = Len(h) + 1 - j
        BY <3>1, <4>1, <4>2
      <4> QED
        BY <4>3
    <3>5. h[j].ts \in Nat /\ h[j].ts + d * pace = now
      BY <1>4, <3>3, <3>4 DEF Travelled
    <3>6. (d + 1) * pace = d * pace + pace
      BY <1>4
    <3>7. Len(r) + 1 - i = d + 1
      BY <1>9, <3>4
    <3>8. r[i].ts + d * pace = now /\ r[i].ts \in Nat
      BY <3>3, <3>5
    <3>9. PICK a \in Nat : a = d * pace
      BY <1>4
    <3>10. (Len(r) + 1 - i) * pace = a + pace
      BY <3>6, <3>7, <3>9
    <3>11. PICK t, b : t = r[i].ts /\ b = (Len(r) + 1 - i) * pace
      OBVIOUS
    <3>12. t + b = now + pace
      <4>1. t \in Nat /\ t + a = now /\ b = a + pace
        BY <3>8, <3>9, <3>10, <3>11
      <4> QED
        BY <1>4, <3>9, <4>1
    <3> QED
      BY <3>11, <3>12
  <2> QED
    BY <2>1, <2>2
<1>11. /\ Len(trail') \in Nat /\ trail'[Len(trail')] = geo
  BY AppendProperties, LenProperties
<1>12. Crowded' <=> Crowded
  BY DEF Crowded
<1> QED
  <2>1. r[Len(r)].geo = geo
    BY <1>1, <1>7
  <2>2. Len(r) = 0 <=> Len(collected') = 0
    BY <1>9
  <2>3. \A i \in 1..Len(r) : r[i].ts + (Len(r) + 1 - i) * load'.pace = Len(collected') * load'.pace
    <3>1. (Len(collected) + 1) * pace = Len(collected) * pace + pace
      BY <1>4 DEF IsDue
    <3>2. Len(collected') * load'.pace = now + pace
      BY <1>1, <3>1 DEF IsDue
    <3> QED
      BY <1>1, <1>10, <3>2
  <2>4. Crowded' => Len(r) >= Len(collected') \/ Len(r) > CallRateLimit
    BY <1>9, <1>12 DEF CallRateLimit
  <2> QED
    BY <1>3, <1>7, <1>11, <2>1, <2>2, <2>3, <2>4 DEF Remembered

(* What is known of a record stays so. *)
LEMMA SentStays ==
  ASSUME NEW r, NEW i, Sent(r, i), trail'[i] = trail[i],
         i > 1 => trail'[i - 1] = trail[i - 1],
         UNCHANGED <<setup, load>>
  PROVE  Sent(r, i)'
<1>1. cell' = cell /\ flags' = flags /\ load' = load
  BY DEF setup
<1>2. Crowded' <=> Crowded
  BY <1>1 DEF Crowded
<1> QED
  BY <1>1, <1>2 DEF Sent

(* Stamping a record changes nothing else of it. *)
LEMMA StampedIsSent ==
  ASSUME NEW r, NEW i, Sent(r, i), NEW t
  PROVE  Sent([r EXCEPT !.ts = t], i) /\ [r EXCEPT !.ts = t].ts = t
<1> DEFINE s == [r EXCEPT !.ts = t]
<1>1. DOMAIN s = DOMAIN r /\ \A f \in DOMAIN r : f # "ts" => s[f] = r[f]
  OBVIOUS
<1>2. RecordFields \subseteq DOMAIN r
  BY DEF Sent
<1>3. s.ts = t
  BY <1>2 DEF RecordFields
<1> HIDE DEF s
<1>4. /\ s.run = r.run /\ s.label = r.label /\ s.attack = r.attack
      /\ s.profile = r.profile /\ s.decision = r.decision /\ s.checks = r.checks
      /\ s.risk = r.risk /\ s.rules = r.rules
  BY <1>1, <1>2 DEF RecordFields
<1>5. HardBlocked(s) <=> HardBlocked(r)
  BY <1>4 DEF HardBlocked
<1> QED
  BY <1>1, <1>2, <1>3, <1>4, <1>5 DEF Sent, s

(* Arrivals follow each other at the pace. *)
LEMMA DueInOrder ==
  ASSUME load \in Loads
  PROVE  /\ load.pace \in Nat /\ load.lag \in Nat /\ load.requests \in Nat
         /\ \A m \in Nat : m > 0 => Due(m) \in Nat /\ Due(m + 1) = Due(m) + load.pace
         /\ \A m, j \in Nat : 0 < m /\ m <= j => Due(m) <= Due(j)
         /\ \A m \in Nat : Due(m + 1) = m * load.pace
<1>1. load.pace \in Nat /\ load.lag \in Nat /\ load.requests \in Nat
  BY LoadAssumption
<1>2. PICK pace \in Nat : pace = load.pace
  BY <1>1
<1>3. \A m \in Nat : m > 0 => Due(m) \in Nat /\ Due(m + 1) = Due(m) + pace
  <2> SUFFICES ASSUME NEW m \in Nat, m > 0 PROVE Due(m) \in Nat /\ Due(m + 1) = Due(m) + pace
    OBVIOUS
  <2>1. PICK j \in Nat : j = m - 1
    OBVIOUS
  <2>2. j * pace \in Nat /\ (j + 1) * pace = j * pace + pace
    OBVIOUS
  <2>3. m - 1 = j /\ m + 1 - 1 = j + 1
    BY <2>1
  <2> QED
    BY <1>2, <2>2, <2>3 DEF Due
<1>4. \A m, j \in Nat : 0 < m /\ m <= j => Due(m) <= Due(j)
  <2> SUFFICES ASSUME NEW m \in Nat, NEW j \in Nat, 0 < m, m <= j
               PROVE  (m - 1) * pace <= (j - 1) * pace
    BY <1>2 DEF Due
  <2>1. PICK a \in Nat, b \in Nat : a = m - 1 /\ b = j - 1
    OBVIOUS
  <2>2. a <= b
    BY <2>1
  <2>3. \A x, y, z \in Nat : x <= y => x * z <= y * z
    OBVIOUS
  <2> QED
    BY <2>1, <2>2, <2>3
<1>5. \A m \in Nat : Due(m + 1) = m * pace
  <2> SUFFICES ASSUME NEW m \in Nat PROVE Due(m + 1) = m * pace
    OBVIOUS
  <2>1. m + 1 - 1 = m
    OBVIOUS
  <2> QED
    BY <1>2, <2>1 DEF Due
<1> QED
  BY <1>1, <1>2, <1>3, <1>4, <1>5

(* The run is over before its tokens are. *)
LEMMA LoadTokenLives ==
  ASSUME Tuned, issued = 0, IsDue, Len(collected) < load.requests
  PROVE  ~TokenExpired
<1>1. /\ load.pace \in Nat /\ load.requests \in Nat /\ TokenLife \in Nat /\ clock \in Nat
      /\ load.requests * load.pace <= TokenLife
  BY LoadAssumption, PipelineAssumption DEF Tuned, Settings
<1>2. PICK pace \in Nat, total \in Nat, top \in Nat :
        pace = load.pace /\ total = Len(collected) /\ top = load.requests
  BY <1>1 DEF IsDue
<1>3. total * pace <= top * pace
  <2>1. total <= top
    BY <1>2
  <2>2. \A x, y, z \in Nat : x <= y => x * z <= y * z
    OBVIOUS
  <2> QED
    BY <2>1, <2>2
<1>4. clock <= TokenLife
  <2>1. PICK a \in Nat, b \in Nat : a = total * pace /\ b = top * pace
    BY <1>2
  <2> QED
    BY <1>1, <1>2, <1>3, <2>1 DEF IsDue
<1>5. Whole(clock) \in Nat /\ Whole(clock) <= clock
  BY <1>1, WholeIsNear
<1>6. Whole(issued) = 0
  BY DEF Whole, Second
<1> QED
  BY <1>1, <1>4, <1>5, <1>6 DEF TokenExpired

(* A request that arrives is collected as it was sent. *)
LEMMA LoadCollected ==
  ASSUME UserStates, ArrivalInv, Tuned, Len(collected) < load.requests,
         clock = Due(Len(collected) + 1),
         NEW u \in load.users, NEW q, NEW geo \in Regions, IsLoads(q, geo), Collected(q),
         collected' = Append(collected, Recorded(q)),
         trail' = Append(trail, geo), by' = Append(by, u),
         UNCHANGED <<setup, load, clock, issued, down>>
  PROVE  ArrivalInv'
<1>1. PICK l, pace : l = Len(collected) /\ pace = load.pace
  OBVIOUS
<1>2. /\ l \in Nat /\ DOMAIN collected = 1..l /\ pace \in Nat /\ clock = l * pace
      /\ clock \in Nat /\ load.requests \in Nat
      /\ IsSequence(collected) /\ trail \in Seq(Regions) /\ Len(trail) = l
  BY <1>1, DueInOrder, Appended DEF ArrivalInv, Settings, Tuned
<1>3. /\ IsDue /\ Settings /\ down = "nothing" /\ ~NoKeys
      /\ flags.risk => flags.dpop /\ ~flags.passthrough
      /\ flags.telemetry => flags.risk
  BY <1>1, <1>2, LoadSettings DEF ArrivalInv, IsDue
<1> DEFINE r == RecordFor(q, DecisionFor(q),
                  IF flags.passthrough THEN NothingChecked ELSE ChecksFor(q))
<1>4. collected' = Append(collected, r)
  BY DEF Recorded
<1>5. /\ r.attack = q.attack /\ r.profile = q.profile
      /\ r.run = [target |-> Cells[cell].target, cell |-> cell] /\ r.label = LabelOf(cell)
      /\ r.rules = RulesOf(q) /\ r.risk = RiskOf(q)
      /\ r.decision = DecisionFor(q)
      /\ r.checks = IF flags.passthrough THEN NothingChecked ELSE ChecksFor(q)
      /\ RecordFields \subseteq DOMAIN r
  BY DEF RecordFor, RecordFields
<1> HIDE DEF r
<1>6. /\ IsSequence(collected') /\ Len(collected') = l + 1 /\ DOMAIN collected' = 1..(l + 1)
      /\ \A i \in 1..l : collected'[i] = collected[i]
      /\ collected'[l + 1] = r
  BY <1>1, <1>2, <1>4, Appended
<1>7. /\ trail' \in Seq(Regions) /\ Len(trail') = l + 1
      /\ \A i \in 1..l : trail'[i] = trail[i]
      /\ trail'[l + 1] = geo
  BY <1>2, AppendProperties
<1>8. UNCHANGED <<cell, flags, threshold, load>>
  BY DEF setup
<1>9. by' \in Seq(load'.users) /\ Len(by') = Len(collected')
  <2>1. by \in Seq(load.users) /\ Len(by) = l
    BY <1>1 DEF ArrivalInv
  <2> QED
    BY <1>6, <1>8, <2>1, AppendProperties
<1>10. registry'[User] \in {{}, {"load"}} /\ DOMAIN registry' = {User}
  <2>1. registry[User] \in {{}, {"load"}} /\ DOMAIN registry = {User} /\ q.token = "load"
    BY DEF ArrivalInv, IsLoads
  <2>2. registry' \in {registry, Observed(registry, User, "load")}
    BY <2>1 DEF Collected
  <2> QED
    BY <2>1, <2>2 DEF Observed, Verifiable
<1>11. flags.telemetry => Remembered'
  <2> SUFFICES ASSUME flags.telemetry PROVE Remembered'
    OBVIOUS
  <2>1. known' = Remember(known, EventFor(q))
    BY <1>3 DEF Collected
  <2>2. Remembered
    BY DEF ArrivalInv
  <2>3. Len(collected') = Len(collected) + 1
    BY <1>1, <1>6
  <2>4. trail \in Seq(Regions) /\ load' = load
    BY <1>2, <1>8
  <2> QED
    BY <1>3, <2>1, <2>2, <2>3, <2>4, LoadRemembers
<1>12. ASSUME NEW i \in 1..l PROVE Sent(collected[i], i)'
  <2>1. Sent(collected[i], i)
    BY <1>2 DEF ArrivalInv
  <2>2. i > 1 => i - 1 \in 1..l
    BY <1>2
  <2>3. i > 1 => trail'[i - 1] = trail[i - 1]
    BY <1>7, <2>2
  <2>4. trail'[i] = trail[i] /\ collected'[i] = collected[i]
    BY <1>6, <1>7
  <2>5. PICK x : x = collected[i]
    OBVIOUS
  <2>6. Sent(x, i)'
    BY <2>1, <2>3, <2>4, <2>5, SentStays
  <2> QED
    BY <2>4, <2>5, <2>6 DEF Sent
<1>13. Sent(collected[l + 1], l + 1)'
  <2>1. LET rules == RulesOf(q)
        IN /\ rules \subseteq {"R3", "R4"}
           /\ "R3" \in rules <=> /\ flags.risk /\ flags.telemetry
                                 /\ l > 0 /\ geo # trail[l]
           /\ flags.risk /\ flags.telemetry /\ flags.velocity
                /\ Crowded /\ l > CallRateLimit => "R4" \in rules
           /\ RiskOf(q) = Penalty("R3" \in rules, 60) + Penalty("R4" \in rules, 25)
           /\ DecisionFor(q) = IF "R3" \notin rules THEN "ALLOW"
                               ELSE IF "R4" \in rules THEN "DENY" ELSE "CHALLENGE"
    BY <1>1, <1>2, <1>3, LoadJudged DEF ArrivalInv
  <2>2. q.attack = NotAttack /\ q.profile = (IF geo = Home THEN "stable" ELSE "drift")
    BY DEF IsLoads
  <2>3. flags.risk => ~HardBlocked(r)
    BY <1>2, <1>3, <1>5, LoadPassesChecks DEF HardBlocked
  <2>4. l > 0 <=> l + 1 > 1
    BY <1>2
  <2>5. l > 0 => trail'[l] = trail[l] /\ (l + 1) - 1 = l
    BY <1>2, <1>7
  <2>7. l > CallRateLimit <=> l + 1 > CallRateLimit + 1
    BY <1>2 DEF CallRateLimit
  <2>8. Crowded' <=> Crowded
    BY <1>8 DEF Crowded
  <2>9. /\ "R3" \in r.rules <=> /\ flags'.risk /\ flags'.telemetry
                                /\ l + 1 > 1 /\ trail'[l + 1] # trail'[l + 1 - 1]
    BY <1>5, <1>7, <1>8, <2>1, <2>4, <2>5
  <2>10. /\ r.attack = NotAttack
         /\ r.profile = (IF trail'[l + 1] = Home THEN "stable" ELSE "drift")
         /\ r.run = [target |-> Cells[cell'].target, cell |-> cell']
         /\ r.label = LabelOf(cell')
    BY <1>1, <1>5, <1>7, <1>8, <2>2
  <2>11. /\ r.rules \subseteq {"R3", "R4"}
         /\ flags'.risk /\ flags'.telemetry /\ flags'.velocity /\ Crowded'
              /\ l + 1 > CallRateLimit + 1 => "R4" \in r.rules
         /\ r.risk = Penalty("R3" \in r.rules, 60) + Penalty("R4" \in r.rules, 25)
         /\ r.decision = IF "R3" \notin r.rules THEN "ALLOW"
                         ELSE IF "R4" \in r.rules THEN "DENY" ELSE "CHALLENGE"
         /\ flags'.risk => ~HardBlocked(r)
    BY <1>5, <1>8, <2>1, <2>3, <2>7, <2>8
  <2>12. PICK m : m = l + 1
    OBVIOUS
  <2>13. PICK x : x = collected'[m]
    OBVIOUS
  <2>14. x = r /\ (l + 1 > 1 <=> m > 1)
    BY <1>6, <2>12, <2>13
  <2>15. /\ x.attack = NotAttack
         /\ x.profile = (IF trail'[m] = Home THEN "stable" ELSE "drift")
         /\ x.run = [target |-> Cells[cell'].target, cell |-> cell']
         /\ x.label = LabelOf(cell')
    BY <1>2, <2>10, <2>12, <2>14
  <2>16. "R3" \in x.rules <=> /\ flags'.risk /\ flags'.telemetry
                              /\ m > 1 /\ trail'[m] # trail'[m - 1]
    BY <1>2, <2>9, <2>12, <2>14
  <2>17. /\ x.rules \subseteq {"R3", "R4"}
         /\ flags'.risk /\ flags'.telemetry /\ flags'.velocity /\ Crowded'
              /\ m > CallRateLimit + 1 => "R4" \in x.rules
         /\ x.risk = Penalty("R3" \in x.rules, 60) + Penalty("R4" \in x.rules, 25)
         /\ x.decision = IF "R3" \notin x.rules THEN "ALLOW"
                         ELSE IF "R4" \in x.rules THEN "DENY" ELSE "CHALLENGE"
         /\ flags'.risk => ~HardBlocked(x)
    <3>1. m > CallRateLimit + 1 <=> l + 1 > CallRateLimit + 1
      BY <2>12
    <3> QED
      BY <2>11, <2>14, <3>1, Zenon
  <2>18. RecordFields \subseteq DOMAIN x
    BY <1>5, <2>14
  <2>19. Sent(collected[m], m)'
    BY <2>13, <2>15, <2>16, <2>17, <2>18 DEF Sent
  <2> QED
    BY <2>12, <2>19, Zenon
<1>14. \A i \in DOMAIN collected' : Sent(collected[i], i)'
  <2>1. \A i \in DOMAIN collected' : i \in 1..l \/ i = l + 1
    BY <1>2, <1>6
  <2> QED
    BY <1>12, <1>13, <2>1
<1>15. Settings' /\ down' = "nothing" /\ issued' = 0
  BY <1>2, <1>3, <1>8 DEF Settings, ArrivalInv
<1>16. Len(collected') <= load'.requests
  BY <1>1, <1>2, <1>6, <1>8
<1>17. Len(collected') > 0 /\ clock' = Due(Len(collected))'
  <2>1. Due(Len(collected))' = Due(l + 1)
    BY <1>6, <1>8 DEF Due
  <2> QED
    BY <1>1, <1>2, <1>6, <2>1
<1> QED
  BY <1>1, <1>6, <1>7, <1>8, <1>9, <1>10, <1>11, <1>14, <1>15, <1>16, <1>17 DEF ArrivalInv

LEMMA LoadInitial ==
  ASSUME LoadInit
  PROVE  LoadInv
<1>1. /\ load \in Loads /\ cell = load.cell /\ cell \in CellNames
      /\ {load.pace, load.lag, load.requests, load.drifts} \subseteq Nat
  BY LoadAssumption DEF LoadInit
<1>2. /\ log = <<>> /\ collected = <<>> /\ trail = <<>> /\ by = <<>> /\ order = <<>>
      /\ known = Unseen /\ clock = 0 /\ issued = 0 /\ down = "nothing"
      /\ underway = [u \in load.users |-> None]
  BY DEF LoadInit, PipelineInit
<1>3. /\ IsSequence(log) /\ DOMAIN log = {} /\ Len(log) = 0
      /\ IsSequence(collected) /\ DOMAIN collected = {} /\ Len(collected) = 0
      /\ trail \in Seq(Regions) /\ Len(trail) = 0
      /\ by \in Seq(load.users) /\ Len(by) = 0
      /\ order \in Seq(Nat) /\ Len(order) = 0
      /\ known.history \in Seq(Travelled) /\ Len(known.history) = 0
  BY <1>2, EmptySeq DEF IsSequence, Unseen
<1>4. Settings
  BY <1>1, <1>2 DEF LoadInit, PipelineInit, Settings
<1>5. UserStates
  BY <1>1 DEF LoadInit, UserStates
<1>6. clock = Due(0 + 1) /\ 0 * load.pace = 0
  <2>1. load.pace \in Nat /\ 0 + 1 - 1 = 0
    BY <1>1
  <2>2. 0 * load.pace = 0
    BY <2>1
  <2> QED
    BY <1>2, <2>1, <2>2 DEF Due
<1>7. Remembered
  <2>1. Calm /\ known.fps \subseteq {"load"}
    BY <1>2 DEF Calm, Unseen
  <2> QED
    BY <1>3, <2>1 DEF Remembered
<1>8. registry[User] = {} /\ DOMAIN registry = {User}
  BY DEF LoadInit, PipelineInit
<1>9. ArrivalInv
  BY <1>1, <1>2, <1>3, <1>4, <1>6, <1>7, <1>8 DEF ArrivalInv
<1>10. RecordInv
  <2>1. underway \in [load.users -> 0..0] /\ \A u \in load.users : underway[u] = None
    BY <1>2 DEF None
  <2> QED
    BY <1>3, <2>1 DEF RecordInv
<1> QED
  BY <1>5, <1>9, <1>10 DEF LoadInv

(* What has arrived is the same when no request arrives. *)
LEMMA ArrivalsStay ==
  ASSUME ArrivalInv, UNCHANGED <<setup, load, issued, trust, down, arrivals>>,
         \/ clock' = Due(Len(collected) + 1)
         \/ Len(collected) > 0 /\ clock' = Due(Len(collected)),
         clock' \in Nat
  PROVE  ArrivalInv'
<1>1. /\ UNCHANGED <<cell, flags, threshold, load, known, registry, down, issued>>
      /\ collected' = collected /\ trail' = trail /\ by' = by
  BY DEF setup, trust, arrivals
<1>2. ASSUME NEW i \in DOMAIN collected PROVE Sent(collected[i], i)'
  <2>1. PICK r : r = collected[i]
    OBVIOUS
  <2>2. Sent(r, i) /\ trail'[i] = trail[i] /\ trail'[i - 1] = trail[i - 1]
    BY <1>1, <2>1 DEF ArrivalInv
  <2>3. Sent(r, i)'
    BY <2>2, SentStays
  <2>4. collected'[i] = r
    BY <1>1, <2>1
  <2> QED
    BY <2>3, <2>4 DEF Sent
<1>3. Settings'
  BY <1>1 DEF ArrivalInv, Settings
<1>4. Remembered' <=> Remembered
  BY <1>1 DEF Remembered, Calm, Crowded
<1>5. \A m : Due(m)' = Due(m)
  BY <1>1 DEF Due
<1>6. \/ clock' = Due(Len(collected) + 1)'
      \/ Len(collected') > 0 /\ clock' = Due(Len(collected))'
  BY <1>1 DEF Due
<1> QED
  BY <1>1, <1>2, <1>3, <1>4, <1>6 DEF ArrivalInv

(* The records stay as they are when none is written and none is begun. *)
LEMMA RecordsStay ==
  ASSUME RecordInv, ArrivalInv, UserStates,
         UNCHANGED <<setup, load, underway, arrivals, log, order>>,
         clock \in Nat, clock' \in Nat, clock <= clock',
         \A u \in load.users : underway[u] # None => clock' <= Due(underway[u]) + load.lag
  PROVE  RecordInv'
<1>1. /\ UNCHANGED <<cell, flags, threshold, load, underway, log, order>>
      /\ collected' = collected /\ trail' = trail /\ by' = by
  BY DEF setup, arrivals
<1>2. \A m : Due(m)' = Due(m)
  BY <1>1 DEF Due
<1>3. ASSUME NEW k \in DOMAIN log PROVE Written(k)'
  <2>1. Written(k)
    BY DEF RecordInv
  <2>2. PICK r, i : r = log[k] /\ i = order[k]
    OBVIOUS
  <2>3. Sent(r, i) /\ trail'[i] = trail[i] /\ trail'[i - 1] = trail[i - 1]
    BY <1>1, <2>1, <2>2 DEF Written
  <2>4. Sent(r, i)'
    BY <2>3, SentStays
  <2>5. Sent(log[k], order[k])'
    BY <1>1, <2>2, <2>4 DEF Sent
  <2>6. log[k].ts \in Nat /\ log[k].ts <= clock'
    BY <2>1 DEF Written
  <2> QED
    BY <1>1, <1>2, <2>1, <2>5, <2>6 DEF Written
<1>4. ASSUME NEW j \in 1..Len(collected) PROVE Answered(j)'
  <2>1. Answered(j)
    BY DEF RecordInv
  <2>2. by' = by /\ log' = log /\ order' = order /\ Due(j)' = Due(j)
    BY <1>1, <1>2
  <2> QED
    BY <2>1, <2>2 DEF Answered
<1> QED
  BY <1>1, <1>2, <1>3, <1>4 DEF RecordInv

(* A request that arrives is under way; its user has been answered before.  *)
LEMMA RecordsAwait ==
  ASSUME RecordInv, ArrivalInv, UserStates, NEW u \in load.users, underway[u] = None,
         clock = Due(Len(collected) + 1), clock \in Nat,
         Len(collected') = Len(collected) + 1, by' = Append(by, u),
         \A i \in 1..Len(collected) : trail'[i] = trail[i],
         underway' = [underway EXCEPT ![u] = Len(collected) + 1],
         UNCHANGED <<setup, load, clock, log, order>>
  PROVE  RecordInv'
<1>1. PICK total : total = Len(collected)
  OBVIOUS
<1>2. /\ total \in Nat /\ UNCHANGED <<load, log, order, clock>>
      /\ load.lag \in Nat /\ load \in Loads
      /\ Len(collected') = total + 1
      /\ (\A i \in 1..total : by'[i] = by[i]) /\ by'[total + 1] = u
      /\ DOMAIN underway = load.users /\ \A i \in 1..total : by[i] \in load.users
  <2>1. by \in Seq(load.users) /\ Len(by) = total /\ total \in Nat
    BY <1>1, Appended DEF ArrivalInv
  <2>2. load \in Loads /\ load.lag \in Nat
    BY DueInOrder DEF UserStates
  <2> QED
    BY <1>1, <2>1, <2>2, AppendProperties, ElementOfSeq DEF RecordInv
<1>3. \A m : Due(m)' = Due(m)
  BY <1>2 DEF Due
<1>4. ASSUME NEW k \in DOMAIN log PROVE Written(k)' /\ order[k] \in 1..total
  <2>1. Written(k) /\ order[k] \in 1..total
    BY <1>1 DEF RecordInv, Written
  <2>2. PICK r, i : r = log[k] /\ i = order[k]
    OBVIOUS
  <2>3. i \in 1..total /\ i - 1 \in 0..total /\ (i > 1 => i - 1 \in 1..total)
    BY <1>2, <2>1, <2>2
  <2>4. Sent(r, i) /\ trail'[i] = trail[i] /\ (i > 1 => trail'[i - 1] = trail[i - 1])
    BY <1>1, <2>1, <2>2, <2>3 DEF Written
  <2>5. Sent(r, i)'
    BY <2>4, SentStays
  <2>6. Sent(log[k], order[k])'
    BY <1>2, <2>2, <2>5 DEF Sent
  <2>7. order[k] \in 1..(total + 1)
    BY <1>2, <2>1
  <2> QED
    BY <1>2, <1>3, <2>1, <2>6, <2>7 DEF Written
<1>5. \A i \in 1..(total + 1) : \/ \E k \in DOMAIN log : order[k] = i
                            \/ underway'[by'[i]] = i
  <2> SUFFICES ASSUME NEW i \in 1..(total + 1)
               PROVE  (\E k \in DOMAIN log : order[k] = i) \/ underway'[by'[i]] = i
    OBVIOUS
  <2>1. CASE i = total + 1
    BY <1>1, <1>2, <2>1
  <2>2. CASE i # total + 1
    <3>1. i \in 1..total /\ i # 0
      BY <1>2, <2>2
    <3>2. (\E k \in DOMAIN log : order[k] = i) \/ underway[by[i]] = i
      BY <1>1, <3>1 DEF RecordInv
    <3>3. underway[by[i]] = i => by[i] # u
      BY <3>1 DEF None
    <3> QED
      BY <1>2, <3>1, <3>2, <3>3
  <2> QED
    BY <2>1, <2>2
<1>6. \A v \in load.users :
        underway'[v] # None => /\ by'[underway'[v]] = v
                               /\ clock <= Due(underway'[v]) + load.lag
                               /\ \A k \in DOMAIN log : order[k] # underway'[v]
  <2> SUFFICES ASSUME NEW v \in load.users, underway'[v] # None
               PROVE  /\ by'[underway'[v]] = v /\ clock <= Due(underway'[v]) + load.lag
                      /\ \A k \in DOMAIN log : order[k] # underway'[v]
    OBVIOUS
  <2>1. CASE v = u
    <3>1. underway'[v] = total + 1
      BY <1>1, <1>2, <2>1
    <3>2. clock <= Due(total + 1) + load.lag
      BY <1>1, <1>2
    <3>3. \A k \in DOMAIN log : order[k] # total + 1
      BY <1>2, <1>4
    <3> QED
      BY <1>2, <2>1, <3>1, <3>2, <3>3
  <2>2. CASE v # u
    <3>1. underway'[v] = underway[v] /\ underway[v] \in 0..total /\ underway[v] # 0
      BY <1>1, <1>2, <2>2 DEF RecordInv, None
    <3>2. underway[v] \in 1..total
      BY <1>2, <3>1
    <3> QED
      BY <1>2, <3>1, <3>2 DEF RecordInv
  <2> QED
    BY <2>1, <2>2
<1>7. ASSUME NEW m \in 1..(total + 1) PROVE Answered(m)'
  <2>3. log' = log /\ order' = order /\ Due(m)' = Due(m)
    BY <1>2 DEF Due
  <2> SUFFICES \A i \in 1..(m - 1) : by'[i] = by'[m] =>
                 \E k \in DOMAIN log : order[k] = i /\ log[k].ts <= Due(m)
    BY <2>3 DEF Answered
  <2>1. CASE m = total + 1
    <3> SUFFICES ASSUME NEW i \in 1..(m - 1), by'[i] = by'[m]
                 PROVE  \E k \in DOMAIN log : order[k] = i /\ log[k].ts <= Due(m)
      OBVIOUS
    <3>1. i \in 1..total /\ i # 0 /\ by[i] = u
      <4>1. i \in 1..total /\ i # 0
        BY <1>2, <2>1
      <4>2. by'[m] = u
        BY <1>2, <2>1
      <4> QED
        BY <1>2, <4>1, <4>2
    <3>2. underway[by[i]] # i
      BY <3>1 DEF None
    <3>3. PICK k \in DOMAIN log : order[k] = i
      BY <1>1, <3>1, <3>2 DEF RecordInv
    <3>4. log[k].ts <= clock
      BY <3>3 DEF RecordInv, Written
    <3> QED
      BY <1>1, <2>1, <3>3, <3>4
  <2>2. CASE m # total + 1
    <3>1. m \in 1..total /\ Answered(m)
      <4>1. m \in 1..total
        BY <1>2, <2>2
      <4> QED
        BY <1>1, <4>1 DEF RecordInv
    <3>2. \A i \in 1..(m - 1) : i \in 1..total
      BY <1>2, <3>1
    <3>3. by'[m] = by[m] /\ \A i \in 1..(m - 1) : by'[i] = by[i]
      BY <1>2, <3>1, <3>2
    <3> SUFFICES ASSUME NEW i \in 1..(m - 1), by'[i] = by'[m]
                 PROVE  \E k \in DOMAIN log : order[k] = i /\ log[k].ts <= Due(m)
      OBVIOUS
    <3>4. by[i] = by[m]
      BY <3>3
    <3> QED
      BY <3>1, <3>4 DEF Answered
  <2> QED
    BY <2>1, <2>2
<1>8. underway' \in [load'.users -> 0..Len(collected')]
  <2>1. underway \in [load.users -> 0..total] /\ total + 1 \in 0..(total + 1)
    BY <1>1, <1>2 DEF RecordInv
  <2>2. \A i \in 0..total : i \in 0..(total + 1)
    BY <1>2
  <2> QED
    BY <1>1, <1>2, <2>1, <2>2
<1>9. \A k \in DOMAIN log' : Written(k)'
  BY <1>2, <1>4
<1>10. /\ \A i \in 1..Len(collected') : \/ \E k \in DOMAIN log' : order'[k] = i
                                        \/ underway'[by'[i]] = i
       /\ \A m \in 1..Len(collected') : Answered(m)'
  BY <1>2, <1>5, <1>7
<1>11. \A v \in load'.users :
         underway'[v] # None => /\ by'[underway'[v]] = v
                                /\ clock' <= Due(underway[v])' + load'.lag
                                /\ \A k \in DOMAIN log' : order'[k] # underway'[v]
  <2>1. \A v \in load.users : Due(underway[v])' = Due(underway'[v])
    BY <1>2 DEF Due
  <2>2. load' = load /\ log' = log /\ order' = order /\ clock' = clock
    BY <1>2
  <2> SUFFICES ASSUME NEW v \in load.users, underway'[v] # None
               PROVE  /\ by'[underway'[v]] = v
                      /\ clock' <= Due(underway[v])' + load'.lag
                      /\ \A k \in DOMAIN log' : order'[k] # underway'[v]
    BY <2>2
  <2>3. /\ by'[underway'[v]] = v /\ clock <= Due(underway'[v]) + load.lag
        /\ \A k \in DOMAIN log : order[k] # underway'[v]
    BY <1>6
  <2>4. Due(underway[v])' = Due(underway'[v])
    BY <2>1
  <2> QED
    BY <2>2, <2>3, <2>4, Zenon
<1>12. /\ IsSequence(log') /\ order' \in Seq(Nat) /\ Len(order') = Len(log')
       /\ \A k, m \in DOMAIN log' : order'[k] = order'[m] => k = m
  BY <1>2 DEF RecordInv
<1> QED
  BY <1>8, <1>9, <1>10, <1>11, <1>12 DEF RecordInv

(* What has arrived was due. *)
LEMMA IsUnderWay ==
  ASSUME ArrivalInv, UserStates, NEW i \in 1..Len(collected)
  PROVE  Due(i) <= clock
<1>1. PICK total \in Nat : total = Len(collected)
  BY Appended DEF ArrivalInv
<1>2. load \in Loads /\ i \in Nat /\ 0 < i /\ i <= total /\ load.pace \in Nat
  BY <1>1, DueInOrder DEF UserStates
<1>3. Due(i) <= Due(total) /\ Due(i) \in Nat /\ Due(total) \in Nat /\ Due(total) <= Due(total + 1)
  BY <1>1, <1>2, DueInOrder
<1>4. Due(total + 1) \in Nat
  BY <1>1, <1>2, DueInOrder
<1> QED
  BY <1>1, <1>3, <1>4 DEF ArrivalInv

(* An answer ends what was under way with a record. *)
LEMMA RecordsGrow ==
  ASSUME RecordInv, ArrivalInv, UserStates, NEW u \in load.users, underway[u] # None,
         clock \in Nat,
         log' = Append(log, [collected[underway[u]] EXCEPT !.ts = clock]),
         order' = Append(order, underway[u]),
         underway' = [underway EXCEPT ![u] = None],
         UNCHANGED <<setup, load, clock, arrivals>>
  PROVE  RecordInv'
<1>1. PICK total, l, i : total = Len(collected) /\ l = Len(log) /\ i = underway[u]
  OBVIOUS
<1>2. /\ total \in Nat /\ l \in Nat /\ i \in 1..total /\ i # 0
      /\ DOMAIN log = 1..l /\ DOMAIN collected = 1..total /\ DOMAIN underway = load.users
      /\ by[i] = u /\ clock <= Due(i) + load.lag /\ \A k \in DOMAIN log : order[k] # i
      /\ Sent(collected[i], i)
  <2>1. total \in Nat /\ l \in Nat /\ DOMAIN log = 1..l /\ DOMAIN collected = 1..total
    BY <1>1, Appended DEF ArrivalInv, RecordInv
  <2>2. i \in 0..total /\ i # 0 /\ DOMAIN underway = load.users
    BY <1>1 DEF RecordInv, None
  <2>3. i \in 1..total
    BY <2>1, <2>2
  <2> QED
    BY <1>1, <2>1, <2>2, <2>3 DEF RecordInv, ArrivalInv
<1>3. /\ load' = load /\ clock' = clock /\ collected' = collected /\ by' = by
      /\ \A m : Due(m)' = Due(m)
      /\ trail' = trail
  BY DEF arrivals, Due
<1>4. /\ IsSequence(log') /\ Len(log') = l + 1 /\ DOMAIN log' = 1..(l + 1)
      /\ \A k \in 1..l : log'[k] = log[k]
      /\ Sent(log'[l + 1], i) /\ log'[l + 1].ts = clock
  <2>1. PICK r : r = [collected[i] EXCEPT !.ts = clock]
    OBVIOUS
  <2>2. Sent(r, i) /\ r.ts = clock
    BY <1>2, <2>1, StampedIsSent
  <2>3. IsSequence(log) /\ log' = Append(log, r)
    BY <1>1, <2>1 DEF RecordInv
  <2> QED
    BY <1>1, <2>2, <2>3, Appended
<1>5. /\ order' \in Seq(Nat) /\ Len(order') = l + 1
      /\ \A k \in 1..l : order'[k] = order[k]
      /\ order'[l + 1] = i
  <2>1. order \in Seq(Nat) /\ Len(order) = l /\ i \in Nat /\ order' = Append(order, i)
    BY <1>1, <1>2 DEF RecordInv
  <2> QED
    BY <2>1, AppendProperties
<1>6. ASSUME NEW k \in 1..(l + 1) PROVE Written(k)'
  <2>1. PICK r, j : r = log'[k] /\ j = order'[k]
    OBVIOUS
  <2>2. /\ j \in 1..total /\ Sent(r, j)
        /\ r.ts \in Nat /\ r.ts <= clock /\ Due(j) <= r.ts /\ r.ts <= Due(j) + load.lag
    <3>1. CASE k = l + 1
      <4>1. Due(i) <= clock
        BY <1>1, <1>2, IsUnderWay
      <4> QED
        BY <1>2, <1>4, <1>5, <2>1, <3>1, <4>1
    <3>2. CASE k # l + 1
      <4>1. k \in 1..l
        BY <1>2, <3>2
      <4>2. Written(k)
        BY <1>2, <4>1 DEF RecordInv
      <4> QED
        BY <1>1, <1>4, <1>5, <2>1, <4>1, <4>2 DEF Written
    <3> QED
      BY <3>1, <3>2
  <2>3. Sent(r, j)'
    BY <1>3, <2>2, SentStays
  <2>4. Sent(log[k], order[k])'
    BY <2>1, <2>3 DEF Sent
  <2>5. Due(order[k])' = Due(j)
    BY <1>3, <2>1 DEF Due
  <2> QED
    BY <1>1, <1>3, <2>1, <2>2, <2>4, <2>5 DEF Written
<1>7. \A k, m \in 1..(l + 1) : order'[k] = order'[m] => k = m
  <2> SUFFICES ASSUME NEW k \in 1..(l + 1), NEW m \in 1..(l + 1), order'[k] = order'[m]
               PROVE  k = m
    OBVIOUS
  <2>1. CASE k = l + 1
    <3>1. m # l + 1 => m \in 1..l
      BY <1>2
    <3> QED
      BY <1>2, <1>5, <2>1, <3>1
  <2>2. CASE m = l + 1
    <3>1. k # l + 1 => k \in 1..l
      BY <1>2
    <3> QED
      BY <1>2, <1>5, <2>2, <3>1
  <2>3. CASE k # l + 1 /\ m # l + 1
    <3>1. k \in 1..l /\ m \in 1..l
      BY <1>2, <2>3
    <3>2. order[k] = order[m]
      BY <1>5, <3>1
    <3> QED
      BY <1>2, <3>1, <3>2 DEF RecordInv
  <2> QED
    BY <2>1, <2>2, <2>3
<1>8. \A j \in 1..total : \/ \E k \in 1..(l + 1) : order'[k] = j
                      \/ underway'[by[j]] = j
  <2> SUFFICES ASSUME NEW j \in 1..total
               PROVE  (\E k \in 1..(l + 1) : order'[k] = j) \/ underway'[by[j]] = j
    OBVIOUS
  <2>1. CASE \E k \in 1..l : order[k] = j
    <3>1. PICK k \in 1..l : order[k] = j
      BY <2>1
    <3>2. k \in 1..(l + 1) /\ order'[k] = j
      BY <1>2, <1>5, <3>1
    <3> QED
      BY <3>2
  <2>2. CASE underway[by[j]] = j
    <3>1. CASE by[j] = u
      <4>1. l + 1 \in 1..(l + 1) /\ order'[l + 1] = j
        BY <1>1, <1>2, <1>5, <2>2, <3>1
      <4> QED
        BY <4>1
    <3>2. CASE by[j] # u
      <4>1. by[j] \in load.users
        BY <1>1, ElementOfSeq DEF ArrivalInv
      <4> QED
        BY <1>2, <2>2, <3>2, <4>1
    <3> QED
      BY <3>1, <3>2
  <2> QED
    BY <1>1, <1>2, <2>1, <2>2 DEF RecordInv
<1>9. \A v \in load.users :
        underway'[v] # None => /\ by[underway'[v]] = v
                               /\ clock <= Due(underway'[v]) + load.lag
                               /\ \A k \in 1..(l + 1) : order'[k] # underway'[v]
  <2> SUFFICES ASSUME NEW v \in load.users, underway'[v] # None
               PROVE  /\ by[underway'[v]] = v /\ clock <= Due(underway'[v]) + load.lag
                      /\ \A k \in 1..(l + 1) : order'[k] # underway'[v]
    OBVIOUS
  <2>1. v # u /\ underway'[v] = underway[v]
    BY <1>2
  <2>2. /\ by[underway[v]] = v /\ clock <= Due(underway[v]) + load.lag
        /\ \A k \in DOMAIN log : order[k] # underway[v]
    BY <2>1 DEF RecordInv
  <2>3. underway[v] # i
    BY <1>2, <2>1, <2>2
  <2>4. \A k \in 1..(l + 1) : k \in 1..l \/ k = l + 1
    BY <1>2
  <2>5. \A k \in 1..(l + 1) : order'[k] # underway[v]
    BY <1>2, <1>5, <2>2, <2>3, <2>4
  <2> QED
    BY <2>1, <2>2, <2>5
<1>10. ASSUME NEW m \in 1..total PROVE Answered(m)'
  <2>1. Answered(m)
    BY <1>1 DEF RecordInv
  <2>2. Due(m)' = Due(m) /\ by' = by /\ DOMAIN log' = 1..(l + 1)
    BY <1>3, <1>4
  <2> SUFFICES ASSUME NEW j \in 1..(m - 1), by[j] = by[m]
               PROVE  \E k \in 1..(l + 1) : order'[k] = j /\ log'[k].ts <= Due(m)
    BY <2>2 DEF Answered
  <2>3. PICK k \in DOMAIN log : order[k] = j /\ log[k].ts <= Due(m)
    BY <2>1 DEF Answered
  <2>4. k \in 1..l /\ k \in 1..(l + 1)
    BY <1>2, <2>3
  <2>5. order'[k] = j /\ log'[k].ts <= Due(m)
    BY <1>4, <1>5, <2>3, <2>4
  <2> QED
    BY <2>4, <2>5
<1>11. underway' \in [load.users -> 0..total]
  BY <1>1, <1>2 DEF RecordInv, None
<1>12. \A v \in load'.users :
         underway'[v] # None => /\ by'[underway'[v]] = v
                                /\ clock' <= Due(underway[v])' + load'.lag
                                /\ \A k \in DOMAIN log' : order'[k] # underway'[v]
  <2>1. load' = load /\ by' = by /\ clock' = clock /\ DOMAIN log' = 1..(l + 1)
    BY <1>3, <1>4
  <2>2. \A v : Due(underway[v])' = Due(underway'[v])
    BY <1>3 DEF Due
  <2> SUFFICES ASSUME NEW v \in load.users, underway'[v] # None
               PROVE  /\ by'[underway'[v]] = v
                      /\ clock' <= Due(underway[v])' + load'.lag
                      /\ \A k \in DOMAIN log' : order'[k] # underway'[v]
    BY <2>1
  <2>3. /\ by[underway'[v]] = v /\ clock <= Due(underway'[v]) + load.lag
        /\ \A k \in 1..(l + 1) : order'[k] # underway'[v]
    BY <1>9
  <2>4. Due(underway[v])' = Due(underway'[v])
    BY <2>2
  <2> QED
    BY <2>1, <2>3, <2>4, Zenon
<1>13. /\ IsSequence(log') /\ order' \in Seq(Nat) /\ Len(order') = Len(log')
       /\ \A k, m \in DOMAIN log' : order'[k] = order'[m] => k = m
  BY <1>4, <1>5, <1>7
<1>14. /\ \A j \in 1..Len(collected') : \/ \E k \in DOMAIN log' : order'[k] = j
                                        \/ underway'[by'[j]] = j
       /\ \A m \in 1..Len(collected') : Answered(m)'
       /\ \A k \in DOMAIN log' : Written(k)'
       /\ underway' \in [load'.users -> 0..Len(collected')]
  BY <1>1, <1>3, <1>4, <1>6, <1>8, <1>10, <1>11
<1> QED
  BY <1>12, <1>13, <1>14 DEF RecordInv

LEMMA LoadStep ==
  ASSUME LoadInv, [LoadNext]_loadVars
  PROVE  LoadInv'
<1> USE DEF LoadInv
<1>1. /\ load \in Loads /\ cell = load.cell
      /\ load.pace \in Nat /\ load.lag \in Nat /\ load.requests \in Nat /\ load.drifts \in Nat
      /\ pending \in [load.users -> {NotStarted, Idle, Home} \cup Away]
      /\ clock \in Nat /\ Len(collected) \in Nat
  BY LoadAssumption, Appended DEF UserStates, ArrivalInv, Settings
<1>2. Tuned
  BY <1>1 DEF Tuned, ArrivalInv
<1>3. ASSUME UNCHANGED <<setup, load, underway, clock, issued, trust, keysWarm, down,
                         arrivals, log, order>>
      PROVE  ArrivalInv' /\ RecordInv'
  <2>1. clock' = clock
    BY <1>3
  <2>2. ArrivalInv'
    BY <1>1, <1>3, <2>1, ArrivalsStay DEF ArrivalInv
  <2>3. \A u \in load.users : underway[u] # None => clock' <= Due(underway[u]) + load.lag
    BY <2>1 DEF RecordInv
  <2>4. UNCHANGED <<setup, load, underway, arrivals, log, order>> /\ clock <= clock'
    BY <1>1, <1>3, <2>1
  <2>5. RecordInv'
    BY <1>1, <2>1, <2>3, <2>4, RecordsStay
  <2> QED
    BY <2>2, <2>5
<1>4. CASE UNCHANGED loadVars
  <2>1. UserStates'
    BY <1>4 DEF UserStates, loadVars, setup
  <2> QED
    BY <1>3, <1>4, <2>1 DEF loadVars
<1>5. ASSUME NEW u \in load.users, Start(u) PROVE LoadInv'
  <2>1. UserStates'
    BY <1>5 DEF UserStates, Start, setup
  <2> QED
    BY <1>3, <1>5, <2>1 DEF Start
<1>6. ASSUME NEW u \in load.users, Build(u) PROVE LoadInv'
  <2>1. PICK geo \in Away \cup {Home} :
          /\ geo # Home => drifts < load.drifts
          /\ drifts' = IF geo = Home THEN drifts ELSE drifts + 1
          /\ pending' = [pending EXCEPT ![u] = geo]
    BY <1>6 DEF Build
  <2>2. cell' = cell /\ load' = load
    BY <1>6 DEF Build, setup
  <2>3. drifts' \in 0..load.drifts
    BY <1>1, <2>1 DEF UserStates
  <2>4. UserStates'
    BY <1>1, <2>1, <2>2, <2>3 DEF UserStates
  <2> QED
    BY <1>3, <1>6, <2>4 DEF Build
<1>7. ASSUME NEW u \in load.users, Arrive(u) PROVE LoadInv'
  <2>1. pending[u] \in Regions
    BY <1>1, <1>7 DEF Arrive, Regions
  <2>2. IsLoads(Built(u, pending[u]), pending[u])
    BY BuiltIsLoads
  <2>3. PICK q : q = Built(u, pending[u])
    OBVIOUS
  <2>4. /\ Collected(q) /\ collected' = Append(collected, Recorded(q))
        /\ IsLoads(q, pending[u])
        /\ underway[u] = None /\ Len(collected) < load.requests
        /\ clock = Due(Len(collected) + 1)
        /\ trail' = Append(trail, pending[u]) /\ by' = Append(by, u)
        /\ underway' = [underway EXCEPT ![u] = Len(collected) + 1]
        /\ UNCHANGED <<setup, load, pending, drifts, clock, issued, down, log, order>>
    BY <1>7, <2>2, <2>3 DEF Arrive
  <2>5. ArrivalInv'
    BY <1>2, <2>1, <2>4, LoadCollected
  <2>6. Len(collected') = Len(collected) + 1
    BY <2>4, Appended DEF ArrivalInv
  <2>7. \A i \in 1..Len(collected) : trail'[i] = trail[i]
    BY <2>1, <2>4, AppendProperties DEF ArrivalInv
  <2>8. RecordInv'
    BY <1>1, <2>4, <2>6, <2>7, RecordsAwait
  <2>9. UserStates'
    BY <2>4 DEF UserStates, setup
  <2> QED
    BY <2>5, <2>8, <2>9
<1>8. ASSUME NEW u \in load.users, Record(u) PROVE LoadInv'
  <2>1. /\ underway[u] # None /\ UNCHANGED <<setup, load, drifts, clock, issued, trust, down>>
        /\ UNCHANGED arrivals
        /\ log' = Append(log, [collected[underway[u]] EXCEPT !.ts = clock])
        /\ order' = Append(order, underway[u])
        /\ underway' = [underway EXCEPT ![u] = None]
        /\ pending' = [pending EXCEPT ![u] = Idle]
    BY <1>8 DEF Record
  <2>2. ArrivalInv'
    BY <1>1, <2>1, ArrivalsStay DEF ArrivalInv
  <2>3. RecordInv'
    BY <1>1, <2>1, RecordsGrow
  <2>4. UserStates'
    BY <1>1, <2>1 DEF UserStates, setup
  <2> QED
    BY <2>2, <2>3, <2>4
<1>9. ASSUME Pass PROVE LoadInv'
  <2>1. /\ clock < Due(Len(collected) + 1) /\ clock' = clock + load.pace
        /\ \A u \in load.users : underway[u] # None => clock' <= Due(underway[u]) + load.lag
        /\ UNCHANGED <<setup, load, pending, underway, drifts, issued, trust, down>>
        /\ UNCHANGED <<arrivals, log, order>>
    BY <1>9 DEF Pass
  <2>2. clock' \in Nat /\ clock <= clock'
    BY <1>1, <2>1
  <2>3. clock' = Due(Len(collected) + 1)
    <3>1. Len(collected) > 0 /\ clock = Due(Len(collected))
      BY <1>1, <2>1 DEF ArrivalInv
    <3>2. Due(Len(collected) + 1) = Due(Len(collected)) + load.pace
      BY <1>1, <3>1, DueInOrder
    <3> QED
      BY <2>1, <3>1, <3>2
  <2>4. ArrivalInv'
    BY <2>1, <2>2, <2>3, ArrivalsStay
  <2>5. RecordInv'
    BY <1>1, <2>1, <2>2, RecordsStay
  <2>6. UserStates'
    BY <2>1 DEF UserStates, setup
  <2> QED
    BY <2>4, <2>5, <2>6
<1> QED
  BY <1>4, <1>5, <1>6, <1>7, <1>8, <1>9 DEF LoadNext

LEMMA LoadInductive == LoadSpec => []LoadInv
<1>1. LoadInit => LoadInv
  BY LoadInitial
<1>2. LoadInv /\ [LoadNext]_loadVars => LoadInv'
  BY LoadStep
<1> QED
  BY <1>1, <1>2, PTL DEF LoadSpec

(* No more records than arrivals: each record is of another. *)
LEMMA RecordsAreFew ==
  ASSUME LoadInv
  PROVE  Len(log) <= Len(collected)
<1>1. PICK total \in Nat, l \in Nat : total = Len(collected) /\ l = Len(log)
  BY Appended DEF LoadInv, ArrivalInv, RecordInv
<1>2. DOMAIN log = 1..l
  BY <1>1, Appended DEF LoadInv, RecordInv
<1> DEFINE of == [k \in 1..l |-> order[k]]
<1>3. of \in Injection(1..l, 1..total)
  <2>1. of \in [1..l -> 1..total]
    BY <1>1, <1>2 DEF LoadInv, RecordInv, Written
  <2>2. \A a, b \in 1..l : of[a] = of[b] => a = b
    BY <1>2 DEF LoadInv, RecordInv
  <2> HIDE DEF of
  <2> QED
    BY <2>1, <2>2 DEF Injection, IsInjective
<1>4. /\ IsFiniteSet(1..l) /\ Cardinality(1..l) = (IF 1 > l THEN 0 ELSE l - 1 + 1)
      /\ IsFiniteSet(1..total) /\ Cardinality(1..total) = (IF 1 > total THEN 0 ELSE total - 1 + 1)
  BY FS_Interval
<1>5. (IF 1 > l THEN 0 ELSE l - 1 + 1) = l /\ (IF 1 > total THEN 0 ELSE total - 1 + 1) = total
  OBVIOUS
<1>6. Cardinality(1..l) <= Cardinality(1..total)
  BY <1>3, <1>4, FS_Injection
<1> QED
  BY <1>1, <1>4, <1>5, <1>6

(* Type correctness of the load generator: what each user holds and waits   *)
(* for, the budget of drifting requests, and no more records than arrivals. *)
THEOREM LoadTypeCorrect == LoadSpec => []LoadTypeOK
<1>1. LoadInv => LoadTypeOK
  BY RecordsAreFew DEF LoadInv, UserStates, ArrivalInv, RecordInv, Settings, LoadTypeOK
<1> QED
  BY <1>1, LoadInductive, PTL

(* Users who share a device and overtake each other, on the way to the      *)
(* controller and inside it, are refused for no reason but the region of    *)
(* the arrival before, at any pace that leaves that arrival in the window,  *)
(* for any number of users and requests.                                    *)
THEOREM OnlyRegionCostsRefusals == LoadSpec => []FrictionFollowsRegion
<1>1. LoadInv => FrictionFollowsRegion
  <2> SUFFICES ASSUME LoadInv, NEW k \in DOMAIN log
               PROVE  Refused(log[k]) <=> /\ flags.risk /\ flags.telemetry
                                          /\ order[k] > 1
                                          /\ trail[order[k]] # trail[order[k] - 1]
    BY DEF FrictionFollowsRegion
  <2>1. Sent(log[k], order[k])
    BY DEF LoadInv, RecordInv, Written
  <2> QED
    BY <2>1 DEF Sent, Refused
<1> QED
  BY <1>1, LoadInductive, PTL

-----------------------------------------------------------------------------
(* The tables of the load runs. *)

RunId == [target |-> Cells[cell].target, cell |-> cell]

(* The first stamp of the run, and the positions of the records that the    *)
(* tables are computed from.                                                *)
FirstStamp == RunStart(log, RunId)
Kept == {i \in DOMAIN log : log[i].ts >= FirstStamp + StartUp}

(* What is known of every record. *)
LEMMA LogIsKnown ==
  ASSUME LoadInv
  PROVE  /\ Len(log) \in Nat /\ DOMAIN log = 1..Len(log) /\ StartUp \in Nat
         /\ load \in Loads /\ Len(collected) \in Nat
         /\ \A k \in DOMAIN log :
              /\ Sent(log[k], order[k]) /\ order[k] \in 1..Len(collected)
              /\ log[k].ts \in Nat
              /\ Due(order[k]) <= log[k].ts /\ log[k].ts <= Due(order[k]) + load.lag
BY LoadAssumption, Appended DEF LoadInv, RecordInv, ArrivalInv, UserStates, Written

LEMMA FirstStampIsFirst ==
  ASSUME LoadInv, DOMAIN log # {}
  PROVE  FirstStamp \in Nat /\ \A k \in DOMAIN log : FirstStamp <= log[k].ts
<1> DEFINE stamps == {log[i].ts : i \in {k \in DOMAIN log : log[k].run = RunId}}
<1>1. \A k \in DOMAIN log : log[k].ts \in stamps /\ log[k].ts \in Nat
  BY LogIsKnown DEF Sent, RunId
<1>2. stamps \subseteq Nat /\ stamps # {}
  BY <1>1
<1>3. FirstStamp = CHOOSE t \in stamps : \A u \in stamps : t <= u
  BY DEF FirstStamp, RunStart
<1> HIDE DEF stamps
<1>4. \E t \in stamps : \A u \in stamps : t <= u
  BY <1>2, LeastNumber
<1>5. FirstStamp \in stamps /\ \A u \in stamps : FirstStamp <= u
  BY <1>3, <1>4
<1> QED
  BY <1>1, <1>2, <1>5

(* The tables of legitimate traffic leave out the start-up and nothing else. *)
LEMMA ReportedAreKept ==
  ASSUME LoadInv
  PROVE  /\ DOMAIN Reported = Kept
         /\ \A i \in Kept : Reported[i] = log[i]
<1> DEFINE target == Cells[cell].target
           Asked(r) == /\ r.attack = NotAttack
                       /\ r.profile \in {"stable", "drift"}
                       /\ r.run.target = target
           recs == Where(log, Asked)
<1>1. \A i \in DOMAIN log : Sent(log[i], order[i])
  BY LogIsKnown
<1>2. \A i \in DOMAIN log : Asked(log[i])
  BY <1>1 DEF Sent
<1>3. DOMAIN recs = DOMAIN log /\ \A i \in DOMAIN log : recs[i] = log[i]
  <2> HIDE DEF Asked
  <2>1. recs = [i \in {k \in DOMAIN log : Asked(log[k])} |-> log[i]]
    BY DEF Where, Fns!RestrictValues, Fns!RestrictDomain, Fns!Restrict
  <2> QED
    BY <1>2, <2>1
<1>4. Reported = DropWarmup(recs, StartUp)
  BY DEF Reported, Legit
<1> HIDE DEF recs
<1>5. \A i \in DOMAIN recs : recs[i].run = RunId
  BY <1>1, <1>3 DEF Sent, RunId
<1>6. RunStart(recs, RunId) = FirstStamp
  <2>1. {recs[i].ts : i \in {k \in DOMAIN recs : recs[k].run = RunId}}
          = {log[i].ts : i \in {k \in DOMAIN log : log[k].run = RunId}}
    BY <1>3
  <2> QED
    BY <2>1 DEF RunStart, FirstStamp
<1>7. DropWarmup(recs, StartUp)
        = [i \in {k \in DOMAIN recs : recs[k].ts >= RunStart(recs, recs[k].run) + StartUp}
             |-> recs[i]]
  BY DEF DropWarmup, Where, Fns!RestrictValues, Fns!RestrictDomain, Fns!Restrict
<1>8. \A k \in DOMAIN recs :
        recs[k].ts >= RunStart(recs, recs[k].run) + StartUp
          <=> log[k].ts >= FirstStamp + StartUp
  BY <1>3, <1>5, <1>6
<1> QED
  BY <1>3, <1>4, <1>7, <1>8 DEF Kept

(* The positions of the kept records of a profile. *)
KeptOf(profile) == {i \in Kept : profile = "all" \/ log[i].profile = profile}

(* What a table over the kept records of a profile counts. *)
LEMMA KeptOfProfile ==
  ASSUME LoadInv, NEW profile
  PROVE  LET recs == ProfileOf(Reported, LabelOf(cell), profile)
         IN /\ DOMAIN recs = KeptOf(profile) /\ IsFiniteSet(KeptOf(profile))
            /\ \A i \in KeptOf(profile) : recs[i] = log[i] /\ Sent(log[i], order[i])
<1>1. /\ DOMAIN log = 1..Len(log) /\ Len(log) \in Nat
      /\ \A i \in DOMAIN log : Sent(log[i], order[i])
  BY Appended DEF LoadInv, RecordInv, Written
<1>2. IsFiniteSet(KeptOf(profile)) /\ KeptOf(profile) \subseteq DOMAIN log
  <2>1. IsFiniteSet(1..Len(log)) /\ KeptOf(profile) \in SUBSET (1..Len(log))
    BY <1>1, FS_Interval DEF KeptOf, Kept
  <2> QED
    BY <1>1, <2>1, FS_Subset
<1> DEFINE reported == Reported
           recs == ProfileOf(reported, LabelOf(cell), profile)
<1>3. DOMAIN reported = Kept /\ \A i \in Kept : reported[i] = log[i]
  BY ReportedAreKept
<1> HIDE DEF reported
<1>4. recs = [i \in {k \in DOMAIN reported :
                       /\ reported[k].label = LabelOf(cell)
                       /\ profile = "all" \/ reported[k].profile = profile} |-> reported[i]]
  BY DEF ProfileOf, Where, Fns!RestrictValues, Fns!RestrictDomain, Fns!Restrict
<1>5. \A i \in Kept : log[i].label = LabelOf(cell)
  BY <1>1 DEF Sent, Kept
<1>6. DOMAIN recs = KeptOf(profile) /\ \A i \in KeptOf(profile) : recs[i] = log[i]
  BY <1>3, <1>4, <1>5 DEF KeptOf
<1> QED
  BY <1>1, <1>2, <1>6 DEF reported

(* Challenges and denials together are what was not allowed. *)
LEMMA ChallengedOrDenied ==
  ASSUME NEW recs, IsFiniteSet(DOMAIN recs), \A i \in DOMAIN recs : recs[i].decision \in Decision
  PROVE  Cardinality({i \in DOMAIN recs : recs[i].decision = "CHALLENGE"})
           + Cardinality({i \in DOMAIN recs : recs[i].decision = "DENY"})
         = Cardinality({i \in DOMAIN recs : Refused(recs[i])})
<1> DEFINE c == {i \in DOMAIN recs : recs[i].decision = "CHALLENGE"}
           d == {i \in DOMAIN recs : recs[i].decision = "DENY"}
<1>1. IsFiniteSet(c) /\ IsFiniteSet(d)
  BY FS_Subset
<1>2. c \cap d = {}
  OBVIOUS
<1>3. c \cup d = {i \in DOMAIN recs : Refused(recs[i])}
  BY DEF Refused, Decision
<1> HIDE DEF c, d
<1>4. Cardinality(c \cup d) = Cardinality(c) + Cardinality(d) - 0
  <2>1. Cardinality(c \cup d) = Cardinality(c) + Cardinality(d) - Cardinality(c \cap d)
    BY <1>1, FS_Union
  <2>2. Cardinality(c \cap d) = 0
    BY <1>2, FS_EmptySet
  <2> QED
    BY <2>1, <2>2
<1>5. Cardinality(c) \in Nat /\ Cardinality(d) \in Nat
  BY <1>1, FS_CardinalityType
<1>6. Cardinality(c) + Cardinality(d) = Cardinality(c \cup d)
  BY <1>4, <1>5
<1> QED
  BY <1>3, <1>6 DEF c, d

(* The figures of table 2. *)
LEMMA FalseChallengeCounts ==
  ASSUME LoadInv, NEW profile
  PROVE  LET f == FalseChallenge(Reported, LabelOf(cell), profile)
         IN /\ f.n = Cardinality(KeptOf(profile)) /\ f.n \in Nat
            /\ f.challenges
                 = Cardinality({i \in KeptOf(profile) : log[i].decision = "CHALLENGE"})
            /\ f.challenges + f.denies
                 = Cardinality({i \in KeptOf(profile) : Refused(log[i])})
<1> DEFINE recs == ProfileOf(Reported, LabelOf(cell), profile)
           K == KeptOf(profile)
<1>1. /\ DOMAIN recs = K /\ IsFiniteSet(K)
      /\ \A i \in K : recs[i] = log[i] /\ Sent(log[i], order[i])
  BY KeptOfProfile
<1>2. FalseChallenge(Reported, LabelOf(cell), profile)
        = [n          |-> Cardinality(DOMAIN recs),
           challenges |-> Cardinality({i \in DOMAIN recs : recs[i].decision = "CHALLENGE"}),
           denies     |-> Cardinality({i \in DOMAIN recs : recs[i].decision = "DENY"})]
  BY DEF FalseChallenge, Size, Count
<1> HIDE DEF recs, K
<1>3. \A i \in DOMAIN recs : recs[i].decision \in Decision
  BY <1>1 DEF Sent, Decision
<1>4. {i \in DOMAIN recs : recs[i].decision = "CHALLENGE"}
        = {i \in K : log[i].decision = "CHALLENGE"}
  BY <1>1
<1>5. {i \in DOMAIN recs : Refused(recs[i])} = {i \in K : Refused(log[i])}
  BY <1>1 DEF Refused
<1>6. Cardinality(K) \in Nat
  BY <1>1, FS_CardinalityType
<1>7. Cardinality({i \in DOMAIN recs : recs[i].decision = "CHALLENGE"})
        + Cardinality({i \in DOMAIN recs : recs[i].decision = "DENY"})
      = Cardinality({i \in K : Refused(log[i])})
  <2>1. IsFiniteSet(DOMAIN recs)
    BY <1>1
  <2> QED
    BY <1>3, <1>5, <2>1, ChallengedOrDenied
<1> DEFINE f == FalseChallenge(Reported, LabelOf(cell), profile)
<1>8. /\ f.n = Cardinality(K)
      /\ f.challenges = Cardinality({i \in K : log[i].decision = "CHALLENGE"})
      /\ f.denies = Cardinality({i \in DOMAIN recs : recs[i].decision = "DENY"})
  <2>1. f = [n          |-> Cardinality(DOMAIN recs),
             challenges |-> Cardinality({i \in DOMAIN recs : recs[i].decision = "CHALLENGE"}),
             denies     |-> Cardinality({i \in DOMAIN recs : recs[i].decision = "DENY"})]
    BY <1>2
  <2> HIDE DEF f
  <2> QED
    BY <1>1, <1>4, <2>1
<1> HIDE DEF f
<1>9. f.challenges + f.denies = Cardinality({i \in K : Refused(log[i])})
  BY <1>4, <1>7, <1>8
<1> QED
  BY <1>6, <1>8, <1>9 DEF f, K

(* A refusal of stable traffic is answered for by the arrival before it,    *)
(* which has a record when all is answered.                                 *)
Departure(k) == CHOOSE d \in DOMAIN log : order[d] = order[k] - 1

LEMMA RefusedFollowsDrift ==
  ASSUME LoadInv, Settled, NEW k \in KeptOf("stable"), Refused(log[k])
  PROVE  /\ k \in Kept /\ k \in DOMAIN log /\ order[k] \in 2..Len(collected)
         /\ Departure(k) \in DOMAIN log /\ order[Departure(k)] = order[k] - 1
         /\ Departure(k) \in Kept => Departure(k) \in KeptOf("drift")
<1>1. k \in Kept /\ k \in DOMAIN log /\ log[k].profile = "stable"
  BY DEF KeptOf, Kept
<1>2. PICK i : i = order[k]
  OBVIOUS
<1>3. i > 1 /\ trail[i] # trail[i - 1] /\ trail[i] = Home /\ i \in 1..Len(collected)
      /\ Len(collected) \in Nat
  BY <1>1, <1>2, LogIsKnown DEF Sent, Refused
<1>4. i \in 2..Len(collected) /\ i - 1 \in 1..Len(collected) /\ i - 1 # 0
  BY <1>3
<1>5. \E d \in DOMAIN log : order[d] = i - 1
  <2>1. by[i - 1] \in load.users
    BY <1>4, ElementOfSeq DEF LoadInv, ArrivalInv
  <2>2. underway[by[i - 1]] # i - 1
    BY <1>4, <2>1 DEF Settled, None
  <2> QED
    BY <1>4, <2>2 DEF LoadInv, RecordInv
<1>6. PICK d : d = Departure(k)
  OBVIOUS
<1>7. d \in DOMAIN log /\ order[d] = i - 1
  BY <1>2, <1>5, <1>6 DEF Departure
<1>8. log[d].profile = "drift"
  BY <1>3, <1>7, LogIsKnown DEF Sent
<1> QED
  BY <1>1, <1>2, <1>4, <1>6, <1>7, <1>8 DEF KeptOf

(* Two arrivals of one user before the end of the start-up: the earlier one *)
(* was answered before it, too.                                             *)
LEMMA AnsweredBeforeTheCut ==
  ASSUME LoadInv, NEW a \in Kept, NEW y \in 1..Len(collected), order[a] < y,
         by[order[a]] = by[y], NEW d \in DOMAIN log, y <= order[d]
  PROVE  d \in Kept
<1>1. /\ a \in DOMAIN log /\ order[a] \in 1..Len(collected) /\ order[d] \in 1..Len(collected)
      /\ Len(collected) \in Nat /\ load \in Loads
      /\ log[a].ts \in Nat /\ log[d].ts \in Nat /\ Due(order[d]) <= log[d].ts
  BY LogIsKnown DEF Kept
<1>2. order[a] \in 1..(y - 1)
  BY <1>1
<1>3. PICK k \in DOMAIN log : order[k] = order[a] /\ log[k].ts <= Due(y)
  BY <1>2 DEF LoadInv, RecordInv, Answered
<1>4. k = a
  BY <1>1, <1>3 DEF LoadInv, RecordInv
<1>5. Due(y) <= Due(order[d]) /\ Due(y) \in Nat /\ Due(order[d]) \in Nat
  <2>1. PICK x \in Nat, z \in Nat : x = y /\ z = order[d]
    BY <1>1
  <2>2. 0 < x /\ x <= z /\ 0 < z
    BY <1>1, <2>1
  <2>3. Due(x) \in Nat /\ Due(z) \in Nat /\ Due(x) <= Due(z)
    BY <1>1, <2>2, DueInOrder
  <2> QED
    BY <2>1, <2>3
<1>6. log[a].ts <= log[d].ts
  BY <1>1, <1>3, <1>4, <1>5
<1>7. FirstStamp \in Nat /\ StartUp \in Nat
  BY <1>1, FirstStampIsFirst, LogIsKnown
<1> QED
  BY <1>1, <1>6, <1>7 DEF Kept

(* The refused returns whose departure was cut off: no two of one user.     *)
LEMMA FewAcrossTheCut ==
  ASSUME LoadInv, Settled,
         NEW S, S = {k \in KeptOf("stable") : Refused(log[k]) /\ Departure(k) \notin Kept}
  PROVE  IsFiniteSet(load.users) /\ Cardinality(S) <= Cardinality(load.users)
<1>1. IsFiniteSet(load.users) /\ Len(collected) \in Nat
  BY LoadAssumption, LogIsKnown
<1>2. \A k \in S : /\ k \in Kept /\ k \in DOMAIN log /\ order[k] \in 2..Len(collected)
                   /\ Departure(k) \in DOMAIN log /\ order[Departure(k)] = order[k] - 1
                   /\ Departure(k) \notin Kept
  BY RefusedFollowsDrift
<1>3. \A i \in 1..Len(collected) : by[i] \in load.users
  BY ElementOfSeq DEF LoadInv, ArrivalInv
<1>4. CASE S = {}
  <2>1. Cardinality(S) = 0 /\ Cardinality(load.users) \in Nat
    BY <1>1, <1>4, FS_EmptySet, FS_CardinalityType
  <2> QED
    BY <1>1, <2>1
<1>5. CASE S # {}
  <2>1. PICK m \in S : \A k \in S : order[k] <= order[m]
    <3> DEFINE behind == {Len(collected) - order[k] : k \in S}
    <3>1. behind \subseteq Nat /\ behind # {}
      BY <1>1, <1>2, <1>5
    <3> HIDE DEF behind
    <3>2. PICK b \in behind : \A c \in behind : b <= c
      BY <3>1, LeastNumber
    <3>3. PICK m \in S : b = Len(collected) - order[m]
      BY <3>2 DEF behind
    <3>4. \A k \in S : Len(collected) - order[m] <= Len(collected) - order[k]
      BY <3>2, <3>3 DEF behind
    <3>5. \A k \in S : order[k] <= order[m]
      BY <1>1, <1>2, <3>4
    <3> QED
      BY <3>5
  <2>2. PICK d, M : d = Departure(m) /\ M = order[m]
    OBVIOUS
  <2>3. /\ d \in DOMAIN log /\ order[d] = M - 1 /\ d \notin Kept
        /\ M \in 2..Len(collected) /\ M - 1 \in 1..Len(collected)
    <3>1. d \in DOMAIN log /\ order[d] = M - 1 /\ d \notin Kept /\ M \in 2..Len(collected)
      BY <1>2, <2>2
    <3> QED
      BY <1>1, <3>1
  <2>4. \A k \in S : k # m => order[k] \in 1..(M - 2)
    <3> SUFFICES ASSUME NEW k \in S, k # m PROVE order[k] \in 1..(M - 2)
      OBVIOUS
    <3>1. order[k] # M
      BY <1>2, <2>2 DEF LoadInv, RecordInv
    <3>2. order[k] # M - 1
      BY <1>2, <2>3 DEF LoadInv, RecordInv
    <3>3. order[k] \in 2..Len(collected) /\ order[k] <= M
      BY <1>2, <2>1, <2>2
    <3> QED
      BY <1>1, <2>3, <3>1, <3>2, <3>3
  <2> DEFINE who == [k \in S |-> IF k = m THEN by[M - 1] ELSE by[order[k]]]
  <2>5. \A k \in S, y \in 1..(M - 1) : k # m /\ order[k] < y => by[order[k]] # by[y]
    <3> SUFFICES ASSUME NEW k \in S, NEW y \in 1..(M - 1), order[k] < y,
                        by[order[k]] = by[y]
                 PROVE  FALSE
      OBVIOUS
    <3>1. k \in Kept /\ y \in 1..Len(collected) /\ y <= order[d]
      BY <1>1, <1>2, <2>3
    <3> QED
      BY <2>3, <3>1, AnsweredBeforeTheCut
  <2>6. \A a, b \in S : a # b => who[a] # who[b]
    <3> SUFFICES ASSUME NEW a \in S, NEW b \in S, a # b PROVE who[a] # who[b]
      OBVIOUS
    <3>1. order[a] # order[b]
      BY <1>2 DEF LoadInv, RecordInv
    <3>2. CASE a = m
      <4>1. b # m /\ order[b] < M - 1 /\ M - 1 \in 1..(M - 1)
        BY <1>1, <2>3, <2>4, <3>2
      <4> QED
        BY <2>5, <3>2, <4>1
    <3>3. CASE b = m
      <4>1. a # m /\ order[a] < M - 1 /\ M - 1 \in 1..(M - 1)
        BY <1>1, <2>3, <2>4, <3>3
      <4> QED
        BY <2>5, <3>3, <4>1
    <3>4. CASE a # m /\ b # m
      <4>1. /\ order[a] \in 1..(M - 1) /\ order[b] \in 1..(M - 1)
            /\ order[a] < order[b] \/ order[b] < order[a]
        BY <1>1, <2>3, <2>4, <3>1, <3>4
      <4>2. by[order[a]] # by[order[b]]
        BY <2>5, <3>4, <4>1
      <4> QED
        BY <3>4, <4>2
    <3> QED
      BY <3>2, <3>3, <3>4
  <2>7. who \in [S -> load.users]
    <3>1. \A k \in S : order[k] \in 1..Len(collected)
      BY <1>1, <1>2
    <3> QED
      BY <1>3, <2>3, <3>1
  <2> HIDE DEF who
  <2>8. who \in Injection(S, load.users)
    BY <2>6, <2>7 DEF Injection, IsInjective
  <2> QED
    BY <1>1, <2>8, FS_Injection
<1> QED
  BY <1>4, <1>5

LEMMA ShadowHolds ==
  ASSUME LoadInv, Settled
  PROVE  StableFrictionIsShadow(Reported)
<1> DEFINE S == {k \in KeptOf("stable") : Refused(log[k])}
           inside == {k \in S : Departure(k) \in Kept}
           across == {k \in KeptOf("stable") : Refused(log[k]) /\ Departure(k) \notin Kept}
           D == KeptOf("drift")
           allowance == IF Size(Reported) < Len(log) THEN Cardinality(load.users) ELSE 0
<1>1. IsFiniteSet(S) /\ IsFiniteSet(D) /\ Cardinality(D) \in Nat
  BY KeptOfProfile, FS_Subset, FS_CardinalityType
<1>2. \A k \in S : /\ k \in DOMAIN log /\ order[k] \in 2..Len(collected)
                   /\ Departure(k) \in DOMAIN log /\ order[Departure(k)] = order[k] - 1
                   /\ Departure(k) \in Kept => Departure(k) \in D
  BY RefusedFollowsDrift
<1>3. /\ inside \subseteq S /\ across \subseteq S
      /\ \A k \in inside : Departure(k) \in Kept
      /\ \A k \in across : Departure(k) \notin Kept
  OBVIOUS
<1>4. Len(collected) \in Nat
  BY LogIsKnown
<1>5. S = inside \cup across /\ inside \cap across = {}
  OBVIOUS
<1>6. IsFiniteSet(across) /\ IsFiniteSet(load.users)
      /\ Cardinality(across) <= Cardinality(load.users)
  <2>1. IsFiniteSet(across)
    BY KeptOfProfile, FS_Subset
  <2> QED
    BY <2>1, FewAcrossTheCut
<1> DEFINE stable == FalseChallenge(Reported, LabelOf(cell), "stable")
           drift  == FalseChallenge(Reported, LabelOf(cell), "drift")
<1>7. /\ stable.challenges + stable.denies = Cardinality(S)
      /\ drift.n = Cardinality(D)
  BY FalseChallengeCounts
<1> HIDE DEF S, inside, across, D, stable, drift
<1>8. IsFiniteSet(inside) /\ Cardinality(inside) <= Cardinality(D)
  <2> DEFINE of == [k \in inside |-> Departure(k)]
  <2>1. of \in [inside -> D]
    BY <1>2, <1>3
  <2>2. \A a, b \in inside : of[a] = of[b] => a = b
    <3> SUFFICES ASSUME NEW a \in inside, NEW b \in inside, Departure(a) = Departure(b)
                 PROVE  a = b
      OBVIOUS
    <3>1. order[a] - 1 = order[b] - 1 /\ order[a] \in Int /\ order[b] \in Int
      <4>1. a \in S /\ b \in S
        BY <1>3
      <4>2. order[a] \in 2..Len(collected) /\ order[b] \in 2..Len(collected)
        BY <1>2, <4>1
      <4>3. order[Departure(a)] = order[a] - 1 /\ order[Departure(b)] = order[b] - 1
        BY <1>2, <4>1
      <4> QED
        BY <1>4, <4>2, <4>3
    <3>2. order[a] = order[b]
      BY <3>1
    <3>3. a \in DOMAIN log /\ b \in DOMAIN log
      BY <1>2, <1>3
    <3> QED
      BY <3>2, <3>3 DEF LoadInv, RecordInv
  <2> HIDE DEF of
  <2>3. of \in Injection(inside, D)
    BY <2>1, <2>2 DEF Injection, IsInjective
  <2> QED
    BY <1>1, <2>3, FS_Injection
<1>9. IsFiniteSet(across) /\ Cardinality(across) <= allowance
  <2>1. IsFiniteSet(across)
    BY <1>6
  <2>2. IsFiniteSet(load.users) /\ Cardinality(across) <= Cardinality(load.users)
    BY <1>6
  <2>3. CASE across = {}
    <3>1. Cardinality(across) = 0 /\ Cardinality(load.users) \in Nat
      BY <2>2, <2>3, FS_EmptySet, FS_CardinalityType
    <3> QED
      BY <2>1, <3>1
  <2>4. CASE across # {}
    <3>1. PICK d : d \in DOMAIN log /\ d \notin Kept
      <4>1. PICK k : k \in across
        BY <2>4
      <4>2. k \in S /\ Departure(k) \notin Kept
        BY <1>3, <4>1
      <4> QED
        BY <1>2, <4>2
    <3>2. Kept # DOMAIN log /\ Kept \in SUBSET DOMAIN log
      BY <3>1 DEF Kept
    <3>3. /\ IsFiniteSet(DOMAIN log) /\ Cardinality(DOMAIN log) = Len(log)
      <4>1. PICK l \in Nat : l = Len(log) /\ DOMAIN log = 1..l
        BY LogIsKnown
      <4>2. IsFiniteSet(1..l) /\ Cardinality(1..l) = (IF 1 > l THEN 0 ELSE l - 1 + 1)
        BY FS_Interval
      <4>3. (IF 1 > l THEN 0 ELSE l - 1 + 1) = l
        OBVIOUS
      <4> QED
        BY <4>1, <4>2, <4>3
    <3>4. /\ Cardinality(Kept) <= Cardinality(DOMAIN log)
          /\ Cardinality(DOMAIN log) = Cardinality(Kept) => DOMAIN log = Kept
          /\ IsFiniteSet(Kept)
      BY <3>2, <3>3, FS_Subset
    <3>5. Cardinality(Kept) \in Nat /\ Len(log) \in Nat
      BY <3>4, FS_CardinalityType, LogIsKnown
    <3>6. Size(Reported) = Cardinality(Kept)
      BY ReportedAreKept DEF Size
    <3>7. Size(Reported) < Len(log)
      BY <3>2, <3>3, <3>4, <3>5, <3>6
    <3> QED
      BY <2>1, <2>2, <3>7
  <2> QED
    BY <2>3, <2>4
<1>10. Cardinality(inside) \in Nat /\ Cardinality(across) \in Nat
  BY <1>8, <1>9, FS_CardinalityType
<1>11. Cardinality(inside \cap across) = 0
  BY <1>5, FS_EmptySet
<1>12. allowance \in Nat
  BY <1>6, FS_CardinalityType
<1> HIDE DEF allowance
<1>13. Cardinality(S) = Cardinality(inside) + Cardinality(across)
  <2>1. Cardinality(inside \cup across)
          = Cardinality(inside) + Cardinality(across) - Cardinality(inside \cap across)
    BY <1>8, <1>9, FS_Union
  <2> QED
    BY <1>5, <1>10, <1>11, <2>1
<1>14. stable.challenges + stable.denies <= drift.n + allowance
  BY <1>1, <1>7, <1>8, <1>9, <1>10, <1>12, <1>13
<1> QED
  BY <1>14 DEF StableFrictionIsShadow, stable, drift, allowance

LEMMA BusyHolds ==
  ASSUME LoadInv
  PROVE  BusyMeansNoChallenge(Reported)
<1> SUFFICES ASSUME cell = "exp_P", load.pace * CallRateLimit + load.lag < StartUp
             PROVE  FrictionChecks(Reported, LabelOf(cell))
  BY DEF BusyMeansNoChallenge
<1>1. /\ load.pace \in Nat /\ load.lag \in Nat /\ StartUp \in Nat /\ Len(collected) \in Nat
      /\ \A i \in DOMAIN log : Sent(log[i], order[i])
  BY LogIsKnown, DueInOrder
<1>2. flags.risk /\ flags.telemetry /\ flags.velocity
  BY LoadSettings DEF LoadInv, ArrivalInv
<1>3. Crowded
  <2>1. PICK x \in Nat : x = load.pace * 30
    BY <1>1
  <2> QED
    BY <1>1, <2>1 DEF Crowded, CallRateLimit
<1>4. \A k \in Kept : k \in DOMAIN log /\ "R4" \in log[k].rules
  <2> SUFFICES ASSUME NEW k \in Kept PROVE k \in DOMAIN log /\ "R4" \in log[k].rules
    OBVIOUS
  <2>1. k \in DOMAIN log /\ log[k].ts >= FirstStamp + StartUp
    BY DEF Kept
  <2>2. FirstStamp \in Nat
    BY <2>1, FirstStampIsFirst
  <2>3. log[k].ts \in Nat /\ log[k].ts <= Due(order[k]) + load.lag
        /\ order[k] \in 1..Len(collected)
    BY <2>1, LogIsKnown
  <2>4. PICK j \in Nat, pace \in Nat : j = order[k] - 1 /\ pace = load.pace
    BY <1>1, <2>3
  <2>5. Due(order[k]) = j * pace /\ j * pace \in Nat
    BY <2>4 DEF Due
  <2>6. j * pace > pace * 30
    <3>1. PICK x \in Nat, y \in Nat : x = j * pace /\ y = pace * 30
      BY <2>4
    <3>2. y + load.lag < StartUp
      BY <2>4, <3>1 DEF CallRateLimit
    <3>3. log[k].ts <= x + load.lag
      BY <2>3, <2>5, <3>1
    <3>4. PICK t \in Nat : t = log[k].ts
      BY <2>3
    <3>5. StartUp <= t
      BY <1>1, <2>1, <2>2, <3>4
    <3> QED
      BY <1>1, <3>1, <3>2, <3>3, <3>4, <3>5
  <2>7. order[k] > CallRateLimit + 1
    <3> SUFFICES ASSUME j <= 30 PROVE FALSE
      BY <1>1, <2>3, <2>4 DEF CallRateLimit
    <3>1. \A a, b, c \in Nat : a <= b => a * c <= b * c
      OBVIOUS
    <3>2. j * pace <= 30 * pace /\ 30 * pace = pace * 30
      BY <2>4, <3>1
    <3>3. PICK x \in Nat, y \in Nat : x = j * pace /\ y = pace * 30
      BY <2>4
    <3> QED
      BY <2>6, <3>2, <3>3
  <2> QED
    BY <1>1, <1>2, <1>3, <2>1, <2>7 DEF Sent
<1>5. FalseChallenge(Reported, LabelOf(cell), "all").challenges = 0
  <2>1. {i \in KeptOf("all") : log[i].decision = "CHALLENGE"} = {}
    BY <1>1, <1>4 DEF KeptOf, Sent
  <2> QED
    BY <2>1, FalseChallengeCounts, FS_EmptySet
<1>6. Fired(Reported, "R4") = Size(Reported)
  <2>1. {i \in DOMAIN Reported : "R4" \in Reported[i].rules} = DOMAIN Reported
    BY <1>4, ReportedAreKept
  <2> QED
    BY <2>1 DEF Fired, Count, Size
<1> QED
  BY <1>5, <1>6 DEF FrictionChecks

LEMMA SweepHolds ==
  ASSUME LoadInv
  PROVE  SweepMatchesDecisions(Reported)
<1> SUFFICES ASSUME cell = "exp_P", NEW profile \in {"stable", "drift"}
             PROVE  LET recs == ProfileOf(Reported, LabelOf(cell), profile)
                        f    == FalseChallenge(Reported, LabelOf(cell), profile)
                    IN /\ Sweep(recs, 40) = f.challenges + f.denies
                       /\ Sweep(recs, 30) = Sweep(recs, 40)
                       /\ Fired(recs, "R4") = Size(recs) => Sweep(recs, 25) = Size(recs)
  BY DEF SweepMatchesDecisions, SweepFrictionChecks
<1> DEFINE recs == ProfileOf(Reported, LabelOf(cell), profile)
           K == KeptOf(profile)
<1>1. /\ DOMAIN recs = K /\ IsFiniteSet(K)
      /\ \A i \in K : recs[i] = log[i] /\ Sent(log[i], order[i])
  BY KeptOfProfile
<1>2. flags.risk
  BY LoadSettings DEF LoadInv, ArrivalInv
<1> HIDE DEF recs, K
<1>3. \A i \in K :
        LET r == recs[i]
        IN /\ ~HardBlocked(r)
           /\ r.risk = Penalty("R3" \in r.rules, 60) + Penalty("R4" \in r.rules, 25)
           /\ Refused(r) <=> "R3" \in r.rules
  BY <1>1, <1>2 DEF Sent, Refused
<1>4. \A i \in K : /\ Blocked(recs[i], 40) <=> Refused(recs[i])
                   /\ Blocked(recs[i], 30) <=> Refused(recs[i])
                   /\ "R4" \in recs[i].rules => Blocked(recs[i], 25)
  BY <1>3 DEF Blocked, Penalty
<1>5. /\ Sweep(recs, 40) = Cardinality({i \in K : Refused(log[i])})
      /\ Sweep(recs, 30) = Cardinality({i \in K : Refused(log[i])})
  <2>1. {i \in DOMAIN recs : Blocked(recs[i], 40)} = {i \in K : Refused(log[i])}
    BY <1>1, <1>4
  <2>2. {i \in DOMAIN recs : Blocked(recs[i], 30)} = {i \in K : Refused(log[i])}
    BY <1>1, <1>4
  <2> QED
    BY <2>1, <2>2 DEF Sweep, Count
<1>6. Fired(recs, "R4") = Size(recs) => Sweep(recs, 25) = Size(recs)
  <2> SUFFICES ASSUME Fired(recs, "R4") = Size(recs) PROVE Sweep(recs, 25) = Size(recs)
    OBVIOUS
  <2> DEFINE R == {i \in K : "R4" \in recs[i].rules}
             B == {i \in K : Blocked(recs[i], 25)}
  <2>1. Cardinality(K) = Cardinality(R) /\ Size(recs) = Cardinality(K)
    BY <1>1 DEF Fired, Count, Size
  <2>2. R = K
    <3>1. R \in SUBSET K
      OBVIOUS
    <3> HIDE DEF R
    <3> QED
      BY <1>1, <2>1, <3>1, FS_Subset
  <2>3. B = K
    BY <1>4, <2>2
  <2>4. Sweep(recs, 25) = Cardinality(B)
    BY <1>1 DEF Sweep, Count
  <2> QED
    BY <2>1, <2>3, <2>4
<1>7. LET f == FalseChallenge(Reported, LabelOf(cell), profile)
      IN f.challenges + f.denies = Cardinality({i \in K : Refused(log[i])})
  BY FalseChallengeCounts DEF K
<1> QED
  BY <1>5, <1>6, <1>7 DEF recs

(* The tables of the load runs, for every load and however the answers      *)
(* overtake each other: the refusals of stable traffic are the drift's      *)
(* shadow, but for one a user across the cut of the start-up, the figure    *)
(* that names four rule combinations names all, a busy run is never         *)
(* challenged, and the sweep recomputed from the scores is what happened.   *)
THEOREM LoadTablesAreRight == LoadSpec => []LoadTablesHold
<1>1. LoadInv => LoadTablesHold
  <2> SUFFICES ASSUME LoadInv PROVE LoadTablesHold
    OBVIOUS
  <2>1. OnlyRateAndRegionFire
    BY DEF LoadInv, RecordInv, Written, Sent, OnlyRateAndRegionFire
  <2> QED
    BY <2>1, ShadowHolds, BusyHolds, SweepHolds DEF LoadTablesHold
<1> QED
  BY <1>1, LoadInductive, PTL

-----------------------------------------------------------------------------
(* The published counts.  An attack of a cell gets through between two of   *)
(* its attempts, or never: A4, once its own requests are half of what the   *)
(* window holds (or, where no key is enrolled, once it has a past at all),  *)
(* and until there are more than thirty; every other attack at all of them. *)
Barred(a) ==
  \/ a = "A5"
  \/ ~flags.passthrough /\ a \in {"A1", "A2"}
  \/ flags.risk /\ flags.oracle

Opens(a) ==
  IF a = "A4" /\ flags.telemetry THEN IF flags.binding THEN 10 ELSE 1 ELSE 0

Closes(a) ==
  IF a = "A4" /\ flags.telemetry /\ flags.binding /\ flags.velocity THEN 21 ELSE 30

GetsThrough(a, m) == ~Barred(a) /\ Opens(a) <= m /\ m < Closes(a)

(* How many of the first m attempts get through. *)
Through(a, m) ==
  IF Barred(a) \/ m <= Opens(a) THEN 0
  ELSE IF m <= Closes(a) THEN m - Opens(a) ELSE Closes(a) - Opens(a)

(* The one attack whose published count is not what the code gives. *)
Misprinted(a) == cell = "P_minus_device_binding" /\ a = "A2"

(* The window of A4: the victim's warm-up and then its own requests. *)
Overlaid ==
  LET h == known.history
  IN /\ IsSequence(h) /\ Len(h) = 10 + n
     /\ \A i \in 1..(10 + n) :
          /\ h[i].geo = IF i <= 10 THEN "AU" ELSE "RU"
          /\ h[i].session = IF i <= 10 THEN "V" ELSE "X"
          /\ h[i].ts \in Nat
          /\ clock - h[i].ts <= 10 * (suite.latency + 1) + n * suite.latency

(* What the controller remembers while an attack is under way. *)
Standing ==
  /\ Attack = "A1" /\ ~flags.passthrough => captured
  /\ Attack \in {"A3", "A6"} => VictimOnly
  /\ Attack = "A4" /\ ~flags.passthrough =>
       /\ Calm
       /\ flags.binding => registry[User] = {"V"}
       /\ flags.telemetry => Overlaid

(* The files are in the places of their attacks. *)
Shelved ==
  /\ todo = {a \in Primary : Place[a] > Len(files)}
  /\ \A i \in DOMAIN files : files[i].attack \in Primary /\ Place[files[i].attack] = i

FilesCounted ==
  \A i \in DOMAIN files :
    ~Misprinted(files[i].attack) => files[i].successes = Through(files[i].attack, 30)

Counted ==
  /\ pc = "warm_up" => n = 0 \/ own
  /\ pc = "attack" => own /\ Standing
  /\ pc = "attack" /\ ~Misprinted(Attack) => result.successes = Through(Attack, n)
  /\ FilesCounted

CountInv ==
  /\ BlameInv /\ BaselineInv
  /\ Selected = Primary => Shelved
  /\ Selected = Primary /\ AsInExperiments => Counted

(* The cells in which A1 to A6 are run: their limits and their flags. *)
LEMMA PrimaryCells ==
  ASSUME NEW c \in CellNames, Cells[c].attacks = Primary
  PROVE  LET f == CellFlags(c, Keep)
         IN /\ Cells[c].allow = 40
            /\ c \in {"B0", "B1", "P", "B1_oracle", "P_oracle", "abl_P", "abl_B1",
                      "P_minus_device_binding", "P_minus_context", "P_minus_velocity"}
            /\ f.passthrough <=> c = "B0"
            /\ f.dpop <=> c # "B0"
            /\ f.risk <=> c \notin {"B0", "B1", "B1_oracle", "abl_B1"}
            /\ f.binding <=> c \notin {"B0", "P_minus_device_binding"}
            /\ f.telemetry <=> c \notin {"B0", "B1", "B1_oracle", "abl_B1", "P_minus_context"}
            /\ f.velocity <=> c \notin {"B0", "B1", "B1_oracle", "abl_B1", "P_minus_velocity"}
            /\ f.oracle <=> c \in {"B1_oracle", "P_oracle"}
            /\ Cells[c].tag <=> c \in {"B1_oracle", "P_oracle"}
<1> DEFINE m == Cells[c].mode
           s == Cells[c].shell
<1>1. c \in DOMAIN Cells
  BY DEF CellNames
<1>2. c \in {"B0", "B1", "P", "B1_oracle", "P_oracle", "abl_P", "abl_B1",
             "P_minus_device_binding", "P_minus_context", "P_minus_velocity"}
  <2>1. "A1" \in Cells[c].attacks
    BY DEF Primary
  <2>2. /\ c \in {"B1_adaptive", "P_adaptive", "P_adaptive_slow", "P_adaptive_tau030",
                   "P_adaptive_slow_tau030"} => Cells[c].attacks = {"A7"}
        /\ c \in {"exp_B0", "exp_B1", "exp_P"} => Cells[c].attacks = {}
    BY DEF Cells, LoadCell, AdaptiveCell, Cell
  <2>3. DOMAIN Cells = {"B0", "B1", "P", "B1_oracle", "P_oracle", "abl_P", "abl_B1",
             "P_minus_device_binding", "P_minus_context", "P_minus_velocity",
             "B1_adaptive", "P_adaptive", "P_adaptive_slow", "P_adaptive_tau030",
             "P_adaptive_slow_tau030", "exp_B0", "exp_B1", "exp_P"}
    BY DEF Cells
  <2> QED
    BY <1>1, <2>1, <2>2, <2>3
<1>3. /\ Cells[c].allow = 40
      /\ Cells[c].tag <=> c \in {"B1_oracle", "P_oracle"}
      /\ m = IF c = "B0" THEN "B0"
             ELSE IF c \in {"B1", "B1_oracle", "abl_B1"} THEN "B1" ELSE "P"
  BY <1>2 DEF Cells, AttackCell, LoadCell, AdaptiveCell, OracleCell, AblationCell, Cell
<1>4. /\ c \in {"B0", "B1", "P"} => s = Keep
      /\ c \in {"B1_oracle", "P_oracle"} => s = [Keep EXCEPT !["ORACLE_ATTACK_CONTEXT"] = "true"]
      /\ c \in {"abl_P", "abl_B1"} => s = AblationShell("none")
      /\ c = "P_minus_device_binding" => s = AblationShell("CHECK_DEVICE_BINDING")
      /\ c = "P_minus_context" => s = AblationShell("ENABLE_TELEMETRY")
      /\ c = "P_minus_velocity" => s = AblationShell("ENABLE_VELOCITY")
  BY <1>2 DEF Cells, AttackCell, LoadCell, AdaptiveCell, OracleCell, AblationCell, Cell
<1> HIDE DEF m, s
<1>5. /\ s["CHECK_DEVICE_BINDING"] = "false" <=> c = "P_minus_device_binding"
      /\ s["ENABLE_TELEMETRY"] = "false" <=> c = "P_minus_context"
      /\ s["ENABLE_VELOCITY"] = "false" <=> c = "P_minus_velocity"
      /\ s["ORACLE_ATTACK_CONTEXT"] = "true" <=> c \in {"B1_oracle", "P_oracle"}
  <2>1. CASE s = Keep /\ c \in {"B0", "B1", "P"}
    BY <2>1 DEF Keep, FlagVars, Unset
  <2>2. CASE s = [Keep EXCEPT !["ORACLE_ATTACK_CONTEXT"] = "true"]
             /\ c \in {"B1_oracle", "P_oracle"}
    BY <2>2 DEF Keep, FlagVars, Unset
  <2>3. CASE s = AblationShell("none") /\ c \in {"abl_P", "abl_B1"}
    BY <2>3 DEF AblationShell, FlagVars, Ablated, Unset, Empty
  <2>4. CASE s = AblationShell("CHECK_DEVICE_BINDING") /\ c = "P_minus_device_binding"
    BY <2>4 DEF AblationShell, FlagVars, Ablated, Unset, Empty
  <2>5. CASE s = AblationShell("ENABLE_TELEMETRY") /\ c = "P_minus_context"
    BY <2>5 DEF AblationShell, FlagVars, Ablated, Unset, Empty
  <2>6. CASE s = AblationShell("ENABLE_VELOCITY") /\ c = "P_minus_velocity"
    BY <2>6 DEF AblationShell, FlagVars, Ablated, Unset, Empty
  <2> QED
    BY <1>2, <1>4, <2>1, <2>2, <2>3, <2>4, <2>5, <2>6
<1> DEFINE f == CellFlags(c, Keep)
<1>6. /\ f.dpop <=> m # "B0"
      /\ f.risk <=> m = "P"
      /\ f.passthrough <=> m = "B0"
      /\ f.binding <=> m # "B0" /\ s["CHECK_DEVICE_BINDING"] # "false"
      /\ f.telemetry <=> m = "P" /\ s["ENABLE_TELEMETRY"] # "false"
      /\ f.velocity <=> m = "P" /\ s["ENABLE_VELOCITY"] # "false"
      /\ f.oracle <=> s["ORACLE_ATTACK_CONTEXT"] = "true"
  BY FlagsOfCell DEF m, s
<1> HIDE DEF f
<1> QED
  BY <1>2, <1>3, <1>5, <1>6 DEF f

(* One more attempt is one more of them, or none. *)
LEMMA ThroughCounts ==
  ASSUME NEW a, NEW m \in Nat
  PROVE  /\ Through(a, m) \in Nat /\ Through(a, 0) = 0
         /\ Through(a, m + 1) = Through(a, m) + (IF GetsThrough(a, m) THEN 1 ELSE 0)
<1>1. Opens(a) \in {0, 1, 10} /\ Closes(a) \in {21, 30}
  BY DEF Opens, Closes
<1> QED
  BY <1>1 DEF Through, GetsThrough

(* The numbers in the tables are the lengths of these spans. *)
LEMMA PublishedIsThrough ==
  ASSUME Settings, Selected = Primary, NEW a \in Primary, ~Misprinted(a)
  PROVE  Through(a, 30) = Published[cell][Place[a]]
<1>1. PICK c : c = cell
  OBVIOUS
<1>2. /\ c \in {"B0", "B1", "P", "B1_oracle", "P_oracle", "abl_P", "abl_B1",
                "P_minus_device_binding", "P_minus_context", "P_minus_velocity"}
      /\ flags.passthrough <=> c = "B0"
      /\ flags.risk <=> c \notin {"B0", "B1", "B1_oracle", "abl_B1"}
      /\ flags.binding <=> c \notin {"B0", "P_minus_device_binding"}
      /\ flags.telemetry <=> c \notin {"B0", "B1", "B1_oracle", "abl_B1", "P_minus_context"}
      /\ flags.velocity <=> c \notin {"B0", "B1", "B1_oracle", "abl_B1", "P_minus_velocity"}
      /\ flags.oracle <=> c \in {"B1_oracle", "P_oracle"}
  BY <1>1, PrimaryCells DEF Settings, Selected
<1>3. a \in {"A1", "A2", "A3", "A4", "A5", "A6"}
  BY DEF Primary
<1>4. Barred(a) <=> \/ a = "A5" \/ c = "P_oracle"
                    \/ c # "B0" /\ a \in {"A1", "A2"}
  BY <1>2 DEF Barred
<1>5. Through(a, 30) = IF Barred(a) THEN 0 ELSE Closes(a) - Opens(a)
  BY DEF Through, Opens, Closes
<1>6. /\ Opens(a) = IF a # "A4" \/ ~flags.telemetry THEN 0
                    ELSE IF flags.binding THEN 10 ELSE 1
      /\ Closes(a) = IF a = "A4" /\ flags.telemetry /\ flags.binding /\ flags.velocity
                     THEN 21 ELSE 30
  BY DEF Opens, Closes
<1>7. Through(a, 30) =
        IF a = "A5" \/ c = "P_oracle" \/ (c # "B0" /\ a \in {"A1", "A2"}) THEN 0
        ELSE IF a # "A4" THEN 30
        ELSE IF c \in {"P", "abl_P"} THEN 11
        ELSE IF c = "P_minus_velocity" THEN 20
        ELSE IF c = "P_minus_device_binding" THEN 29 ELSE 30
  <2> HIDE DEF Barred
  <2>1. CASE Barred(a)
    BY <1>4, <1>5, <2>1
  <2>2. CASE ~Barred(a) /\ a # "A4"
    BY <1>4, <1>5, <1>6, <2>2
  <2>3. CASE ~Barred(a) /\ a = "A4" /\ ~flags.telemetry
    BY <1>2, <1>4, <1>5, <1>6, <2>3
  <2>4. CASE ~Barred(a) /\ a = "A4" /\ flags.telemetry
    <3>1. c \in {"P", "abl_P", "P_minus_device_binding", "P_minus_velocity"}
      BY <1>2, <1>4, <2>4
    <3>2. /\ flags.binding <=> c # "P_minus_device_binding"
          /\ flags.velocity <=> c # "P_minus_velocity"
      BY <1>2, <3>1
    <3>3. Through(a, 30) = IF c = "P_minus_device_binding" THEN 29
                           ELSE IF c = "P_minus_velocity" THEN 20 ELSE 11
      BY <1>5, <1>6, <2>4, <3>1, <3>2
    <3> QED
      BY <1>4, <2>4, <3>1, <3>3
  <2> QED
    BY <2>1, <2>2, <2>3, <2>4
<1>8. /\ Published["B0"] = <<30, 30, 30, 30, 0, 30>>
      /\ c \in {"B1", "B1_oracle", "abl_B1", "P_minus_context"}
           => Published[c] = <<0, 0, 30, 30, 0, 30>>
      /\ c \in {"P", "abl_P"} => Published[c] = <<0, 0, 30, 11, 0, 30>>
      /\ Published["P_oracle"] = <<0, 0, 0, 0, 0, 0>>
      /\ Published["P_minus_device_binding"] = <<0, 0, 30, 29, 0, 30>>
      /\ Published["P_minus_velocity"] = <<0, 0, 30, 20, 0, 30>>
  BY DEF Published
<1>9. Place[a] = IF a = "A1" THEN 1 ELSE IF a = "A2" THEN 2 ELSE IF a = "A3" THEN 3
                 ELSE IF a = "A4" THEN 4 ELSE IF a = "A5" THEN 5 ELSE 6
  BY <1>3 DEF Place
<1>10. ~(c = "P_minus_device_binding" /\ a = "A2")
  BY <1>1 DEF Misprinted
<1>11. CASE c = "B0"
  BY <1>1, <1>3, <1>7, <1>8, <1>9, <1>11
<1>12. CASE c \in {"B1", "B1_oracle", "abl_B1", "P_minus_context"}
  BY <1>1, <1>3, <1>7, <1>8, <1>9, <1>12
<1>13. CASE c \in {"P", "abl_P", "P_oracle"}
  BY <1>1, <1>3, <1>7, <1>8, <1>9, <1>13
<1>14. CASE c \in {"P_minus_device_binding", "P_minus_velocity"}
  BY <1>1, <1>3, <1>7, <1>8, <1>9, <1>10, <1>14
<1> QED
  BY <1>2, <1>11, <1>12, <1>13, <1>14

(* What the oracle tag gives away is never below a limit. *)
LEMMA DeclaredScore ==
  ASSUME NEW f, NEW checks, NEW device, NEW s, NEW declared, R7(f, declared)
  PROVE  LET score == Score(f, checks, device, s, declared)
         IN score \in Int /\ score >= 90
<1> DEFINE p1 == Penalty(R1(f, checks), 80)
           p2 == Penalty(R2(f, device, s), 35)
           p3 == Penalty(R3(s), 60)
           p4 == Penalty(R4(f, s), 25)
           p5 == Penalty(R5(s), 20)
           p6 == Penalty(R6(s), 20)
           p7 == Penalty(R7(f, declared), 90)
<1>1. /\ p1 \in Nat /\ p2 \in Nat /\ p3 \in Nat /\ p4 \in Nat /\ p5 \in Nat /\ p6 \in Nat
      /\ p7 = 90
  BY DEF Penalty
<1>2. Score(f, checks, device, s, declared) = Cap(p1 + p2 + p3 + p4 + p5 + p6 + p7)
  BY DEF Score, TotalPenalty
<1> HIDE DEF p1, p2, p3, p4, p5, p6, p7
<1> QED
  BY <1>1, <1>2 DEF Cap

(* The score of a request whose proof and past proofs were good and that no *)
(* oracle gave away.                                                        *)
LEMMA PlainScore ==
  ASSUME NEW f, NEW checks, NEW device, NEW s, NEW declared,
         ~R1(f, checks), ~R6(s), ~R7(f, declared)
  PROVE  Score(f, checks, device, s, declared)
           = Cap(Penalty(R2(f, device, s), 35) + Penalty(R3(s), 60)
                 + Penalty(R4(f, s), 25) + Penalty(R5(s), 20))
<1> DEFINE p2 == Penalty(R2(f, device, s), 35)
           p3 == Penalty(R3(s), 60)
           p4 == Penalty(R4(f, s), 25)
           p5 == Penalty(R5(s), 20)
<1>1. p2 \in Int /\ p3 \in Int /\ p4 \in Int /\ p5 \in Int
  BY DEF Penalty
<1>2. /\ Penalty(R1(f, checks), 80) = 0 /\ Penalty(R6(s), 20) = 0
      /\ Penalty(R7(f, declared), 90) = 0
  BY DEF Penalty
<1>3. TotalPenalty(f, checks, device, s, declared) = 0 + p2 + p3 + p4 + p5 + 0 + 0
  BY <1>2 DEF TotalPenalty
<1> HIDE DEF p2, p3, p4, p5
<1>4. TotalPenalty(f, checks, device, s, declared) = p2 + p3 + p4 + p5
  BY <1>1, <1>3
<1> QED
  BY <1>4 DEF Score, p2, p3, p4, p5

(* A key that proved itself passes the hard rules. *)
LEMMA SoundChecks ==
  ASSUME NEW q, q.proof = q.token, ProofRefusal(q) = "none"
  PROVE  ~R1(flags, ChecksFor(q)) /\ ~DenyHard(flags, ChecksFor(q))
<1>1. LET k == ChecksFor(q)
      IN k.tokenValid /\ (flags.dpop => k.dpopValid) /\ ~k.jtiReplayed /\ k.jktMatch
  BY DEF ChecksFor
<1> QED
  BY <1>1 DEF R1, DenyHard

(* The decision on such a request, by its score. *)
LEMMA AllowedBelow ==
  ASSUME NEW q, Settings, down = "nothing", Cells[cell].allow = 40,
         q.proof = q.token, ProofRefusal(q) = "none", RiskOf(q) \in Int
  PROVE  DecisionFor(q) = "ALLOW" <=> flags.passthrough \/ ~flags.risk \/ RiskOf(q) < 40
<1>1. threshold.allow = 40 /\ threshold.deny = 70
  <2>1. threshold = [allow |-> 40, deny |-> 70]
    BY DEF Settings, Limits, Float
  <2> QED
    BY <2>1
<1>2. CASE flags.passthrough \/ ~flags.risk
  BY <1>2 DEF DecisionFor
<1>3. CASE ~flags.passthrough /\ flags.risk
  <2>1. Scored(q) /\ down # "opa" /\ ~DenyHard(flags, ChecksFor(q))
    BY <1>3, SoundChecks DEF Scored
  <2>2. DecisionFor(q) = DecideLocal(RiskOf(q), threshold)
    BY <2>1, DecisionByScore
  <2> QED
    BY <1>1, <1>3, <2>2 DEF DecideLocal
<1> QED
  BY <1>2, <1>3

(* While nothing is out of order, the client sees whether it was served. *)
LEMMA AnswerWhenQuiet ==
  ASSUME NEW q, down = "nothing", ~TokenExpired, suite.latency \in Nat
  PROVE  /\ Answer(q) = CauseFor(q) /\ Elapsed(q) = suite.latency
         /\ Send(q) => Handled(q)
         /\ q.object = "own" => (Answer(q) = "served" <=> DecisionFor(q) = "ALLOW")
         /\ Answer(q) = "served" => q.object # "other" /\ DecisionFor(q) = "ALLOW"
<1>1. ~Unheard(q) /\ ~NoKeys
  BY DEF Unheard, NoKeys
<1>2. Answer(q) = CauseFor(q)
  BY <1>1 DEF Answer
<1>3. Elapsed(q) = suite.latency /\ (Send(q) => Handled(q))
  BY <1>1 DEF Elapsed, Send, Unreached
<1>4. DecisionFor(q) \in Decision /\ ProofRefusal(q) \in {"none", "jkt", "stale", "replay"}
  BY DEF DecisionFor, FromOpa, Decision, ProofRefusal
<1>5. q.object = "own" => (CauseFor(q) = "served" <=> DecisionFor(q) = "ALLOW")
  BY <1>4 DEF CauseFor, Decision
<1>6. CauseFor(q) = "served" => q.object # "other"
  BY <1>4 DEF CauseFor
<1> QED
  BY <1>2, <1>3, <1>5, <1>6, ServedIsAllowed

(* While only the victim is remembered, they are served. *)
LEMMA VictimServed ==
  ASSUME Settings, VictimOnly, down = "nothing", ~TokenExpired,
         Cells[cell].allow = 40, suite.latency \in Nat,
         NEW q, IsVictims(q), q.object = "own", ProofRefusal(q) = "none"
  PROVE  Answer(q) = "served" <=>
           flags.passthrough \/ ~flags.risk \/ ~R7(flags, Declared(q))
<1>1. q.proof = q.token
  BY DEF IsVictims
<1>2. Answer(q) = "served" <=> DecisionFor(q) = "ALLOW"
  BY AnswerWhenQuiet
<1> DEFINE s == SignalsFor(q)
           x == Score(flags, ChecksFor(q), DeviceKnownFor(q), s, Declared(q))
<1>3. CASE flags.passthrough \/ ~flags.risk
  BY <1>2, <1>3 DEF DecisionFor
<1>4. CASE ~flags.passthrough /\ flags.risk
  <2>1. RiskOf(q) = x
    BY <1>4 DEF RiskOf, Scored
  <2>2. /\ ~R1(flags, ChecksFor(q)) /\ ~R2(flags, DeviceKnownFor(q), s)
        /\ ~R3(s) /\ ~R5(s) /\ ~R6(s)
    BY VictimSignals
  <2>3. CASE R7(flags, Declared(q))
    <3>1. x \in Int /\ x >= 40
      BY <2>3, DeclaredScore
    <3> HIDE DEF x
    <3> QED
      BY <1>1, <1>2, <1>4, <2>1, <2>3, <3>1, AllowedBelow
  <2>4. CASE ~R7(flags, Declared(q))
    <3>1. x = Cap(Penalty(R2(flags, DeviceKnownFor(q), s), 35) + Penalty(R3(s), 60)
                  + Penalty(R4(flags, s), 25) + Penalty(R5(s), 20))
      BY <2>2, <2>4, PlainScore
    <3>2. x \in {0, 25}
      BY <2>2, <3>1 DEF Penalty, Cap
    <3> HIDE DEF x
    <3> QED
      BY <1>1, <1>2, <1>4, <2>1, <2>4, <3>2, AllowedBelow
  <2> QED
    BY <2>3, <2>4
<1> QED
  BY <1>3, <1>4

(* The share that rule R5 asks for, as an inequality of its two numbers. *)
LEMMA BelowHalf ==
  ASSUME NEW a \in Nat, NEW b \in Nat \ {0}
  PROVE  Thousandths(a, b) < 500 <=> 2000 * a + b < 1000 * b
<1> DEFINE x == 2000 * a + b
           c == 2 * b
           d == x \div c
<1>1. x \in Nat /\ c \in Nat \ {0} /\ 1000 * b = c * 500
  OBVIOUS
<1> HIDE DEF x, c
<1>2. d \in Int /\ c * d <= x /\ x < c * d + c
  BY <1>1
<1> HIDE DEF d
<1>3. ASSUME d < 500 PROVE x < c * 500
  <2>1. \A k, l, m \in Int : k >= 0 /\ l <= m => k * l <= k * m
    OBVIOUS
  <2>2. c * (d + 1) <= c * 500
    <3>1. d + 1 <= 500
      BY <1>2, <1>3
    <3> QED
      BY <1>1, <1>2, <2>1, <3>1
  <2>3. c * (d + 1) = c * d + c
    BY <1>1, <1>2
  <2> QED
    BY <1>1, <1>2, <2>2, <2>3
<1>4. ASSUME ~(d < 500) PROVE ~(x < c * 500)
  <2>1. \A k, l, m \in Int : k >= 0 /\ l <= m => k * l <= k * m
    OBVIOUS
  <2>2. c * 500 <= c * d
    <3>1. 500 <= d
      BY <1>2, <1>4
    <3> QED
      BY <1>1, <1>2, <2>1, <3>1
  <2>3. c * d \in Int /\ c * 500 \in Int
    BY <1>1, <1>2
  <2> QED
    BY <1>1, <1>2, <2>2, <2>3
<1>5. Thousandths(a, b) = d
  BY DEF Thousandths, d, x, c
<1> QED
  BY <1>1, <1>3, <1>4, <1>5 DEF x

(* The sizes of an experiment. *)
Roomy ==
  /\ suite.latency \in Nat /\ clock \in Nat /\ n \in Nat /\ n < 30
  /\ 10 * (suite.latency + 1) + 30 * suite.latency <= Window /\ 40 < MaxLen

(* All of A4's window is still there at its next attempt. *)
LEMMA OverlaidStays ==
  ASSUME Roomy, Overlaid
  PROVE  LET h == known.history
         IN /\ \A i \in 1..Len(h) : ~Expired(h[i], clock)
            /\ Prune(h, clock) = h /\ Len(h) = 10 + n /\ Len(h) < MaxLen
            /\ IsSequence(h)
<1> DEFINE h == known.history
           b == 10 * (suite.latency + 1) + n * suite.latency
<1>1. /\ IsSequence(h) /\ Len(h) = 10 + n
      /\ \A i \in 1..Len(h) : h[i].ts \in Nat /\ clock - h[i].ts <= b
  BY DEF Overlaid
<1>2. b \in Nat /\ b <= Window /\ Window \in Nat /\ clock \in Nat
  <2>1. n * suite.latency \in Nat /\ n * suite.latency <= 30 * suite.latency
    <3>1. \A k, l, m \in Nat : k <= l => k * m <= l * m
      OBVIOUS
    <3> QED
      BY <3>1 DEF Roomy
  <2> QED
    BY <2>1, WindowAssumption DEF Roomy
<1> HIDE DEF b, h
<1>3. \A i \in 1..Len(h) : ~Expired(h[i], clock)
  BY <1>1, <1>2 DEF Expired
<1>4. Prune(h, clock) = h
  BY <1>1, <1>3, NothingPruned
<1>5. Len(h) < MaxLen
  BY <1>1, WindowAssumption DEF Roomy
<1> QED
  BY <1>1, <1>3, <1>4, <1>5 DEF h

(* A4's request. *)
IsAbroad(q) ==
  /\ q.token = "X" /\ q.proof = "X" /\ q.context = From("RU", "X") /\ ~q.captured
  /\ q.object = "own" /\ q.attack = "A4" /\ q.iat = Whole(clock)

LEMMA AbroadProves ==
  ASSUME NEW q, IsAbroad(q), clock \in Nat
  PROVE  ProofRefusal(q) = "none"
BY JustSigned DEF IsAbroad, ProofRefusal, Replayed

(* Which rules fire on it. *)
LEMMA AbroadSignals ==
  ASSUME Roomy, Overlaid, flags.telemetry, NEW q, IsAbroad(q)
  PROVE  LET s == SignalsFor(q)
         IN /\ R3(s) <=> n = 0
            /\ R5(s) <=> n < 10
            /\ R4(flags, s) <=> flags.velocity /\ n > 20
<1> DEFINE h == known.history
           e == EventFor(q)
<1>1. e.ts = clock /\ e.geo = "RU" /\ e.session = "X"
  BY DEF EventFor, IsAbroad, From
<1>2. /\ Prune(h, e.ts) = h /\ Len(h) = 10 + n
      /\ \A i \in 1..Len(h) : ~Expired(h[i], e.ts)
  BY <1>1, OverlaidStays
<1>3. /\ n \in Nat /\ n < 30 /\ clock \in Nat /\ Window \in Nat
      /\ \A i \in 1..(10 + n) :
           /\ h[i].geo = IF i <= 10 THEN "AU" ELSE "RU"
           /\ h[i].session = IF i <= 10 THEN "V" ELSE "X"
           /\ h[i].ts \in Nat
  BY WindowAssumption DEF Overlaid, Roomy
<1>4. SignalsFor(q) = SignalsOf(known, e)
  BY DEF SignalsFor, Signals
<1> HIDE DEF h, e
<1>5. h # <<>>
  <2>1. Len(<<>>) = 0
    OBVIOUS
  <2> QED
    BY <1>2, <1>3, <2>1
<1>6. RegionChanged(h, "RU") <=> n = 0
  <2>1. Len(h) \in 1..(10 + n) /\ (Len(h) <= 10 <=> n = 0)
    BY <1>2, <1>3
  <2>2. h[Len(h)].geo = IF n = 0 THEN "AU" ELSE "RU"
    BY <1>3, <2>1
  <2> QED
    BY <1>5, <2>2 DEF RegionChanged
<1>7. ImpliedVelocity(clock - h[Len(h)].ts) > 500
  <2>1. Len(h) \in 1..Len(h) /\ Len(h) \in 1..(10 + n)
    BY <1>2, <1>3
  <2>2. h[Len(h)].ts \in Nat /\ ~Expired(h[Len(h)], clock)
    BY <1>1, <1>2, <1>3, <2>1
  <2>3. clock - h[Len(h)].ts \in Int /\ clock - h[Len(h)].ts <= Window
    BY <1>3, <2>2 DEF Expired
  <2> QED
    BY <2>3, ChangeIsFast
<1>8. SameSession(h, "X") = n
  <2>1. {i \in 1..Len(h) : h[i].session = "X"} = 11..(10 + n)
    BY <1>2, <1>3
  <2>2. Cardinality(11..(10 + n)) = n
    <3>1. PICK k \in Int : k = 10 + n
      BY <1>3
    <3>2. Cardinality(11..k) = (IF 11 > k THEN 0 ELSE k - 11 + 1)
      BY FS_Interval
    <3>3. (IF 11 > k THEN 0 ELSE k - 11 + 1) = n
      BY <1>3, <3>1
    <3> QED
      BY <3>1, <3>2, <3>3
  <2> QED
    BY <2>1, <2>2 DEF SameSession
<1>9. Thousandths(n, 10 + n) < 500 <=> n < 10
  <2>1. 10 + n \in Nat \ {0}
    BY <1>3
  <2>2. Thousandths(n, 10 + n) < 500 <=> 2000 * n + (10 + n) < 1000 * (10 + n)
    BY <1>3, <2>1, BelowHalf
  <2> QED
    BY <1>3, <2>2
<1> DEFINE s == SignalsOf(known, e)
<1>10. /\ s.callRate = 10 + n
       /\ s.geoVelocity = IF n = 0 THEN ImpliedVelocity(clock - h[Len(h)].ts) ELSE 0
       /\ s.continuity = Thousandths(n, 10 + n)
  BY <1>1, <1>2, <1>5, <1>6, <1>8 DEF SignalsOf, h
<1> HIDE DEF s
<1>11. R3(s) <=> n = 0
  BY <1>7, <1>10 DEF R3, VelocityLimit
<1>12. R5(s) <=> n < 10
  BY <1>9, <1>10 DEF R5, ContinuityFloor
<1>13. R4(flags, s) <=> flags.velocity /\ n > 20
  BY <1>3, <1>10 DEF R4, CallRateLimit
<1> QED
  BY <1>4, <1>11, <1>12, <1>13 DEF s

(* A4 is served where the tables say. *)
LEMMA AbroadServed ==
  ASSUME Settings, Selected = Primary, Attack = "A4", Standing, down = "nothing",
         ~TokenExpired, Roomy, NEW q, IsAbroad(q)
  PROVE  Answer(q) = "served" <=> GetsThrough("A4", n)
<1>1. /\ q.proof = q.token /\ ProofRefusal(q) = "none" /\ q.token = "X"
      /\ q.object = "own" /\ q.attack = "A4"
  BY AbroadProves DEF IsAbroad, Roomy
<1>2. PICK c : c = cell
  OBVIOUS
<1>3. /\ c \in CellNames /\ Cells[c].attacks = Primary /\ flags = CellFlags(c, Keep)
  BY <1>2 DEF Settings, Selected
<1>4. /\ Cells[c].allow = 40
      /\ flags.passthrough => ~flags.risk /\ ~flags.telemetry
      /\ ~flags.risk => ~flags.telemetry
      /\ Cells[c].tag <=> flags.oracle
  BY <1>3, PrimaryCells
<1>5. Answer(q) = "served" <=> DecisionFor(q) = "ALLOW"
  BY <1>1, AnswerWhenQuiet DEF Roomy
<1>6. R7(flags, Declared(q)) <=> flags.oracle
  BY <1>1, <1>2, <1>4 DEF R7, Declared, NotAttack
<1>7. n \in Nat /\ n < 30
  BY DEF Roomy
<1>8. CASE flags.passthrough \/ ~flags.risk
  <2>1. DecisionFor(q) = "ALLOW"
    BY <1>1, <1>8 DEF DecisionFor
  <2>2. GetsThrough("A4", n)
    BY <1>4, <1>7, <1>8 DEF GetsThrough, Barred, Opens, Closes
  <2> QED
    BY <1>5, <2>1, <2>2
<1>9. CASE ~flags.passthrough /\ flags.risk
  <2> DEFINE s == SignalsFor(q)
             x == Score(flags, ChecksFor(q), DeviceKnownFor(q), s, Declared(q))
  <2>1. RiskOf(q) = x
    BY <1>1, <1>9 DEF RiskOf, Scored
  <2>2. x \in Int => (DecisionFor(q) = "ALLOW" <=> x < 40)
    BY <1>1, <1>2, <1>4, <1>9, <2>1, AllowedBelow
  <2>3. CASE flags.oracle
    <3>1. x \in Int /\ x >= 90
      BY <1>6, <2>3, DeclaredScore
    <3> HIDE DEF x
    <3>2. ~GetsThrough("A4", n)
      BY <1>9, <2>3 DEF GetsThrough, Barred
    <3> QED
      BY <1>5, <2>2, <3>1, <3>2
  <2>4. CASE ~flags.oracle
    <3>1. ~R1(flags, ChecksFor(q)) /\ ~R6(s)
      BY <1>1, <1>9, SoundChecks, CalmSignals DEF Standing
    <3>2. R2(flags, DeviceKnownFor(q), s) <=> flags.binding
      <4>1. flags.binding => ~DeviceKnownFor(q)
        <5>1. flags.binding => registry[User] = {"V"}
          BY <1>9 DEF Standing
        <5>2. flags.binding => ~KnownDevice(registry, User, "X")
          BY <5>1 DEF KnownDevice, Verifiable, User, NoSubject, NoKey
        <5> QED
          BY <1>1, <5>2 DEF DeviceKnownFor, DeviceKnown
      <4> QED
        BY <4>1 DEF R2
    <3> DEFINE p2 == Penalty(R2(flags, DeviceKnownFor(q), s), 35)
               p3 == Penalty(R3(s), 60)
               p4 == Penalty(R4(flags, s), 25)
               p5 == Penalty(R5(s), 20)
    <3>3. x = Cap(p2 + p3 + p4 + p5)
      BY <1>6, <2>4, <3>1, PlainScore
    <3>4. p2 = IF flags.binding THEN 35 ELSE 0
      BY <3>2 DEF Penalty
    <3>5. CASE ~flags.telemetry
      <4>1. ~R3(s) /\ ~R5(s) /\ ~R4(flags, s)
        BY <3>5 DEF SignalsFor, Signals, Neutral, R3, R4, R5, VelocityLimit,
                    CallRateLimit, ContinuityFloor
      <4>2. p3 = 0 /\ p4 = 0 /\ p5 = 0
        BY <4>1 DEF Penalty
      <4> HIDE DEF x, p2, p3, p4, p5
      <4>3. x \in Int /\ x < 40
        BY <3>3, <3>4, <4>2 DEF Cap
      <4>4. GetsThrough("A4", n)
        BY <1>7, <1>9, <2>4, <3>5 DEF GetsThrough, Barred, Opens, Closes
      <4> QED
        BY <1>5, <2>2, <4>3, <4>4
    <3>6. CASE flags.telemetry
      <4>1. /\ R3(s) <=> n = 0
            /\ R5(s) <=> n < 10
            /\ R4(flags, s) <=> flags.velocity /\ n > 20
        BY <1>9, <3>6, AbroadSignals DEF Standing
      <4>2. /\ p3 = IF n = 0 THEN 60 ELSE 0
            /\ p4 = IF flags.velocity /\ n > 20 THEN 25 ELSE 0
            /\ p5 = IF n < 10 THEN 20 ELSE 0
        BY <4>1 DEF Penalty
      <4> HIDE DEF x, p2, p3, p4, p5
      <4>3. GetsThrough("A4", n) <=>
              IF flags.binding THEN n >= 10 /\ (flags.velocity => n < 21) ELSE n >= 1
        BY <1>7, <1>9, <2>4, <3>6 DEF GetsThrough, Barred, Opens, Closes
      <4>4. x \in Int /\ (x < 40 <=>
              IF flags.binding THEN n >= 10 /\ (flags.velocity => n < 21) ELSE n >= 1)
        BY <1>7, <3>3, <3>4, <4>2 DEF Cap
      <4> QED
        BY <1>5, <2>2, <4>3, <4>4
    <3> QED
      BY <3>5, <3>6
  <2> QED
    BY <2>3, <2>4
<1> QED
  BY <1>8, <1>9

(* The requests of the attacks. *)
LEMMA RequestsAre ==
  ASSUME Attack \in Primary
  PROVE  LET q == AttackRequest
         IN /\ q.attack = Attack
            /\ Attack \in {"A1", "A3", "A6"} => IsVictims(q)
            /\ Attack # "A5" /\ own => q.object = "own"
            /\ q.captured <=> Attack = "A1"
            /\ Attack # "A1" => q.iat = Whole(clock)
            /\ Attack = "A2" => q.token = "V" /\ q.proof = "X"
            /\ Attack = "A4" /\ own => IsAbroad(q)
            /\ Attack = "A5" => q.object = "other"
<1>1. Attack \in {"A1", "A2", "A3", "A4", "A5", "A6"}
  BY DEF Primary
<1>2. CASE Attack = "A1"
  <2>1. AttackRequest = A1Request
    BY <1>2 DEF AttackRequest
  <2> QED
    BY <1>2, <2>1 DEF A1Request, Request, IsVictims
<1>3. CASE Attack = "A2"
  <2>1. AttackRequest = A2Request
    BY <1>3 DEF AttackRequest
  <2> QED
    BY <1>3, <2>1 DEF A2Request, Request
<1>4. CASE Attack = "A3"
  <2>1. AttackRequest = A3Request
    BY <1>4 DEF AttackRequest
  <2>2. own => A3Object = "own"
    BY DEF A3Object
  <2> QED
    BY <1>4, <2>1, <2>2 DEF A3Request, Request, IsVictims
<1>5. CASE Attack = "A4"
  <2>1. AttackRequest = A4Request
    BY <1>5 DEF AttackRequest
  <2> QED
    BY <1>5, <2>1 DEF A4Request, A4Token, Request, IsAbroad
<1>6. CASE Attack = "A5"
  <2>1. AttackRequest = A5Request
    BY <1>6 DEF AttackRequest
  <2> QED
    BY <1>6, <2>1 DEF A5Request, Request
<1>7. CASE Attack = "A6"
  <2>1. AttackRequest = A6Request
    BY <1>7 DEF AttackRequest
  <2> QED
    BY <1>7, <2>1 DEF A6Request, Request, IsVictims
<1> QED
  BY <1>1, <1>2, <1>3, <1>4, <1>5, <1>6, <1>7

(* An experiment that nothing disturbs. *)
Undisturbed ==
  /\ Settings /\ Selected = Primary /\ down = "nothing"
  /\ suite.warmUps = 10 /\ suite.latency \in Nat

LEMMA CellOfExperiment ==
  ASSUME Undisturbed
  PROVE  /\ Cells[cell].allow = 40
         /\ flags.passthrough => ~flags.risk /\ ~flags.telemetry
         /\ ~flags.passthrough => flags.dpop
         /\ ~flags.passthrough /\ ~flags.binding => cell = "P_minus_device_binding"
         /\ \A q : q.attack # NotAttack => (R7(flags, Declared(q)) <=> flags.oracle)
<1>1. /\ cell \in CellNames /\ Cells[cell].attacks = Primary
      /\ flags = CellFlags(cell, Keep)
  BY DEF Undisturbed, Settings, Selected
<1>2. PICK c : c = cell
  OBVIOUS
<1>3. /\ Cells[c].allow = 40
      /\ flags.passthrough <=> c = "B0"
      /\ flags.dpop <=> c # "B0"
      /\ flags.risk <=> c \notin {"B0", "B1", "B1_oracle", "abl_B1"}
      /\ flags.binding <=> c \notin {"B0", "P_minus_device_binding"}
      /\ flags.telemetry <=> c \notin {"B0", "B1", "B1_oracle", "abl_B1", "P_minus_context"}
      /\ flags.oracle <=> c \in {"B1_oracle", "P_oracle"}
      /\ Cells[c].tag <=> c \in {"B1_oracle", "P_oracle"}
  BY <1>1, <1>2, PrimaryCells
<1>4. \A q : q.attack # NotAttack => (R7(flags, Declared(q)) <=> flags.oracle)
  BY <1>2, <1>3 DEF R7, Declared
<1> QED
  BY <1>2, <1>3, <1>4

(* The n-th attempt is served where the tables say, whatever the attack. *)
LEMMA ServedAsCounted ==
  ASSUME Undisturbed, Roomy, Attack \in Primary, own, Standing, ~Misprinted(Attack),
         ~TokenExpired
  PROVE  Answer(AttackRequest) = "served" <=> GetsThrough(Attack, n)
<1>1. PICK q : q = AttackRequest
  OBVIOUS
<1>2. /\ q.attack = Attack
      /\ Attack \in {"A1", "A3", "A6"} => IsVictims(q)
      /\ Attack # "A5" => q.object = "own"
      /\ q.captured <=> Attack = "A1"
      /\ Attack # "A1" => q.iat = Whole(clock)
      /\ Attack = "A2" => q.token = "V" /\ q.proof = "X"
      /\ Attack = "A4" => IsAbroad(q)
      /\ Attack = "A5" => q.object = "other"
  BY <1>1, RequestsAre
<1>3. Attack \in {"A1", "A2", "A3", "A4", "A5", "A6"} /\ n \in Nat /\ n < 30
  BY DEF Primary, Roomy
<1>4. /\ Cells[cell].allow = 40
      /\ flags.passthrough => ~flags.risk /\ ~flags.telemetry
      /\ ~flags.passthrough => flags.dpop
      /\ ~flags.passthrough /\ ~flags.binding => cell = "P_minus_device_binding"
      /\ R7(flags, Declared(q)) <=> flags.oracle
  <2>1. q.attack # NotAttack
    BY <1>2, <1>3 DEF NotAttack
  <2> QED
    BY <2>1, CellOfExperiment
<1>5. /\ q.object = "own" => (Answer(q) = "served" <=> DecisionFor(q) = "ALLOW")
      /\ Answer(q) = "served" => q.object # "other"
  BY AnswerWhenQuiet DEF Undisturbed
<1>6. Attack \notin {"A4"} =>
        (GetsThrough(Attack, n) <=> ~Barred(Attack))
  BY <1>3 DEF GetsThrough, Opens, Closes
<1>7. CASE Attack \in {"A1", "A2"}
  <2>1. CASE flags.passthrough
    <3>1. DecisionFor(q) = "ALLOW" /\ ~Barred(Attack)
      BY <1>4, <1>7, <2>1 DEF DecisionFor, Barred
    <3> QED
      BY <1>1, <1>2, <1>5, <1>6, <1>7, <3>1
  <2>2. CASE ~flags.passthrough
    <3>1. ProofRefusal(q) # "none"
      BY <1>2, <1>4, <1>7, <2>2 DEF Misprinted, Standing, ProofRefusal, Replayed
    <3>2. DecisionFor(q) = "DENY" /\ Barred(Attack)
      BY <1>7, <2>2, <3>1 DEF DecisionFor, Barred
    <3> QED
      BY <1>1, <1>2, <1>5, <1>6, <1>7, <3>2
  <2> QED
    BY <2>1, <2>2
<1>8. CASE Attack \in {"A3", "A6"}
  <2>1. /\ IsVictims(q) /\ q.object = "own" /\ ~q.captured /\ VictimOnly
        /\ q.iat = Whole(clock) /\ clock \in Nat
    BY <1>2, <1>8 DEF Standing, Roomy
  <2>2. ProofRefusal(q) = "none"
    BY <2>1, JustSigned DEF IsVictims, ProofRefusal, Replayed
  <2>3. Answer(q) = "served" <=>
          flags.passthrough \/ ~flags.risk \/ ~R7(flags, Declared(q))
    BY <1>4, <2>1, <2>2, VictimServed DEF Undisturbed
  <2>4. Barred(Attack) <=> flags.risk /\ flags.oracle
    BY <1>8 DEF Barred
  <2> QED
    BY <1>1, <1>4, <1>6, <1>8, <2>3, <2>4
<1>9. CASE Attack = "A4"
  BY <1>1, <1>2, <1>9, AbroadServed DEF Undisturbed
<1>10. CASE Attack = "A5"
  BY <1>1, <1>2, <1>5, <1>6, <1>10 DEF Barred
<1> QED
  BY <1>3, <1>7, <1>8, <1>9, <1>10

(* A4's next request joins the window and drops nothing of it. *)
LEMMA OverlaidGrows ==
  ASSUME Roomy, Overlaid, Calm, NEW CONSTANT q, IsAbroad(q),
         known' = Remember(known, EventFor(q)),
         n' = n + 1, suite' = suite, clock' = clock + suite.latency
  PROVE  Overlaid'
<1>1. PICK k, e, h, x : /\ k = known /\ e = EventFor(q) /\ h = known.history
                        /\ x = [ts |-> e.ts, geo |-> e.geo, session |-> e.session]
  OBVIOUS
<1>2. e.ts = clock /\ e.geo = "RU" /\ e.session = "X" /\ ~e.failed
  <2>1. /\ ProofRefusal(q) = "none"
        /\ q.context = [geo |-> "RU", session |-> "X", fp |-> "X"]
    BY AbroadProves DEF IsAbroad, From, Roomy
  <2>2. PICK c : c = q.context
    OBVIOUS
  <2>3. c.geo = "RU" /\ c.session = "X"
    BY <2>1, <2>2
  <2>4. e = [ts |-> clock, geo |-> c.geo, session |-> c.session,
             fp |-> c.fp, failed |-> ProofRefusal(q) # "none"]
    BY <1>1, <2>2 DEF EventFor
  <2> QED
    BY <2>1, <2>3, <2>4
<1>3. /\ IsSequence(h) /\ Len(h) = 10 + n /\ Len(h) < MaxLen
      /\ \A i \in 1..Len(h) : ~Expired(h[i], clock)
  BY <1>1, OverlaidStays
<1>4. k.history = h /\ k.failures = 0
  BY <1>1 DEF Calm
<1>5. known'.history = Append(h, x)
  BY <1>1, <1>2, <1>3, <1>4, CollectAppends
<1>6. x.ts = clock /\ x.geo = "RU" /\ x.session = "X"
  BY <1>1, <1>2
<1>7. n \in Nat /\ clock \in Nat /\ suite.latency \in Nat
  BY DEF Roomy
<1>8. PICK r : r = Append(h, x)
  OBVIOUS
<1>9. /\ IsSequence(r) /\ Len(r) = 10 + (n + 1)
      /\ \A i \in 1..(10 + n) : r[i] = h[i]
      /\ r[10 + (n + 1)] = x
  <2>1. /\ IsSequence(Append(h, x)) /\ Len(Append(h, x)) = Len(h) + 1
        /\ \A i \in 1..Len(h) : Append(h, x)[i] = h[i]
        /\ Append(h, x)[Len(h) + 1] = x
    BY <1>3, Appended
  <2>2. Len(h) + 1 = 10 + (n + 1)
    BY <1>3, <1>7
  <2> QED
    BY <1>3, <1>8, <2>1, <2>2
<1> DEFINE b == 10 * (suite.latency + 1) + n * suite.latency
           l == suite.latency
<1>10. /\ b \in Nat /\ l \in Nat /\ clock' = clock + l
       /\ 10 * (suite'.latency + 1) + n' * suite'.latency = b + l
  <2>1. (n + 1) * suite.latency = n * suite.latency + suite.latency
        /\ n * suite.latency \in Nat
    BY <1>7
  <2> QED
    BY <1>7, <2>1
<1>11. \A i \in 1..(10 + n) :
         /\ h[i].geo = IF i <= 10 THEN "AU" ELSE "RU"
         /\ h[i].session = IF i <= 10 THEN "V" ELSE "X"
         /\ h[i].ts \in Nat /\ clock - h[i].ts <= b
  BY <1>1 DEF Overlaid
<1> HIDE DEF b, l
<1>12. ASSUME NEW i \in 1..(10 + (n + 1))
       PROVE  /\ r[i].geo = IF i <= 10 THEN "AU" ELSE "RU"
              /\ r[i].session = IF i <= 10 THEN "V" ELSE "X"
              /\ r[i].ts \in Nat /\ clock' - r[i].ts <= b + l
  <2>1. CASE i \in 1..(10 + n)
    <3>1. r[i] = h[i] /\ h[i].ts \in Nat /\ clock - h[i].ts <= b
      BY <1>9, <1>11, <2>1
    <3>2. clock' - r[i].ts <= b + l
      BY <1>7, <1>10, <3>1
    <3> QED
      BY <1>11, <2>1, <3>1, <3>2
  <2>2. CASE i = 10 + (n + 1)
    <3>1. r[i] = x /\ ~(i <= 10)
      BY <1>7, <1>9, <2>2
    <3>2. clock' - r[i].ts <= b + l
      BY <1>6, <1>7, <1>10, <3>1
    <3> QED
      BY <1>6, <1>7, <3>1, <3>2
  <2> QED
    BY <1>7, <1>12, <2>1, <2>2
<1>13. known'.history = r
  BY <1>5, <1>8
<1> QED
  BY <1>9, <1>10, <1>12, <1>13 DEF Overlaid

(* An attempt leaves the controller where the attack needs it. *)
LEMMA StandingStays ==
  ASSUME Undisturbed, Roomy, Attack \in Primary, own, Standing, ~TokenExpired, Attempt
  PROVE  Standing'
<1>1. PICK q : q = AttackRequest
  OBVIOUS
<1>2. /\ q.attack = Attack
      /\ Attack \in {"A3", "A6"} => IsVictims(q)
      /\ q.captured <=> Attack = "A1"
      /\ Attack # "A1" => q.iat = Whole(clock)
      /\ Attack = "A4" => IsAbroad(q)
  BY <1>1, RequestsAre
<1>3. Attack # "A7" /\ suite.latency \in Nat /\ clock \in Nat
  BY DEF Primary, Undisturbed, Roomy
<1>4. /\ Send(q) /\ Handled(q) /\ n' = n + 1
      /\ todo' = todo /\ suite' = suite /\ flags' = flags
      /\ clock' = clock + suite.latency
  <2>1. /\ Send(q) /\ n' = n + 1 /\ clock' = clock + Elapsed(q) + 0
        /\ todo' = todo /\ suite' = suite /\ flags' = flags
    BY <1>1, <1>3 DEF Attempt, Elsewhere, setup
  <2>2. Handled(q) /\ Elapsed(q) = suite.latency
    BY <2>1, AnswerWhenQuiet DEF Undisturbed
  <2> QED
    BY <1>3, <2>1, <2>2
<1>5. Attack' = Attack
  BY <1>4 DEF Attack
<1>6. clock' \in Nat /\ clock <= clock'
  BY <1>3, <1>4
<1>7. Attack = "A1" => captured'
  BY <1>2, <1>4 DEF Handled, Collected
<1>8. Attack \in {"A3", "A6"} => VictimOnly'
  <2> SUFFICES ASSUME Attack \in {"A3", "A6"} PROVE VictimOnly'
    OBVIOUS
  <2>1. VictimOnly /\ IsVictims(q) /\ ~q.captured /\ q.iat = Whole(clock)
    BY <1>2 DEF Standing
  <2>2. ProofRefusal(q) = "none"
    BY <1>3, <2>1, JustSigned DEF IsVictims, ProofRefusal, Replayed
  <2> QED
    BY <1>3, <1>4, <1>6, <2>1, <2>2, VictimStays
<1>9. ASSUME Attack = "A4", ~flags.passthrough
      PROVE  /\ Calm'
             /\ flags.binding => registry'[User] = {"V"}
             /\ flags.telemetry => Overlaid'
  <2>1. /\ Calm /\ IsAbroad(q) /\ ProofRefusal(q) = "none"
        /\ flags.binding => registry[User] = {"V"}
        /\ flags.telemetry => Overlaid
    BY <1>2, <1>3, <1>9, AbroadProves DEF Standing
  <2>2. /\ known' = IF flags.telemetry THEN Remember(known, EventFor(q)) ELSE known
        /\ flags.binding => registry' = Observed(registry, User, q.token)
    BY <1>4, <1>9, <2>1 DEF Handled, Collected
  <2>3. Calm'
    <3>1. CASE flags.telemetry
      BY <2>1, <2>2, <3>1, CalmCollected
    <3>2. CASE ~flags.telemetry
      BY <2>1, <2>2, <3>2 DEF Calm
    <3> QED
      BY <3>1, <3>2
  <2>4. flags.binding => registry'[User] = {"V"}
    <3>1. flags.binding => registry' = registry
      BY <2>1, <2>2 DEF Observed
    <3> QED
      BY <2>1, <3>1
  <2>5. flags.telemetry => Overlaid'
    BY <1>4, <2>1, <2>2, OverlaidGrows
  <2> QED
    BY <2>3, <2>4, <2>5
<1> QED
  BY <1>4, <1>5, <1>7, <1>8, <1>9 DEF Standing

(* The warm-up leaves it there. *)
LEMMA StandingAtFirst ==
  ASSUME Undisturbed, ~TokenExpired, BlameInv, BaselineInv, BaselineInv', faults = 0,
         Prepare, Attack \in Primary
  PROVE  Standing'
<1>1. /\ pc = "warm_up" /\ n = suite.warmUps /\ n' = 0 /\ pc' = "attack"
      /\ todo' = todo /\ suite' = suite /\ flags' = flags /\ faults' = faults
  BY DEF Prepare, Elsewhere, setup
<1>2. Attack' = Attack
  BY <1>1 DEF Attack
<1>3. CASE Attack = "A1"
  <2>1. PICK q : q = CapturedRequest
    OBVIOUS
  <2>2. Send(q) /\ q.captured
    BY <1>3, <2>1 DEF Prepare, CapturedRequest, WarmUpRequest, Request, NotAttack
  <2>3. Handled(q)
    BY <2>2, AnswerWhenQuiet DEF Undisturbed
  <2>4. captured'
    BY <2>2, <2>3 DEF Handled, Collected
  <2> QED
    BY <1>2, <1>3, <2>4 DEF Standing
<1>4. CASE Attack # "A1"
  <2>1. UNCHANGED <<known, registry, clock>>
    BY <1>4 DEF Prepare, trust
  <2>2. VictimOnly
    BY <1>1 DEF BlameInv
  <2>3. VictimOnly'
    BY <2>1, <2>2 DEF VictimOnly, HistoryOf, Calm
  <2>4. ASSUME Attack = "A4", ~flags.passthrough
        PROVE  /\ Calm'
               /\ flags.binding => registry'[User] = {"V"}
               /\ flags.telemetry => Overlaid'
    <3>1. Warmed /\ n = 10
      BY <1>1, <2>4 DEF BaselineInv, Fresh, Undisturbed
    <3>2. flags.binding => registry'[User] = {"V"}
      BY <2>1, <3>1 DEF Warmed
    <3>3. ASSUME flags.telemetry
          PROVE  Overlaid'
      <4>1. PICK h : h = known.history
        OBVIOUS
      <4>2. /\ IsSequence(h) /\ Len(h) = 10
            /\ \A i \in 1..10 : /\ h[i].session = "V" /\ h[i].ts \in Nat
                                /\ clock - h[i].ts <= 10 * (suite.latency + 1)
        BY <3>1, <3>3, <4>1 DEF Warmed
      <4>3. \A i \in 1..10 : h[i].geo = "AU"
        <5>1. h \in Seq(Entries("AU", "V"))
          BY <2>2, <4>1 DEF VictimOnly, HistoryOf
        <5>2. \A i \in 1..10 : h[i] \in Entries("AU", "V")
          BY <4>2, <5>1, ElementOfSeq
        <5> QED
          BY <5>2 DEF Entries
      <4>4. /\ known'.history = h /\ clock' = clock /\ n' = 0 /\ suite' = suite
            /\ 10 * (suite.latency + 1) + 0 * suite.latency = 10 * (suite.latency + 1)
            /\ 10 + 0 = 10
        BY <1>1, <2>1, <4>1 DEF Undisturbed
      <4> QED
        BY <4>2, <4>3, <4>4 DEF Overlaid
    <3>4. Calm'
      BY <2>3 DEF VictimOnly
    <3> QED
      BY <3>2, <3>3, <3>4
  <2> QED
    BY <1>1, <1>2, <1>4, <2>3, <2>4 DEF Standing
<1> QED
  BY <1>3, <1>4

(* A finished attack takes the next place. *)
LEMMA SaveShelves ==
  ASSUME StageInv, IsSequence(files), Shelved, ResultGrows, Save
  PROVE  Shelved'
<1>1. /\ pc = "attack" /\ pc \in Busy /\ files' = Append(files, result)
      /\ todo' = todo \ {Attack}
  BY DEF Save, Busy
<1>2. PICK a, s, r, l : a = Attack /\ s = files /\ r = result /\ l = Len(files)
  OBVIOUS
<1>3. /\ a \in todo /\ a \in Seven /\ r.attack = a
      /\ \A b \in todo : b # a => Place[a] < Place[b]
  BY <1>1, <1>2, AttackAtHand DEF ResultGrows
<1>4. /\ todo = {b \in Primary : Place[b] > l}
      /\ \A i \in DOMAIN s : s[i].attack \in Primary /\ Place[s[i].attack] = i
  BY <1>2 DEF Shelved
<1>5. /\ l \in Nat /\ DOMAIN s = 1..l
      /\ Len(Append(s, r)) = l + 1 /\ DOMAIN Append(s, r) = 1..(l + 1)
      /\ \A i \in 1..l : Append(s, r)[i] = s[i]
      /\ Append(s, r)[l + 1] = r
  BY <1>2, Appended
<1>6. /\ \A b \in Primary : Place[b] \in 1..6
      /\ \A b, c \in Primary : Place[b] = Place[c] => b = c
      /\ \A i \in 1..6 : \E b \in Primary : Place[b] = i
  BY DEF Place, Primary
<1>7. a \in Primary /\ Place[a] = l + 1
  <2>1. a \in Primary /\ Place[a] \in 1..6 /\ Place[a] > l
    BY <1>3, <1>4, <1>6
  <2>2. PICK b \in Primary : Place[b] = l + 1
    BY <1>5, <1>6, <2>1
  <2>3. b \in todo
    BY <1>4, <1>5, <2>2
  <2> QED
    BY <1>3, <1>5, <2>1, <2>2, <2>3
<1>8. todo \ {a} = {b \in Primary : Place[b] > l + 1}
  BY <1>4, <1>5, <1>6, <1>7
<1>9. \A i \in 1..(l + 1) :
        LET f == Append(s, r)[i] IN f.attack \in Primary /\ Place[f.attack] = i
  BY <1>3, <1>4, <1>5, <1>7
<1>10. PICK t : t = Append(s, r)
  OBVIOUS
<1>11. /\ files' = t /\ Len(t) = l + 1 /\ DOMAIN t = 1..(l + 1)
       /\ todo' = {b \in Primary : Place[b] > l + 1}
       /\ \A i \in 1..(l + 1) : t[i].attack \in Primary /\ Place[t[i].attack] = i
  BY <1>1, <1>2, <1>5, <1>8, <1>9, <1>10
<1> QED
  BY <1>11 DEF Shelved

(* The cell and its flags settle which attempts get through. *)
LEMMA SameCounts ==
  ASSUME UNCHANGED setup, NEW CONSTANT a, NEW CONSTANT m
  PROVE  /\ Through(a, m)' = Through(a, m)
         /\ Misprinted(a)' <=> Misprinted(a)
BY DEF Through, Barred, Opens, Closes, Misprinted, setup

LEMMA SameFiles ==
  ASSUME UNCHANGED <<setup, files>>, FilesCounted
  PROVE  FilesCounted'
BY DEF FilesCounted, Through, Barred, Opens, Closes, Misprinted, setup

(* The experiment that an experiment's state belongs to. *)
LEMMA InExperiment ==
  ASSUME StageInv, Settings, BaselineInv, Selected = Primary, AsInExperiments, AttackFits,
         TokenLasts
  PROVE  /\ Undisturbed /\ suite.repetitions = 30
         /\ pc \in {"warm_up", "attack"} => ~TokenExpired
         /\ n < 30 => Roomy
         /\ pc \in Busy => Attack \in Primary
<1>1. suite \in Suites /\ suite.latency \in Nat /\ n \in Nat /\ Cells[suite.cell].attacks = Primary
  BY SelectedIsSome DEF StageInv, Selected
<1>2. /\ 10 * (suite.latency + 1) + 30 * suite.latency <= Window
      /\ 10 + 30 < MaxLen
  BY <1>1 DEF AttackFits, AsInExperiments
<1>3. Undisturbed /\ suite.repetitions = 30
  BY <1>1 DEF Undisturbed, AsInExperiments, BaselineInv, LiveInv, InTime
<1>4. 40 < MaxLen
  BY <1>2
<1>5. n < 30 => Roomy
  BY <1>1, <1>2, <1>4 DEF Roomy, Settings
<1>6. pc \in Busy => Attack \in Primary
  BY AttackAtHand DEF StageInv
<1>7. pc \in {"warm_up", "attack"} => ~TokenExpired
  BY TokenIsAlive DEF BaselineInv, AsInExperiments
<1> QED
  BY <1>3, <1>5, <1>6, <1>7

(* The warm-up finds the victim's account at its first request. *)
LEMMA WarmUpServed ==
  ASSUME Undisturbed, VictimOnly, ~TokenExpired
  PROVE  Answer(WarmUpRequest) = "served"
<1>1. PICK q : q = WarmUpRequest
  OBVIOUS
<1>2. /\ IsVictims(q) /\ q.object = "own" /\ ~q.captured /\ q.attack = NotAttack
      /\ q.iat = Whole(clock)
  BY <1>1 DEF WarmUpRequest, Request, IsVictims, NotAttack
<1>3. ProofRefusal(q) = "none"
  BY <1>2, JustSigned DEF ProofRefusal, Replayed, IsVictims, Undisturbed, Settings
<1>4. ~R7(flags, Declared(q))
  BY <1>2 DEF R7, Declared
<1>5. Cells[cell].allow = 40
  BY CellOfExperiment
<1> QED
  BY <1>1, <1>2, <1>3, <1>4, <1>5, VictimServed DEF Undisturbed

(* An attempt adds to the successes what it adds to the span. *)
LEMMA AttemptCounts ==
  ASSUME Undisturbed, Roomy, Attack \in Primary, own, Standing, ~TokenExpired, Attempt,
         DOMAIN result = Fields, ~Misprinted(Attack),
         result.successes = Through(Attack, n)
  PROVE  result'.successes = Through(Attack, n + 1)
<1>1. PICK r, c, a, m : r = result /\ c = Answer(AttackRequest) /\ a = Attack /\ m = n
  OBVIOUS
<1>2. result' = Tallied(r, c)
  BY <1>1 DEF Attempt
<1>3. c = "served" <=> GetsThrough(a, m)
  BY <1>1, ServedAsCounted
<1>4. m \in Nat /\ r.successes = Through(a, m) /\ DOMAIN r = Fields
  BY <1>1 DEF Roomy
<1>5. /\ Through(a, m) \in Nat
      /\ Through(a, m + 1) = Through(a, m) + (IF GetsThrough(a, m) THEN 1 ELSE 0)
  BY <1>4, ThroughCounts
<1>6. Tallied(r, c).successes = IF c = "served" THEN r.successes + 1 ELSE r.successes
  <2>1. {"attack", "attempts", "successes", "errors", "detected", "stage", "first"} \subseteq DOMAIN r
    BY <1>4 DEF Fields
  <2> QED
    BY <2>1 DEF Tallied
<1>7. result'.successes = Through(a, m + 1)
  BY <1>2, <1>3, <1>4, <1>5, <1>6
<1> QED
  BY <1>1, <1>7

LEMMA CountInitial ==
  ASSUME Init
  PROVE  CountInv
<1>1. /\ pc = "reset" /\ todo = Selected /\ files = <<>>
  BY DEF Init
<1>2. DOMAIN files = {} /\ Len(files) = 0
  BY <1>1
<1>3. \A a \in Primary : Place[a] > 0
  BY DEF Place, Primary
<1>4. Selected = Primary => Shelved
  BY <1>1, <1>2, <1>3 DEF Shelved
<1>5. Counted
  BY <1>1, <1>2 DEF Counted, FilesCounted
<1> QED
  BY <1>4, <1>5, BlameInitial, BaselineInitial DEF CountInv

(* The invocation stays what it is, and a fault is not undone. *)
LEMMA StaysExperiment ==
  ASSUME faults \in Nat, [Next]_vars
  PROVE  /\ UNCHANGED setup /\ suite' = suite
         /\ faults' = 0 => faults = 0 /\ faults' = faults
<1> USE DEF Elsewhere, Abort
<1>1. CASE ResetState \/ Login \/ WarmUp
  BY <1>1 DEF ResetState, Login, WarmUp
<1>2. CASE ResetFails \/ LoginFails \/ PrepareFails
  BY <1>2 DEF ResetFails, LoginFails, PrepareFails
<1>3. CASE Prepare \/ Attempt
  BY <1>3 DEF Prepare, Attempt
<1>4. CASE Save \/ Summarise \/ Mend
  BY <1>4 DEF Save, Summarise, Mend
<1>5. CASE Break
  <2>1. faults \in Nat /\ faults' = faults + 1 /\ UNCHANGED setup /\ suite' = suite
    BY <1>5 DEF Break
  <2> QED
    BY <2>1
<1>6. CASE UNCHANGED vars
  BY <1>6 DEF vars
<1> QED
  BY <1>1, <1>2, <1>3, <1>4, <1>5, <1>6 DEF Next

LEMMA ShelvedStep ==
  ASSUME BlameInv, Shelved, [Next]_vars
  PROVE  Shelved'
<1>1. CASE Save
  BY <1>1, SaveShelves DEF BlameInv, SummaryInv, FilesInOrder
<1>2. CASE ~Save
  <2>1. UNCHANGED <<todo, files>>
    BY <1>2 DEF Next, ResetState, ResetFails, Login, LoginFails, WarmUp, Prepare,
         PrepareFails, Attempt, Summarise, Break, Mend, Abort, vars
  <2> QED
    BY <2>1 DEF Shelved
<1> QED
  BY <1>1, <1>2

(* The steps of an experiment. *)
LEMMA CountedStep ==
  ASSUME CountInv, BaselineInv', Selected = Primary, AsInExperiments, faults' = 0,
         AttackFits, TokenLasts, [Next]_vars
  PROVE  Counted'
<1>0. /\ StageInv /\ Settings /\ BlameInv /\ BaselineInv /\ Counted /\ faults = 0
      /\ Shelved
  BY DEF CountInv, BlameInv, SummaryInv, AsInExperiments
<1>1. /\ Undisturbed /\ suite.repetitions = 30
      /\ pc \in {"warm_up", "attack"} => ~TokenExpired
      /\ n < 30 => Roomy
      /\ pc \in Busy => Attack \in Primary
  BY <1>0, InExperiment
<1>2. UNCHANGED setup /\ suite' = suite
  BY <1>0, StaysExperiment DEF BaselineInv, LiveInv
<1>3. files' = files => FilesCounted'
  BY <1>0, <1>2, SameFiles DEF Counted
<1>4. CASE ResetState
  BY <1>3, <1>4 DEF ResetState, Counted
<1>5. CASE ResetFails \/ LoginFails \/ PrepareFails
  BY <1>3, <1>5 DEF ResetFails, LoginFails, PrepareFails, Abort, Counted
<1>6. CASE Login
  BY <1>3, <1>6 DEF Login, Counted
<1>7. CASE WarmUp
  <2>1. /\ pc = "warm_up" /\ pc' = pc /\ files' = files
        /\ own' = (own \/ Answer(WarmUpRequest) = "served")
    BY <1>7 DEF WarmUp
  <2>2. own'
    BY <1>0, <1>1, <2>1, WarmUpServed DEF BlameInv
  <2> QED
    BY <1>3, <2>1, <2>2 DEF Counted
<1>8. CASE Prepare
  <2>1. /\ pc = "warm_up" /\ n = 10 /\ pc' = "attack" /\ n' = 0 /\ own' = own
        /\ files' = files /\ todo' = todo /\ result' = NewResult(Attack)
    BY <1>8 DEF Prepare, AsInExperiments
  <2>2. own' /\ Attack \in Primary
    BY <1>0, <1>1, <2>1 DEF Counted, Busy
  <2>3. Standing'
    BY <1>0, <1>1, <1>8, <2>1, <2>2, StandingAtFirst
  <2>4. PICK a : a = Attack
    OBVIOUS
  <2>5. Attack' = a
    BY <2>1, <2>4 DEF Attack
  <2>6. Through(a, 0)' = Through(a, 0) /\ Through(a, 0) = 0
    BY <1>2, SameCounts, ThroughCounts
  <2>7. result'.successes = 0
    BY <2>1 DEF NewResult
  <2>8. result'.successes = Through(Attack, n)'
    BY <2>1, <2>5, <2>6, <2>7, Zenon
  <2> QED
    BY <1>3, <2>1, <2>2, <2>3, <2>8 DEF Counted
<1>9. CASE Attempt
  <2>1. /\ pc = "attack" /\ pc' = pc /\ n < 30 /\ n' = n + 1 /\ own' = own
        /\ files' = files /\ todo' = todo
    BY <1>1, <1>9 DEF Attempt
  <2>2. /\ own /\ Standing /\ Attack \in Primary /\ Roomy /\ DOMAIN result = Fields
        /\ ~TokenExpired
        /\ ~Misprinted(Attack) => result.successes = Through(Attack, n)
    BY <1>0, <1>1, <2>1 DEF Counted, Busy, BlameInv, SummaryInv, ResultGrows
  <2>3. Standing'
    BY <1>1, <1>9, <2>2, StandingStays
  <2>4. PICK a, m : a = Attack /\ m = n + 1
    OBVIOUS
  <2>5. Attack' = a /\ n' = m
    BY <2>1, <2>4 DEF Attack
  <2>6. ~Misprinted(a) => result'.successes = Through(a, m)
    BY <1>1, <1>9, <2>2, <2>4, AttemptCounts
  <2>7. Through(a, m)' = Through(a, m) /\ (Misprinted(a)' <=> Misprinted(a))
    BY <1>2, SameCounts
  <2>8. ~Misprinted(Attack)' => result'.successes = Through(Attack, n)'
    BY <2>5, <2>6, <2>7
  <2> QED
    BY <1>3, <2>1, <2>2, <2>3, <2>8 DEF Counted
<1>10. CASE Save
  <2>1. /\ pc = "attack" /\ n = 30 /\ pc' \in {"summarise", "reset"}
        /\ files' = Append(files, result)
    BY <1>1, <1>10 DEF Save
  <2>2. PICK s, r : s = files /\ r = result
    OBVIOUS
  <2>3. /\ IsSequence(s) /\ r.attack = Attack
        /\ ~Misprinted(r.attack) => r.successes = Through(r.attack, 30)
        /\ \A i \in DOMAIN s :
             ~Misprinted(s[i].attack) => s[i].successes = Through(s[i].attack, 30)
    BY <1>0, <2>1, <2>2
    DEF BlameInv, SummaryInv, FilesInOrder, ResultGrows, Counted, FilesCounted
  <2>4. PICK t : t = Append(s, r)
    OBVIOUS
  <2>5. \A i \in DOMAIN t :
          ~Misprinted(t[i].attack) => t[i].successes = Through(t[i].attack, 30)
    <3>1. /\ DOMAIN s = 1..Len(s) /\ Len(s) \in Nat
          /\ DOMAIN t = 1..(Len(s) + 1)
          /\ \A i \in 1..Len(s) : t[i] = s[i]
          /\ t[Len(s) + 1] = r
      BY <2>3, <2>4, Appended
    <3>2. \A i \in 1..(Len(s) + 1) : i \in 1..Len(s) \/ i = Len(s) + 1
      BY <3>1
    <3> QED
      BY <2>3, <3>1, <3>2
  <2>6. files' = t
    BY <2>1, <2>2, <2>4
  <2>7. FilesCounted'
    BY <1>2, <2>5, <2>6 DEF FilesCounted, Through, Barred, Opens, Closes, Misprinted, setup
  <2> QED
    BY <2>1, <2>7 DEF Counted
<1>11. CASE Summarise
  BY <1>3, <1>11 DEF Summarise, Counted
<1>12. CASE Break
  <2>1. faults' = faults + 1
    BY <1>12 DEF Break
  <2> QED
    BY <1>0, <2>1
<1>13. CASE Mend
  BY <1>1, <1>13 DEF Mend, Undisturbed
<1>14. CASE UNCHANGED vars
  <2>1. UNCHANGED <<pc, n, own, todo, suite, flags, known, registry, captured, clock,
                    files, result>>
    BY <1>14 DEF vars, setup, trust
  <2>2. Attack' = Attack
    BY <2>1 DEF Attack
  <2>3. Standing' <=> Standing
    BY <2>1, <2>2 DEF Standing, VictimOnly, HistoryOf, Calm, Overlaid
  <2>4. PICK a, m : a = Attack /\ m = n
    OBVIOUS
  <2>5. Through(a, m)' = Through(a, m) /\ (Misprinted(a)' <=> Misprinted(a))
    BY <1>2, SameCounts
  <2>6. /\ Through(Attack, n)' = Through(Attack, n)
        /\ Misprinted(Attack)' <=> Misprinted(Attack)
    BY <2>1, <2>2, <2>4, <2>5
  <2> QED
    BY <1>0, <1>3, <2>1, <2>3, <2>6 DEF Counted
<1> QED
  BY <1>4, <1>5, <1>6, <1>7, <1>8, <1>9, <1>10, <1>11, <1>12, <1>13, <1>14 DEF Next

LEMMA CountStep ==
  ASSUME CountInv, WarmUpFits, AttackFits, TokenLasts, [Next]_vars
  PROVE  CountInv'
<1>1. BlameInv /\ BaselineInv /\ BlameInv' /\ BaselineInv'
  BY BlameStep, BaselineStep DEF CountInv
<1>2. /\ Selected' = Selected /\ suite' = suite
      /\ AsInExperiments' => AsInExperiments /\ faults' = 0
  BY <1>1, StaysExperiment DEF Selected, setup, AsInExperiments, BaselineInv, LiveInv
<1>3. Selected' = Primary => Shelved'
  BY <1>1, <1>2, ShelvedStep DEF CountInv
<1>4. Selected' = Primary /\ AsInExperiments' => Counted'
  BY <1>1, <1>2, CountedStep
<1> QED
  BY <1>1, <1>3, <1>4 DEF CountInv

(* The summary is the files, in the places of their attacks. *)
LEMMA CountsFollow ==
  ASSUME CountInv
  PROVE  OutcomesAsPublished
<1> SUFFICES ASSUME AsInExperiments, NEW i \in DOMAIN summary,
                    summary[i].attack # "A7",
                    <<cell, summary[i].attack>> # <<"P_minus_device_binding", "A2">>
             PROVE  summary[i].successes = Published[cell][i]
  BY DEF OutcomesAsPublished
<1>1. summary = files /\ i \in DOMAIN files
  <2>1. summary = <<>> \/ summary = files
    BY DEF CountInv, BlameInv, SummaryInv
  <2>2. DOMAIN <<>> = {}
    OBVIOUS
  <2> QED
    BY <2>1, <2>2
<1>2. PICK a, f : f = files[i] /\ a = f.attack
  OBVIOUS
<1>3. a \in Selected /\ Settings
  BY <1>1, <1>2 DEF CountInv, BlameInv, SummaryInv, FilesInOrder
<1>4. a # "A7" /\ ~Misprinted(a)
  BY <1>1, <1>2 DEF Misprinted
<1>5. Selected = Primary
  <2>1. PICK c : c = cell
    OBVIOUS
  <2>2. Cells[c].attacks \in {Primary, {"A7"}, {}}
    BY <1>3, <2>1, CellRuns DEF Settings
  <2> QED
    BY <1>3, <1>4, <2>1, <2>2 DEF Selected
<1>6. Shelved /\ Counted
  BY <1>5 DEF CountInv
<1>7. a \in Primary /\ Place[a] = i
  BY <1>1, <1>2, <1>6 DEF Shelved
<1>8. f.successes = Through(a, 30)
  BY <1>1, <1>2, <1>4, <1>6 DEF Counted, FilesCounted
<1>9. Through(a, 30) = Published[cell][Place[a]]
  BY <1>3, <1>4, <1>5, <1>7, PublishedIsThrough
<1> QED
  BY <1>1, <1>2, <1>7, <1>8, <1>9

(* The success counts of data/tables 1, 1b and 5 are the ones that the      *)
(* pipeline, the rules, the sliding window and the harness's own traffic    *)
(* give, in every cell, for any window and any latency at which a warm-up   *)
(* and an attack fit in the window and in the token's life: A4's count is   *)
(* how long its requests take to be half of the window and then more than   *)
(* thirty, and no other attack's depends on the attacks before it.          *)
THEOREM CountsAsPublished ==
  ASSUME WarmUpFits, AttackFits, TokenLasts
  PROVE  Spec => []OutcomesAsPublished
<1>1. Init => CountInv
  BY CountInitial
<1>2. CountInv /\ [Next]_vars => CountInv'
  BY CountStep, WarmUpFits, AttackFits, TokenLasts
<1>3. CountInv => OutcomesAsPublished
  BY CountsFollow
<1> QED
  BY <1>1, <1>2, <1>3, PTL DEF Spec

-----------------------------------------------------------------------------
(* The unknown device.  Wherever the unknown-device rule fires, its weight  *)
(* leaves room for no other rule below 0.40.                                *)
LEMMA ScoreAlone ==
  ASSUME NEW f, NEW checks, NEW device, NEW s, NEW declared, R2(f, device, s)
  PROVE  LET x == Score(f, checks, device, s, declared)
         IN /\ x \in Int /\ x >= 35
            /\ x < 40 <=> /\ ~R1(f, checks) /\ ~R3(s) /\ ~R4(f, s)
                          /\ ~R5(s) /\ ~R6(s) /\ ~R7(f, declared)
<1> DEFINE p1 == Penalty(R1(f, checks), 80)
           p2 == Penalty(R2(f, device, s), 35)
           p3 == Penalty(R3(s), 60)
           p4 == Penalty(R4(f, s), 25)
           p5 == Penalty(R5(s), 20)
           p6 == Penalty(R6(s), 20)
           p7 == Penalty(R7(f, declared), 90)
<1>1. /\ p1 = IF R1(f, checks) THEN 80 ELSE 0
      /\ p2 = 35
      /\ p3 = IF R3(s) THEN 60 ELSE 0
      /\ p4 = IF R4(f, s) THEN 25 ELSE 0
      /\ p5 = IF R5(s) THEN 20 ELSE 0
      /\ p6 = IF R6(s) THEN 20 ELSE 0
      /\ p7 = IF R7(f, declared) THEN 90 ELSE 0
  BY DEF Penalty
<1>2. Score(f, checks, device, s, declared) = Cap(p1 + p2 + p3 + p4 + p5 + p6 + p7)
  BY DEF Score, TotalPenalty
<1> HIDE DEF p1, p2, p3, p4, p5, p6, p7
<1> QED
  BY <1>1, <1>2 DEF Cap

LEMMA ScoringIsNotB0 ==
  ASSUME Settings, flags.risk
  PROVE  ~flags.passthrough
<1>1. PICK c : c = cell
  OBVIOUS
<1>2. /\ flags = CellFlags(c, Keep) /\ c \in CellNames
  BY <1>1 DEF Settings
<1>3. LET f == CellFlags(c, Keep)
      IN (f.risk <=> Cells[c].mode = "P") /\ (f.passthrough <=> Cells[c].mode = "B0")
  BY <1>2, FlagsOfCell
<1> QED
  BY <1>2, <1>3

(* A request of an adversary with a key of their own. *)
IsOwnKey(q) ==
  /\ q.token = "X" /\ q.proof = "X" /\ ~q.captured /\ q.object = "own"
  /\ q.iat = Whole(clock)

LEMMA OwnKeyServed ==
  ASSUME Settings, flags.risk, flags.binding, down = "nothing", registry[User] = {"V"},
         NEW q, IsOwnKey(q)
  PROVE  (DecisionFor(q) = "ALLOW" /\ CauseFor(q) = "served")
           <=> (RulesOf(q) = {"R2"} /\ threshold.allow > 35)
<1> DEFINE s == SignalsFor(q)
           x == Score(flags, ChecksFor(q), DeviceKnownFor(q), s, Declared(q))
<1>1. ~flags.passthrough /\ threshold.allow \in {30, 40} /\ threshold.deny = 70
  BY ScoringIsNotB0, KnownSettings
<1>2. q.proof = q.token /\ q.token = "X" /\ q.object = "own" /\ ProofRefusal(q) = "none"
  BY JustSigned DEF IsOwnKey, ProofRefusal, Replayed, Settings
<1>3. Scored(q) /\ RiskOf(q) = x
  BY <1>1, <1>2 DEF Scored, RiskOf
<1>4. ~DenyHard(flags, ChecksFor(q))
  BY <1>2, SoundChecks
<1>5. R2(flags, DeviceKnownFor(q), s)
  <2>1. ~KnownDevice(registry, User, "X")
    BY DEF KnownDevice, Verifiable, User, NoSubject, NoKey
  <2>2. ~DeviceKnownFor(q)
    BY <1>2, <2>1 DEF DeviceKnownFor, DeviceKnown
  <2> QED
    BY <2>2 DEF R2
<1>6. /\ x \in Int /\ x >= 35
      /\ x < 40 <=> /\ ~R1(flags, ChecksFor(q)) /\ ~R3(s) /\ ~R4(flags, s)
                    /\ ~R5(s) /\ ~R6(s) /\ ~R7(flags, Declared(q))
  BY <1>5, ScoreAlone
<1>7. x < 40 <=> RulesOf(q) = {"R2"}
  BY <1>3, <1>5, <1>6 DEF RulesOf
<1> HIDE DEF x
<1>8. DecisionFor(q) = DecideLocal(x, threshold)
  BY <1>3, <1>4, <1>6, DecisionByScore
<1>9. DecisionFor(q) = "ALLOW" <=> x < threshold.allow
  BY <1>1, <1>6, <1>8 DEF DecideLocal
<1>10. DecisionFor(q) = "ALLOW" => CauseFor(q) = "served"
  BY <1>2 DEF CauseFor
<1> QED
  BY <1>1, <1>6, <1>7, <1>9, <1>10

(* The adversary's attempts of A4 and A7. *)
LEMMA OwnKeyRequests ==
  ASSUME Attack \in Seven
  PROVE  /\ Attack \in {"A4", "A7"} => IsOwnKey(AttackRequest)
         /\ AttackRequest.attack = Attack /\ AttackRequest.token \in {"V", "X"}
<1>1. /\ IsOwnKey(A4Request) /\ IsOwnKey(A7Request)
      /\ {A1Request.token, A2Request.token, A3Request.token, A4Request.token,
          A5Request.token, A6Request.token, A7Request.token} \subseteq {"V", "X"}
  BY DEF A1Request, A2Request, A3Request, A4Request, A5Request, A6Request, A7Request,
         A4Token, Request, IsOwnKey
<1>2. /\ Attack = "A4" => AttackRequest = A4Request
      /\ Attack = "A7" => AttackRequest = A7Request
      /\ AttackRequest \in {A1Request, A2Request, A3Request, A4Request, A5Request,
                            A6Request, A7Request}
  BY DEF AttackRequest, Seven
<1> QED
  BY <1>1, <1>2, RequestIsLabelled

(* The first key is the victim's, and it remains the only one. *)
LEMMA KeyStays ==
  ASSUME registry[User] = {"V"}, NEW q, Send(q)
  PROVE  registry'[User] = {"V"}
<1>1. registry' = registry \/ registry' = Observed(registry, User, q.token)
  BY DEF Send, Unreached, Handled, Collected, trust
<1>2. Observed(registry, User, q.token) = registry
  BY DEF Observed
<1> QED
  BY <1>1, <1>2

LEMMA WarmUpEnrols ==
  ASSUME VictimOnly, clock \in Nat, flags.binding, ~flags.passthrough,
         Handled(WarmUpRequest)
  PROVE  registry'[User] = {"V"}
<1>1. PICK q : q = WarmUpRequest
  OBVIOUS
<1>2. q.token = "V" /\ ProofRefusal(q) = "none"
  <2>1. q.token = "V" /\ q.proof = "V" /\ ~q.captured /\ q.iat = Whole(clock)
    BY <1>1 DEF WarmUpRequest, Request, NotAttack
  <2> QED
    BY <2>1, JustSigned DEF ProofRefusal, Replayed
<1>3. registry' = Observed(registry, User, "V")
  BY <1>1, <1>2 DEF Handled, Collected
<1>4. registry \in [{User} -> SUBSET {"V"}]
  BY DEF VictimOnly
<1>5. registry[User] = {} \/ registry[User] = {"V"}
  BY <1>4
<1>6. Verifiable(User, "V")
  BY DEF Verifiable, User, NoSubject, NoKey
<1> QED
  BY <1>3, <1>4, <1>5, <1>6 DEF Observed

(* What the records say of A4 and A7. *)
SaysAlone(r) ==
  r.attack \in {"A4", "A7"} =>
    (r.succeeded <=> r.rules = {"R2"} /\ threshold.allow > 35)

Alone == IsSequence(log) /\ \A i \in DOMAIN log : SaysAlone(log[i])

LEMMA SaysSame ==
  ASSUME UNCHANGED <<setup, log>>, Alone
  PROVE  Alone'
BY DEF Alone, SaysAlone, setup

LEMMA RecordedAlone ==
  ASSUME Alone, UNCHANGED setup, NEW q, Send(q),
         Settings, flags.risk, flags.binding, down = "nothing",
         q.attack \in {"A4", "A7"} => IsOwnKey(q) /\ registry[User] = {"V"}
  PROVE  Alone'
<1>1. PICK new : log' = Append(log, new) /\ new \in {Recorded(q), TokenRefused(q)}
  BY DEF Send, Unreached, Handled
<1>2. SaysAlone(Recorded(q))
  <2>1. /\ Recorded(q).attack = q.attack /\ Recorded(q).rules = RulesOf(q)
        /\ Recorded(q).succeeded = (DecisionFor(q) = "ALLOW" /\ CauseFor(q) = "served")
    BY DEF Recorded, RecordFor
  <2> QED
    BY <2>1, OwnKeyServed DEF SaysAlone
<1>3. SaysAlone(new)
  <2>1. TokenRefused(q).rules = {} /\ TokenRefused(q).succeeded = FALSE
    BY DEF TokenRefused, RecordFor
  <2> QED
    BY <1>1, <1>2, <2>1 DEF SaysAlone
<1>4. PICK s, r, t : s = log /\ r = new /\ t = Append(s, r)
  OBVIOUS
<1>5. IsSequence(s) /\ SaysAlone(r) /\ \A i \in DOMAIN s : SaysAlone(s[i])
  BY <1>3, <1>4 DEF Alone
<1>6. IsSequence(t) /\ \A i \in DOMAIN t : SaysAlone(t[i])
  <2>1. /\ IsSequence(t) /\ DOMAIN s = 1..Len(s) /\ Len(s) \in Nat
        /\ DOMAIN t = 1..(Len(s) + 1)
        /\ \A i \in 1..Len(s) : t[i] = s[i]
        /\ t[Len(s) + 1] = r
    BY <1>4, <1>5, Appended
  <2>2. \A i \in 1..(Len(s) + 1) : i \in 1..Len(s) \/ i = Len(s) + 1
    BY <2>1
  <2> QED
    BY <1>5, <2>1, <2>2
<1>7. log' = t
  BY <1>1, <1>4
<1> QED
  BY <1>6, <1>7 DEF Alone, SaysAlone, setup

-----------------------------------------------------------------------------
KeyEnrolled ==
  /\ pc = "warm_up" => n = 0 \/ registry[User] = {"V"}
  /\ pc = "attack" => registry[User] = {"V"}

AloneInv ==
  /\ BlameInv /\ LiveInv
  /\ flags.risk /\ flags.binding /\ faults = 0 /\ suite.warmUps > 0 => KeyEnrolled /\ Alone

LEMMA AloneInitial ==
  ASSUME Init
  PROVE  AloneInv
<1>1. log = <<>> /\ pc = "reset"
  BY DEF Init, PipelineInit
<1>2. IsSequence(log) /\ DOMAIN log = {}
  BY <1>1 DEF IsSequence
<1> QED
  BY <1>1, <1>2, BlameInitial, LiveInitial DEF AloneInv, Alone, KeyEnrolled

(* The token is no older than the first warm-up request. *)
LEMMA FirstIsHandled ==
  ASSUME LiveInv, faults = 0, pc = "warm_up", n = 0, NEW q, Send(q)
  PROVE  Handled(q)
<1>1. /\ clock \in Nat /\ issued \in Nat /\ down = "nothing"
      /\ clock - issued <= 0 * (suite.latency + 1) /\ suite.latency \in Nat
  BY SizesAreNumbers DEF LiveInv, InTime, StageInv
<1>2. clock <= issued
  BY <1>1
<1>3. Whole(clock) \in Nat /\ Whole(issued) \in Nat /\ Whole(clock) <= Whole(issued)
  BY <1>1, <1>2 DEF Whole, Second
<1>4. ~TokenExpired /\ ~NoKeys
  <2>1. ~(Whole(clock) - Whole(issued) > TokenLife)
    BY <1>3, PipelineAssumption
  <2> QED
    BY <1>1, <2>1 DEF TokenExpired, NoKeys
<1> QED
  BY <1>1, <1>4 DEF Send, Unreached

(* The steps of a cell that scores and binds keys, while nothing fails. *)
LEMMA AloneKept ==
  ASSUME BlameInv, LiveInv, KeyEnrolled, Alone, flags.risk, flags.binding, faults = 0,
         suite.warmUps > 0, faults' = faults, [Next]_vars
  PROVE  KeyEnrolled' /\ Alone'
<1>0. /\ StageInv /\ Settings /\ n \in Nat /\ ~flags.passthrough
      /\ down = "nothing" /\ clock \in Nat
  BY ScoringIsNotB0 DEF BlameInv, SummaryInv, StageInv, LiveInv, InTime
<1>2. CASE ResetState
  BY <1>2, SaysSame DEF ResetState, Elsewhere, KeyEnrolled
<1>3. CASE ResetFails \/ LoginFails \/ PrepareFails
  BY <1>3, SaysSame DEF ResetFails, LoginFails, PrepareFails, Abort, KeyEnrolled
<1>4. CASE Login
  BY <1>4, SaysSame DEF Login, Elsewhere, KeyEnrolled
<1>5. CASE WarmUp
  <2>1. /\ pc = "warm_up" /\ pc' = pc /\ Send(WarmUpRequest) /\ UNCHANGED setup
    BY <1>5 DEF WarmUp, Elsewhere
  <2>2. n = 0 => Handled(WarmUpRequest) /\ VictimOnly
    BY <1>0, <2>1, FirstIsHandled DEF BlameInv
  <2>3. registry'[User] = {"V"}
    <3>1. CASE n = 0
      BY <1>0, <2>2, <3>1, WarmUpEnrols
    <3>2. CASE n # 0
      BY <2>1, <3>2, KeyStays DEF KeyEnrolled
    <3> QED
      BY <3>1, <3>2
  <2>4. WarmUpRequest.attack \notin {"A4", "A7"}
    BY DEF WarmUpRequest, Request, NotAttack
  <2>5. Alone'
    BY <1>0, <2>1, <2>4, RecordedAlone
  <2> QED
    BY <2>1, <2>3, <2>5 DEF KeyEnrolled
<1>6. CASE Prepare
  <2>1. /\ pc = "warm_up" /\ n = suite.warmUps /\ pc' = "attack" /\ UNCHANGED setup
        /\ IF Attack = "A1" THEN Send(CapturedRequest) ELSE UNCHANGED <<trust, log>>
    BY <1>6 DEF Prepare, Elsewhere
  <2>2. registry[User] = {"V"}
    BY <1>0, <2>1 DEF KeyEnrolled
  <2>3. CapturedRequest.attack \notin {"A4", "A7"}
    BY DEF CapturedRequest, WarmUpRequest, Request, NotAttack
  <2>4. CASE Attack = "A1"
    <3>1. Send(CapturedRequest)
      BY <2>1, <2>4
    <3>2. registry'[User] = {"V"} /\ Alone'
      BY <1>0, <2>1, <2>2, <2>3, <3>1, KeyStays, RecordedAlone
    <3> QED
      BY <2>1, <3>2 DEF KeyEnrolled
  <2>5. CASE Attack # "A1"
    <3>1. UNCHANGED <<registry, log>>
      BY <2>1, <2>5 DEF trust
    <3> QED
      BY <2>1, <2>2, <3>1, SaysSame DEF KeyEnrolled
  <2> QED
    BY <2>4, <2>5
<1>7. CASE Attempt
  <2>1. /\ pc = "attack" /\ pc' = pc /\ Send(AttackRequest) /\ UNCHANGED setup
    BY <1>7 DEF Attempt, Elsewhere
  <2>2. Attack \in Seven /\ registry[User] = {"V"}
    BY <1>0, <2>1, AttackAtHand DEF Busy, KeyEnrolled
  <2>3. PICK q : q = AttackRequest
    OBVIOUS
  <2>4. Send(q) /\ (q.attack \in {"A4", "A7"} => IsOwnKey(q))
    BY <2>1, <2>2, <2>3, OwnKeyRequests
  <2>5. registry'[User] = {"V"} /\ Alone'
    BY <1>0, <2>1, <2>2, <2>4, KeyStays, RecordedAlone
  <2> QED
    BY <2>1, <2>5 DEF KeyEnrolled
<1>8. CASE Save \/ Summarise
  BY <1>8, SaysSame DEF Save, Summarise, Elsewhere, KeyEnrolled
<1>9. CASE Break
  <2>1. UNCHANGED <<setup, pc, n, registry, log>>
    BY <1>9 DEF Break, trust
  <2> QED
    BY <2>1, SaysSame DEF KeyEnrolled
<1>10. CASE Mend \/ UNCHANGED vars
  <2>1. UNCHANGED <<setup, pc, n, registry, log>>
    BY <1>10 DEF Mend, vars, trust
  <2> QED
    BY <2>1, SaysSame DEF KeyEnrolled
<1> QED
  BY <1>2, <1>3, <1>4, <1>5, <1>6, <1>7, <1>8, <1>9, <1>10 DEF Next

LEMMA AloneStep ==
  ASSUME AloneInv, [Next]_vars
  PROVE  AloneInv'
<1>1. /\ UNCHANGED setup /\ suite' = suite
      /\ faults' = 0 => faults = 0 /\ faults' = faults
  BY StaysExperiment DEF AloneInv, LiveInv
<1>2. flags' = flags /\ BlameInv' /\ LiveInv'
  BY <1>1, BlameStep, LiveStep DEF setup, AloneInv
<1>3. ASSUME flags.risk, flags.binding, faults' = 0, suite.warmUps > 0
      PROVE  KeyEnrolled' /\ Alone'
  BY <1>1, <1>3, AloneKept DEF AloneInv
<1> QED
  BY <1>1, <1>2, <1>3 DEF AloneInv

(* README.md 124-128: an adversary who logs in with a key of their own (A4, *)
(* A7) is served exactly when the unknown-device rule is the only one that  *)
(* fires, and then only below a limit above its weight: in every cell that  *)
(* scores and binds keys, for any window, pace, latency and number of       *)
(* requests, so long as nothing failed and the victim came first.           *)
THEOREM OwnKeyIsTheOnlyRule == Spec => []UnknownDeviceAloneIsServed
<1>1. Init => AloneInv
  BY AloneInitial
<1>2. AloneInv /\ [Next]_vars => AloneInv'
  BY AloneStep
<1>3. AloneInv => UnknownDeviceAloneIsServed
  BY DEF AloneInv, Alone, SaysAlone, UnknownDeviceAloneIsServed
<1> QED
  BY <1>1, <1>2, <1>3, PTL DEF Spec
=============================================================================
