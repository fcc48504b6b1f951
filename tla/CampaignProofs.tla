--------------------------- MODULE CampaignProofs ---------------------------
(***************************************************************************)
(* Proofs about the experiment targets and the record files, for any        *)
(* campaign: any plan of cells, any .env file, any number of invocations,   *)
(* requests and failures, interrupted anywhere.                             *)
(***************************************************************************)
EXTENDS Campaign, FiniteSetTheorems, SequenceTheorems, TLAPS

(* A piece of a record file, and a line of pieces. *)
Piece == [n : Int, era : Int]
Line  == Seq(Piece) \ {<<>>}

(* The lines with a record that was cut off. *)
TornLines(lines) ==
  {i \in DOMAIN lines : \E k \in DOMAIN lines[i] : lines[i][k] = Torn}

(* What jsonl_logger's write does to the lines: after a torn record the     *)
(* piece continues the last line, otherwise it is a line of its own.        *)
LEMMA WrittenLines ==
  ASSUME NEW lines \in Seq(Line), NEW piece \in Piece
  PROVE  /\ Written(lines, piece) \in Seq(Line)
         /\ Open(lines) =>
              /\ Len(lines) \in 1..Len(lines) /\ Len(Written(lines, piece)) = Len(lines)
              /\ \A i \in 1..Len(lines) :
                   i # Len(lines) => Written(lines, piece)[i] = lines[i]
              /\ Written(lines, piece)[Len(lines)] = Append(lines[Len(lines)], piece)
         /\ ~Open(lines) =>
              /\ Len(Written(lines, piece)) = Len(lines) + 1
              /\ \A i \in 1..Len(lines) : Written(lines, piece)[i] = lines[i]
              /\ Written(lines, piece)[Len(lines) + 1] = <<piece>>
<1> DEFINE n == Len(lines)
<1>0. n \in Nat /\ \A i \in 1..n : lines[i] \in Line
  BY LenProperties, ElementOfSeq
<1>1. CASE Open(lines)
  <2>1. n \in 1..n
    BY <1>0, <1>1, EmptySeq DEF Open
  <2>2. lines[n] \in Line
    BY <1>0, <2>1
  <2>3. Append(lines[n], piece) \in Line
    BY <2>2, AppendProperties DEF Line
  <2>4. Written(lines, piece) = [lines EXCEPT ![n] = Append(lines[n], piece)]
    BY <1>1 DEF Written
  <2> QED
    BY <1>1, <2>1, <2>3, <2>4, ExceptSeq
<1>2. CASE ~Open(lines)
  <2>1. Written(lines, piece) = Append(lines, <<piece>>)
    BY <1>2 DEF Written
  <2>2. <<piece>> \in Line
    BY DEF Line
  <2> QED
    BY <1>2, <2>1, <2>2, AppendProperties
<1> QED
  BY <1>1, <1>2

Readable(line) == Len(line) = 1 /\ line[1] # Torn
TornIn(line)   == \E k \in DOMAIN line : line[k] = Torn

(* What is read back, and what is torn, by the indices of the lines.         *)
LEMMA ReadBack ==
  ASSUME NEW lines \in Seq(Line)
  PROVE  /\ \A r : r \in LoadJsonl(lines) <=>
                     \E i \in 1..Len(lines) : Readable(lines[i]) /\ r = lines[i][1]
         /\ \A i : i \in TornLines(lines) <=> i \in 1..Len(lines) /\ TornIn(lines[i])
         /\ DOMAIN lines = 1..Len(lines) /\ Len(lines) \in Nat
         /\ \A i \in 1..Len(lines) : lines[i] \in Seq(Piece) /\ Len(lines[i]) \in Nat \ {0}
<1>1. DOMAIN lines = 1..Len(lines) /\ Len(lines) \in Nat
      /\ \A i \in 1..Len(lines) : lines[i] \in Line
  BY LenProperties, ElementOfSeq
<1>2. \A i \in 1..Len(lines) : lines[i] \in Seq(Piece) /\ Len(lines[i]) \in Nat \ {0}
  BY <1>1, EmptySeq, LenProperties DEF Line
<1>3. \A r : r \in LoadJsonl(lines) <=>
               \E i \in 1..Len(lines) : Readable(lines[i]) /\ r = lines[i][1]
  BY <1>1 DEF LoadJsonl, Readable
<1>4. \A i : i \in TornLines(lines) <=> i \in 1..Len(lines) /\ TornIn(lines[i])
  BY <1>1 DEF TornLines, TornIn
<1> QED
  BY <1>1, <1>2, <1>3, <1>4

(* A torn line stays torn and unreadable, and takes one piece with it.       *)
LEMMA Continued ==
  ASSUME NEW line \in Line, NEW piece \in Piece, line[Len(line)] = Torn
  PROVE  LET longer == Append(line, piece)
         IN /\ ~Readable(line) /\ ~Readable(longer)
            /\ TornIn(line) /\ TornIn(longer)
            /\ longer[Len(longer)] = piece
<1>1. line \in Seq(Piece) /\ Len(line) \in Nat \ {0} /\ DOMAIN line = 1..Len(line)
  BY EmptySeq, LenProperties DEF Line
<1>2. /\ Len(Append(line, piece)) = Len(line) + 1
      /\ Append(line, piece)[Len(line)] = Torn
      /\ Append(line, piece)[Len(line) + 1] = piece
      /\ DOMAIN Append(line, piece) = 1..(Len(line) + 1)
  <2>1. /\ Append(line, piece) \in Seq(Piece)
        /\ Len(Append(line, piece)) = Len(line) + 1
        /\ \A i \in 1..Len(line) : Append(line, piece)[i] = line[i]
        /\ Append(line, piece)[Len(line) + 1] = piece
    BY <1>1, AppendProperties
  <2>2. Len(line) \in 1..Len(line)
    BY <1>1
  <2>3. DOMAIN Append(line, piece) = 1..Len(Append(line, piece))
    BY <2>1, LenProperties
  <2> QED
    BY <2>1, <2>2, <2>3
<1>3. Len(line) \in 1..(Len(line) + 1) /\ Len(line) \in 1..Len(line)
  BY <1>1
<1>4. ~Readable(line) /\ ~Readable(Append(line, piece))
  <2>0. Len(line) + 1 # 1
    BY <1>1
  <2>1. Len(Append(line, piece)) # 1
    BY <1>2, <2>0
  <2> QED
    BY <2>1 DEF Readable
<1> QED
  BY <1>1, <1>2, <1>3, <1>4 DEF TornIn

(* One write, as the analysis sees the file.                                 *)
LEMMA WriteSeen ==
  ASSUME NEW lines \in Seq(Line), NEW piece \in Piece,
         NEW longer, longer = Written(lines, piece)
  PROVE  /\ \A r : r \in LoadJsonl(longer) <=>
                     r \in LoadJsonl(lines) \/ (~Open(lines) /\ piece # Torn /\ r = piece)
         /\ \A i : i \in TornLines(longer) <=>
                     \/ i \in TornLines(lines)
                     \/ ~Open(lines) /\ piece = Torn /\ i = Len(lines) + 1
         /\ Open(longer) <=> piece = Torn
<1>1. longer \in Seq(Line) /\ Len(lines) \in Nat
  BY WrittenLines, ReadBack
<1>2. CASE Open(lines)
  <2>1. /\ Len(lines) \in 1..Len(lines) /\ Len(longer) = Len(lines)
        /\ \A i \in 1..Len(lines) : i # Len(lines) => longer[i] = lines[i]
        /\ longer[Len(lines)] = Append(lines[Len(lines)], piece)
    BY <1>2, WrittenLines
  <2>2. lines[Len(lines)] \in Line /\ lines[Len(lines)][Len(lines[Len(lines)])] = Torn
    BY <1>2, <2>1, ElementOfSeq DEF Open
  <2>3. /\ ~Readable(lines[Len(lines)]) /\ ~Readable(longer[Len(lines)])
        /\ TornIn(lines[Len(lines)]) /\ TornIn(longer[Len(lines)])
        /\ longer[Len(lines)][Len(longer[Len(lines)])] = piece
    BY <2>1, <2>2, Continued
  <2>4. \A i \in 1..Len(lines) :
          /\ Readable(longer[i]) <=> Readable(lines[i])
          /\ Readable(lines[i]) => longer[i] = lines[i]
          /\ TornIn(longer[i]) <=> TornIn(lines[i])
    BY <2>1, <2>3
  <2>5. \A r : r \in LoadJsonl(longer) <=> r \in LoadJsonl(lines)
    BY <1>1, <2>1, <2>4, ReadBack
  <2>6. \A i : i \in TornLines(longer) <=> i \in TornLines(lines)
    BY <1>1, <2>1, <2>4, ReadBack
  <2>7. Open(longer) <=> piece = Torn
    <3>1. longer # <<>>
      BY <1>1, <2>1, EmptySeq
    <3> QED
      BY <2>1, <2>3, <3>1 DEF Open
  <2> QED
    BY <1>2, <2>5, <2>6, <2>7
<1>3. CASE ~Open(lines)
  <2>1. /\ Len(longer) = Len(lines) + 1
        /\ \A i \in 1..Len(lines) : longer[i] = lines[i]
        /\ longer[Len(lines) + 1] = <<piece>>
    BY <1>3, WrittenLines
  <2>2. \A i : i \in 1..Len(longer) <=> i \in 1..Len(lines) \/ i = Len(lines) + 1
    BY <1>1, <2>1
  <2>3. /\ Readable(<<piece>>) <=> piece # Torn
        /\ TornIn(<<piece>>) <=> piece = Torn
        /\ <<piece>>[1] = piece /\ Len(<<piece>>) = 1
    BY DEF Readable, TornIn
  <2>4. /\ \A i \in 1..Len(lines) :
             /\ Readable(longer[i]) <=> Readable(lines[i])
             /\ longer[i][1] = lines[i][1]
             /\ TornIn(longer[i]) <=> TornIn(lines[i])
        /\ Readable(longer[Len(lines) + 1]) <=> piece # Torn
        /\ longer[Len(lines) + 1][1] = piece
        /\ TornIn(longer[Len(lines) + 1]) <=> piece = Torn
    BY <2>1, <2>3
  <2>5. \A r : r \in LoadJsonl(longer) <=>
                 r \in LoadJsonl(lines) \/ (piece # Torn /\ r = piece)
    <3>1. \A r : r \in LoadJsonl(longer) <=>
                   \E i \in 1..Len(longer) : Readable(longer[i]) /\ r = longer[i][1]
      BY <1>1, ReadBack
    <3>2. \A r : r \in LoadJsonl(lines) <=>
                   \E i \in 1..Len(lines) : Readable(lines[i]) /\ r = lines[i][1]
      BY ReadBack
    <3> QED
      BY <2>2, <2>4, <3>1, <3>2
  <2>6. \A i : i \in TornLines(longer) <=>
                 i \in TornLines(lines) \/ (piece = Torn /\ i = Len(lines) + 1)
    <3>1. \A i : i \in TornLines(longer) <=> i \in 1..Len(longer) /\ TornIn(longer[i])
      BY <1>1, ReadBack
    <3>2. \A i : i \in TornLines(lines) <=> i \in 1..Len(lines) /\ TornIn(lines[i])
      BY ReadBack
    <3> QED
      BY <2>2, <2>4, <3>1, <3>2
  <2>7. Open(longer) <=> piece = Torn
    <3>1. longer # <<>>
      BY <1>1, <2>1, EmptySeq
    <3> QED
      BY <2>1, <2>3, <3>1 DEF Open
  <2> QED
    BY <1>3, <2>5, <2>6, <2>7
<1> QED
  BY <1>2, <1>3

-----------------------------------------------------------------------------
(* The inductive invariant, in parts. *)

CampaignTyped ==
  /\ campaign \in Campaigns
  /\ files \in [RunIds -> Seq(Line)]
  /\ answered \in [RunIds -> SUBSET Nat]
  /\ era \in Nat /\ served \in Nat /\ failures \in Nat /\ container.era \in Nat
  /\ IsFiniteSet(summary)
  /\ step \in {"up", "rm", "start", "drive"}

(* The loop of a target goes over cells of that target. *)
LoopInv ==
  target # "none" =>
    /\ todo \in Seq(CellNames)
    /\ \A i \in 1..Len(todo) : Cells[todo[i]].target = target
    /\ step = "drive" => todo # <<>>

(* All records of a file that can be read back are of era x. *)
OfEra(c, x) == \A r \in LoadJsonl(files[c]) : r.era = x

(* The files against the running controller and the running target: what    *)
(* is in a cell's file is of one era, that of a controller with the cell's   *)
(* name while there is one; a target whose old outputs are removed finds     *)
(* only records of its own era in its cells' files.                          *)
EraInv ==
  /\ \A c \in RunIds \ {Default} : \E x : OfEra(c, x)
  /\ container.cell \in RunIds \ {Default} => OfEra(container.cell, container.era)
  /\ target # "none" /\ step = "rm" => container.cell = Default
  /\ target # "none" /\ step \in {"start", "drive"} =>
       /\ container.cell \in {Default, NoController} \/ container.era = era
       /\ \A c \in RunIds \ {Default} : Cells[c].target = target => OfEra(c, era)

(* The records that are lost against the records that are torn: a file whose *)
(* last line is torn has one more to lose.                                   *)
LossInvOf(c) ==
  /\ \A r \in LoadJsonl(files[c]) : r.n \in answered[c]
  /\ \A k \in answered[c] : k <= served
  /\ IsFiniteSet(Lost(c)) /\ IsFiniteSet(Tears(c))
  /\ Cardinality(Lost(c)) + (IF Open(files[c]) THEN 1 ELSE 0) <= Cardinality(Tears(c))

LossInv == \A c \in RunIds : LossInvOf(c)

(* The rows of the wrong controller against the failures: while a cell is    *)
(* driven against another controller, one failure is still to be charged.    *)
Wrong == {row \in summary : row.measured # row.cell}

Pending ==
  IF target # "none" /\ step = "drive" /\ container.cell # Head(todo) THEN 1 ELSE 0

RowInv == Cardinality(Wrong) + Pending <= failures

-----------------------------------------------------------------------------
(* One step, as one file sees it. *)

Appends(c, piece) ==
  /\ files'[c] = Written(files[c], piece) /\ container.cell = c
  /\ served' = served + 1
  /\ \/ piece = Record /\ answered'[c] = answered[c] \cup {served + 1}
     \/ piece = Torn /\ answered'[c] = answered[c]

Untouched(c) ==
  files'[c] = files[c] /\ answered'[c] = answered[c] /\ served' \in {served, served + 1}

Cleared(c) == files'[c] = <<>> /\ answered'[c] = {} /\ served' = served

LEMMA RecordTyped ==
  ASSUME CampaignTyped
  PROVE  /\ Record \in Piece /\ Torn \in Piece /\ Record # Torn
         /\ Record.n = served + 1 /\ Record.era = container.era
BY DEF CampaignTyped, Record, Torn, Piece

LEMMA PlanTyped ==
  ASSUME CampaignTyped, NEW t \in DOMAIN Plan
  PROVE  /\ Plan[t] \in Seq(CellNames)
         /\ \A i \in 1..Len(Plan[t]) : Cells[Plan[t][i]].target = t
BY CampaignAssumption DEF CampaignTyped, Plan

LEMMA CampaignFixed ==
  ASSUME [Next]_vars
  PROVE  campaign' = campaign /\ RunIds' = RunIds
<1>1. campaign' = campaign
  BY DEF Next, vars, Make, Up, Remove, StartCell, StartFails, EndCell, Stop, Clean,
         Serve, ServeUnwritten, FillDisk, FreeDisk
<1> QED
  BY <1>1 DEF RunIds, Plan

LEMMA FileSteps ==
  ASSUME CampaignTyped, [Next]_vars, NEW c \in RunIds
  PROVE  \/ \E piece \in Piece : Appends(c, piece)
         \/ Untouched(c)
         \/ Cleared(c)
<1>1. DOMAIN files = RunIds /\ DOMAIN answered = RunIds
  BY DEF CampaignTyped
<1>2. CASE \/ \E t \in DOMAIN Plan : Make(t)
           \/ Up \/ StartCell \/ StartFails \/ EndCell \/ Stop \/ FillDisk \/ FreeDisk
           \/ UNCHANGED vars
  BY <1>2 DEF Make, Up, StartCell, StartFails, EndCell, Stop, FillDisk, FreeDisk, vars,
              counts, Untouched
<1>3. CASE Remove
  BY <1>3 DEF Remove, counts, Untouched, Cleared
<1>4. CASE Clean
  BY <1>4 DEF Clean, Cleared
<1>5. CASE Serve
  <2>1. CASE container.cell = c
    <3>1. Appends(c, Record)
      BY <1>1, <1>5, <2>1 DEF Serve, Appends
    <3> QED
      BY <3>1, RecordTyped
  <2>2. CASE container.cell # c
    BY <1>1, <1>5, <2>2 DEF Serve, Untouched
  <2> QED
    BY <2>1, <2>2
<1>6. CASE ServeUnwritten
  <2>1. CASE container.cell = c /\ files' # files
    <3>1. Appends(c, Torn)
      BY <1>1, <1>6, <2>1 DEF ServeUnwritten, Appends
    <3> QED
      BY <3>1, RecordTyped
  <2>2. CASE container.cell # c \/ files' = files
    BY <1>1, <1>6, <2>2 DEF ServeUnwritten, Untouched
  <2> QED
    BY <2>1, <2>2
<1> QED
  BY <1>2, <1>3, <1>4, <1>5, <1>6 DEF Next

LEMMA TypedKept ==
  ASSUME CampaignTyped, [Next]_vars
  PROVE  CampaignTyped'
<1>1. campaign' = campaign /\ RunIds' = RunIds
  BY CampaignFixed
<1>2. ASSUME NEW c \in RunIds
      PROVE  files'[c] \in Seq(Line) /\ answered'[c] \in SUBSET Nat
  <2>1. files[c] \in Seq(Line) /\ answered[c] \in SUBSET Nat /\ served \in Nat
    BY DEF CampaignTyped
  <2>2. CASE \E piece \in Piece : Appends(c, piece)
    BY <2>1, <2>2, WrittenLines DEF Appends
  <2>3. CASE Untouched(c)
    BY <2>1, <2>3 DEF Untouched
  <2>4. CASE Cleared(c)
    BY <2>4, EmptySeq DEF Cleared
  <2> QED
    BY <2>2, <2>3, <2>4, FileSteps
<1>3. files' \in [RunIds -> Seq(Line)] /\ answered' \in [RunIds -> SUBSET Nat]
  <2>1. /\ files' = [c \in RunIds |-> files'[c]]
        /\ answered' = [c \in RunIds |-> answered'[c]]
    BY <1>1 DEF CampaignTyped, Next, vars, Make, Up, Remove, StartCell, StartFails, EndCell,
                Stop, Clean, Serve, ServeUnwritten, FillDisk, FreeDisk
  <2> QED
    BY <1>2, <2>1
<1>4. era' \in Nat /\ served' \in Nat /\ failures' \in Nat
  BY DEF CampaignTyped, Next, vars, counts, Make, Up, Remove, StartCell, StartFails, EndCell,
         Stop, Clean, Serve, ServeUnwritten, FillDisk, FreeDisk
<1>5. container'.era \in Nat
  BY DEF CampaignTyped, Next, vars, Make, Up, Remove, StartCell, StartFails, EndCell,
         Stop, Clean, Serve, ServeUnwritten, FillDisk, FreeDisk, Gone
<1>6. step' \in {"up", "rm", "start", "drive"}
  BY DEF CampaignTyped, Next, vars, Make, Up, Remove, StartCell, StartFails, EndCell,
         Stop, Clean, Serve, ServeUnwritten, FillDisk, FreeDisk
<1>7. IsFiniteSet(summary')
  <2>0. IsFiniteSet(summary)
    BY DEF CampaignTyped
  <2>1. CASE Remove
    BY <2>0, <2>1, FS_Subset DEF Remove
  <2>2. CASE EndCell
    BY <2>0, <2>2, FS_AddElement DEF EndCell
  <2>3. CASE Clean
    BY <2>3, FS_EmptySet DEF Clean
  <2>4. CASE ~Remove /\ ~EndCell /\ ~Clean
    BY <2>0, <2>4 DEF Next, vars, Make, Up, StartCell, StartFails,
         Stop, Serve, ServeUnwritten, FillDisk, FreeDisk
  <2> QED
    BY <2>1, <2>2, <2>3, <2>4
<1> QED
  BY <1>1, <1>3, <1>4, <1>5, <1>6, <1>7 DEF CampaignTyped

(* The campaign is typed in every state. *)
LEMMA TypedFirst ==
  Init => CampaignTyped
<1> SUFFICES ASSUME Init PROVE CampaignTyped
  OBVIOUS
<1>1. \A c \in RunIds : files[c] \in Seq(Line) /\ answered[c] \in SUBSET Nat
  BY EmptySeq DEF Init
<1>2. files \in [RunIds -> Seq(Line)] /\ answered \in [RunIds -> SUBSET Nat]
  BY <1>1 DEF Init
<1>3. IsFiniteSet(summary)
  BY FS_EmptySet DEF Init
<1> QED
  BY <1>2, <1>3 DEF Init, CampaignTyped, Gone

LEMMA TypedAlways ==
  Spec => []CampaignTyped
<1>1. CampaignTyped /\ [Next]_vars => CampaignTyped'
  BY TypedKept
<1> QED
  BY TypedFirst, <1>1, PTL DEF Spec

(* The loop of a target. *)
LEMMA LoopKept ==
  ASSUME CampaignTyped, LoopInv, [Next]_vars
  PROVE  LoopInv'
<1>1. CASE \E t \in DOMAIN Plan : Make(t)
  <2>1. PICK t \in DOMAIN Plan : Make(t)
    BY <1>1
  <2>2. target' = t /\ todo' = Plan[t] /\ step' = "up"
    BY <2>1 DEF Make
  <2> QED
    BY <2>2, PlanTyped DEF LoopInv
<1>2. CASE EndCell
  <2>1. /\ target' = target /\ target # "none" /\ step = "drive"
        /\ todo' = Tail(todo) /\ step' = "start"
    BY <1>2 DEF EndCell
  <2>2. /\ todo \in Seq(CellNames) /\ todo # <<>>
        /\ \A i \in 1..Len(todo) : Cells[todo[i]].target = target
    BY <2>1 DEF LoopInv
  <2>3. /\ Tail(todo) \in Seq(CellNames) /\ Len(Tail(todo)) = Len(todo) - 1
        /\ \A i \in 1..Len(Tail(todo)) : Tail(todo)[i] = todo[i + 1]
    BY <2>2, HeadTailProperties
  <2>4. Len(todo) \in Nat
    BY <2>2, LenProperties
  <2>5. \A i \in 1..Len(Tail(todo)) : i + 1 \in 1..Len(todo)
    BY <2>3, <2>4
  <2>6. \A i \in 1..Len(Tail(todo)) : Cells[Tail(todo)[i]].target = target
    BY <2>2, <2>3, <2>5
  <2> QED
    BY <2>1, <2>3, <2>6 DEF LoopInv
<1>3. CASE ~EndCell /\ ~(\E t \in DOMAIN Plan : Make(t))
  BY <1>3 DEF LoopInv, Next, vars, Up, Remove, StartCell, StartFails, Stop, Clean,
              Serve, ServeUnwritten, FillDisk, FreeDisk
<1> QED
  BY <1>1, <1>2, <1>3

LEMMA LoopAlways ==
  Spec => []LoopInv
<1>1. Init => LoopInv
  BY DEF Init, LoopInv
<1>2. CampaignTyped /\ LoopInv /\ [Next]_vars => LoopInv'
  BY LoopKept
<1> QED
  BY TypedAlways, <1>1, <1>2, PTL DEF Spec

(* Any run id but Default is a cell of the Makefile, so none is "none". *)
LEMMA RunIdIsCell ==
  ASSUME CampaignTyped
  PROVE  \A c \in RunIds \ {Default} : c \in CellNames /\ c # NoController
<1>1. ASSUME NEW c \in RunIds \ {Default}
      PROVE  c \in CellNames
  <2>1. PICK t \in DOMAIN Plan : \E i \in DOMAIN Plan[t] : c = Plan[t][i]
    BY DEF RunIds
  <2>2. PICK i \in DOMAIN Plan[t] : c = Plan[t][i]
    BY <2>1
  <2>3. Plan[t] \in Seq(CellNames)
    BY PlanTyped
  <2>4. i \in 1..Len(Plan[t])
    BY <2>2, <2>3, LenProperties
  <2> QED
    BY <2>2, <2>3, <2>4, ElementOfSeq
<1>2. NoController \notin CellNames
  BY DEF NoController, CellNames, Cells
<1> QED
  BY <1>1, <1>2

-----------------------------------------------------------------------------
(* No file mixes two invocations. *)

(* A file keeps its era as long as the controller that writes it is of it.   *)
LEMMA EraOfFileKept ==
  ASSUME CampaignTyped, [Next]_vars, NEW c \in RunIds, NEW x, OfEra(c, x),
         container.cell = c => container.era = x
  PROVE  OfEra(c, x)'
<1>1. ASSUME NEW r \in LoadJsonl(files'[c])
      PROVE  r.era = x
  <2>1. files[c] \in Seq(Line)
    BY DEF CampaignTyped
  <2>2. CASE Untouched(c)
    BY <1>1, <2>2 DEF Untouched, OfEra
  <2>3. CASE Cleared(c)
    BY <1>1, <2>3 DEF Cleared, LoadJsonl
  <2>4. CASE \E piece \in Piece : Appends(c, piece)
    <3>1. PICK piece \in Piece : Appends(c, piece)
      BY <2>4
    <3>2. r \in LoadJsonl(files[c]) \/ (piece # Torn /\ r = piece)
      BY <1>1, <2>1, <3>1, WriteSeen DEF Appends
    <3>3. piece # Torn => piece.era = x
      BY <3>1, RecordTyped DEF Appends
    <3> QED
      BY <3>2, <3>3 DEF OfEra
  <2> QED
    BY <2>2, <2>3, <2>4, FileSteps
<1> QED
  BY <1>1 DEF OfEra

LEMMA EraKept ==
  ASSUME CampaignTyped, LoopInv, EraInv, campaign.outDir = DataDir, [Next]_vars
  PROVE  EraInv'
<1>0. RunIds' = RunIds
  BY CampaignFixed
<1>1. \A c \in RunIds \ {Default} : \E x : OfEra(c, x)'
  <2>1. ASSUME NEW c \in RunIds \ {Default}
        PROVE  \E x : OfEra(c, x)'
    <3>1. CASE container.cell = c
      <4>1. PICK x : x = container.era /\ OfEra(c, x)
        BY <3>1 DEF EraInv
      <4> QED
        BY <4>1, EraOfFileKept
    <3>2. CASE container.cell # c
      <4>1. PICK x : OfEra(c, x)
        BY DEF EraInv
      <4> QED
        BY <3>2, <4>1, EraOfFileKept
    <3> QED
      BY <3>1, <3>2
  <2> QED
    BY <2>1
<1>2. (container.cell \in RunIds \ {Default} => OfEra(container.cell, container.era))'
  <2>1. CASE container' = container
    <3>1. SUFFICES ASSUME container.cell \in RunIds \ {Default}
          PROVE  OfEra(container.cell, container.era)'
      BY <1>0, <2>1
    <3>2. PICK c, x : c = container.cell /\ x = container.era /\ OfEra(c, x)
      BY <3>1 DEF EraInv
    <3>3. OfEra(c, x)'
      BY <3>1, <3>2, EraOfFileKept
    <3> QED
      BY <2>1, <3>2, <3>3 DEF OfEra
  <2>2. CASE container'.cell \in {Default, NoController}
    BY <1>0, <2>2, RunIdIsCell
  <2>3. CASE StartCell
    <3>1. /\ target # "none" /\ step = "start" /\ todo # <<>>
          /\ container'.cell = Head(todo) /\ container'.era = era /\ files' = files
      BY <2>3 DEF StartCell
    <3>2. Head(todo) = todo[1] /\ 1 \in 1..Len(todo)
      BY <3>1, HeadTailProperties, LenProperties, EmptySeq DEF LoopInv
    <3>3. Cells[Head(todo)].target = target
      BY <3>1, <3>2 DEF LoopInv
    <3>4. Head(todo) \in RunIds \ {Default} => OfEra(Head(todo), era)
      BY <3>1, <3>3 DEF EraInv
    <3> QED
      BY <1>0, <3>1, <3>4 DEF OfEra
  <2> QED
    BY <2>1, <2>2, <2>3 DEF Next, vars, Make, Up, Remove, StartFails, EndCell, Stop, Clean,
       Serve, ServeUnwritten, FillDisk, FreeDisk, Gone
<1>3. (target # "none" /\ step = "rm" => container.cell = Default)'
  BY DEF EraInv, Next, vars, Make, Up, Remove, StartCell, StartFails, EndCell, Stop, Clean,
         Serve, ServeUnwritten, FillDisk, FreeDisk
<1>4. (target # "none" /\ step \in {"start", "drive"} =>
         container.cell \in {Default, NoController} \/ container.era = era)'
  BY DEF EraInv, Next, vars, Make, Up, Remove, StartCell, StartFails, EndCell, Stop, Clean,
         Serve, ServeUnwritten, FillDisk, FreeDisk, counts, Gone
<1>5. (target # "none" /\ step \in {"start", "drive"} =>
         \A c \in RunIds \ {Default} : Cells[c].target = target => OfEra(c, era))'
  <2>1. SUFFICES ASSUME target' # "none", step' \in {"start", "drive"},
                        NEW c \in RunIds \ {Default}, Cells[c].target = target'
                 PROVE  OfEra(c, era)'
    BY <1>0
  <2>2. CASE Remove
    <3>1. files'[c] = <<>>
      BY <2>1, <2>2 DEF Remove, Own
    <3> QED
      BY <3>1 DEF OfEra, LoadJsonl
  <2>3. CASE ~Remove
    <3>1. /\ target' = target /\ era' = era /\ target # "none"
          /\ step \in {"start", "drive"}
      BY <2>1, <2>3 DEF Next, vars, Make, Up, StartCell, StartFails, EndCell, Stop, Clean,
         Serve, ServeUnwritten, FillDisk, FreeDisk, counts
    <3>2. container.cell = c => container.era = era
      BY <3>1, RunIdIsCell DEF EraInv
    <3>3. PICK x : x = era /\ OfEra(c, x)
      BY <2>1, <3>1 DEF EraInv
    <3>4. OfEra(c, x)'
      BY <3>2, <3>3, EraOfFileKept
    <3> QED
      BY <3>1, <3>3, <3>4 DEF OfEra
  <2> QED
    BY <2>2, <2>3
<1>6. EraInv' <=>
        /\ \A c \in RunIds \ {Default} : \E x : OfEra(c, x)'
        /\ (container.cell \in RunIds \ {Default} => OfEra(container.cell, container.era))'
        /\ (target # "none" /\ step = "rm" => container.cell = Default)'
        /\ (target # "none" /\ step \in {"start", "drive"} =>
              container.cell \in {Default, NoController} \/ container.era = era)'
        /\ (target # "none" /\ step \in {"start", "drive"} =>
              \A c \in RunIds \ {Default} : Cells[c].target = target => OfEra(c, era))'
  BY <1>0 DEF EraInv
<1> QED
  BY <1>1, <1>2, <1>3, <1>4, <1>5, <1>6

LEMMA EraAlways ==
  Spec => [](campaign.outDir = DataDir => EraInv)
<1>1. Init => EraInv
  <2>1. SUFFICES ASSUME Init PROVE EraInv
    OBVIOUS
  <2>2. \A c \in RunIds : LoadJsonl(files[c]) = {}
    BY <2>1 DEF Init, LoadJsonl
  <2>3. CampaignTyped
    BY <2>1, TypedFirst
  <2> QED
    BY <2>1, <2>2 DEF Init, EraInv, OfEra, Gone
<1>2. /\ CampaignTyped /\ LoopInv /\ [Next]_vars
      /\ (campaign.outDir = DataDir => EraInv)
      => (campaign.outDir = DataDir => EraInv)'
  <2>1. DataDir' = DataDir
    BY DEF DataDir
  <2> QED
    BY <2>1, EraKept, CampaignFixed
<1> QED
  BY TypedAlways, LoopAlways, <1>1, <1>2, PTL DEF Spec

(* Makefile 81-83: no file that a table is computed from ever holds records *)
(* of two invocations of a target, wherever one was interrupted, whoever    *)
(* sends requests in between, and whatever compose fails to start.          *)
THEOREM OneInvocationEach ==
  Spec => []OneInvocationPerFile
<1>1. (campaign.outDir = DataDir => EraInv) => OneInvocationPerFile
  <2>1. SUFFICES ASSUME EraInv, NEW c \in RunIds \ {Default}
                 PROVE  ~Mixed(c)
    BY DEF OneInvocationPerFile
  <2>2. PICK x : OfEra(c, x)
    BY <2>1 DEF EraInv
  <2> QED
    BY <2>2 DEF OfEra, Mixed
<1> QED
  BY EraAlways, <1>1, PTL

-----------------------------------------------------------------------------
(* One record is lost per torn line. *)

(* What a step does to the records that are lost and to the torn lines.      *)
LEMMA LossSteps ==
  ASSUME CampaignTyped, [Next]_vars, NEW c \in RunIds, LossInvOf(c)
  PROVE  /\ \A r \in LoadJsonl(files'[c]) : r.n \in answered'[c]
         /\ \A k \in answered'[c] : k <= served'
         /\ \/ /\ Lost(c)' = Lost(c) /\ Tears(c)' = Tears(c)
               /\ Open(files[c])' => Open(files[c])
            \/ /\ \E k \in Nat : k \notin Lost(c) /\ Lost(c)' = Lost(c) \cup {k}
               /\ Tears(c)' = Tears(c) /\ Open(files[c]) /\ ~Open(files[c])'
            \/ /\ Lost(c)' = Lost(c)
               /\ \E i : i \notin Tears(c) /\ Tears(c)' = Tears(c) \cup {i}
               /\ ~Open(files[c])
            \/ Lost(c)' = {} /\ Tears(c)' = {} /\ ~Open(files[c])'
<1>1. /\ files[c] \in Seq(Line) /\ answered[c] \subseteq Nat /\ served \in Nat
      /\ Tears(c) = TornLines(files[c]) /\ Tears(c)' = TornLines(files'[c])
      /\ Tears(c) \subseteq 1..Len(files[c]) /\ Len(files[c]) \in Nat
  <2>1. files[c] \in Seq(Line) /\ answered[c] \subseteq Nat /\ served \in Nat
    BY DEF CampaignTyped
  <2>2. Tears(c) = TornLines(files[c]) /\ Tears(c)' = TornLines(files'[c])
    BY DEF Tears, TornLines
  <2> QED
    BY <2>1, <2>2, ReadBack
<1>2. /\ \A r \in LoadJsonl(files[c]) : r.n \in answered[c]
      /\ \A k \in answered[c] : k <= served
      /\ served + 1 \notin answered[c]
  BY <1>1 DEF LossInvOf
<1>3. CASE Untouched(c)
  <2>1. \A k \in answered'[c] : k <= served'
    BY <1>1, <1>2, <1>3 DEF Untouched
  <2> QED
    BY <1>2, <1>3, <2>1 DEF Untouched, Lost, Tears
<1>4. CASE Cleared(c)
  BY <1>4 DEF Cleared, Lost, Tears, Open, LoadJsonl
<1>5. CASE \E piece \in Piece : Appends(c, piece)
  <2>1. PICK piece \in Piece : Appends(c, piece)
    BY <1>5
  <2>2. /\ \A r : r \in LoadJsonl(files'[c]) <=>
             r \in LoadJsonl(files[c]) \/ (~Open(files[c]) /\ piece # Torn /\ r = piece)
        /\ \A i : i \in Tears(c)' <=>
             \/ i \in Tears(c)
             \/ ~Open(files[c]) /\ piece = Torn /\ i = Len(files[c]) + 1
        /\ Open(files'[c]) <=> piece = Torn
    BY <1>1, <2>1, WriteSeen DEF Appends
  <2>3. Len(files[c]) + 1 \notin Tears(c)
    BY <1>1
  <2>4. served' = served + 1 /\ \A k \in answered'[c] : k <= served'
    BY <1>1, <1>2, <2>1 DEF Appends
  <2>5. CASE piece = Record
    <3>1. /\ piece # Torn /\ piece.n = served + 1
          /\ answered'[c] = answered[c] \cup {served + 1}
      BY <2>1, <2>5, RecordTyped DEF Appends
    <3>2. \A r \in LoadJsonl(files'[c]) : r.n \in answered'[c]
      BY <1>2, <2>2, <3>1
    <3>3. Tears(c)' = Tears(c) /\ ~Open(files'[c])
      BY <2>2, <3>1
    <3>4. CASE Open(files[c])
      <4>1. \A r : r \in LoadJsonl(files'[c]) <=> r \in LoadJsonl(files[c])
        BY <2>2, <3>4
      <4>2. served + 1 \notin {r.n : r \in LoadJsonl(files'[c])}
        BY <1>2, <4>1
      <4>3. Lost(c)' = Lost(c) \cup {served + 1} /\ served + 1 \notin Lost(c)
        BY <1>2, <3>1, <4>1, <4>2 DEF Lost
      <4>4. served + 1 \in Nat
        BY <1>1
      <4> QED
        BY <2>4, <3>2, <3>3, <3>4, <4>3, <4>4
    <3>5. CASE ~Open(files[c])
      <4>1. \A r : r \in LoadJsonl(files'[c]) <=> r \in LoadJsonl(files[c]) \/ r = piece
        BY <2>2, <3>1, <3>5
      <4>2. Lost(c)' = Lost(c)
        BY <1>2, <3>1, <4>1 DEF Lost
      <4> QED
        BY <2>4, <3>2, <3>3, <3>5, <4>2
    <3> QED
      BY <3>4, <3>5
  <2>6. CASE piece = Torn /\ answered'[c] = answered[c]
    <3>1. \A r : r \in LoadJsonl(files'[c]) <=> r \in LoadJsonl(files[c])
      BY <2>2, <2>6
    <3>2. Lost(c)' = Lost(c)
      BY <2>6, <3>1 DEF Lost
    <3>3. \A r \in LoadJsonl(files'[c]) : r.n \in answered'[c]
      BY <1>2, <2>6, <3>1
    <3>4. CASE Open(files[c])
      <4>1. Tears(c)' = Tears(c)
        BY <2>2, <3>4
      <4> QED
        BY <2>4, <3>2, <3>3, <3>4, <4>1
    <3>5. CASE ~Open(files[c])
      <4>1. Tears(c)' = Tears(c) \cup {Len(files[c]) + 1}
        BY <2>2, <2>6, <3>5
      <4> QED
        BY <2>3, <2>4, <3>2, <3>3, <3>5, <4>1
    <3> QED
      BY <3>4, <3>5
  <2> QED
    BY <2>1, <2>5, <2>6 DEF Appends
<1> QED
  BY <1>3, <1>4, <1>5, FileSteps

LEMMA LossKept ==
  ASSUME CampaignTyped, [Next]_vars, NEW c \in RunIds, LossInvOf(c)
  PROVE  LossInvOf(c)'
<1> DEFINE lost == Lost(c)
           tears == Tears(c)
           open == IF Open(files[c]) THEN 1 ELSE 0
<1>1. /\ IsFiniteSet(lost) /\ IsFiniteSet(tears)
      /\ Cardinality(lost) + open <= Cardinality(tears)
  BY DEF LossInvOf
<1>2. Cardinality(lost) \in Nat /\ Cardinality(tears) \in Nat
  BY <1>1, FS_CardinalityType
<1>3. /\ \A r \in LoadJsonl(files'[c]) : r.n \in answered'[c]
      /\ \A k \in answered'[c] : k <= served'
  BY LossSteps
<1>4. /\ IsFiniteSet(lost') /\ IsFiniteSet(tears')
      /\ Cardinality(lost') + open' <= Cardinality(tears')
  <2>1. CASE lost' = lost /\ tears' = tears /\ (Open(files[c])' => Open(files[c]))
    BY <1>1, <1>2, <2>1
  <2>2. CASE /\ \E k \in Nat : k \notin lost /\ lost' = lost \cup {k}
             /\ tears' = tears /\ Open(files[c]) /\ ~Open(files[c])'
    <3>1. IsFiniteSet(lost') /\ Cardinality(lost') = Cardinality(lost) + 1
      BY <1>1, <2>2, FS_AddElement
    <3>2. open = 1 /\ open' = 0
      BY <2>2
    <3> QED
      BY <1>1, <1>2, <2>2, <3>1, <3>2
  <2>3. CASE /\ lost' = lost /\ ~Open(files[c])
             /\ \E i : i \notin tears /\ tears' = tears \cup {i}
    <3>1. IsFiniteSet(tears') /\ Cardinality(tears') = Cardinality(tears) + 1
      BY <1>1, <2>3, FS_AddElement
    <3>2. open = 0 /\ open' \in {0, 1}
      BY <2>3
    <3> QED
      BY <1>1, <1>2, <2>3, <3>1, <3>2
  <2>4. CASE lost' = {} /\ tears' = {} /\ ~Open(files[c])'
    <3>1. Cardinality({}) = 0 /\ IsFiniteSet({})
      BY FS_EmptySet
    <3> QED
      BY <2>4, <3>1
  <2> QED
    BY <2>1, <2>2, <2>3, <2>4, LossSteps
<1> QED
  BY <1>3, <1>4 DEF LossInvOf

(* A request that was answered has a record that the analysis can read, but *)
(* for one record per line that was cut off; no record is of a request that *)
(* was answered 500.                                                         *)
THEOREM RecordsAreKept ==
  Spec => []OneRecordLostPerTear
<1>1. Init => LossInv
  <2>1. SUFFICES ASSUME Init, NEW c \in RunIds PROVE LossInvOf(c)
    BY DEF LossInv
  <2>2. files[c] = <<>> /\ answered[c] = {}
    BY <2>1 DEF Init
  <2>3. Lost(c) = {} /\ Tears(c) = {} /\ ~Open(files[c]) /\ LoadJsonl(files[c]) = {}
    BY <2>2 DEF Lost, Tears, Open, LoadJsonl
  <2> QED
    BY <2>2, <2>3, FS_EmptySet DEF LossInvOf
<1>2. CampaignTyped /\ LossInv /\ [Next]_vars => LossInv'
  <2>1. SUFFICES ASSUME CampaignTyped, LossInv, [Next]_vars, NEW c \in RunIds
                 PROVE  LossInvOf(c)'
    BY CampaignFixed DEF LossInv
  <2> QED
    BY <2>1, LossKept DEF LossInv
<1>3. LossInv => OneRecordLostPerTear
  <2>1. SUFFICES ASSUME LossInv, NEW c \in RunIds
                 PROVE  /\ Cardinality(Lost(c)) <= Cardinality(Tears(c))
                        /\ {r.n : r \in LoadJsonl(files[c])} \subseteq answered[c]
    BY DEF OneRecordLostPerTear
  <2>2. LossInvOf(c)
    BY <2>1 DEF LossInv
  <2>3. Cardinality(Lost(c)) \in Nat /\ Cardinality(Tears(c)) \in Nat
    BY <2>2, FS_CardinalityType DEF LossInvOf
  <2> QED
    BY <2>2, <2>3 DEF LossInvOf
<1> QED
  BY TypedAlways, <1>1, <1>2, <1>3, PTL DEF Spec

-----------------------------------------------------------------------------
(* One row of the summary is wrong per failure. *)

LEMMA RowKept ==
  ASSUME CampaignTyped, RowInv, [Next]_vars
  PROVE  RowInv'
<1>1. IsFiniteSet(Wrong) /\ Cardinality(Wrong) \in Nat /\ failures \in Nat
      /\ Pending \in {0, 1} /\ Pending' \in {0, 1}
  <2>1. IsFiniteSet(Wrong)
    BY FS_Subset DEF CampaignTyped, Wrong
  <2>2. failures \in Nat
    BY DEF CampaignTyped
  <2> QED
    BY <2>1, <2>2, FS_CardinalityType DEF Pending
<1>2. Cardinality(Wrong) + Pending <= failures
  BY DEF RowInv
<1>3. CASE EndCell
  <2>1. /\ target # "none" /\ step = "drive" /\ failures' = failures /\ Pending' = 0
        /\ \/ summary' = summary
           \/ summary' = summary \cup {[cell |-> Head(todo), measured |-> container.cell]}
    BY <1>3 DEF EndCell, Pending, counts
  <2>2. CASE Wrong' = Wrong
    BY <1>1, <1>2, <2>1, <2>2 DEF RowInv
  <2>3. CASE Wrong' # Wrong
    <3> DEFINE row == [cell |-> Head(todo), measured |-> container.cell]
    <3>1. summary' = summary \cup {row} /\ row.measured # row.cell /\ row \notin Wrong
          /\ Wrong' = Wrong \cup {row}
      BY <2>1, <2>3 DEF Wrong
    <3>2. Pending = 1
      BY <2>1, <3>1 DEF Pending
    <3>3. Cardinality(Wrong') = Cardinality(Wrong) + 1
      BY <1>1, <3>1, FS_AddElement
    <3> QED
      BY <1>1, <1>2, <2>1, <3>2, <3>3 DEF RowInv
  <2> QED
    BY <2>2, <2>3
<1>4. CASE Remove \/ Clean
  <2>1. Wrong' \subseteq Wrong /\ failures' = failures /\ Pending' = 0
    BY <1>4 DEF Remove, Clean, Wrong, Pending, counts
  <2>2. Cardinality(Wrong') <= Cardinality(Wrong) /\ Cardinality(Wrong') \in Nat
    BY <1>1, <2>1, FS_Subset, FS_CardinalityType
  <2> QED
    BY <1>1, <1>2, <2>1, <2>2 DEF RowInv
<1>5. CASE StartFails \/ FillDisk
  <2>1. summary' = summary /\ failures' = failures + 1
    BY <1>5 DEF StartFails, FillDisk
  <2>2. Pending' <= Pending + 1
    BY <1>1
  <2>3. Wrong' = Wrong
    BY <2>1 DEF Wrong
  <2> QED
    BY <1>1, <1>2, <2>1, <2>2, <2>3 DEF RowInv
<1>6. CASE ~EndCell /\ ~Remove /\ ~Clean /\ ~StartFails /\ ~FillDisk
  <2>1. summary' = summary /\ failures' = failures
    BY <1>6 DEF Next, vars, counts, Make, Up, StartCell, Stop, Serve, ServeUnwritten, FreeDisk
  <2>2. Pending' = 0 \/ Pending' = Pending
    BY <1>6 DEF Next, vars, Make, Up, StartCell, Stop, Serve, ServeUnwritten, FreeDisk,
                Pending
  <2>3. Wrong' = Wrong
    BY <2>1 DEF Wrong
  <2> QED
    BY <1>1, <1>2, <2>1, <2>2, <2>3 DEF RowInv
<1> QED
  BY <1>3, <1>4, <1>5, <1>6

(* Makefile 129-131, whatever compose fails to start: each failure costs at *)
(* most one row of the summary its meaning, however the targets that follow *)
(* are interrupted or repeated.                                              *)
THEOREM WrongRowsAreFailures ==
  Spec => []OneWrongRowPerFailure
<1>1. Init => RowInv
  <2>1. SUFFICES ASSUME Init PROVE RowInv
    OBVIOUS
  <2>2. Wrong = {} /\ Pending = 0 /\ failures = 0
    BY <2>1 DEF Init, Wrong, Pending
  <2> QED
    BY <2>2, FS_EmptySet DEF RowInv
<1>2. CampaignTyped /\ RowInv /\ [Next]_vars => RowInv'
  BY RowKept
<1>3. CampaignTyped /\ RowInv => OneWrongRowPerFailure
  <2>1. SUFFICES ASSUME CampaignTyped, RowInv PROVE OneWrongRowPerFailure
    OBVIOUS
  <2>2. IsFiniteSet(Wrong)
    BY <2>1, FS_Subset DEF CampaignTyped, Wrong
  <2>3. Cardinality(Wrong) \in Nat /\ Pending \in {0, 1} /\ failures \in Nat
    BY <2>1, <2>2, FS_CardinalityType DEF CampaignTyped, Pending
  <2>4. Cardinality(Wrong) <= failures
    BY <2>1, <2>3 DEF RowInv
  <2> QED
    BY <2>4 DEF OneWrongRowPerFailure, Wrong
<1> QED
  BY TypedAlways, <1>1, <1>2, <1>3, PTL DEF Spec

-----------------------------------------------------------------------------
(* Every controller enforces what its cell is defined by. *)

VarOf ==
  [dpop |-> "ENFORCE_DPOP", binding |-> "CHECK_DEVICE_BINDING",
   telemetry |-> "ENABLE_TELEMETRY", risk |-> "ENABLE_RISK_POLICY",
   velocity |-> "ENABLE_VELOCITY", passthrough |-> "PROXY_PASSTHROUGH",
   oracle |-> "ORACLE_ATTACK_CONTEXT"]

FlagNames == DOMAIN VarOf

(* What a variable comes to, when the shell's value is one that make sets. *)
Wanted(mode, shell, v) ==
  shell[v] = "true" \/ (shell[v] # "false" /\ v \in ModeDefaults(mode))

(* A variable the shell does not set is left out of the .env file, or empty. *)
Plain(shell, file, v) ==
  /\ shell[v] \in {Unset, Empty, "true", "false"}
  /\ shell[v] = Unset => file[v] \in {Unset, Empty}

LEMMA FlagOf ==
  ASSUME NEW mode, NEW shell, NEW file, NEW v \in FlagVars, Plain(shell, file, v)
  PROVE  Bool(ContainerEnv(shell, file)[v], v \in ModeDefaults(mode))
           <=> Wanted(mode, shell, v)
<1>1. ContainerEnv(shell, file)[v] = IF shell[v] = Unset THEN file[v] ELSE shell[v]
  BY DEF ContainerEnv, ShellOrFile
<1>2. /\ "true" \in Truthy /\ "false" \notin Truthy
      /\ "true" \notin {Unset, Empty} /\ "false" \notin {Unset, Empty}
  BY DEF Truthy, Unset, Empty
<1>3. CASE shell[v] \in {Unset, Empty}
  BY <1>1, <1>2, <1>3 DEF Bool, Wanted, Plain
<1>4. CASE shell[v] \in {"true", "false"}
  BY <1>1, <1>2, <1>4 DEF Bool, Wanted
<1> QED
  BY <1>3, <1>4 DEF Plain

(* A controller's flag, by its variable. *)
LEMMA FlagsOf ==
  ASSUME NEW mode, NEW shell, NEW file,
         NEW flags, flags = Effective(mode, ContainerEnv(shell, file))
  PROVE  /\ DOMAIN flags = FlagNames
         /\ \A f \in FlagNames : /\ VarOf[f] \in FlagVars
                                 /\ Plain(shell, file, VarOf[f]) =>
                                      (flags[f] <=> Wanted(mode, shell, VarOf[f]))
<1> DEFINE on(v) == Bool(ContainerEnv(shell, file)[v], v \in ModeDefaults(mode))
<1>1. flags = [dpop |-> on("ENFORCE_DPOP"), binding |-> on("CHECK_DEVICE_BINDING"),
               telemetry |-> on("ENABLE_TELEMETRY"), risk |-> on("ENABLE_RISK_POLICY"),
               velocity |-> on("ENABLE_VELOCITY"),
               passthrough |-> on("PROXY_PASSTHROUGH"),
               oracle |-> on("ORACLE_ATTACK_CONTEXT")]
  BY DEF Effective
<1>2. \A v \in FlagVars : Plain(shell, file, v) => (on(v) <=> Wanted(mode, shell, v))
  BY FlagOf
<1>3. \A f \in FlagNames : VarOf[f] \in FlagVars
  BY DEF FlagNames, VarOf, FlagVars
<1> HIDE DEF on
<1>4. DOMAIN flags = FlagNames /\ \A f \in FlagNames : flags[f] = on(VarOf[f])
  BY <1>1 DEF FlagNames, VarOf
<1> QED
  BY <1>2, <1>3, <1>4

(* The cells, by the mode and the variables their targets set. *)
LEMMA CellShape ==
  ASSUME NEW cell \in CellNames
  PROVE  \/ cell \in {"B0", "exp_B0"}
            /\ Cells[cell].mode = "B0" /\ Cells[cell].shell = Keep
         \/ cell \in {"B1", "exp_B1", "B1_adaptive"}
            /\ Cells[cell].mode = "B1" /\ Cells[cell].shell = Keep
         \/ cell \in {"P", "exp_P", "P_adaptive", "P_adaptive_slow", "P_adaptive_tau030",
                      "P_adaptive_slow_tau030"}
            /\ Cells[cell].mode = "P" /\ Cells[cell].shell = Keep
         \/ cell \in {"B1_oracle", "P_oracle"}
            /\ Cells[cell].mode = (IF cell = "P_oracle" THEN "P" ELSE "B1")
            /\ Cells[cell].shell = [Keep EXCEPT !["ORACLE_ATTACK_CONTEXT"] = "true"]
         \/ cell \in {"abl_P", "abl_B1"}
            /\ Cells[cell].mode = (IF cell = "abl_P" THEN "P" ELSE "B1")
            /\ Cells[cell].shell = AblationShell("none")
         \/ cell = "P_minus_device_binding" /\ Cells[cell].mode = "P"
            /\ Cells[cell].shell = AblationShell("CHECK_DEVICE_BINDING")
         \/ cell = "P_minus_context"
            /\ Cells[cell].mode = "P"
            /\ Cells[cell].shell = AblationShell("ENABLE_TELEMETRY")
         \/ cell = "P_minus_velocity"
            /\ Cells[cell].mode = "P"
            /\ Cells[cell].shell = AblationShell("ENABLE_VELOCITY")
<1>1. cell \in DOMAIN Cells
  BY DEF CellNames
<1> QED
  BY <1>1 DEF Cells, AttackCell, LoadCell, AdaptiveCell, OracleCell, AblationCell, Cell

(* The ablation target turns its one variable off and leaves the others. *)
LEMMA AblationTurnsOff ==
  ASSUME NEW mode, NEW off, NEW v \in FlagVars
  PROVE  Wanted(mode, AblationShell(off), v) <=>
           v \in ModeDefaults(mode) /\ ~(v \in Ablated /\ v = off)
<1>1. AblationShell(off)[v] =
        IF v \notin Ablated THEN Unset ELSE IF v = off THEN "false" ELSE Empty
  BY DEF AblationShell
<1>2. Unset \notin {"true", "false"} /\ Empty \notin {"true", "false"}
  BY DEF Unset, Empty
<1> QED
  BY <1>1, <1>2 DEF Wanted

(* What is on, and what the cell is defined by, flag by flag. *)
LEMMA FlagsDefined ==
  ASSUME NEW cell \in CellNames, NEW f \in FlagNames
  PROVE  Wanted(Cells[cell].mode, Cells[cell].shell, VarOf[f]) <=> f \in Defined(cell)
<1>1. CASE cell \in {"B0", "exp_B0"}
  <2>1. Cells[cell].mode = "B0" /\ Cells[cell].shell = Keep
    BY <1>1, CellShape
  <2> QED
    BY <1>1, <2>1 DEF FlagNames, VarOf, Keep, Unset, FlagVars, Wanted,
                         ModeDefaults, Defined, AllFlags
<1>2. CASE cell \in {"B1", "exp_B1", "B1_adaptive"}
  <2>1. Cells[cell].mode = "B1" /\ Cells[cell].shell = Keep
    BY <1>2, CellShape
  <2> QED
    BY <1>2, <2>1 DEF FlagNames, VarOf, Keep, Unset, FlagVars, Wanted,
                         ModeDefaults, Defined, AllFlags
<1>3. CASE cell \in {"P", "exp_P", "P_adaptive", "P_adaptive_slow", "P_adaptive_tau030",
                      "P_adaptive_slow_tau030"}
  <2>1. Cells[cell].mode = "P" /\ Cells[cell].shell = Keep
    BY <1>3, CellShape
  <2> QED
    BY <1>3, <2>1 DEF FlagNames, VarOf, Keep, Unset, FlagVars, Wanted,
                         ModeDefaults, Defined, AllFlags
<1>4. CASE cell \in {"B1_oracle", "P_oracle"}
  <2>1. /\ Cells[cell].mode = (IF cell = "P_oracle" THEN "P" ELSE "B1")
        /\ Cells[cell].shell = [Keep EXCEPT !["ORACLE_ATTACK_CONTEXT"] = "true"]
    BY <1>4, CellShape
  <2> QED
    BY <1>4, <2>1 DEF FlagNames, VarOf, Keep, Unset, FlagVars, Wanted,
                         ModeDefaults, Defined, AllFlags
<1>5. CASE cell \in {"abl_P", "abl_B1"}
  <2>1. /\ Cells[cell].mode = (IF cell = "abl_P" THEN "P" ELSE "B1")
        /\ Cells[cell].shell = AblationShell("none")
    BY <1>5, CellShape
  <2>2. Wanted(Cells[cell].mode, Cells[cell].shell, VarOf[f]) <=>
          VarOf[f] \in ModeDefaults(Cells[cell].mode)
          /\ ~(VarOf[f] \in Ablated /\ VarOf[f] = "none")
    <3>1. VarOf[f] \in FlagVars
      BY DEF FlagNames, VarOf, FlagVars
    <3> QED
      BY <2>1, <3>1, AblationTurnsOff
  <2> QED
    BY <1>5, <2>1, <2>2 DEF FlagNames, VarOf, Ablated, ModeDefaults, Defined, AllFlags
<1>6. CASE cell = "P_minus_device_binding"
  <2>1. /\ Cells[cell].mode = "P"
        /\ Cells[cell].shell = AblationShell("CHECK_DEVICE_BINDING")
    BY <1>6, CellShape
  <2>2. Wanted(Cells[cell].mode, Cells[cell].shell, VarOf[f]) <=>
          VarOf[f] \in ModeDefaults(Cells[cell].mode)
          /\ ~(VarOf[f] \in Ablated /\ VarOf[f] = "CHECK_DEVICE_BINDING")
    <3>1. VarOf[f] \in FlagVars
      BY DEF FlagNames, VarOf, FlagVars
    <3> QED
      BY <2>1, <3>1, AblationTurnsOff
  <2> QED
    BY <1>6, <2>1, <2>2 DEF FlagNames, VarOf, Ablated, ModeDefaults, Defined, AllFlags
<1>7. CASE cell = "P_minus_context"
  <2>1. /\ Cells[cell].mode = "P"
        /\ Cells[cell].shell = AblationShell("ENABLE_TELEMETRY")
    BY <1>7, CellShape
  <2>2. Wanted(Cells[cell].mode, Cells[cell].shell, VarOf[f]) <=>
          VarOf[f] \in ModeDefaults(Cells[cell].mode)
          /\ ~(VarOf[f] \in Ablated /\ VarOf[f] = "ENABLE_TELEMETRY")
    <3>1. VarOf[f] \in FlagVars
      BY DEF FlagNames, VarOf, FlagVars
    <3> QED
      BY <2>1, <3>1, AblationTurnsOff
  <2> QED
    BY <1>7, <2>1, <2>2 DEF FlagNames, VarOf, Ablated, ModeDefaults, Defined, AllFlags
<1>8. CASE cell = "P_minus_velocity"
  <2>1. /\ Cells[cell].mode = "P"
        /\ Cells[cell].shell = AblationShell("ENABLE_VELOCITY")
    BY <1>8, CellShape
  <2>2. Wanted(Cells[cell].mode, Cells[cell].shell, VarOf[f]) <=>
          VarOf[f] \in ModeDefaults(Cells[cell].mode)
          /\ ~(VarOf[f] \in Ablated /\ VarOf[f] = "ENABLE_VELOCITY")
    <3>1. VarOf[f] \in FlagVars
      BY DEF FlagNames, VarOf, FlagVars
    <3> QED
      BY <2>1, <3>1, AblationTurnsOff
  <2> QED
    BY <1>8, <2>1, <2>2 DEF FlagNames, VarOf, Ablated, ModeDefaults, Defined, AllFlags
<1> QED
  BY <1>1, <1>2, <1>3, <1>4, <1>5, <1>6, <1>7, <1>8, CellShape

(* What the targets set, and that the ablation sets all it varies. *)
LEMMA ShellTyped ==
  ASSUME NEW cell \in CellNames, NEW v \in FlagVars
  PROVE  Cells[cell].shell[v] \in {Unset, Empty, "true", "false"}
<1>1. \A off : AblationShell(off)[v] \in {Unset, Empty, "false"}
  BY DEF AblationShell
<1>2. /\ Keep[v] = Unset
      /\ [Keep EXCEPT !["ORACLE_ATTACK_CONTEXT"] = "true"][v] \in {Unset, "true"}
  BY DEF Keep
<1> QED
  BY <1>1, <1>2, CellShape

LEMMA AblationSetsAll ==
  ASSUME NEW cell \in CellNames, Cells[cell].target = "ablation", NEW v \in Ablated
  PROVE  /\ v \in FlagVars
         /\ Cells[cell].shell[v] \in {Empty, "false"} /\ Cells[cell].shell[v] # Unset
<1>1. \E mode, off : Cells[cell] = AblationCell(mode, off)
  <2>1. cell \in DOMAIN Cells
    BY DEF CellNames
  <2> QED
    BY <2>1 DEF Cells, AttackCell, LoadCell, AdaptiveCell, OracleCell, Cell
<1>2. \A mode, off : AblationCell(mode, off).shell = AblationShell(off)
  BY DEF AblationCell, Cell
<1>3. v \in FlagVars
  BY DEF Ablated, FlagVars
<1>4. \A off : AblationShell(off)[v] \in {Empty, "false"}
  BY <1>3 DEF AblationShell
<1> QED
  BY <1>1, <1>2, <1>3, <1>4 DEF Unset, Empty


(* The flags of a controller that a target started are those of its cell. *)
FlagsInv ==
  container.cell \in CellNames =>
    container.flags = CellFlags(container.cell, campaign.envFile)

LEMMA FlagsAlways ==
  Spec => []FlagsInv
<1>1. Default \notin CellNames /\ NoController \notin CellNames
  BY DEF Default, NoController, CellNames, Cells
<1>2. Init => FlagsInv
  BY <1>1 DEF Init, FlagsInv, Gone
<1>3. FlagsInv /\ [Next]_vars => FlagsInv'
  <2>1. SUFFICES ASSUME FlagsInv, [Next]_vars PROVE FlagsInv'
    OBVIOUS
  <2>2. campaign' = campaign
    BY <2>1, CampaignFixed
  <2>3. CASE container' = container
    BY <2>1, <2>2, <2>3 DEF FlagsInv
  <2>4. CASE container'.cell \notin CellNames
    BY <2>4 DEF FlagsInv
  <2>5. CASE StartCell
    BY <2>2, <2>5 DEF StartCell, FlagsInv
  <2> QED
    BY <1>1, <2>1, <2>3, <2>4, <2>5 DEF Next, vars, Make, Up, Remove, StartFails, EndCell,
       Stop, Clean, Serve, ServeUnwritten, FillDisk, FreeDisk, Gone
<1> QED
  BY <1>2, <1>3, PTL DEF Spec

(* Every controller that a target started enforces what its cell is defined *)
(* by, whether the .env file leaves the flags out or sets them to nothing;   *)
(* and whatever the .env file holds, no flag of it leaks into the ablation's *)
(* cells, which vary just those three.  For each of the Makefile's cells.    *)
THEOREM CellsEnforceTheirFlags ==
  Spec => []CellsAsDefined
<1>1. FlagsInv => CellsAsDefined
  <2>1. SUFFICES ASSUME FlagsInv, container.cell \in CellNames
                 PROVE  CellsAsDefined
    BY DEF CellsAsDefined, FlagsAsDefined, AblationIgnoresEnvFile
  <2>2. PICK cell, mode, shell, file, flags :
          /\ cell \in CellNames /\ cell = container.cell /\ file = campaign.envFile
          /\ mode = Cells[cell].mode /\ shell = Cells[cell].shell
          /\ flags = container.flags /\ flags = Effective(mode, ContainerEnv(shell, file))
    BY <2>1 DEF FlagsInv, CellFlags
  <2>3. /\ DOMAIN flags = FlagNames
        /\ \A f \in FlagNames : /\ VarOf[f] \in FlagVars
                                /\ Plain(shell, file, VarOf[f]) =>
                                     (flags[f] <=> f \in Defined(cell))
    BY <2>2, FlagsOf, FlagsDefined
  <2>4. FlagsAsDefined
    <3>1. SUFFICES ASSUME \A v \in FlagVars : file[v] \in {Unset, Empty}
                   PROVE  On(flags) = Defined(cell)
      BY <2>2 DEF FlagsAsDefined
    <3>2. \A v \in FlagVars : Plain(shell, file, v)
      BY <2>2, <3>1, ShellTyped DEF Plain
    <3>3. \A f \in FlagNames : flags[f] <=> f \in Defined(cell)
      BY <2>3, <3>2
    <3>4. Defined(cell) \subseteq FlagNames
      BY DEF Defined, AllFlags, FlagNames, VarOf
    <3> QED
      BY <2>3, <3>3, <3>4 DEF On
  <2>5. AblationIgnoresEnvFile
    <3>1. SUFFICES ASSUME Cells[cell].target = "ablation"
                   PROVE  /\ flags.binding <=> "binding" \in Defined(cell)
                          /\ flags.telemetry <=> "telemetry" \in Defined(cell)
                          /\ flags.velocity <=> "velocity" \in Defined(cell)
      BY <2>2 DEF AblationIgnoresEnvFile
    <3>2. \A v \in Ablated : Plain(shell, file, v)
      BY <2>2, <3>1, AblationSetsAll DEF Plain
    <3>3. \A f \in {"binding", "telemetry", "velocity"} :
            f \in FlagNames /\ VarOf[f] \in Ablated
      BY DEF FlagNames, VarOf, Ablated
    <3>4. \A f \in {"binding", "telemetry", "velocity"} : flags[f] <=> f \in Defined(cell)
      BY <2>3, <3>2, <3>3
    <3> QED
      BY <3>4
  <2> QED
    BY <2>4, <2>5 DEF CellsAsDefined
<1> QED
  BY FlagsAlways, <1>1, PTL
=============================================================================
