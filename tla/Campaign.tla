------------------------------ MODULE Campaign ------------------------------
(***************************************************************************)
(* The experiment targets of the Makefile with what they run on: docker     *)
(* compose recreating the one controller for each cell, the configuration   *)
(* the controller starts with, and the files it appends its records to      *)
(* (zt-controller/app/jsonl_logger.py).                                     *)
(*                                                                          *)
(* A target may be interrupted anywhere and started again; compose may fail *)
(* to bring a cell's controller up, and the loop over the cells goes on     *)
(* regardless; the disk may fill up in the middle of a write.  Requests     *)
(* come from the cell's own driver, and from anybody else at any time.      *)
(***************************************************************************)
EXTENDS ZtConfig, Sequences, FiniteSets

CONSTANTS
  Campaigns   \* the campaigns considered, each a record of
              \*   plan : the cells of each target, in the order of its loop
              \*   envFile, outDir : the .env file, and the value of OUT_DIR
              \*   invocations, requests, failures : bounds of the targets
              \*   started, of the requests, of the failures of compose and disk

ASSUME CampaignAssumption ==
  \A c \in Campaigns :
    /\ \A t \in DOMAIN c.plan :
         /\ c.plan[t] \in Seq(CellNames)
         /\ \A i \in 1..Len(c.plan[t]) : Cells[c.plan[t][i]].target = t
    /\ {c.invocations, c.requests, c.failures} \subseteq Nat

VARIABLES
  campaign,              \* fixed in the initial state
  target, step, todo,    \* the running target, where it stands, its cells left
  container,             \* the controller: [cell, flags, era of its start]
  files,                 \* the lines of <run id>.jsonl, a cell per run id
  summary,               \* rows of summary.jsonl
  disk,                  \* "free" or "full"
  era, served, failures, \* counts: targets started, requests, failures
  answered               \* the requests of each run id that got an answer
                         \* other than 500; a history variable

vars == <<campaign, target, step, todo, container, files, summary, disk,
          era, served, failures, answered>>

counts == <<era, served, failures>>

DataDir == "data/raw"     \* what DATA_DIR is to the host
Default == "default"      \* the run id of a controller no cell started
NoController == "none"
Gone == [cell |-> NoController, era |-> 0, flags |-> Effective("P", Keep)]

Plan == campaign.plan
RunIds ==
  (UNION {{Plan[t][i] : i \in DOMAIN Plan[t]} : t \in DOMAIN Plan}) \cup {Default}

-----------------------------------------------------------------------------
(* A line holds the pieces written since the last line feed: whole records, *)
(* and Torn, a record that was cut off and has no line feed.                *)
Torn == [n |-> -1, era |-> -1]

Open(lines) ==
  lines # <<>> /\ LET last == lines[Len(lines)] IN last[Len(last)] = Torn

Written(lines, piece) ==
  IF Open(lines)
  THEN [lines EXCEPT ![Len(lines)] = Append(@, piece)]
  ELSE Append(lines, <<piece>>)

(* _load_jsonl: a line that is no JSON is skipped.                          *)
LoadJsonl(lines) ==
  {lines[i][1] : i \in {k \in DOMAIN lines : Len(lines[k]) = 1 /\ lines[k][1] # Torn}}

-----------------------------------------------------------------------------
TypeOK ==
  /\ target \in DOMAIN Plan \cup {"none"}
  /\ step \in {"up", "rm", "start", "drive"}
  /\ container.cell \in RunIds \cup {NoController}
  /\ DOMAIN files = RunIds
  /\ \A c \in RunIds : \A i \in DOMAIN files[c] :
       LET line == files[c][i]   \* a record ends its line
       IN line # <<>> /\ \A k \in 1..Len(line) - 1 : line[k] = Torn
  /\ disk \in {"free", "full"}
  /\ answered \in [RunIds -> SUBSET (1..campaign.requests)]
  /\ era \in 0..campaign.invocations
  /\ served \in 0..campaign.requests /\ failures \in 0..campaign.failures

Init ==
  /\ campaign \in Campaigns
  /\ target = "none" /\ step = "up" /\ todo = <<>>
  /\ container = Gone
  /\ files = [c \in RunIds |-> <<>>] /\ summary = {} /\ disk = "free"
  /\ era = 0 /\ served = 0 /\ failures = 0 /\ answered = [c \in RunIds |-> {}]

Make(t) ==
  /\ target = "none" /\ era < campaign.invocations
  /\ target' = t /\ step' = "up" /\ todo' = Plan[t] /\ era' = era + 1
  /\ UNCHANGED <<campaign, container, files, summary, disk, served, failures, answered>>

UpKeepingController ==   \* mutant: the target does not depend on `up`
  /\ target # "none" /\ step = "up"
  /\ step' = "rm"
  /\ UNCHANGED <<campaign, target, todo, container, files, summary, disk, counts, answered>>

(* The prerequisite `up`: compose recreates a controller that was started   *)
(* with a cell's variables.                                                 *)
Up ==
  /\ target # "none" /\ step = "up"
  /\ container' = [cell |-> Default, era |-> era,
                    flags |-> Effective("P", ContainerEnv(Keep, campaign.envFile))]
  /\ step' = "rm"
  /\ UNCHANGED <<campaign, target, todo, files, summary, disk, counts, answered>>

(* rm -f of the target's own outputs, below OUT_DIR. *)
Own(c) == c # Default /\ Cells[c].target = target /\ campaign.outDir = DataDir

Remove ==
  /\ target # "none" /\ step = "rm"
  /\ files' = [c \in RunIds |-> IF Own(c) THEN <<>> ELSE files[c]]
  /\ answered' = [c \in RunIds |-> IF Own(c) THEN {} ELSE answered[c]]
  /\ summary' = {row \in summary : Cells[row.cell].target # target}
  /\ step' = "start"
  /\ UNCHANGED <<campaign, target, todo, container, disk, counts>>

StartUnnamed ==   \* mutant: ZT_RUN_ID is not passed on
  /\ target # "none" /\ step = "start" /\ todo # <<>>
  /\ container' = [container EXCEPT !.era = era,
                     !.flags = CellFlags(Head(todo), campaign.envFile)]
  /\ step' = "drive"
  /\ UNCHANGED <<campaign, target, todo, files, summary, disk, counts, answered>>

(* compose up -d with the variables of the next cell. *)
StartCell ==
  /\ target # "none" /\ step = "start" /\ todo # <<>>
  /\ container' = [cell |-> Head(todo), era |-> era,
                    flags |-> CellFlags(Head(todo), campaign.envFile)]
  /\ step' = "drive"
  /\ UNCHANGED <<campaign, target, todo, files, summary, disk, counts, answered>>

(* It fails before it touched the old controller, or after it removed it.   *)
StartFails ==
  /\ target # "none" /\ step = "start" /\ todo # <<>> /\ failures < campaign.failures
  /\ container' \in {container, Gone}
  /\ failures' = failures + 1 /\ step' = "drive"
  /\ UNCHANGED <<campaign, target, todo, files, summary, disk, era, served, answered>>

(* The cell's driver is through; the attack runner appends its rows under   *)
(* the name that the target gives the cell, unless it found no controller.  *)
EndCell ==
  /\ target # "none" /\ step = "drive"
  /\ summary' = IF container.cell = NoController \/ target = "experiments"
                THEN summary
                ELSE summary \cup {[cell |-> Head(todo), measured |-> container.cell]}
  /\ todo' = Tail(todo) /\ step' = "start"
  /\ UNCHANGED <<campaign, target, container, files, disk, counts, answered>>

(* The loop has ended, or somebody has interrupted the target. *)
Stop ==
  /\ target # "none"
  /\ target' = "none" /\ step' = "up" /\ todo' = <<>>
  /\ UNCHANGED <<campaign, container, files, summary, disk, counts, answered>>

(* make clean: the containers go, and every record. *)
Clean ==
  /\ target = "none" /\ era < campaign.invocations
  /\ container' = Gone
  /\ files' = [c \in RunIds |-> <<>>] /\ answered' = [c \in RunIds |-> {}]
  /\ summary' = {} /\ era' = era + 1
  /\ UNCHANGED <<campaign, target, step, todo, disk, served, failures>>

-----------------------------------------------------------------------------
(* A request to the running controller, up to its record. *)
Record == [n |-> served + 1, era |-> container.era]

(* write_record, and the answer. *)
Serve ==
  /\ container.cell # NoController /\ served < campaign.requests /\ disk = "free"
  /\ files' = [files EXCEPT ![container.cell] = Written(@, Record)]
  /\ answered' = [answered EXCEPT ![container.cell] = @ \cup {served + 1}]
  /\ served' = served + 1
  /\ UNCHANGED <<campaign, target, step, todo, container, summary, disk, era, failures>>

ServeSwallowing ==   \* mutant: write_record's exception is swallowed
  /\ container.cell # NoController /\ served < campaign.requests /\ disk = "full"
  /\ files' \in {files, [files EXCEPT ![container.cell] = Written(@, Torn)]}
  /\ answered' = [answered EXCEPT ![container.cell] = @ \cup {served + 1}]
  /\ served' = served + 1
  /\ UNCHANGED <<campaign, target, step, todo, container, summary, disk, era, failures>>

(* The write fails, with nothing or a part of the line in the file: the     *)
(* resource server has already been asked, the client is answered 500.      *)
ServeUnwritten ==
  /\ container.cell # NoController /\ served < campaign.requests /\ disk = "full"
  /\ files' \in {files, [files EXCEPT ![container.cell] = Written(@, Torn)]}
  /\ served' = served + 1
  /\ UNCHANGED <<campaign, target, step, todo, container, summary, disk, era, failures,
                 answered>>

FillDisk ==
  /\ disk = "free" /\ failures < campaign.failures
  /\ disk' = "full" /\ failures' = failures + 1
  /\ UNCHANGED <<campaign, target, step, todo, container, files, summary, era, served,
                 answered>>

FreeDisk ==
  /\ disk = "full"
  /\ disk' = "free"
  /\ UNCHANGED <<campaign, target, step, todo, container, files, summary, counts, answered>>

Next ==
  \/ \E t \in DOMAIN Plan : Make(t)
  \/ Up \/ Remove \/ StartCell \/ StartFails \/ EndCell \/ Stop \/ Clean
  \/ Serve \/ ServeUnwritten \/ FillDisk \/ FreeDisk

Spec == Init /\ [][Next]_vars

-----------------------------------------------------------------------------
(* Properties. *)

AllFlags == {"dpop", "binding", "telemetry", "risk", "velocity"}

(* README.md and the Makefile, 219-233, in words: what each cell enforces.  *)
Defined(cell) ==
  CASE cell \in {"B0", "exp_B0"}                  -> {"passthrough"}
    [] cell \in {"B1", "exp_B1", "abl_B1", "B1_adaptive"} -> {"dpop", "binding"}
    [] cell = "B1_oracle"                         -> {"dpop", "binding", "oracle"}
    [] cell = "P_oracle"                          -> AllFlags \cup {"oracle"}
    [] cell = "P_minus_device_binding"            -> AllFlags \ {"binding"}
    [] cell = "P_minus_context"                   -> AllFlags \ {"telemetry"}
    [] cell = "P_minus_velocity"                  -> AllFlags \ {"velocity"}
    [] OTHER                                      -> AllFlags

On(flags) == {f \in DOMAIN flags : flags[f]}

(* Every controller that a target started enforces what its cell is defined *)
(* by, whether the .env file leaves the flags out or sets them to nothing,  *)
(* and although the ablation target sets two of three flags to nothing.     *)
FlagsAsDefined ==
  /\ container.cell \in CellNames
  /\ \A v \in FlagVars : campaign.envFile[v] \in {Unset, Empty}
  => On(container.flags) = Defined(container.cell)

(* A flag forced in the .env file for a manual ablation does not leak into  *)
(* the ablation target, whose cells set all three flags they vary.          *)
AblationIgnoresEnvFile ==
  container.cell \in CellNames /\ Cells[container.cell].target = "ablation" =>
    /\ container.flags.binding <=> "binding" \in Defined(container.cell)
    /\ container.flags.telemetry <=> "telemetry" \in Defined(container.cell)
    /\ container.flags.velocity <=> "velocity" \in Defined(container.cell)

CellsAsDefined == FlagsAsDefined /\ AblationIgnoresEnvFile

Mixed(c) ==
  \E r, s \in LoadJsonl(files[c]) : r.era # s.era

(* Makefile 81-83: no file that a table is computed from mixes the records  *)
(* of two invocations, wherever the first was interrupted, whoever sends    *)
(* requests in between, and whatever compose fails to start; provided that  *)
(* OUT_DIR, which the user may set, is where the controller writes.         *)
OneInvocationPerFile ==
  campaign.outDir = DataDir => \A c \in RunIds \ {Default} : ~Mixed(c)

Lost(c) == answered[c] \ {r.n : r \in LoadJsonl(files[c])}
Tears(c) == {i \in DOMAIN files[c] : \E k \in DOMAIN files[c][i] : files[c][i][k] = Torn}

(* A request that was answered has a record that the analysis can read,     *)
(* except that a line which was cut off takes the record appended to it     *)
(* along, one at most; and no record is of a request answered 500.          *)
OneRecordLostPerTear ==
  \A c \in RunIds :
    /\ Cardinality(Lost(c)) <= Cardinality(Tears(c))
    /\ {r.n : r \in LoadJsonl(files[c])} \subseteq answered[c]

(* Makefile 129-131: a cell's attacks run against a controller that was     *)
(* restarted for the cell.  The loop does not stop when a restart fails, so *)
(* each failure costs one row of the summary its meaning, and no more.      *)
OneWrongRowPerFailure ==
  Cardinality({row \in summary : row.measured # row.cell}) <= failures
=============================================================================
