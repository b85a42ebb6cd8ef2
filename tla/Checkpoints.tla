----------------------------- MODULE Checkpoints -----------------------------
(***************************************************************************)
(* The checkpoint store of TiDB Lightning and everything that writes it:   *)
(* the three drivers of pkg/lightning/checkpoints (MySQL, a local file,    *)
(* and the embedding TiDB, "glue"), the pair of goroutines of              *)
(* listenCheckpointUpdates that coalesces the updates of the import, the   *)
(* producers of those updates, the shutdown through waitCheckpointFinish,  *)
(* cleanCheckpoints, and the checkpoint commands of tidb-lightning-ctl.    *)
(*                                                                         *)
(* One table is imported by NEngines engines of one chunk each; a chunk    *)
(* has MaxPos rows.  What an import step does to the data is the business  *)
(* of TableRestore and DeliverLoop: here it is one step that makes an      *)
(* update to be saved.                                                     *)
(***************************************************************************)
EXTENDS Integers

CONSTANTS
  Drivers,      \* the checkpoint drivers to check
  NEngines,     \* data engines of the table, each with one chunk
  MaxPos,       \* rows of a chunk
  MaxTrouble,   \* bound: crashes, cancellations, failed updates and engine steps
  MaxCtl        \* bound: commands of tidb-lightning-ctl

ASSUME ConstantsAssumption ==
  /\ Drivers \subseteq {"mysql", "file", "glue"}
  /\ NEngines \in Nat \ {0} /\ MaxPos \in Nat \ {0}
  /\ {MaxTrouble, MaxCtl} \subseteq Nat

VARIABLES
  driver,   \* the driver in use
  db,       \* the durable checkpoint of the table
  mem,      \* FileCheckpointsDB.checkpoints, the file driver's copy of db
  tmp,      \* the content of <path>.tmp while a save is between its two steps
  life,     \* where the main goroutine is
  tstat,    \* the last table status it sent
  csum,     \* cp.Checksum, the checksum before the import
  alloc,    \* Base() of the table's ID allocator
  at,       \* the rows each engine's chunk has delivered
  estat,    \* the last status sent for each engine
  epc,      \* where each engine is inside saveCheckpoint
  reg,      \* the allocator base an engine has read and not yet sent
  diff,     \* coalesed[table]
  token,    \* len(hasCheckpoint)
  spc,      \* where the saving goroutine is
  upd,      \* the diff it has taken
  wg,       \* the counter of checkpointsWg
  lost,     \* an update is missing from db although the process went on
  trouble,  \* what is left of MaxTrouble
  ctls      \* what is left of MaxCtl

process == <<life, tstat, csum, alloc, at, estat, epc, reg>>
saver == <<diff, token, spc, upd, wg>>
store == <<db, mem, tmp, lost>>
budget == <<trouble, ctls>>
vars == <<driver, store, process, saver, budget>>

Engines == 1 .. NEngines

MaxInvalid == 25
Loaded == 30
AllWritten == 60
EngineSteps == {AllWritten, 90, 120}        \* AllWritten, Closed, Imported
TableSteps == {140, 210}                    \* IndexImported .. Analyzed; those between
                                            \* are saved in the same way

SetInvalid(st) == st \div 10

Larger(a, b) == IF a >= b THEN a ELSE b

\* The row ID of row p of the chunk of engine e: the chunks' row ID ranges
\* follow each other.
Handle(e, p) == (e - 1) * MaxPos + p

NoStatus == 0
NoRow == -1

\* The checkpoint of the table: the row of the task table, the row of the
\* table table (has), one row per engine and one per chunk.
NoCheckpoint == [task |-> FALSE, has |-> FALSE, status |-> NoStatus, base |-> 0,
                 sum |-> 0, eng |-> [e \in Engines |-> NoStatus],
                 pos |-> [e \in Engines |-> NoRow]]

HasEngines(c) == \E e \in Engines : c.eng[e] # NoStatus

-----------------------------------------------------------------------------
(* Diffs and their mergers                                                 *)

NewTableCheckpointDiff == [any |-> FALSE, status |-> NoStatus, base |-> NoRow, sum |-> 0,
                           eng |-> [e \in Engines |-> NoStatus],
                           pos |-> [e \in Engines |-> NoRow]]

\* StatusCheckpointMerger: an invalid engine status is the table's status too
MergeTableStatus(d, st) == [d EXCEPT !.any = TRUE, !.status = st]

MergeEngineStatus(d, e, st) ==
  [d EXCEPT !.any = TRUE,
            !.status = IF st <= MaxInvalid THEN st ELSE @,
            !.eng[e] = st]

MergeChunk(d, e, p) == [d EXCEPT !.any = TRUE, !.pos[e] = p]

MergeChecksum(d, s) == [d EXCEPT !.any = TRUE, !.sum = s]

MergeRebase(d, b) == [d EXCEPT !.any = TRUE, !.base = Larger(@, b)]

\* What the three kinds of statement of an update do to a checkpoint's rows.
\* A statement on a row that is not there changes nothing.
ApplyStatus(c, u) ==
  [c EXCEPT !.status = IF c.has /\ u.status # NoStatus THEN u.status ELSE @]

\* Mutated form: the positions of an engine are not saved with its status
MutApplyEngines(c, u) ==
  [c EXCEPT !.eng = [e \in Engines |-> IF c.eng[e] # NoStatus /\ u.eng[e] # NoStatus
                                       THEN u.eng[e] ELSE c.eng[e]],
            !.pos = [e \in Engines |-> IF c.pos[e] # NoRow /\ u.pos[e] # NoRow /\ u.eng[e] = NoStatus
                                       THEN u.pos[e] ELSE c.pos[e]]]

ApplyEngines(c, u) ==
  [c EXCEPT !.eng = [e \in Engines |-> IF c.eng[e] # NoStatus /\ u.eng[e] # NoStatus
                                       THEN u.eng[e] ELSE c.eng[e]],
            !.pos = [e \in Engines |-> IF c.pos[e] # NoRow /\ u.pos[e] # NoRow
                                       THEN u.pos[e] ELSE c.pos[e]]]

\* UpdateTableRebaseTemplate: alloc_base = GREATEST(?, alloc_base)
SQLRebase(c, u) ==
  [c EXCEPT !.base = IF c.has /\ u.base # NoRow THEN Larger(@, u.base) ELSE @]

\* MySQLCheckpointsDB.Update, one transaction
MySQLUpdate(c, u) ==
  LET d == ApplyEngines(SQLRebase(ApplyStatus(c, u), u), u)
  IN  [d EXCEPT !.sum = IF c.has /\ u.sum # 0 THEN u.sum ELSE @]

\* GlueCheckpointsDB.Update: the same, but it has no statement for the
\* table's checksum.
GlueUpdate(c, u) == ApplyEngines(SQLRebase(ApplyStatus(c, u), u), u)

\* FileCheckpointsDB.Update on the copy in memory: the base is assigned
FileUpdate(c, u) ==
  LET d == ApplyEngines(ApplyStatus(c, u), u)
  IN  [d EXCEPT !.base = IF u.base # NoRow THEN u.base ELSE @,
                !.sum = IF u.sum # 0 THEN u.sum ELSE @]

\* Initialize: the task row is replaced, a table row is made if there is none
Initialized(c) ==
  [c EXCEPT !.task = TRUE, !.has = TRUE, !.status = IF c.has THEN @ ELSE Loaded]

\* InsertEngineCheckpoints: REPLACE of every engine and chunk row
WithEngines(c) ==
  [c EXCEPT !.eng = [e \in Engines |-> Loaded], !.pos = [e \in Engines |-> 0]]

\* IgnoreErrorCheckpoint
ErrorIgnored(c) ==
  [c EXCEPT !.status = IF c.has /\ @ <= MaxInvalid THEN Loaded ELSE @,
            !.eng = [e \in Engines |-> IF c.eng[e] # NoStatus /\ c.eng[e] <= MaxInvalid
                                       THEN Loaded ELSE c.eng[e]]]

\* RemoveCheckpoint(table): the chunk, engine and table rows go in one
\* transaction.
Removed(c) == [NoCheckpoint EXCEPT !.task = c.task]

\* DestroyErrorCheckpoint: the same for a table that failed
Destroyed(c) == IF c.has /\ c.status <= MaxInvalid THEN Removed(c) ELSE c

-----------------------------------------------------------------------------
Init ==
  /\ driver \in Drivers
  /\ db = NoCheckpoint /\ mem = NoCheckpoint /\ tmp = NoCheckpoint /\ lost = FALSE
  /\ life = "down" /\ tstat = NoStatus /\ csum = 0 /\ alloc = 0
  /\ at = [e \in Engines |-> 0] /\ estat = [e \in Engines |-> Loaded]
  /\ epc = [e \in Engines |-> "idle"] /\ reg = [e \in Engines |-> 0]
  /\ diff = NewTableCheckpointDiff /\ upd = NewTableCheckpointDiff
  /\ token = 0 /\ spc = "idle" /\ wg = 0
  /\ trouble = MaxTrouble /\ ctls = MaxCtl

\* One event through the unbuffered saveCpCh and one round of the listener:
\* merge under the lock, and signal the saver unless a signal is waiting.
Send(d) ==
  /\ diff' = d /\ token' = 1
  /\ wg' = IF token = 0 THEN wg + 1 ELSE wg
  /\ UNCHANGED <<spc, upd>>

\* Mutated form: os.WriteFile truncates the checkpoint file itself
MutSaveTmp(c) == mem' = c /\ tmp' = c /\ db' = NoCheckpoint /\ UNCHANGED lost

\* save() of the file driver: the copy in memory goes to <path>.tmp, which
\* SaveRename moves over the file.
SaveTmp(c) == mem' = c /\ tmp' = c /\ UNCHANGED <<db, lost>>

SaveRename == db' = tmp /\ lost' = FALSE /\ UNCHANGED <<mem, tmp>>

\* The transaction of a SQL driver
Commit(c) == db' = c /\ UNCHANGED <<mem, tmp, lost>>

\* What Get returns for the table: the rows of the MySQL driver, the file
\* driver's copy in memory, and for the glue driver the rows without the
\* table's checksum, which it does not read.
MySQLGet == db
FileGet == mem
GlueGet == [db EXCEPT !.sum = 0]

Get == [mysql |-> MySQLGet, file |-> FileGet, glue |-> GlueGet][driver]

-----------------------------------------------------------------------------
(* The import                                                              *)

\* NewRestoreController and the first steps of Run: open the store (the file
\* driver reads its file) and Initialize it, start the listener.
Start ==
  /\ life = "down"
  /\ IF driver = "file" THEN SaveTmp(Initialized(db)) /\ life' = "initialize"
                        ELSE Commit(Initialized(db)) /\ life' = "check"
  /\ wg' = 1
  /\ UNCHANGED <<driver, tstat, csum, alloc, at, estat, epc, reg, diff, token, spc, upd, budget>>

FileInitialized ==
  /\ life = "initialize" /\ life' = "check" /\ SaveRename
  /\ UNCHANGED <<driver, tstat, csum, alloc, at, estat, epc, reg, saver, budget>>

\* restoreTables reads the checkpoint.  A table that failed last time stops
\* the run; a table with engines is resumed; one without is populated unless
\* its data is already imported.
Check ==
  /\ life = "check"
  /\ tstat' = Get.status /\ alloc' = Get.base
  /\ at' = Get.pos /\ estat' = Get.eng
  /\ csum' = Get.sum
  /\ IF Get.status <= MaxInvalid
     THEN life' = "waiting" /\ wg' = wg - 1
     ELSE /\ life' = IF ~HasEngines(Get) /\ Get.status < AllWritten
                     THEN "populate" ELSE "restore"
          /\ UNCHANGED wg
  /\ UNCHANGED <<driver, store, epc, reg, diff, token, spc, upd, budget>>

\* restoreTable sends the checksum the table had before the import
SendChecksum ==
  /\ life = "populate" /\ life' = "insert"
  /\ csum' = 1 /\ Send(MergeChecksum(diff, 1))
  /\ UNCHANGED <<driver, store, tstat, alloc, at, estat, epc, reg, budget>>

\* InsertEngineCheckpoints, synchronously; the file driver holds its lock
Insert ==
  /\ life = "insert" /\ spc # "rename"
  /\ IF driver = "file" THEN SaveTmp(WithEngines(mem)) /\ life' = "inserting"
                        ELSE Commit(WithEngines(db)) /\ life' = "rebase"
  /\ at' = [e \in Engines |-> 0] /\ estat' = [e \in Engines |-> Loaded]
  /\ UNCHANGED <<driver, tstat, csum, alloc, epc, reg, saver, budget>>

FileInserted ==
  /\ life = "inserting" /\ life' = "rebase" /\ SaveRename
  /\ UNCHANGED <<driver, tstat, csum, alloc, at, estat, epc, reg, saver, budget>>

\* ... and sends the base the allocator starts from
SendBase ==
  /\ life = "rebase" /\ life' = "restore"
  /\ Send(MergeRebase(diff, alloc))
  /\ UNCHANGED <<driver, store, tstat, csum, alloc, at, estat, epc, reg, budget>>

\* A chunk encodes its next row, which moves the allocator to the row's
\* handle, and delivers it.
Deliver(e) ==
  /\ life = "restore" /\ epc[e] = "idle" /\ estat[e] = Loaded /\ at[e] < MaxPos
  /\ at' = [at EXCEPT ![e] = @ + 1]
  /\ alloc' = Larger(alloc, Handle(e, at[e] + 1))
  /\ epc' = [epc EXCEPT ![e] = "save"]
  /\ UNCHANGED <<driver, store, life, tstat, csum, estat, reg, saver, budget>>

\* saveCheckpoint: read the base, send it, send the chunk's position
ReadBase(e) ==
  /\ epc[e] = "save"
  /\ reg' = [reg EXCEPT ![e] = alloc + 1]
  /\ epc' = [epc EXCEPT ![e] = "base"]
  /\ UNCHANGED <<driver, store, life, tstat, csum, alloc, at, estat, saver, budget>>

SendRebase(e) ==
  /\ epc[e] = "base"
  /\ Send(MergeRebase(diff, reg[e]))
  /\ epc' = [epc EXCEPT ![e] = "chunk"]
  /\ reg' = [reg EXCEPT ![e] = 0]
  /\ UNCHANGED <<driver, store, life, tstat, csum, alloc, at, estat, budget>>

SendChunk(e) ==
  /\ epc[e] = "chunk"
  /\ Send(MergeChunk(diff, e, at[e]))
  /\ epc' = [epc EXCEPT ![e] = "idle"]
  /\ UNCHANGED <<driver, store, life, tstat, csum, alloc, at, estat, reg, budget>>

Following(steps, st) == CHOOSE n \in steps : n > st /\ \A m \in steps : m > st => n <= m

\* saveStatusCheckpoint of an engine's next step: AllWritten once its chunk
\* is delivered, then Closed and Imported; a step that fails is saved invalid.
SendEngineStatus(e) ==
  /\ life = "restore" /\ epc[e] = "idle"
  /\ estat[e] \in Loaded .. 119 /\ (estat[e] = Loaded => at[e] = MaxPos)
  /\ \E ok \in {TRUE} \cup {b \in {FALSE} : trouble > 0} :
       LET next == Following(EngineSteps, estat[e])
           st == IF ok THEN next ELSE SetInvalid(next)
       IN  /\ Send(MergeEngineStatus(diff, e, st))
           /\ estat' = [estat EXCEPT ![e] = st]
           /\ tstat' = IF ok THEN tstat ELSE st
           /\ trouble' = IF ok THEN trouble ELSE trouble - 1
  /\ UNCHANGED <<driver, store, life, csum, alloc, at, epc, reg, ctls>>

EngineEnded(e) == epc[e] = "idle" /\ (estat[e] = 120 \/ estat[e] <= MaxInvalid)

\* The table's own steps, after all engines
SendTableStatus ==
  /\ life = "restore" /\ \A e \in Engines : EngineEnded(e)
  /\ tstat \in Loaded .. 209
  /\ tstat' = Following(TableSteps, tstat)
  /\ Send(MergeTableStatus(diff, tstat'))
  /\ UNCHANGED <<driver, store, life, csum, alloc, at, estat, epc, reg, budget>>

\* The end of restoreTables, by success, by the failure of an engine or
\* because the context is cancelled: waitCheckpointFinish closes saveCpCh,
\* the listener's loop ends with its Done.
CloseChannel ==
  /\ life = "restore" /\ \A e \in Engines : epc[e] = "idle"
  /\ \/ /\ \A e \in Engines : EngineEnded(e)
        /\ tstat = 210 \/ tstat <= MaxInvalid
        /\ UNCHANGED budget
     \/ trouble > 0 /\ trouble' = trouble - 1 /\ UNCHANGED ctls
  /\ life' = "waiting" /\ wg' = wg - 1
  /\ UNCHANGED <<driver, store, tstat, csum, alloc, at, estat, epc, reg, diff, token, spc, upd>>

\* checkpointsWg.Wait() returns
WaitDone ==
  /\ life = "waiting" /\ wg = 0
  /\ life' = IF tstat = 210 THEN "clean" ELSE "exit"
  /\ UNCHANGED <<driver, store, tstat, csum, alloc, at, estat, epc, reg, saver, budget>>

-----------------------------------------------------------------------------
(* The saving goroutine of listenCheckpointUpdates                         *)

TakeToken ==
  /\ spc = "idle" /\ token = 1
  /\ token' = 0 /\ spc' = "swap"
  /\ UNCHANGED <<driver, store, process, diff, upd, wg, budget>>

\* Swap the map under the lock; an empty one is not saved
Swap ==
  /\ spc = "swap"
  /\ diff' = NewTableCheckpointDiff
  /\ IF diff.any THEN upd' = diff /\ spc' = "update" /\ UNCHANGED wg
                 ELSE spc' = "idle" /\ wg' = wg - 1 /\ UNCHANGED upd
  /\ UNCHANGED <<driver, store, process, token, budget>>

Saved == upd' = NewTableCheckpointDiff /\ spc' = "idle" /\ wg' = wg - 1

\* Update by a SQL driver
UpdateSQL ==
  /\ spc = "update" /\ driver # "file"
  /\ Commit(IF driver = "glue" THEN GlueUpdate(db, upd) ELSE MySQLUpdate(db, upd))
  /\ Saved
  /\ UNCHANGED <<driver, process, diff, token, budget>>

\* Update by the file driver, under its lock
UpdateFile ==
  /\ spc = "update" /\ driver = "file" /\ life # "inserting"
  /\ SaveTmp(FileUpdate(mem, upd))
  /\ spc' = "rename"
  /\ UNCHANGED <<driver, process, diff, token, upd, wg, budget>>

UpdateRename ==
  /\ spc = "rename" /\ SaveRename /\ Saved
  /\ UNCHANGED <<driver, process, diff, token, budget>>

\* An update that fails after its retries is logged and forgotten; the file
\* driver has it in memory still.
UpdateFails ==
  /\ spc = "update" /\ trouble > 0
  /\ driver = "file" => life # "inserting"
  /\ mem' = IF driver = "file" THEN FileUpdate(mem, upd) ELSE mem
  /\ lost' = TRUE /\ UNCHANGED <<db, tmp>>
  /\ Saved
  /\ trouble' = trouble - 1
  /\ UNCHANGED <<driver, process, diff, token, ctls>>

-----------------------------------------------------------------------------
(* The end of the process, and tidb-lightning-ctl                          *)

\* cleanCheckpoints, as KeepAfterSuccess says: RemoveCheckpoint("all"), and
\* MoveCheckpoints of the file driver, are one step.
Remove ==
  /\ life = "clean" /\ life' = "finished" /\ Commit(NoCheckpoint)
  /\ UNCHANGED <<driver, tstat, csum, alloc, at, estat, epc, reg, saver, budget>>

\* MoveCheckpoints of a SQL driver renames the tables one by one, and Moved is
\* what the step from place step does
MoveOrder == <<"clean", "chunk", "engine", "table", "finished">>
Moved(c, step) ==
  CASE step = "clean" -> [c EXCEPT !.pos = [e \in Engines |-> NoRow]]
    [] step = "chunk" -> [c EXCEPT !.eng = [e \in Engines |-> NoStatus]]
    [] step = "engine" -> [c EXCEPT !.has = FALSE, !.status = NoStatus, !.base = 0, !.sum = 0]
    [] step = "table" -> [c EXCEPT !.task = FALSE]

MoveTable ==
  /\ driver # "file"
  /\ \E i \in 1 .. 4 : life = MoveOrder[i] /\ life' = MoveOrder[i + 1]
  /\ Commit(Moved(db, life))
  /\ UNCHANGED <<driver, tstat, csum, alloc, at, estat, epc, reg, saver, budget>>

\* Everything that is not on disk is gone
Forget ==
  /\ life' = "down" /\ tstat' = NoStatus /\ csum' = 0 /\ alloc' = 0
  /\ at' = [e \in Engines |-> 0] /\ estat' = [e \in Engines |-> Loaded]
  /\ epc' = [e \in Engines |-> "idle"] /\ reg' = [e \in Engines |-> 0]
  /\ diff' = NewTableCheckpointDiff /\ upd' = NewTableCheckpointDiff
  /\ token' = 0 /\ spc' = "idle" /\ wg' = 0
  /\ mem' = NoCheckpoint /\ tmp' = NoCheckpoint
  /\ lost' = (lost /\ driver # "file")
  /\ UNCHANGED <<driver, db>>

Exit == life = "exit" /\ Forget /\ UNCHANGED budget

Crash ==
  /\ life \notin {"down", "finished"} /\ trouble > 0
  /\ Forget
  /\ trouble' = trouble - 1 /\ UNCHANGED ctls

\* A command of tidb-lightning-ctl that finds something to change, while no
\* import runs
Ctl(c) ==
  /\ life = "down" /\ ctls > 0 /\ c # db
  /\ db' = c /\ ctls' = ctls - 1
  /\ UNCHANGED <<driver, mem, tmp, lost, process, saver, trouble>>

CtlErrorIgnore == Ctl(ErrorIgnored(db))

CtlErrorDestroy == Ctl(Destroyed(db))

CtlRemove == Ctl(Removed(db))

Producer(e) ==
  \/ Deliver(e)
  \/ ReadBase(e)
  \/ SendRebase(e)
  \/ SendChunk(e)
  \/ SendEngineStatus(e)

Saver ==
  \/ TakeToken
  \/ Swap
  \/ UpdateSQL
  \/ UpdateFile
  \/ UpdateRename
  \/ UpdateFails

Next ==
  \/ Start \/ FileInitialized \/ Check \/ SendChecksum \/ Insert \/ FileInserted \/ SendBase
  \/ \E e \in Engines : Producer(e)
  \/ SendTableStatus \/ CloseChannel \/ WaitDone
  \/ Saver
  \/ Remove \/ MoveTable \/ Exit \/ Crash
  \/ CtlErrorIgnore \/ CtlErrorDestroy \/ CtlRemove

Spec == Init /\ [][Next]_vars

\* The saver and the waiting main goroutine are always scheduled again; the
\* producers need no fairness for what is claimed below.
FairSpec == Spec /\ WF_vars(Saver) /\ WF_vars(WaitDone)

-----------------------------------------------------------------------------
Statuses == {NoStatus, Loaded} \cup EngineSteps \cup TableSteps
              \cup {6, 9, 12}
CheckpointType == [task : BOOLEAN, has : BOOLEAN, status : Statuses, base : Nat, sum : 0 .. 1,
                   eng : [Engines -> Statuses], pos : [Engines -> NoRow .. MaxPos]]
DiffType == [any : BOOLEAN, status : Statuses, base : Nat \cup {NoRow}, sum : 0 .. 1,
             eng : [Engines -> Statuses], pos : [Engines -> NoRow .. MaxPos]]

\* The variables have their types, and the counter of checkpointsWg never
\* becomes negative (sync.WaitGroup panics when it does).
TypeOK ==
  /\ driver \in Drivers /\ lost \in BOOLEAN
  /\ {db, mem, tmp} \subseteq CheckpointType /\ {diff, upd} \subseteq DiffType
  /\ tstat \in Statuses /\ csum \in 0 .. 1 /\ alloc \in Nat
  /\ at \in [Engines -> NoRow .. MaxPos] /\ estat \in [Engines -> Statuses]
  /\ epc \in [Engines -> {"idle", "save", "base", "chunk"}] /\ reg \in [Engines -> Nat]
  /\ token \in 0 .. 1 /\ spc \in {"idle", "swap", "update", "rename"} /\ wg \in Nat
  /\ trouble \in 0 .. MaxTrouble /\ ctls \in 0 .. MaxCtl

\* What is on disk is a state the import really went through: an engine is
\* saved as written only with its chunk's position at the end, a table as
\* imported only with all its engines, however the updates were coalesced and
\* wherever the process died.  A restart trusts exactly this.  It is claimed
\* while no update of a SQL driver has failed: Update forgets those.  And Get
\* walks the chunk rows and appends each to the entry of its engine row, so a
\* chunk row is never on disk without its engine's row, nor an engine's row
\* without the table's, not even half-way through MoveCheckpoints.
DurableIsPrefix ==
  /\ TypeOK
  /\ ~lost \/ driver = "file" =>
    /\ \A e \in Engines : db.eng[e] \in 60 .. 120 => db.pos[e] = MaxPos \/ db.status = 210
    /\ db.status >= 140 => \A e \in Engines : db.eng[e] \in {NoStatus, 120}
  /\ \A e \in Engines : /\ db.pos[e] # NoRow => db.eng[e] # NoStatus
                        /\ db.eng[e] # NoStatus => db.has

\* A restart continues the row IDs above every row it will not read again:
\* the saved base is beyond the handle of the last row each saved position
\* covers (saveCheckpoint sends the base before the position).  The file
\* driver assigns the base instead of taking the greater one and is excluded.
AllocBaseCovers ==
  driver # "file" /\ ~lost =>
    \A e \in Engines : db.has /\ db.pos[e] > 0 => db.base > Handle(e, db.pos[e])

\* When waitCheckpointFinish returns everything the import sent is on disk:
\* positions, engine and table statuses (the invalid ones included, so that
\* the next run stops), and, except for the glue driver, the checksum.
AllSavedAtWait ==
  life \in {"clean", "exit"} /\ ~lost =>
    /\ db.pos = at /\ db.eng = estat /\ db.status = tstat
    /\ driver # "glue" => db.sum = csum

\* What is saved of a table is a prefix of what it went through, its row id base covers
\* the engines' and waitCheckpointFinish finds everything saved (Update of the three
\* drivers, listenCheckpointUpdates, waitCheckpointFinish).
CheckpointsAreSound == DurableIsPrefix /\ AllocBaseCovers /\ AllSavedAtWait

Forward(from, to) == to >= from \/ to \in 1 .. MaxInvalid

\* No step but the final cleaning and the user's own commands takes durable
\* progress back: positions and statuses only grow (or become invalid), in
\* particular through the file driver's rewriting of its whole file.
ProgressKept ==
  [][life \notin {"down", "clean", "chunk", "engine", "table"} =>
       (/\ db.has => db'.has /\ Forward(db.status, db'.status)
        /\ \A e \in Engines : Forward(db.eng[e], db'.eng[e]) /\ db'.pos[e] >= db.pos[e])]_vars

\* waitCheckpointFinish returns: no signal is counted without being taken
WaitReturns == life = "waiting" ~> life # "waiting"
=============================================================================
