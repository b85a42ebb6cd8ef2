-------------------------- MODULE CheckpointsProofs --------------------------
(***************************************************************************)
(* The inductive invariant of the checkpoints, what the operators of the   *)
(* drivers and of the mergers do, and the proof that the producers of the  *)
(* updates keep the invariant.  CheckpointsSoundProofs has the other steps *)
(* and the theorems.                                                       *)
(***************************************************************************)
EXTENDS Checkpoints, TLAPS

-----------------------------------------------------------------------------
(* The invariant.  A position or status that the import sends goes through *)
(* four places: the map of coalesced updates (diff), the update that the   *)
(* saver has taken (upd), the driver's store and the disk.  What each of   *)
(* them adds up to is a state that the import went through, and no place   *)
(* is ahead of the one before it.                                          *)

Rows == NoRow .. MaxPos
Invalid == {6, 9, 12}
TableStatuses == {NoStatus, Loaded, 140, 210} \cup Invalid

\* A status b may follow a.
Order(a, b) == IF a \in Invalid THEN b \in Invalid ELSE b >= a \/ b \in Invalid

\* Position p and status s of an engine, with status t of its table, are those of a
\* state of the import.
Snap(p, s, t) ==
  /\ s \in 60 .. 120 => p = MaxPos \/ t = 210
  /\ t >= 140 => s \in {NoStatus, 120}
  /\ s \in Invalid => t \in Invalid
  /\ s \in Invalid \cup {Loaded} => p >= 0

\* What a driver takes for the checkpoint, and what it will be when the update that is
\* saved, and when the coalesced ones, are applied.
Store == IF driver = "file" THEN mem ELSE db
Over(new, none, old) == IF new = none THEN old ELSE new
Pos2(e) == Over(upd.pos[e], NoRow, Store.pos[e])
Pos3(e) == Over(diff.pos[e], NoRow, Pos2(e))
Eng2(e) == Over(upd.eng[e], NoStatus, Store.eng[e])
Eng3(e) == Over(diff.eng[e], NoStatus, Eng2(e))
Status2 == Over(upd.status, NoStatus, Store.status)
Status3 == Over(diff.status, NoStatus, Status2)
Sum2 == Over(upd.sum, 0, Store.sum)
Sum3 == Over(diff.sum, 0, Sum2)
Covered2(h) == db.base > h \/ upd.base > h
Covered3(h) == Covered2(h) \/ diff.base > h

Alive == {"initialize", "check", "populate", "insert", "inserting", "rebase", "restore"}
Run == {"populate", "insert", "inserting", "rebase", "restore", "waiting", "clean", "exit"}
Up == Run \cup {"check"}
Opened == Up \cup {"initialize"}
Moving == {"chunk", "engine", "table"}
Quiet == {"down", "initialize", "check", "clean", "exit", "finished"} \cup Moving

\* No update has been forgotten.
Good == driver = "file" \/ ~lost

\* The saver has whatever was sent and is counted in checkpointsWg.
SaverInv ==
  /\ life \in Quiet \cup Run
  /\ wg = (IF life \in Alive THEN 1 ELSE 0) + token + (IF spc = "idle" THEN 0 ELSE 1)
  /\ ~diff.any => diff = NewTableCheckpointDiff
  /\ diff.any => token = 1 \/ spc = "swap"
  /\ spc \in {"idle", "swap"} => upd = NewTableCheckpointDiff
  /\ life \in Quiet => token = 0 /\ spc = "idle"
  /\ life # "restore" => \A e \in Engines : epc[e] = "idle"

\* The file driver's copy, the temporary file and the file.
FileInv ==
  /\ spc = "rename" => driver = "file"
  /\ life \in {"initialize", "inserting"} => driver = "file" /\ spc # "rename"
  /\ life \in Moving => driver # "file"
  /\ life \in {"initialize", "inserting"} \/ spc = "rename" => tmp = mem
  /\ driver = "file" /\ ~lost /\ life \in Up \ {"inserting"} /\ spc # "rename" => db = mem
  /\ spc = "rename" => /\ Status2 = Store.status /\ Sum2 = Store.sum
                       /\ \A e \in Engines : Pos2(e) = Store.pos[e] /\ Eng2(e) = Store.eng[e]

\* The statuses of the table.
StatusInv ==
  /\ {db.status, mem.status, tmp.status, upd.status, diff.status, tstat} \subseteq TableStatuses
  /\ ~db.has => db.status = NoStatus
  /\ life \in Opened => Store.has /\ Order(db.status, Store.status)
  /\ life \in Up => db.has /\ Order(Store.status, Status2) /\ Order(Status2, Status3)
  /\ life \in Run => Order(Status3, tstat)
  /\ life \in {"populate", "insert", "inserting"} => tstat = Loaded
  /\ life = "clean" => tstat = 210
  /\ Good /\ life \in Run => Status3 = tstat /\ (driver # "glue" => Sum3 = csum)

\* The disk.
DiskInv(e) ==
  /\ db.pos[e] # NoRow => db.eng[e] # NoStatus
  /\ db.eng[e] # NoStatus => db.has
  /\ Good => Snap(db.pos[e], db.eng[e], db.status)
  /\ driver # "file" /\ ~lost => (db.pos[e] > 0 => db.base > Handle(e, db.pos[e]))
  /\ life \in Moving => db.pos[e] = NoRow
  /\ life \in {"engine", "table"} => db.eng[e] = NoStatus

\* No place is ahead of the one before it.
ChainInv(e) ==
  /\ life \in Opened => /\ db.pos[e] <= Store.pos[e] /\ Order(db.eng[e], Store.eng[e])
                        /\ Store.pos[e] # NoRow => Store.eng[e] # NoStatus
  /\ life \in Up => /\ Store.pos[e] <= Pos2(e) /\ Pos2(e) <= Pos3(e)
                    /\ Order(Store.eng[e], Eng2(e)) /\ Order(Eng2(e), Eng3(e))
  /\ life \in Run => Pos3(e) <= at[e] /\ Order(Eng3(e), estat[e])
  /\ life \in {"populate", "insert"} => at[e] = NoRow /\ estat[e] = NoStatus

\* Nothing is lost on the way.
GoodInv(e) ==
  Good =>
    /\ life \in Opened => Snap(Store.pos[e], Store.eng[e], Store.status)
    /\ life \in Up =>
         /\ Snap(Pos2(e), Eng2(e), Status2) /\ Snap(Pos3(e), Eng3(e), Status3)
         /\ upd.pos[e] # NoRow \/ diff.pos[e] # NoRow \/ epc[e] # "idle" => Store.pos[e] # NoRow
         /\ upd.eng[e] # NoStatus \/ diff.eng[e] # NoStatus => Store.eng[e] # NoStatus
    /\ life \in Run =>
         /\ Snap(at[e], estat[e], tstat) /\ Eng3(e) = estat[e]
         /\ epc[e] = "idle" => Pos3(e) = at[e]

\* The base is ahead of the positions.
BaseInv(e) ==
  driver # "file" /\ ~lost /\ life \in Up =>
    /\ Pos2(e) > 0 => Covered2(Handle(e, Pos2(e)))
    /\ Pos3(e) > 0 => Covered3(Handle(e, Pos3(e)))
    /\ epc[e] = "save" => alloc >= Handle(e, at[e])
    /\ epc[e] = "base" => reg[e] > Handle(e, at[e])
    /\ epc[e] = "chunk" => Covered3(Handle(e, at[e]))

EngineInv(e) == DiskInv(e) /\ ChainInv(e) /\ GoodInv(e) /\ BaseInv(e)
IInv == TypeOK /\ SaverInv /\ FileInv /\ StatusInv /\ \A e \in Engines : EngineInv(e)

-----------------------------------------------------------------------------
(* The operators.                                                          *)

\* The row IDs are natural numbers.
LEMMA HandleNat ==
  ASSUME NEW e \in Engines, NEW p \in Nat
  PROVE  Handle(e, p) \in Nat
<1>1. e - 1 \in Nat /\ MaxPos \in Nat
  BY ConstantsAssumption DEF Engines
<1>2. (e - 1) * MaxPos \in Nat
  BY <1>1
<1> QED BY <1>2 DEF Handle

\* ... and integers for a chunk without rows.
LEMMA HandleInt ==
  ASSUME NEW e \in Engines, NEW p \in Rows
  PROVE  Handle(e, p) \in Int
<1>1. e - 1 \in Int /\ MaxPos \in Int /\ p \in Int
  BY ConstantsAssumption DEF Engines, Rows, NoRow
<1>2. (e - 1) * MaxPos \in Int
  BY <1>1
<1> QED BY <1>1, <1>2 DEF Handle

\* The empty checkpoint and the empty diff.
LEMMA Empties ==
  /\ NoCheckpoint \in CheckpointType /\ NewTableCheckpointDiff \in DiffType
  /\ \A e \in Engines : NoCheckpoint.eng[e] = NoStatus /\ NoCheckpoint.pos[e] = NoRow
  /\ ~NoCheckpoint.has /\ NoCheckpoint.status = NoStatus
  /\ \A e \in Engines : /\ NewTableCheckpointDiff.eng[e] = NoStatus
                        /\ NewTableCheckpointDiff.pos[e] = NoRow
  /\ ~NewTableCheckpointDiff.any /\ NewTableCheckpointDiff.status = NoStatus
  /\ NewTableCheckpointDiff.base = NoRow /\ NewTableCheckpointDiff.sum = 0
BY ConstantsAssumption DEF NoCheckpoint, NewTableCheckpointDiff, CheckpointType, DiffType,
       NoStatus, NoRow, Statuses, Loaded

\* MergeTableStatus changes the status of the table.
LEMMA MergeTable ==
  ASSUME NEW d \in DiffType, NEW st \in Statuses
  PROVE  LET m == MergeTableStatus(d, st)
         IN  /\ m \in DiffType /\ m.any /\ m.status = st
             /\ m.eng = d.eng /\ m.pos = d.pos /\ m.base = d.base /\ m.sum = d.sum
BY Zenon DEF MergeTableStatus, DiffType

\* MergeEngineStatus changes the status of one engine, and the table's when it is invalid.
LEMMA MergeEngine ==
  ASSUME NEW d \in DiffType, NEW e \in Engines, NEW st \in Statuses
  PROVE  LET m == MergeEngineStatus(d, e, st)
         IN  /\ m \in DiffType /\ m.any /\ m.status = (IF st <= MaxInvalid THEN st ELSE d.status)
             /\ m.eng = [d.eng EXCEPT ![e] = st]
             /\ m.pos = d.pos /\ m.base = d.base /\ m.sum = d.sum
BY Zenon DEF MergeEngineStatus, DiffType

\* MergeChunk changes the position of one engine.
LEMMA MergePos ==
  ASSUME NEW d \in DiffType, NEW e \in Engines, NEW p \in NoRow .. MaxPos
  PROVE  LET m == MergeChunk(d, e, p)
         IN  /\ m \in DiffType /\ m.any /\ m.pos = [d.pos EXCEPT ![e] = p]
             /\ m.eng = d.eng /\ m.status = d.status /\ m.base = d.base /\ m.sum = d.sum
BY Zenon DEF MergeChunk, DiffType

\* MergeChecksum changes the checksum.
LEMMA MergeSum ==
  ASSUME NEW d \in DiffType, NEW s \in 0 .. 1
  PROVE  LET m == MergeChecksum(d, s)
         IN  /\ m \in DiffType /\ m.any /\ m.sum = s
             /\ m.eng = d.eng /\ m.status = d.status /\ m.base = d.base /\ m.pos = d.pos
BY Zenon DEF MergeChecksum, DiffType

\* MergeRebase only raises the base.
LEMMA MergeBase ==
  ASSUME NEW d \in DiffType, NEW b \in Nat
  PROVE  LET m == MergeRebase(d, b)
         IN  /\ m \in DiffType /\ m.any /\ m.base >= d.base /\ m.base >= b
             /\ m.eng = d.eng /\ m.status = d.status /\ m.sum = d.sum /\ m.pos = d.pos
<1>1. d.base \in Int /\ b \in Int
  BY DEF DiffType, NoRow
<1>2. Larger(d.base, b) \in Nat /\ Larger(d.base, b) >= d.base /\ Larger(d.base, b) >= b
  BY <1>1 DEF Larger
<1> QED BY <1>1, <1>2, Zenon DEF MergeRebase, DiffType

\* The statements of an update, one by one.
LEMMA StatusApplied ==
  ASSUME NEW c \in CheckpointType, NEW u \in DiffType
  PROVE  LET m == ApplyStatus(c, u)
         IN  /\ m \in CheckpointType /\ m.has = c.has
             /\ c.has => m.status = Over(u.status, NoStatus, c.status)
             /\ ~c.has => m.status = c.status
             /\ m.eng = c.eng /\ m.pos = c.pos /\ m.base = c.base /\ m.sum = c.sum
BY Zenon DEF ApplyStatus, CheckpointType, DiffType, Over

\* ApplyEngines writes the rows that are there.
LEMMA EnginesApplied ==
  ASSUME NEW c \in CheckpointType, NEW u \in DiffType
  PROVE  LET m == ApplyEngines(c, u)
         IN  /\ m \in CheckpointType /\ m.has = c.has /\ m.status = c.status
             /\ \A e \in Engines :
                  /\ m.eng[e] = IF c.eng[e] # NoStatus THEN Over(u.eng[e], NoStatus, c.eng[e]) ELSE NoStatus
                  /\ m.pos[e] = IF c.pos[e] # NoRow THEN Over(u.pos[e], NoRow, c.pos[e]) ELSE NoRow
             /\ m.base = c.base /\ m.sum = c.sum
BY Zenon DEF ApplyEngines, CheckpointType, DiffType, Over

\* SQLRebase only raises the base.
LEMMA BaseApplied ==
  ASSUME NEW c \in CheckpointType, NEW u \in DiffType
  PROVE  LET m == SQLRebase(c, u)
         IN  /\ m \in CheckpointType /\ m.has = c.has /\ m.status = c.status
             /\ m.eng = c.eng /\ m.pos = c.pos /\ m.sum = c.sum
             /\ c.has => m.base >= c.base /\ m.base >= u.base
<1>1. c.base \in Nat /\ u.base \in Nat \cup {NoRow}
  BY Zenon DEF CheckpointType, DiffType
<1>2. c.base \in Int /\ u.base \in Int
  BY <1>1 DEF NoRow
<1>3. /\ Larger(c.base, u.base) \in Nat
      /\ Larger(c.base, u.base) >= c.base /\ Larger(c.base, u.base) >= u.base
  BY <1>1, <1>2 DEF Larger
<1>4. u.base = NoRow => c.base >= c.base /\ c.base >= u.base
  BY <1>1 DEF NoRow
<1> QED BY <1>1, <1>3, <1>4, Zenon DEF SQLRebase, CheckpointType

\* What an update makes of a checkpoint.
Applied(m, c, u) ==
  /\ m \in CheckpointType /\ m.has
  /\ m.status = Over(u.status, NoStatus, c.status)
  /\ \A e \in Engines :
       /\ m.eng[e] = IF c.eng[e] # NoStatus THEN Over(u.eng[e], NoStatus, c.eng[e]) ELSE NoStatus
       /\ m.pos[e] = IF c.pos[e] # NoRow THEN Over(u.pos[e], NoRow, c.pos[e]) ELSE NoRow

\* The updates of MySQL and glue: both raise the base, only MySQL's saves the checksum.
LEMMA SQLApplied ==
  ASSUME NEW c \in CheckpointType, NEW u \in DiffType, c.has
  PROVE  /\ Applied(GlueUpdate(c, u), c, u)
         /\ Applied(MySQLUpdate(c, u), c, u)
         /\ MySQLUpdate(c, u).sum = Over(u.sum, 0, c.sum)
         /\ GlueUpdate(c, u).base >= c.base /\ GlueUpdate(c, u).base >= u.base
         /\ MySQLUpdate(c, u).base >= c.base /\ MySQLUpdate(c, u).base >= u.base
<1> DEFINE a == ApplyStatus(c, u)
           b == SQLRebase(a, u)
           d == ApplyEngines(b, u)
           m == [d EXCEPT !.sum = IF c.has /\ u.sum # 0 THEN u.sum ELSE @]
<1>1. /\ a \in CheckpointType /\ a.has /\ a.status = Over(u.status, NoStatus, c.status)
      /\ a.eng = c.eng /\ a.pos = c.pos /\ a.base = c.base /\ a.sum = c.sum
  BY StatusApplied, Zenon
<1> HIDE DEF a
<1>2. /\ b \in CheckpointType /\ b.has /\ b.status = a.status
      /\ b.eng = a.eng /\ b.pos = a.pos /\ b.sum = a.sum
      /\ b.base >= a.base /\ b.base >= u.base
  BY <1>1, BaseApplied, Zenon
<1> HIDE DEF b
<1>3. /\ d \in CheckpointType /\ d.has /\ d.status = b.status
      /\ \A e \in Engines :
           /\ d.eng[e] = IF b.eng[e] # NoStatus THEN Over(u.eng[e], NoStatus, b.eng[e]) ELSE NoStatus
           /\ d.pos[e] = IF b.pos[e] # NoRow THEN Over(u.pos[e], NoRow, b.pos[e]) ELSE NoRow
      /\ d.base = b.base /\ d.sum = b.sum
  BY <1>2, EnginesApplied, Zenon
<1> HIDE DEF d
<1>4. u.sum \in 0 .. 1
  BY Zenon DEF DiffType
<1>5. /\ m \in CheckpointType /\ m.has = d.has /\ m.status = d.status /\ m.eng = d.eng
      /\ m.pos = d.pos /\ m.base = d.base /\ m.sum = Over(u.sum, 0, d.sum)
  BY <1>3, <1>4, Zenon DEF CheckpointType, Over
<1> HIDE DEF m
<1>6. Applied(d, c, u) /\ d.base >= c.base /\ d.base >= u.base
  BY <1>1, <1>2, <1>3, Zenon DEF Applied
<1>7. Applied(m, c, u) /\ m.base >= c.base /\ m.base >= u.base /\ m.sum = Over(u.sum, 0, c.sum)
  BY <1>1, <1>2, <1>3, <1>5, <1>6, Zenon DEF Applied
<1>8. GlueUpdate(c, u) = d /\ MySQLUpdate(c, u) = m
  BY Zenon DEF GlueUpdate, MySQLUpdate, a, b, d, m
<1> QED BY <1>6, <1>7, <1>8, Zenon

\* The update of the file driver, on its copy in memory.
LEMMA FileApplied ==
  ASSUME NEW c \in CheckpointType, NEW u \in DiffType, c.has
  PROVE  /\ Applied(FileUpdate(c, u), c, u)
         /\ FileUpdate(c, u).sum = Over(u.sum, 0, c.sum)
<1> DEFINE a == ApplyStatus(c, u)
           d == ApplyEngines(a, u)
           m == [d EXCEPT !.base = IF u.base # NoRow THEN u.base ELSE @,
                          !.sum = IF u.sum # 0 THEN u.sum ELSE @]
<1>1. /\ a \in CheckpointType /\ a.has /\ a.status = Over(u.status, NoStatus, c.status)
      /\ a.eng = c.eng /\ a.pos = c.pos /\ a.sum = c.sum
  BY StatusApplied, Zenon
<1> HIDE DEF a
<1>2. /\ d \in CheckpointType /\ d.has /\ d.status = a.status
      /\ \A e \in Engines :
           /\ d.eng[e] = IF a.eng[e] # NoStatus THEN Over(u.eng[e], NoStatus, a.eng[e]) ELSE NoStatus
           /\ d.pos[e] = IF a.pos[e] # NoRow THEN Over(u.pos[e], NoRow, a.pos[e]) ELSE NoRow
      /\ d.sum = a.sum
  BY <1>1, EnginesApplied, Zenon
<1> HIDE DEF d
<1>3. u.sum \in 0 .. 1 /\ u.base \in Nat \cup {NoRow}
  BY Zenon DEF DiffType
<1>4. u.base # NoRow => u.base \in Nat
  BY <1>3, Zenon
<1>5. /\ m \in CheckpointType /\ m.has = d.has /\ m.status = d.status /\ m.eng = d.eng
      /\ m.pos = d.pos /\ m.sum = Over(u.sum, 0, d.sum)
  BY <1>2, <1>3, <1>4, Zenon DEF CheckpointType, Over
<1> HIDE DEF m
<1>6. Applied(m, c, u) /\ m.sum = Over(u.sum, 0, c.sum)
  BY <1>1, <1>2, <1>5, Zenon DEF Applied
<1>7. FileUpdate(c, u) = m
  BY Zenon DEF FileUpdate, a, d, m
<1> QED BY <1>6, <1>7, Zenon

\* Initialize, InsertEngineCheckpoints, the commands and MoveCheckpoints.
LEMMA InitializedOp ==
  ASSUME NEW c \in CheckpointType
  PROVE  LET m == Initialized(c)
         IN  /\ m \in CheckpointType /\ m.has /\ m.status = (IF c.has THEN c.status ELSE Loaded)
             /\ m.eng = c.eng /\ m.pos = c.pos /\ m.base = c.base /\ m.sum = c.sum
<1>1. Loaded \in Statuses
  BY Zenon DEF Statuses
<1> QED BY <1>1, Zenon DEF Initialized, CheckpointType

\* InsertEngineCheckpoints gives every engine a row at position 0.
LEMMA WithEnginesOp ==
  ASSUME NEW c \in CheckpointType
  PROVE  LET m == WithEngines(c)
         IN  /\ m \in CheckpointType /\ m.has = c.has /\ m.status = c.status
             /\ \A e \in Engines : m.eng[e] = Loaded /\ m.pos[e] = 0
             /\ m.base = c.base /\ m.sum = c.sum
<1>1. Loaded \in Statuses /\ 0 \in NoRow .. MaxPos
  BY ConstantsAssumption DEF Statuses, NoRow
<1> QED BY <1>1, Zenon DEF WithEngines, CheckpointType

\* IgnoreErrorCheckpoint makes the invalid statuses Loaded again.
LEMMA ErrorIgnoredOp ==
  ASSUME NEW c \in CheckpointType
  PROVE  LET m == ErrorIgnored(c)
         IN  /\ m \in CheckpointType /\ m.has = c.has
             /\ m.status = (IF c.has /\ c.status <= MaxInvalid THEN Loaded ELSE c.status)
             /\ \A e \in Engines :
                  m.eng[e] = IF c.eng[e] # NoStatus /\ c.eng[e] <= MaxInvalid THEN Loaded ELSE c.eng[e]
             /\ m.pos = c.pos /\ m.base = c.base
<1>1. Loaded \in Statuses
  BY Zenon DEF Statuses
<1> QED BY <1>1, Zenon DEF ErrorIgnored, CheckpointType

\* RemoveCheckpoint leaves the task row at most.
LEMMA RemovedOp ==
  ASSUME NEW c \in CheckpointType
  PROVE  /\ Removed(c) \in CheckpointType /\ ~Removed(c).has /\ Removed(c).status = NoStatus
         /\ \A e \in Engines : Removed(c).eng[e] = NoStatus /\ Removed(c).pos[e] = NoRow
<1>1. c.task \in BOOLEAN
  BY Zenon DEF CheckpointType
<1> QED BY <1>1, Empties, Zenon DEF Removed, CheckpointType

\* MoveCheckpoints takes one kind of rows away at a time.
LEMMA MovedOp ==
  ASSUME NEW c \in CheckpointType
  PROVE  /\ LET m == Moved(c, "clean")
            IN  /\ m \in CheckpointType /\ m.has = c.has /\ m.status = c.status /\ m.eng = c.eng
                /\ \A e \in Engines : m.pos[e] = NoRow
         /\ LET m == Moved(c, "chunk")
            IN  /\ m \in CheckpointType /\ m.has = c.has /\ m.status = c.status /\ m.pos = c.pos
                /\ \A e \in Engines : m.eng[e] = NoStatus
         /\ LET m == Moved(c, "engine")
            IN  /\ m \in CheckpointType /\ m.status = NoStatus /\ m.pos = c.pos /\ m.eng = c.eng
         /\ LET m == Moved(c, "table")
            IN  /\ m \in CheckpointType /\ m.has = c.has /\ m.status = c.status /\ m.pos = c.pos
                /\ m.eng = c.eng
<1>1. NoRow \in NoRow .. MaxPos /\ NoStatus \in Statuses /\ 0 \in Nat /\ 0 \in 0 .. 1
  BY ConstantsAssumption DEF NoRow, Statuses
<1>3. LET m == Moved(c, "clean")
      IN  /\ m \in CheckpointType /\ m.has = c.has /\ m.status = c.status /\ m.eng = c.eng
          /\ \A e \in Engines : m.pos[e] = NoRow
  <2>1. Moved(c, "clean") = [c EXCEPT !.pos = [e \in Engines |-> NoRow]]
    BY SMT DEF Moved
  <2> QED BY <1>1, <2>1, Zenon DEF CheckpointType
<1>4. LET m == Moved(c, "chunk")
      IN  /\ m \in CheckpointType /\ m.has = c.has /\ m.status = c.status /\ m.pos = c.pos
          /\ \A e \in Engines : m.eng[e] = NoStatus
  <2>1. Moved(c, "chunk") = [c EXCEPT !.eng = [e \in Engines |-> NoStatus]]
    BY SMT DEF Moved
  <2> QED BY <1>1, <2>1, Zenon DEF CheckpointType
<1>5. LET m == Moved(c, "engine")
      IN  /\ m \in CheckpointType /\ m.status = NoStatus /\ m.pos = c.pos /\ m.eng = c.eng
  <2>1. Moved(c, "engine") = [c EXCEPT !.has = FALSE, !.status = NoStatus, !.base = 0, !.sum = 0]
    BY SMT DEF Moved
  <2> QED BY <1>1, <2>1, Zenon DEF CheckpointType
<1>6. LET m == Moved(c, "table")
      IN  /\ m \in CheckpointType /\ m.has = c.has /\ m.status = c.status /\ m.pos = c.pos
          /\ m.eng = c.eng
  <2>1. Moved(c, "table") = [c EXCEPT !.task = FALSE]
    BY SMT DEF Moved
  <2> QED BY <1>1, <2>1, Zenon DEF CheckpointType
<1> QED BY <1>3, <1>4, <1>5, <1>6, Zenon

\* The steps of the engines and of the table.
LEMMA Steps ==
  /\ EngineSteps = {60, 90, 120} /\ TableSteps = {140, 210}
  /\ Statuses = {0, 30, 60, 90, 120, 140, 210, 6, 9, 12}
  /\ Following(EngineSteps, 30) = 60 /\ Following(EngineSteps, 60) = 90
  /\ Following(EngineSteps, 90) = 120
  /\ Following(TableSteps, 30) = 140 /\ Following(TableSteps, 140) = 210
  /\ SetInvalid(60) = 6 /\ SetInvalid(90) = 9 /\ SetInvalid(120) = 12
<1>1. EngineSteps = {60, 90, 120} /\ TableSteps = {140, 210}
  BY Zenon DEF AllWritten, EngineSteps, TableSteps
<1>2. Statuses = {0, 30, 60, 90, 120, 140, 210, 6, 9, 12}
  BY <1>1, Zenon DEF Statuses, NoStatus, Loaded
<1>3. /\ Following(EngineSteps, 30) = 60 /\ Following(EngineSteps, 60) = 90
      /\ Following(EngineSteps, 90) = 120
  BY <1>1 DEF Following
<1>4. Following(TableSteps, 30) = 140 /\ Following(TableSteps, 140) = 210
  BY <1>1 DEF Following
<1>5. SetInvalid(60) = 6 /\ SetInvalid(90) = 9 /\ SetInvalid(120) = 12
  BY DEF SetInvalid
<1> QED BY <1>1, <1>2, <1>3, <1>4, <1>5, Zenon

\* The statuses of a table are statuses.
LEMMA TableInStatuses == TableStatuses \subseteq Statuses
BY Steps DEF TableStatuses, Invalid, NoStatus, Loaded

-----------------------------------------------------------------------------
(* The types.                                                              *)

StoreType ==
  /\ driver \in Drivers /\ lost \in BOOLEAN
  /\ db \in CheckpointType /\ mem \in CheckpointType /\ tmp \in CheckpointType
DiffsType == diff \in DiffType /\ upd \in DiffType
ProcessType ==
  /\ tstat \in Statuses /\ csum \in 0 .. 1 /\ alloc \in Nat
  /\ at \in [Engines -> Rows] /\ estat \in [Engines -> Statuses]
  /\ epc \in [Engines -> {"idle", "save", "base", "chunk"}] /\ reg \in [Engines -> Nat]
SaverType == token \in 0 .. 1 /\ spc \in {"idle", "swap", "update", "rename"} /\ wg \in Nat
BudgetType == trouble \in 0 .. MaxTrouble /\ ctls \in 0 .. MaxCtl

\* TypeOK by groups of variables.
LEMMA Types == TypeOK <=> StoreType /\ DiffsType /\ ProcessType /\ SaverType /\ BudgetType
BY Zenon DEF TypeOK, StoreType, DiffsType, ProcessType, SaverType, BudgetType, Rows

\* ... and after a step.
LEMMA TypesNext == StoreType' /\ DiffsType' /\ ProcessType' /\ SaverType' /\ BudgetType' => TypeOK'
BY Zenon DEF TypeOK, StoreType, DiffsType, ProcessType, SaverType, BudgetType, Rows

\* The rows of a checkpoint and of a diff.
LEMMA RowTypes ==
  /\ \A c \in CheckpointType :
       /\ c.status \in Statuses /\ c.base \in Nat /\ c.sum \in 0 .. 1 /\ c.has \in BOOLEAN
       /\ \A e \in Engines : c.eng[e] \in Statuses /\ c.pos[e] \in Rows
  /\ \A d \in DiffType :
       /\ d.status \in Statuses /\ d.base \in Nat \cup {NoRow} /\ d.sum \in 0 .. 1 /\ d.any \in BOOLEAN
       /\ \A e \in Engines : d.eng[e] \in Statuses /\ d.pos[e] \in Rows
BY Zenon DEF CheckpointType, DiffType, Rows

\* ... and so what they add up to.
LEMMA LevelTypes ==
  ASSUME StoreType, DiffsType, ProcessType, NEW e \in Engines
  PROVE  /\ Store \in CheckpointType
         /\ {db.pos[e], Store.pos[e], upd.pos[e], diff.pos[e], Pos2(e), Pos3(e), at[e]} \subseteq Rows
         /\ {db.eng[e], Store.eng[e], upd.eng[e], diff.eng[e], Eng2(e), Eng3(e), estat[e]} \subseteq Statuses
         /\ {db.base, upd.base, diff.base} \subseteq Nat \cup {NoRow}
         /\ alloc \in Nat /\ reg[e] \in Nat
<1>1. Store \in CheckpointType
  BY Zenon DEF Store, StoreType
<1>2. /\ {db.pos[e], Store.pos[e], upd.pos[e], diff.pos[e], at[e]} \subseteq Rows
      /\ {db.eng[e], Store.eng[e], upd.eng[e], diff.eng[e], estat[e]} \subseteq Statuses
      /\ {db.base, upd.base, diff.base} \subseteq Nat \cup {NoRow}
      /\ alloc \in Nat /\ reg[e] \in Nat
  BY <1>1, RowTypes, Zenon DEF StoreType, DiffsType, ProcessType
<1>3. Pos2(e) \in Rows /\ Pos3(e) \in Rows
  BY <1>2, Zenon DEF Pos2, Pos3, Over
<1>4. Eng2(e) \in Statuses /\ Eng3(e) \in Statuses
  BY <1>2, Zenon DEF Eng2, Eng3, Over
<1> QED BY <1>1, <1>2, <1>3, <1>4, Zenon

\* Statuses follow each other.
LEMMA OrderTrans ==
  /\ \A a \in Statuses : Order(a, a) /\ Order(NoStatus, a)
  /\ \A a, b, c \in Statuses : Order(a, b) /\ Order(b, c) => Order(a, c)
<1>1. /\ \A a \in Statuses : Order(a, a) /\ Order(NoStatus, a)
  BY Steps DEF Order, Invalid, NoStatus
<1>2. ASSUME NEW a \in Statuses, NEW b \in Statuses, NEW c \in Statuses, Order(a, b), Order(b, c)
      PROVE  Order(a, c)
  BY <1>2, Steps DEF Order, Invalid
<1> QED BY <1>1, <1>2, Zenon

\* ... in two steps.
LEMMA OrderStep ==
  ASSUME NEW a \in Statuses, NEW b \in Statuses, NEW c \in Statuses, Order(a, b), Order(b, c)
  PROVE  Order(a, c)
BY Steps DEF Order, Invalid

\* What the invariant says of one engine, and the types.
LEMMA Use ==
  ASSUME IInv
  PROVE  /\ StoreType /\ DiffsType /\ ProcessType /\ SaverType /\ BudgetType
         /\ SaverInv /\ FileInv /\ StatusInv
         /\ \A e \in Engines : DiskInv(e) /\ ChainInv(e) /\ GoodInv(e) /\ BaseInv(e)
BY Types, Zenon DEF IInv, EngineInv

\* The initial state: nothing is on disk and nothing is running.
LEMMA InitIInv == Init => IInv
<1> SUFFICES ASSUME Init PROVE IInv
  BY Zenon
<1>1. StoreType /\ DiffsType
  BY Empties, Zenon DEF Init, StoreType, DiffsType
<1>2. ProcessType
  BY ConstantsAssumption, Steps DEF Init, ProcessType, Rows, NoRow, NoStatus, Loaded
<1>3. SaverType /\ BudgetType
  BY ConstantsAssumption DEF Init, SaverType, BudgetType
<1>4. SaverInv
  BY Empties DEF Init, SaverInv, Alive, Quiet, Moving
<1>5. FileInv
  BY Zenon DEF Init, FileInv, Moving, Up, Run
<1>6. StatusInv
  BY Empties DEF Init, StatusInv, Opened, Up, Run, TableStatuses
<1>7. ASSUME NEW e \in Engines PROVE EngineInv(e)
  <2>1. db.pos[e] = NoRow /\ db.eng[e] = NoStatus /\ db.status = NoStatus /\ life = "down"
    BY Empties, Zenon DEF Init
  <2>2. DiskInv(e)
    BY <2>1 DEF DiskInv, Snap, NoRow, NoStatus, Invalid, Loaded, Moving
  <2> QED BY <2>1, <2>2, Zenon DEF EngineInv, ChainInv, GoodInv, BaseInv, Opened, Up, Run
<1> QED BY <1>1, <1>2, <1>3, <1>4, <1>5, <1>6, <1>7, Types, Zenon DEF IInv

-----------------------------------------------------------------------------
(* Steps that move no position and no status.                              *)

\* The levels depend on the store and the diffs only.
SameLevels(x) ==
  /\ Pos2(x)' = Pos2(x) /\ Pos3(x)' = Pos3(x) /\ Eng2(x)' = Eng2(x) /\ Eng3(x)' = Eng3(x)
SameDiff ==
  /\ diff'.pos = diff.pos /\ diff'.eng = diff.eng /\ diff'.status = diff.status
  /\ diff'.base >= diff.base

\* A step that leaves the store and the update being saved alone.
LEMMA LevelsSame ==
  ASSUME UNCHANGED <<driver, db, mem, upd>>
  PROVE  /\ Store' = Store /\ Status2' = Status2 /\ \A x \in Engines : Pos2(x)' = Pos2(x) /\ Eng2(x)' = Eng2(x)
         /\ diff'.status = diff.status => Status3' = Status3
         /\ \A x \in Engines : /\ diff'.pos[x] = diff.pos[x] => Pos3(x)' = Pos3(x)
                               /\ diff'.eng[x] = diff.eng[x] => Eng3(x)' = Eng3(x)
BY Zenon DEF Store, Status2, Status3, Pos2, Pos3, Eng2, Eng3, Over

\* Where such a step may lead.
FrameLife ==
  /\ life' \in Opened => life \in Opened
  /\ life' \in Up => life \in Up
  /\ life' \in Run => life \in Run
  /\ life' \in {"populate", "insert", "inserting"} => life \in {"populate", "insert", "inserting"}
  /\ life' \in {"populate", "insert"} => life \in {"populate", "insert"}
  /\ life' \notin Moving
  /\ life' = "clean" => tstat = 210

\* Such a step keeps the invariant if it keeps the part about the saver, the file and the
\* bases.
LEMMA Frame ==
  ASSUME IInv, UNCHANGED <<driver, db, mem, tmp, lost, upd, at, estat, tstat>>, SameDiff, FrameLife,
         Good /\ life' \in Run /\ driver # "glue" => Sum3' = csum',
         \A e \in Engines : (epc'[e] = "idle" <=> epc[e] = "idle"),
         TypeOK', SaverInv', FileInv', \A e \in Engines : BaseInv(e)'
  PROVE  IInv'
<1>0. /\ StatusInv
      /\ \A e \in Engines : DiskInv(e) /\ ChainInv(e) /\ GoodInv(e)
  BY Use, Zenon
<1>1. /\ driver' = driver /\ db' = db /\ mem' = mem /\ tmp' = tmp /\ lost' = lost /\ upd' = upd
      /\ at' = at /\ estat' = estat /\ tstat' = tstat
      /\ diff'.pos = diff.pos /\ diff'.eng = diff.eng /\ diff'.status = diff.status
  BY Zenon DEF SameDiff
<1>2. /\ Store' = Store /\ Status2' = Status2 /\ Status3' = Status3 /\ (Good' <=> Good)
      /\ \A x \in Engines : SameLevels(x)
  BY <1>1, LevelsSame DEF SameLevels, Good
<1>3. StatusInv'
  BY <1>0, <1>1, <1>2 DEF StatusInv, FrameLife
<1>4. ASSUME NEW e \in Engines PROVE DiskInv(e)' /\ ChainInv(e)' /\ GoodInv(e)'
  <2>0. DiskInv(e) /\ ChainInv(e) /\ GoodInv(e) /\ SameLevels(e)
    BY <1>0, <1>2, Zenon
  <2>1. DiskInv(e)'
    BY <1>1, <1>2, <2>0 DEF DiskInv, FrameLife, Moving
  <2>2. ChainInv(e)'
    BY <1>1, <1>2, <2>0 DEF ChainInv, FrameLife, SameLevels
  <2>3. GoodInv(e)'
    BY <1>1, <1>2, <1>3, <2>0 DEF GoodInv, FrameLife, SameLevels
  <2> QED BY <2>1, <2>2, <2>3, Zenon
<1> QED BY <1>3, <1>4, Zenon DEF IInv, EngineInv

\* A round of the listener leaves the saver with what was sent.
LEMMA SendKeeps ==
  ASSUME IInv, NEW d \in DiffType, d.any, Send(d), life \in {"populate", "rebase", "restore"},
         life' \in {"insert", "restore"}, life' # "restore" => \A e \in Engines : epc'[e] = "idle"
  PROVE  SaverInv' /\ SaverType'
<1>1. SaverInv /\ SaverType
  BY Use, Zenon
<1>2. diff' = d /\ token' = 1 /\ wg' = (IF token = 0 THEN wg + 1 ELSE wg) /\ spc' = spc /\ upd' = upd
  BY Zenon DEF Send
<1>3. SaverType'
  BY <1>1, <1>2 DEF SaverType
<1>4. life \in Alive /\ life' \in Alive /\ life' \notin Quiet /\ life' \in Quiet \cup Run
  BY Zenon DEF Alive, Quiet, Moving, Run
<1>5. wg' = (IF life' \in Alive THEN 1 ELSE 0) + token' + (IF spc' = "idle" THEN 0 ELSE 1)
  BY <1>1, <1>2, <1>4 DEF SaverInv, SaverType
<1> QED BY <1>1, <1>2, <1>3, <1>4, <1>5, Zenon DEF SaverInv

\* The file driver has nothing to do with what the import sends.
LEMMA FileKept ==
  ASSUME IInv, UNCHANGED <<driver, db, mem, tmp, lost, upd>>,
         spc' = "rename" => spc = "rename", spc = "rename" => spc' = "rename",
         life' \notin Moving \cup {"initialize", "inserting"}, life # "inserting", life' \in Up => life \in Up
  PROVE  FileInv'
<1>1. FileInv
  BY Use, Zenon
<1>2. /\ Store' = Store /\ Status2' = Status2 /\ Sum2' = Sum2
      /\ \A x \in Engines : Pos2(x)' = Pos2(x) /\ Eng2(x)' = Eng2(x)
  BY LevelsSame, Zenon DEF Sum2, Store
<1> QED BY <1>1, <1>2, Zenon DEF FileInv

\* ... nor has the base of a step that does not move it.
LEMMA BaseKept ==
  ASSUME IInv, UNCHANGED <<driver, db, mem, lost, upd>>, NEW e \in Engines,
         diff'.pos[e] = diff.pos[e], diff'.base >= diff.base, diff'.base \in Int,
         life' \in Up => life \in Up,
         \/ epc'[e] = "idle"
         \/ epc'[e] = epc[e] /\ alloc' = alloc /\ at'[e] = at[e] /\ reg'[e] = reg[e]
  PROVE  BaseInv(e)'
<1>1. BaseInv(e) /\ StoreType /\ DiffsType /\ ProcessType
  BY Use, Zenon
<1>2. Pos2(e)' = Pos2(e) /\ Pos3(e)' = Pos3(e)
  BY LevelsSame, Zenon
<1>3. {Pos2(e), Pos3(e), at[e]} \subseteq Rows /\ {diff.base, db.base, upd.base} \subseteq Int
  BY <1>1, LevelTypes DEF NoRow
<1>4. \A h \in Int : (Covered2(h) => Covered2(h)') /\ (Covered3(h) => Covered3(h)')
  BY <1>3 DEF Covered2, Covered3
<1>5. /\ Handle(e, Pos2(e))' = Handle(e, Pos2(e)) /\ Handle(e, Pos3(e))' = Handle(e, Pos3(e))
      /\ {Handle(e, Pos2(e)), Handle(e, Pos3(e)), Handle(e, at[e])} \subseteq Int
  BY <1>2, <1>3, HandleInt, Zenon DEF Handle
<1>6. at'[e] = at[e] => Handle(e, at[e])' = Handle(e, at[e])
  BY Zenon DEF Handle
<1> QED BY <1>1, <1>2, <1>4, <1>5, <1>6, Zenon DEF BaseInv

\* TakeToken, CloseChannel and WaitDone change no data.
LEMMA TokenKeeps ==
  ASSUME IInv, TakeToken
  PROVE  IInv'
<1>0. DiffsType /\ StoreType /\ ProcessType /\ SaverType /\ BudgetType /\ SaverInv /\ FileInv
  BY Use, Zenon
<1>1. /\ spc = "idle" /\ token = 1 /\ token' = 0 /\ spc' = "swap"
      /\ UNCHANGED <<driver, db, mem, tmp, lost, life, tstat, csum, alloc, at, estat, epc, reg>>
      /\ UNCHANGED <<diff, upd, wg, trouble, ctls>>
  BY Zenon DEF TakeToken, store, process, budget
<1>2. TypeOK'
  BY <1>0, <1>1, TypesNext DEF StoreType, DiffsType, ProcessType, SaverType, BudgetType
<1>3. SaverInv'
  BY <1>0, <1>1 DEF SaverInv
<1>4. FileInv'
  BY <1>0, <1>1, Zenon DEF FileInv
<1>5. diff.base \in Int /\ SameDiff
  BY <1>0, <1>1, RowTypes DEF DiffsType, NoRow, SameDiff
<1>6. \A e \in Engines : BaseInv(e)'
  BY <1>1, <1>5, BaseKept
<1>7. StatusInv
  BY Use, Zenon
<1>8. FrameLife /\ (Good /\ life' \in Run /\ driver # "glue" => Sum3' = csum')
  BY <1>0, <1>1, <1>7 DEF FrameLife, StatusInv, Sum3, Sum2, Store, SaverInv, Quiet
<1> QED BY <1>1, <1>2, <1>3, <1>4, <1>5, <1>6, <1>8, Frame, Zenon

\* CloseChannel and WaitDone count the main goroutine out.
LEMMA WaitKeeps ==
  ASSUME IInv, CloseChannel \/ WaitDone
  PROVE  IInv'
<1>0. /\ DiffsType /\ StoreType /\ ProcessType /\ SaverType /\ BudgetType /\ SaverInv /\ FileInv
      /\ StatusInv
  BY Use, Zenon
<1>1. /\ UNCHANGED <<driver, db, mem, tmp, lost, tstat, csum, alloc, at, estat, epc, reg>>
      /\ UNCHANGED <<diff, token, spc, upd, ctls>>
      /\ \/ /\ life = "restore" /\ life' = "waiting" /\ wg' = wg - 1 /\ trouble' \in {trouble, trouble - 1}
            /\ trouble' # trouble => trouble > 0
            /\ \A e \in Engines : epc[e] = "idle"
         \/ /\ life = "waiting" /\ life' = (IF tstat = 210 THEN "clean" ELSE "exit") /\ wg = 0
            /\ wg' = wg /\ trouble' = trouble
  BY Zenon DEF CloseChannel, WaitDone, store, saver, budget
<1>2. life \in Run /\ life' \in {"waiting", "clean", "exit"} /\ life' \in Quiet \cup Run
  BY <1>1, Zenon DEF Run
<1>3. SaverInv' /\ SaverType'
  <2>1. life' \notin Alive /\ (life = "restore" => life \in Alive) /\ (life # "restore" => life \notin Alive)
    BY <1>1, <1>2, Zenon DEF Alive
  <2>2. life' \in Quiet => life = "waiting"
    BY <1>1, Zenon DEF Quiet, Moving
  <2>3. SaverType' /\ wg' = (IF life' \in Alive THEN 1 ELSE 0) + token' + (IF spc' = "idle" THEN 0 ELSE 1)
    BY <1>0, <1>1, <2>1 DEF SaverInv, SaverType
  <2>4. life' \in Quiet => token' = 0 /\ spc' = "idle"
    BY <1>0, <1>1, <2>1, <2>2, <2>3 DEF SaverType
  <2> QED BY <1>0, <1>1, <1>2, <2>1, <2>3, <2>4, Zenon DEF SaverInv
<1>4. BudgetType'
  BY <1>0, <1>1, ConstantsAssumption DEF BudgetType
<1>5. TypeOK'
  BY <1>0, <1>1, <1>3, <1>4, TypesNext, Zenon DEF StoreType, DiffsType, ProcessType
<1>6. FileInv'
  BY <1>1, <1>2, FileKept, Zenon DEF Moving, Up, Run
<1>7. diff.base \in Int /\ SameDiff
  BY <1>0, <1>1, RowTypes DEF DiffsType, NoRow, SameDiff
<1>8. \A e \in Engines : BaseInv(e)'
  BY <1>1, <1>2, <1>7, BaseKept DEF Up
<1>9. FrameLife
  BY <1>1, <1>2, Zenon DEF FrameLife, Run, Up, Opened, Moving
<1>10. Good /\ life' \in Run /\ driver # "glue" => Sum3' = csum'
  BY <1>0, <1>1, <1>2, Zenon DEF StatusInv, Sum3, Sum2, Store
<1> QED BY <1>1, <1>5, <1>3, <1>6, <1>7, <1>8, <1>9, <1>10, Frame, Zenon

\* What a round of the listener does not change.
LEMMA SendFrame ==
  ASSUME IInv, NEW d \in DiffType, d.any, Send(d), SameDiff,
         UNCHANGED <<driver, db, mem, tmp, lost, at, estat, tstat, alloc, trouble, ctls>>, ProcessType',
         \/ life = "populate" /\ life' = "insert"
         \/ life \in {"rebase", "restore"} /\ life' = "restore",
         life' # "restore" => epc' = epc,
         \A e \in Engines : (epc'[e] = "idle" <=> epc[e] = "idle"),
         Good /\ driver # "glue" => Sum3' = csum', \A e \in Engines : BaseInv(e)'
  PROVE  IInv'
<1>0. /\ DiffsType /\ StoreType /\ ProcessType /\ BudgetType /\ SaverInv
  BY Use, Zenon
<1>1. upd' = upd /\ spc' = spc /\ diff' = d
  BY Zenon DEF Send
<1>2. life \in {"populate", "rebase", "restore"} /\ life' \in {"insert", "restore"}
  BY Zenon
<1>3. life' # "restore" => \A e \in Engines : epc'[e] = "idle"
  BY <1>0, Zenon DEF SaverInv
<1>4. SaverInv' /\ SaverType'
  BY <1>2, <1>3, SendKeeps, Zenon
<1>5. TypeOK'
  BY <1>0, <1>1, <1>4, TypesNext, Zenon DEF StoreType, DiffsType, BudgetType
<1>6. FileInv'
  BY <1>1, <1>2, FileKept, Zenon DEF Moving, Up, Run
<1>7. FrameLife
  BY <1>2, Zenon DEF FrameLife, Run, Up, Opened, Moving
<1> QED BY <1>1, <1>4, <1>5, <1>6, <1>7, Frame, Zenon

\* The checksum before the import, and the first base.
LEMMA SendChecksumKeeps ==
  ASSUME IInv, SendChecksum
  PROVE  IInv'
<1>0. DiffsType /\ ProcessType /\ SaverInv /\ StatusInv
  BY Use, Zenon
<1> DEFINE d == MergeChecksum(diff, 1)
<1>1. /\ d \in DiffType /\ d.any /\ d.sum = 1
      /\ d.eng = diff.eng /\ d.status = diff.status /\ d.base = diff.base /\ d.pos = diff.pos
  BY <1>0, MergeSum DEF DiffsType
<1>2. /\ Send(d) /\ life = "populate" /\ life' = "insert" /\ csum' = 1
      /\ UNCHANGED <<driver, db, mem, tmp, lost, at, estat, tstat, alloc, trouble, ctls, epc, reg>>
  BY Zenon DEF SendChecksum, store, budget
<1> HIDE DEF d
<1>3. diff' = d /\ upd' = upd
  BY <1>2, Zenon DEF Send
<1>4. d.base \in Int /\ SameDiff
  BY <1>1, <1>3, RowTypes DEF SameDiff, NoRow
<1>5. ProcessType'
  BY <1>0, <1>2 DEF ProcessType
<1>6. Good /\ driver # "glue" => Sum3' = csum'
  BY <1>1, <1>2, <1>3 DEF Sum3, Over
<1>7. \A e \in Engines : BaseInv(e)'
  BY <1>1, <1>2, <1>3, <1>4, BaseKept DEF Up, Run
<1> QED BY <1>1, <1>2, <1>4, <1>5, <1>6, <1>7, SendFrame, Zenon

\* The base of the allocator is sent before the import.
LEMMA SendBaseKeeps ==
  ASSUME IInv, SendBase
  PROVE  IInv'
<1>0. DiffsType /\ ProcessType /\ SaverInv /\ StatusInv
  BY Use, Zenon
<1> DEFINE d == MergeRebase(diff, alloc)
<1>1. /\ d \in DiffType /\ d.any /\ d.base >= diff.base
      /\ d.eng = diff.eng /\ d.status = diff.status /\ d.sum = diff.sum /\ d.pos = diff.pos
  BY <1>0, MergeBase, Zenon DEF DiffsType, ProcessType
<1>2. /\ Send(d) /\ life = "rebase" /\ life' = "restore"
      /\ UNCHANGED <<driver, db, mem, tmp, lost, at, estat, tstat, csum, alloc, trouble, ctls, epc, reg>>
  BY Zenon DEF SendBase, store, budget
<1> HIDE DEF d
<1>3. diff' = d /\ upd' = upd
  BY <1>2, Zenon DEF Send
<1>4. d.base \in Int /\ SameDiff
  BY <1>1, <1>3, RowTypes DEF SameDiff, NoRow
<1>5. ProcessType'
  BY <1>0, <1>2, Zenon DEF ProcessType
<1>6. Good /\ driver # "glue" => Sum3' = csum'
  BY <1>0, <1>1, <1>2, <1>3, Zenon DEF StatusInv, Run, Sum3, Sum2, Store
<1>7. \A e \in Engines : BaseInv(e)'
  BY <1>1, <1>2, <1>3, <1>4, BaseKept, Zenon DEF Up, Run
<1> QED BY <1>1, <1>2, <1>4, <1>5, <1>6, <1>7, SendFrame, Zenon

\* saveCheckpoint reads the base after the row was encoded ...
LEMMA ReadBaseKeeps ==
  ASSUME IInv, NEW e \in Engines, ReadBase(e)
  PROVE  IInv'
<1>0. /\ DiffsType /\ StoreType /\ ProcessType /\ SaverType /\ BudgetType /\ SaverInv /\ FileInv /\ StatusInv
      /\ \A x \in Engines : BaseInv(x)
  BY Use, Zenon
<1>1. /\ epc[e] = "save" /\ reg' = [reg EXCEPT ![e] = alloc + 1] /\ epc' = [epc EXCEPT ![e] = "base"]
      /\ UNCHANGED <<driver, db, mem, tmp, lost, life, tstat, csum, alloc, at, estat>>
      /\ UNCHANGED <<diff, token, spc, upd, wg, trouble, ctls>>
  BY Zenon DEF ReadBase, store, saver, budget
<1>2. /\ life = "restore" /\ epc'[e] = "base" /\ reg'[e] = alloc + 1
      /\ \A x \in Engines \ {e} : epc'[x] = epc[x] /\ reg'[x] = reg[x]
      /\ \A x \in Engines : (epc'[x] = "idle" <=> epc[x] = "idle")
      /\ ProcessType'
  BY <1>0, <1>1 DEF ProcessType, SaverInv
<1>3. TypeOK'
  BY <1>0, <1>1, <1>2, TypesNext, Zenon DEF StoreType, DiffsType, SaverType, BudgetType
<1>4. SaverInv' /\ FileInv'
  BY <1>0, <1>1, <1>2, FileKept, Zenon DEF SaverInv, Moving
<1>5. diff.base \in Int /\ SameDiff
  BY <1>0, <1>1, RowTypes DEF DiffsType, NoRow, SameDiff
<1>6. \A x \in Engines \ {e} : BaseInv(x)'
  BY <1>1, <1>2, <1>5, BaseKept
<1>7. BaseInv(e)'
  <2>1. Pos2(e)' = Pos2(e) /\ Pos3(e)' = Pos3(e)
    BY <1>1, LevelsSame, Zenon
  <2>2. /\ Handle(e, Pos2(e))' = Handle(e, Pos2(e)) /\ Handle(e, Pos3(e))' = Handle(e, Pos3(e))
        /\ Handle(e, at[e])' = Handle(e, at[e])
    BY <1>1, <2>1, Zenon DEF Handle
  <2>3. BaseInv(e) /\ alloc \in Int /\ {Handle(e, Pos2(e)), Handle(e, Pos3(e)), Handle(e, at[e])} \subseteq Int
    BY <1>0, LevelTypes, HandleInt DEF ProcessType
  <2>4. \A h \in Int : (Covered2(h)' <=> Covered2(h)) /\ (Covered3(h)' <=> Covered3(h))
    BY <1>1, Zenon DEF Covered2, Covered3
  <2> QED BY <1>1, <1>2, <2>1, <2>2, <2>3, <2>4 DEF BaseInv
<1>8. FrameLife /\ (Good /\ life' \in Run /\ driver # "glue" => Sum3' = csum')
  BY <1>0, <1>1, <1>2, Zenon DEF FrameLife, StatusInv, Sum3, Sum2, Store, Moving
<1> QED BY <1>1, <1>2, <1>3, <1>4, <1>5, <1>6, <1>7, <1>8, Frame, Zenon

\* ... and sends it before the position.
LEMMA SendRebaseKeeps ==
  ASSUME IInv, NEW e \in Engines, SendRebase(e)
  PROVE  IInv'
<1>0. DiffsType /\ StoreType /\ ProcessType /\ SaverInv /\ StatusInv /\ BaseInv(e)
  BY Use, Zenon
<1>a. reg[e] \in Nat
  BY <1>0, Zenon DEF ProcessType
<1> DEFINE d == MergeRebase(diff, reg[e])
<1>1. /\ d \in DiffType /\ d.any /\ d.base >= diff.base /\ d.base >= reg[e]
      /\ d.eng = diff.eng /\ d.status = diff.status /\ d.sum = diff.sum /\ d.pos = diff.pos
  BY <1>0, <1>a, MergeBase, Zenon DEF DiffsType
<1>2. /\ Send(d) /\ epc[e] = "base" /\ life' = life
      /\ epc' = [epc EXCEPT ![e] = "chunk"] /\ reg' = [reg EXCEPT ![e] = 0]
      /\ UNCHANGED <<driver, db, mem, tmp, lost, at, estat, tstat, csum, alloc, trouble, ctls>>
  BY Zenon DEF SendRebase, store, budget
<1> HIDE DEF d
<1>3. diff' = d /\ upd' = upd
  BY <1>2, Zenon DEF Send
<1>4. {d.base, diff.base, db.base, upd.base} \subseteq Int /\ SameDiff
  BY <1>0, <1>1, <1>3, RowTypes DEF SameDiff, NoRow, DiffsType, StoreType
<1>5. /\ ProcessType' /\ epc'[e] = "chunk"
      /\ \A x \in Engines \ {e} : epc'[x] = epc[x] /\ reg'[x] = reg[x]
      /\ \A x \in Engines : (epc'[x] = "idle" <=> epc[x] = "idle")
  BY <1>0, <1>2, Zenon DEF ProcessType
<1>6. life = "restore"
  BY <1>0, <1>2, Zenon DEF SaverInv
<1>7. Good /\ driver # "glue" => Sum3' = csum'
  BY <1>0, <1>1, <1>2, <1>3, <1>6, Zenon DEF StatusInv, Run, Sum3, Sum2, Store
<1>8. \A x \in Engines \ {e} : BaseInv(x)'
  BY <1>1, <1>2, <1>3, <1>4, <1>5, BaseKept, Zenon
<1>9. BaseInv(e)'
  <2>1. Pos2(e)' = Pos2(e) /\ Pos3(e)' = Pos3(e)
    BY <1>1, <1>2, <1>3, LevelsSame, Zenon
  <2>2. /\ Handle(e, Pos2(e))' = Handle(e, Pos2(e)) /\ Handle(e, Pos3(e))' = Handle(e, Pos3(e))
        /\ Handle(e, at[e])' = Handle(e, at[e])
    BY <1>2, <2>1, Zenon DEF Handle
  <2>3. {Handle(e, Pos2(e)), Handle(e, Pos3(e)), Handle(e, at[e])} \subseteq Int
    BY <1>0, LevelTypes, HandleInt, Zenon
  <2>4. /\ \A h \in Int : (Covered2(h) => Covered2(h)') /\ (Covered3(h) => Covered3(h)')
        /\ \A h \in Int : reg[e] > h => Covered3(h)'
    BY <1>1, <1>2, <1>3, <1>4, <1>a DEF Covered2, Covered3
  <2> QED BY <1>0, <1>2, <1>5, <2>1, <2>2, <2>3, <2>4, Zenon DEF BaseInv
<1> QED BY <1>1, <1>2, <1>4, <1>5, <1>6, <1>7, <1>8, <1>9, SendFrame, Zenon

-----------------------------------------------------------------------------
(* Steps of the producers that move a position or a status.                *)

\* An engine that a step leaves alone.
SameEngine(x) ==
  /\ at'[x] = at[x] /\ estat'[x] = estat[x] /\ epc'[x] = epc[x] /\ reg'[x] = reg[x]
  /\ diff'.pos[x] = diff.pos[x] /\ diff'.eng[x] = diff.eng[x]

\* A step that sends another status of the table.
StatusMoves(S) ==
  /\ diff'.status = tstat' /\ tstat' \in TableStatuses \ {NoStatus} /\ Order(tstat, tstat')
  /\ Good => \A x \in Engines \ S : \A p \in Rows : Snap(p, estat[x], tstat) => Snap(p, estat[x], tstat')

\* A step of some engines has to keep what is said of them.
LEMMA EngineStep ==
  ASSUME IInv, life = "restore", life' = "restore", NEW S \in SUBSET Engines,
         UNCHANGED <<driver, db, mem, tmp, lost, upd, csum, spc>>, TypeOK', SaverInv',
         diff'.sum = diff.sum, diff'.base = diff.base, alloc' >= alloc,
         (tstat' = tstat /\ diff'.status = diff.status) \/ StatusMoves(S),
         \A x \in Engines \ S : SameEngine(x),
         \A x \in S : ChainInv(x)' /\ GoodInv(x)' /\ BaseInv(x)'
  PROVE  IInv'
<1>0. /\ StatusInv /\ FileInv /\ StoreType /\ DiffsType /\ ProcessType
      /\ \A x \in Engines : DiskInv(x) /\ ChainInv(x) /\ GoodInv(x) /\ BaseInv(x)
  BY Use, Zenon
<1>1. /\ Store' = Store /\ Status2' = Status2 /\ Sum3' = Sum3 /\ (Good' <=> Good)
      /\ \A x \in Engines : Pos2(x)' = Pos2(x) /\ Eng2(x)' = Eng2(x)
      /\ diff'.status = diff.status => Status3' = Status3
      /\ StatusMoves(S) => Status3' = tstat'
  BY LevelsSame, Zenon DEF Good, Sum3, Sum2, Store, Status3, Over, StatusMoves
<1>2. FileInv'
  BY FileKept, Zenon DEF Moving
<1>3. \A x \in Engines : DiskInv(x)'
  BY <1>0, <1>1, Zenon DEF DiskInv
<1>5. StatusInv'
  <2>0. /\ StatusInv /\ life = "restore" /\ life' = "restore" /\ driver' = driver /\ db' = db
        /\ mem' = mem /\ tmp' = tmp /\ upd' = upd /\ csum' = csum /\ Store' = Store
        /\ Status2' = Status2 /\ Sum3' = Sum3 /\ (Good' <=> Good)
    BY <1>0, <1>1, Zenon
  <2>1. CASE tstat' = tstat /\ diff'.status = diff.status
    <3>1. Status3' = Status3
      BY <1>1, <2>1, Zenon
    <3> QED BY ONLY <2>0, <2>1, <3>1 DEF StatusInv
  <2>2. CASE StatusMoves(S)
    <3>1. {Status2, Status3, tstat, tstat'} \subseteq Statuses
      <4>1. {db.status, mem.status, upd.status, diff.status, tstat} \subseteq TableStatuses
        BY ONLY <2>0 DEF StatusInv
      <4>2. tstat' \in TableStatuses
        BY <2>2, Zenon DEF StatusMoves
      <4> QED BY <4>1, <4>2, TableInStatuses, Zenon DEF Status3, Status2, Over, Store
    <3>2. Order(Status2, Status3) /\ Order(Status3, tstat) /\ Order(tstat, tstat')
      BY <1>0, <2>2, Zenon DEF StatusInv, Up, Run, StatusMoves
    <3>3. Order(Status2, tstat') /\ Order(tstat', tstat')
      BY <3>1, <3>2, OrderTrans, Zenon
    <3>4. Status3' = tstat' /\ diff'.status = tstat' /\ tstat' \in TableStatuses
      BY <1>1, <2>2, Zenon DEF StatusMoves
    <3> QED BY ONLY <2>0, <3>3, <3>4 DEF StatusInv, Run
  <2> QED BY <2>1, <2>2, Zenon
<1>4. ASSUME NEW x \in Engines \ S PROVE ChainInv(x)' /\ GoodInv(x)' /\ BaseInv(x)'
  <2>0. /\ ChainInv(x) /\ GoodInv(x) /\ BaseInv(x) /\ SameEngine(x)
        /\ {Pos2(x), Pos3(x), at[x]} \subseteq Rows
    BY <1>0, LevelTypes, Zenon
  <2>1. Pos3(x)' = Pos3(x) /\ Eng3(x)' = Eng3(x) /\ Pos2(x)' = Pos2(x) /\ Eng2(x)' = Eng2(x)
    BY <2>0, LevelsSame, Zenon DEF SameEngine
  <2>2. ChainInv(x)'
    BY <1>1, <2>0, <2>1, Zenon DEF ChainInv, SameEngine
  <2>3. GoodInv(x)'
    <3>1. Good => /\ Snap(Pos3(x), estat[x], tstat) /\ Snap(at[x], estat[x], tstat)
                  /\ Status3 = tstat /\ Eng3(x) = estat[x]
      BY <1>0, <2>0, Zenon DEF GoodInv, StatusInv, Run, Up
    <3>2. Good => /\ Snap(Pos3(x), estat[x], tstat') /\ Snap(at[x], estat[x], tstat')
                  /\ Status3' = tstat'
      BY <1>1, <2>0, <3>1, Zenon DEF StatusMoves
    <3> QED BY <1>1, <2>0, <2>1, <3>1, <3>2, Zenon DEF GoodInv, SameEngine
  <2>4. /\ Handle(x, Pos2(x))' = Handle(x, Pos2(x)) /\ Handle(x, Pos3(x))' = Handle(x, Pos3(x))
        /\ Handle(x, at[x])' = Handle(x, at[x])
    BY <2>0, <2>1, Zenon DEF Handle, SameEngine
  <2>5. {Handle(x, Pos2(x)), Handle(x, Pos3(x)), Handle(x, at[x])} \subseteq Int
    BY <2>0, HandleInt, Zenon
  <2>6. \A h \in Int : (Covered2(h)' <=> Covered2(h)) /\ (Covered3(h)' <=> Covered3(h))
    BY Zenon DEF Covered2, Covered3
  <2>7. /\ alloc \in Int /\ alloc' \in Int /\ alloc' >= alloc
        /\ driver' = driver /\ lost' = lost /\ epc'[x] = epc[x] /\ reg'[x] = reg[x]
    <3>1. alloc \in Nat /\ alloc' \in Nat
      BY <1>0, Zenon DEF ProcessType, TypeOK
    <3>2. alloc \in Int /\ alloc' \in Int
      BY ONLY <3>1
    <3> QED BY <2>0, <3>2, Zenon DEF SameEngine
  <2>8. BaseInv(x)'
    BY <2>0, <2>1, <2>4, <2>5, <2>6, <2>7 DEF BaseInv
  <2> QED BY <2>2, <2>3, <2>8, Zenon
<1> QED BY <1>2, <1>3, <1>4, <1>5, Zenon DEF IInv, EngineInv

\* A row is encoded, which moves the allocator, and delivered.
LEMMA DeliverKeeps ==
  ASSUME IInv, NEW e \in Engines, Deliver(e)
  PROVE  IInv'
<1>0. /\ DiffsType /\ StoreType /\ ProcessType /\ SaverType /\ BudgetType /\ SaverInv
      /\ ChainInv(e) /\ GoodInv(e) /\ BaseInv(e)
      /\ {Store.pos[e], upd.pos[e], diff.pos[e], Pos2(e), Pos3(e), at[e]} \subseteq Rows
  BY Use, LevelTypes, Zenon
<1>1. /\ life = "restore" /\ epc[e] = "idle" /\ estat[e] = Loaded /\ at[e] < MaxPos
      /\ at' = [at EXCEPT ![e] = at[e] + 1] /\ alloc' = Larger(alloc, Handle(e, at[e] + 1))
      /\ epc' = [epc EXCEPT ![e] = "save"]
      /\ UNCHANGED <<driver, db, mem, tmp, lost, life, tstat, csum, estat, reg>>
      /\ UNCHANGED <<diff, token, spc, upd, wg, trouble, ctls>>
  BY Zenon DEF Deliver, store, saver, budget
<1>2. at[e] \in Int /\ at[e] + 1 \in Rows /\ at[e] + 1 \in Nat
  BY <1>0, <1>1, ConstantsAssumption DEF Rows, NoRow
<1>3. alloc \in Nat /\ Handle(e, at[e] + 1) \in Nat
  BY <1>0, <1>2, HandleNat, Zenon DEF ProcessType
<1>4. alloc' \in Nat /\ alloc' >= alloc /\ alloc' >= Handle(e, at[e] + 1)
  BY <1>1, <1>3 DEF Larger
<1>5. /\ ProcessType' /\ at'[e] = at[e] + 1 /\ epc'[e] = "save"
      /\ \A x \in Engines \ {e} : SameEngine(x)
  BY <1>0, <1>1, <1>2, <1>4, Zenon DEF ProcessType, SameEngine
<1>6. TypeOK'
  BY <1>0, <1>1, <1>5, TypesNext, Zenon DEF StoreType, DiffsType, SaverType, BudgetType
<1>7. SaverInv'
  BY <1>0, <1>1, <1>5, Zenon DEF SaverInv
<1>8. /\ Store' = Store /\ Pos2(e)' = Pos2(e) /\ Pos3(e)' = Pos3(e) /\ Eng2(e)' = Eng2(e)
      /\ Eng3(e)' = Eng3(e) /\ Status2' = Status2 /\ Status3' = Status3 /\ (Good' <=> Good)
  BY <1>1, LevelsSame, Zenon DEF Good
<1>9. ChainInv(e)'
  <2>1. ChainInv(e) /\ Pos3(e) <= at[e] /\ Pos3(e) \in Rows /\ at[e] \in Rows
    BY <1>0, <1>1, Zenon DEF ChainInv, Run
  <2>2. Pos3(e) <= at[e] + 1
    BY ONLY <2>1, ConstantsAssumption DEF Rows, NoRow
  <2>3. db' = db /\ life' = life /\ life = "restore" /\ estat' = estat
    BY <1>1, Zenon
  <2> QED BY <1>5, <1>8, <2>1, <2>2, <2>3, Zenon DEF ChainInv
<1>10. GoodInv(e)'
  <2>1. Good => at[e] = Pos3(e) /\ Snap(at[e], Loaded, tstat) /\ Store.pos[e] # NoRow
    <3>1. Good => at[e] = Pos3(e) /\ Snap(at[e], Loaded, tstat)
      BY <1>0, <1>1, Zenon DEF GoodInv, Run
    <3>2. Good => Pos3(e) >= 0
      BY <3>1, Zenon DEF Snap
    <3>3. Good /\ (upd.pos[e] # NoRow \/ diff.pos[e] # NoRow) => Store.pos[e] # NoRow
      BY <1>0, <1>1, Zenon DEF GoodInv, Up, Run
    <3> QED BY <3>1, <3>2, <3>3 DEF Pos3, Pos2, Over, NoRow
  <2>2. Good => Snap(at[e] + 1, Loaded, tstat)
    BY <1>2, <2>1 DEF Snap, Loaded, Invalid, NoStatus
  <2> QED BY <1>0, <1>1, <1>5, <1>8, <2>1, <2>2, Zenon DEF GoodInv
<1>11. BaseInv(e)'
  <2>1. /\ Handle(e, Pos2(e))' = Handle(e, Pos2(e)) /\ Handle(e, Pos3(e))' = Handle(e, Pos3(e))
        /\ Handle(e, at[e])' = Handle(e, at[e] + 1)
        /\ {Handle(e, Pos2(e)), Handle(e, Pos3(e))} \subseteq Int
    BY <1>0, <1>5, <1>8, HandleInt, Zenon DEF Handle
  <2>2. \A h \in Int : (Covered2(h)' <=> Covered2(h)) /\ (Covered3(h)' <=> Covered3(h))
    BY <1>1, Zenon DEF Covered2, Covered3
  <2>3. BaseInv(e) /\ driver' = driver /\ (lost' <=> lost) /\ life' = life
    BY <1>0, <1>1, Zenon
  <2> QED BY <1>4, <1>5, <1>8, <2>1, <2>2, <2>3, Zenon DEF BaseInv
<1>12. \A x \in {e} : ChainInv(x)' /\ GoodInv(x)' /\ BaseInv(x)'
  BY <1>9, <1>10, <1>11, Zenon
<1>13. {e} \in SUBSET Engines /\ diff' = diff /\ tstat' = tstat /\ life' = life
  BY <1>1, Zenon
<1> QED BY <1>1, <1>4, <1>5, <1>6, <1>7, <1>12, <1>13, EngineStep, Zenon

\* The position is sent when the base has been.
LEMMA SendChunkKeeps ==
  ASSUME IInv, NEW e \in Engines, SendChunk(e)
  PROVE  IInv'
<1>0. /\ DiffsType /\ StoreType /\ ProcessType /\ BudgetType /\ SaverInv /\ StatusInv
      /\ ChainInv(e) /\ GoodInv(e) /\ BaseInv(e)
      /\ {Store.pos[e], upd.pos[e], diff.pos[e], Pos2(e), Pos3(e), at[e]} \subseteq Rows
  BY Use, LevelTypes, Zenon
<1> DEFINE d == MergeChunk(diff, e, at[e])
<1>1. /\ d \in DiffType /\ d.any /\ d.pos = [diff.pos EXCEPT ![e] = at[e]]
      /\ d.eng = diff.eng /\ d.status = diff.status /\ d.base = diff.base /\ d.sum = diff.sum
  BY <1>0, MergePos DEF DiffsType, Rows
<1>2. /\ Send(d) /\ epc[e] = "chunk" /\ epc' = [epc EXCEPT ![e] = "idle"]
      /\ UNCHANGED <<driver, db, mem, tmp, lost, life, tstat, csum, alloc, at, estat, reg, trouble, ctls>>
  BY Zenon DEF SendChunk, store, budget
<1> HIDE DEF d
<1>3. diff' = d /\ upd' = upd /\ spc' = spc
  BY <1>2, Zenon DEF Send
<1>4. life = "restore" /\ life' = "restore"
  BY <1>0, <1>2, Zenon DEF SaverInv
<1>5. ProcessType' /\ epc'[e] = "idle" /\ \A x \in Engines \ {e} : epc'[x] = epc[x]
  BY <1>0, <1>2, Zenon DEF ProcessType
<1>6. SaverInv' /\ SaverType'
  BY <1>1, <1>2, <1>4, SendKeeps, Zenon
<1>7. TypeOK'
  BY <1>0, <1>1, <1>2, <1>3, <1>5, <1>6, TypesNext, Zenon DEF StoreType, DiffsType, BudgetType
<1>8. diff'.pos[e] = at[e] /\ \A x \in Engines \ {e} : diff'.pos[x] = diff.pos[x]
  BY <1>0, <1>1, <1>3 DEF DiffsType, DiffType
<1>9. \A x \in Engines \ {e} : SameEngine(x)
  BY <1>1, <1>2, <1>3, <1>5, <1>8, Zenon DEF SameEngine
<1>10. /\ Store' = Store /\ Pos2(e)' = Pos2(e) /\ Eng2(e)' = Eng2(e) /\ Eng3(e)' = Eng3(e)
       /\ Status2' = Status2 /\ Status3' = Status3 /\ (Good' <=> Good)
  BY <1>1, <1>2, <1>3, LevelsSame, Zenon DEF Good
<1>11. Store.pos[e] <= Pos2(e) /\ Pos2(e) <= Pos3(e) /\ Pos3(e) <= at[e]
  BY <1>0, <1>4, Zenon DEF ChainInv, Up, Run
<1>12. Pos3(e)' = at[e] /\ at' = at /\ estat' = estat /\ life' = life
  <2>1. Pos2(e) \in Rows /\ Pos3(e) \in Rows /\ at[e] \in Rows
    BY <1>0, Zenon
  <2>2. at[e] = NoRow => Pos2(e) = at[e]
    BY ONLY <1>11, <2>1, ConstantsAssumption DEF Rows, NoRow
  <2> QED BY <1>2, <1>8, <1>10, <2>2, Zenon DEF Pos3, Over
<1>13. ChainInv(e)'
  <2>0. Pos2(e) \in Rows /\ Pos3(e) \in Rows /\ at[e] \in Rows
    BY <1>0, Zenon
  <2>1. Pos2(e) <= at[e] /\ at[e] <= at[e]
    BY ONLY <1>11, <2>0, ConstantsAssumption DEF Rows, NoRow
  <2> QED BY <1>0, <1>2, <1>4, <1>10, <1>12, <2>1, Zenon DEF ChainInv
<1>14. GoodInv(e)'
  <2>1. Good => /\ Snap(at[e], Eng3(e), Status3) /\ Store.pos[e] # NoRow
    BY <1>0, <1>2, <1>4, Zenon DEF GoodInv, StatusInv, Run, Up
  <2> QED BY <1>0, <1>1, <1>2, <1>3, <1>4, <1>5, <1>10, <1>12, <2>1, Zenon DEF GoodInv
<1>15. BaseInv(e)'
  <2>1. Handle(e, Pos2(e))' = Handle(e, Pos2(e)) /\ Handle(e, Pos3(e))' = Handle(e, at[e])
    BY <1>10, <1>12, Zenon DEF Handle
  <2>2. {Handle(e, Pos2(e)), Handle(e, at[e])} \subseteq Int
    BY <1>0, HandleInt, Zenon
  <2>3. \A h \in Int : (Covered2(h)' <=> Covered2(h)) /\ (Covered3(h)' <=> Covered3(h))
    BY <1>1, <1>2, <1>3, Zenon DEF Covered2, Covered3
  <2>4. BaseInv(e) /\ driver' = driver /\ (lost' <=> lost) /\ life' = life
    BY <1>0, <1>2, Zenon
  <2> QED BY <1>2, <1>5, <1>10, <1>12, <2>1, <2>2, <2>3, <2>4, Zenon DEF BaseInv
<1>16. \A x \in {e} : ChainInv(x)' /\ GoodInv(x)' /\ BaseInv(x)'
  BY <1>13, <1>14, <1>15, Zenon
<1>17. /\ {e} \in SUBSET Engines /\ tstat' = tstat /\ diff'.status = diff.status /\ diff'.sum = diff.sum
       /\ diff'.base = diff.base /\ alloc' >= alloc
       /\ UNCHANGED <<driver, db, mem, tmp, lost, upd, csum, spc>>
  BY <1>0, <1>1, <1>2, <1>3 DEF ProcessType
<1> QED BY <1>4, <1>6, <1>7, <1>9, <1>16, <1>17, EngineStep, Zenon

\* A status of the table is sent when all engines have ended.
LEMMA SendTableStatusKeeps ==
  ASSUME IInv, SendTableStatus
  PROVE  IInv'
<1>0. /\ DiffsType /\ StoreType /\ ProcessType /\ BudgetType /\ SaverInv /\ StatusInv
      /\ \A x \in Engines : GoodInv(x)
  BY Use, Zenon
<1>1. tstat \in {Loaded, 140} /\ tstat' = (IF tstat = Loaded THEN 140 ELSE 210) /\ tstat' \in Statuses
  <2>1. tstat \in Loaded .. 209 /\ tstat' = Following(TableSteps, tstat)
    BY Zenon DEF SendTableStatus
  <2>2. tstat \in {Loaded, 140}
    BY <1>0, <2>1 DEF StatusInv, TableStatuses, NoStatus, Loaded, Invalid
  <2> QED BY <2>1, <2>2, Steps DEF Loaded
<1> DEFINE d == MergeTableStatus(diff, tstat')
<1>2. /\ d \in DiffType /\ d.any /\ d.status = tstat'
      /\ d.eng = diff.eng /\ d.pos = diff.pos /\ d.base = diff.base /\ d.sum = diff.sum
  BY <1>0, <1>1, MergeTable DEF DiffsType
<1>3. /\ Send(d) /\ life = "restore" /\ life' = "restore"
      /\ UNCHANGED <<driver, db, mem, tmp, lost, life, csum, alloc, at, estat, epc, reg, trouble, ctls>>
      /\ \A x \in Engines : EngineEnded(x)
  BY Zenon DEF SendTableStatus, store, budget
<1> HIDE DEF d
<1>4. diff' = d /\ upd' = upd /\ spc' = spc
  BY <1>3, Zenon DEF Send
<1>5. ProcessType'
  BY <1>0, <1>1, <1>3, Zenon DEF ProcessType
<1>6. SaverInv' /\ SaverType'
  BY <1>2, <1>3, SendKeeps, Zenon
<1>7. TypeOK'
  BY <1>0, <1>2, <1>3, <1>4, <1>5, <1>6, TypesNext, Zenon DEF StoreType, DiffsType, BudgetType
<1>8. \A x \in Engines \ {} : SameEngine(x)
  BY <1>2, <1>3, <1>4, Zenon DEF SameEngine
<1>9. StatusMoves({})
  <2>1. tstat' \in TableStatuses \ {NoStatus} /\ Order(tstat, tstat')
    BY <1>1 DEF TableStatuses, NoStatus, Invalid, Order, Loaded
  <2>2. ASSUME Good, NEW x \in Engines, NEW p \in Rows, Snap(p, estat[x], tstat)
        PROVE  Snap(p, estat[x], tstat')
    <3>1. Snap(at[x], estat[x], tstat) /\ estat[x] \in Statuses
      BY <1>0, <1>3, <2>2, Zenon DEF GoodInv, Run, ProcessType
    <3>2. estat[x] = 120 \/ estat[x] <= MaxInvalid
      BY <1>3, Zenon DEF EngineEnded
    <3>3. estat[x] \in {NoStatus, 120}
      BY <1>1, <3>1, <3>2, Steps DEF Snap, Invalid, Loaded, NoStatus, MaxInvalid
    <3> QED BY <1>1, <2>2, <3>3 DEF Snap, Invalid, NoStatus, Loaded
  <2> QED BY <1>2, <1>4, <2>1, <2>2, Zenon DEF StatusMoves
<1>10. /\ {} \in SUBSET Engines /\ diff'.sum = diff.sum /\ diff'.base = diff.base /\ alloc' >= alloc
       /\ UNCHANGED <<driver, db, mem, tmp, lost, upd, csum, spc>>
  BY <1>0, <1>2, <1>3, <1>4 DEF ProcessType
<1>11. \A x \in {} : ChainInv(x)' /\ GoodInv(x)' /\ BaseInv(x)'
  BY Zenon
<1> QED BY <1>3, <1>6, <1>7, <1>8, <1>9, <1>10, <1>11, EngineStep, Zenon

\* An engine's next status, or its failure, which is the table's too.
LEMMA SendEngineStatusKeeps ==
  ASSUME IInv, NEW e \in Engines, SendEngineStatus(e)
  PROVE  IInv'
<1>0. /\ DiffsType /\ StoreType /\ ProcessType /\ BudgetType /\ SaverInv /\ StatusInv
      /\ ChainInv(e) /\ GoodInv(e) /\ BaseInv(e)
      /\ {Pos2(e), Pos3(e), at[e]} \subseteq Rows
      /\ {Store.eng[e], Eng2(e), Eng3(e), estat[e]} \subseteq Statuses
  BY Use, LevelTypes, Zenon
<1>1. /\ life = "restore" /\ epc[e] = "idle" /\ estat[e] \in {30, 60, 90}
      /\ estat[e] = 30 => at[e] = MaxPos
      /\ UNCHANGED <<driver, db, mem, tmp, lost, life, csum, alloc, at, epc, reg, ctls>>
  BY <1>0, Steps DEF SendEngineStatus, store, Loaded
<1>2. PICK st \in {6, 9, 12, 60, 90, 120} :
        /\ Send(MergeEngineStatus(diff, e, st)) /\ estat' = [estat EXCEPT ![e] = st]
        /\ \/ st > estat[e] /\ st > 25 /\ tstat' = tstat /\ trouble' = trouble
           \/ st \in Invalid /\ tstat' = st /\ trouble' = trouble - 1 /\ trouble > 0
  <2>1. PICK ok \in BOOLEAN :
          LET next == Following(EngineSteps, estat[e])
              st == IF ok THEN next ELSE SetInvalid(next)
          IN  /\ ~ok => trouble > 0
              /\ Send(MergeEngineStatus(diff, e, st)) /\ estat' = [estat EXCEPT ![e] = st]
              /\ tstat' = (IF ok THEN tstat ELSE st)
              /\ trouble' = (IF ok THEN trouble ELSE trouble - 1)
    BY Zenon DEF SendEngineStatus
  <2> DEFINE next == Following(EngineSteps, estat[e])
             st == IF ok THEN next ELSE SetInvalid(next)
  <2>2. /\ next \in {60, 90, 120} /\ next > estat[e] /\ SetInvalid(next) \in {6, 9, 12}
    BY <1>1, Steps
  <2>3. \/ ok /\ st > estat[e] /\ st > 25
        \/ ~ok /\ st \in Invalid
    BY <2>2 DEF Invalid
  <2>4. st \in {6, 9, 12, 60, 90, 120}
    BY <2>2, Zenon
  <2> HIDE DEF st, next
  <2>5. /\ Send(MergeEngineStatus(diff, e, st)) /\ estat' = [estat EXCEPT ![e] = st]
        /\ tstat' = (IF ok THEN tstat ELSE st)
        /\ trouble' = (IF ok THEN trouble ELSE trouble - 1)
        /\ ~ok => trouble > 0
    BY <2>1, Zenon DEF st, next
  <2> QED BY <2>3, <2>4, <2>5, Zenon
<1> DEFINE d == MergeEngineStatus(diff, e, st)
<1>3. st \in Statuses /\ st # NoStatus /\ (st \in Invalid <=> st <= MaxInvalid)
  BY Steps DEF NoStatus, Invalid, MaxInvalid
<1>4. /\ d \in DiffType /\ d.any /\ d.status = (IF st \in Invalid THEN st ELSE diff.status)
      /\ d.eng = [diff.eng EXCEPT ![e] = st]
      /\ d.pos = diff.pos /\ d.base = diff.base /\ d.sum = diff.sum
  BY <1>0, <1>3, MergeEngine DEF DiffsType
<1> HIDE DEF d
<1>5. diff' = d /\ upd' = upd /\ spc' = spc /\ Send(d) /\ life' = "restore"
  BY <1>1, <1>2, Zenon DEF Send, d
<1>6. ProcessType' /\ estat'[e] = st /\ \A x \in Engines \ {e} : estat'[x] = estat[x]
  <2>1. tstat' \in Statuses
    BY <1>0, <1>2, <1>3, Zenon DEF ProcessType
  <2>2. estat \in [Engines -> Statuses] /\ st \in Statuses /\ estat' = [estat EXCEPT ![e] = st]
    BY <1>0, <1>2, <1>3, Zenon DEF ProcessType
  <2>3. /\ estat' \in [Engines -> Statuses] /\ estat'[e] = st
        /\ \A x \in Engines \ {e} : estat'[x] = estat[x]
    BY <2>2
  <2> QED BY <1>0, <1>1, <2>1, <2>3, Zenon DEF ProcessType
<1>7. SaverInv' /\ SaverType'
  BY <1>1, <1>4, <1>5, SendKeeps, Zenon
<1>8. BudgetType'
  <2>1. BudgetType /\ ctls' = ctls
    BY <1>0, <1>1, Zenon
  <2>2. trouble' = trouble \/ (trouble' = trouble - 1 /\ trouble > 0)
    BY <1>2, Zenon
  <2> QED BY ONLY <2>1, <2>2, ConstantsAssumption DEF BudgetType
<1>9. TypeOK'
  BY <1>0, <1>1, <1>4, <1>5, <1>6, <1>7, <1>8, TypesNext, Zenon DEF StoreType, DiffsType
<1>10. diff'.eng[e] = st /\ \A x \in Engines \ {e} : diff'.eng[x] = diff.eng[x]
  <2>1. diff.eng \in [Engines -> Statuses]
    BY <1>0, Zenon DEF DiffsType, DiffType
  <2>2. diff'.eng = [diff.eng EXCEPT ![e] = st]
    BY <1>4, <1>5, Zenon
  <2> QED BY <2>1, <2>2
<1>11. \A x \in Engines \ {e} : SameEngine(x)
  BY <1>1, <1>4, <1>5, <1>6, <1>10, Zenon DEF SameEngine
<1>12. /\ Store' = Store /\ Pos2(e)' = Pos2(e) /\ Pos3(e)' = Pos3(e) /\ Eng2(e)' = Eng2(e)
       /\ Status2' = Status2 /\ Eng3(e)' = st /\ (Good' <=> Good)
       /\ (st \in Invalid => Status3' = st) /\ (st \notin Invalid => Status3' = Status3)
  BY <1>1, <1>3, <1>4, <1>5, <1>10, LevelsSame, Zenon DEF Good, Eng3, Status3, Over
<1>13. Good => /\ Snap(at[e], estat[e], tstat) /\ Pos3(e) = at[e] /\ Eng3(e) = estat[e]
               /\ Status3 = tstat /\ tstat < 140 /\ ~(tstat >= 140)
  <2>1. Good => /\ Snap(at[e], estat[e], tstat) /\ Pos3(e) = at[e] /\ Eng3(e) = estat[e]
                /\ Status3 = tstat
    BY <1>0, <1>1, Zenon DEF GoodInv, StatusInv, Run
  <2>2. tstat \in Statuses
    BY <1>0, Zenon DEF ProcessType
  <2> QED BY <1>1, <2>1, <2>2, Steps DEF Snap, NoStatus
<1>14. ChainInv(e)'
  <2>1. Order(Eng2(e), Eng3(e)) /\ Order(Eng3(e), estat[e])
    BY <1>0, <1>1, Zenon DEF ChainInv, Up, Run
  <2>2. Order(estat[e], st) /\ Order(st, st)
    BY <1>1, <1>2 DEF Order, Invalid
  <2>a. Eng2(e) \in Statuses /\ Eng3(e) \in Statuses /\ estat[e] \in Statuses /\ st \in Statuses
    BY <1>0, <1>3, Zenon
  <2>b. Order(Eng2(e), estat[e])
    BY ONLY <2>1, <2>a, Steps DEF Order, Invalid
  <2>3. Order(Eng2(e), st)
    BY ONLY <2>b, <2>2, <2>a, OrderStep, Zenon
  <2>4. ChainInv(e) /\ db' = db /\ life' = life /\ life = "restore" /\ at' = at
    BY <1>0, <1>1, Zenon
  <2> QED BY <1>6, <1>12, <2>2, <2>3, <2>4, Zenon DEF ChainInv
<1>15. GoodInv(e)'
  <2>1. Good => Snap(at[e], st, tstat') /\ (st \in Invalid => tstat' = st)
    <3>1. Good => at[e] >= 0 /\ (st \notin Invalid => at[e] = MaxPos)
      BY <1>1, <1>2, <1>13, ConstantsAssumption DEF Snap, Invalid, Loaded
    <3>2. CASE st \in Invalid
      BY <1>2, <3>1, <3>2 DEF Snap, Invalid, NoStatus, Loaded
    <3>3. CASE st \notin Invalid
      BY <1>2, <1>13, <3>1, <3>3, Zenon DEF Snap, Invalid, NoStatus, Loaded
    <3> QED BY <3>2, <3>3, Zenon
  <2>2. Good => Status3' = tstat'
    BY <1>2, <1>12, <1>13 DEF Invalid
  <2>3. Good => Store.eng[e] # NoStatus
    <3>1. Good /\ (upd.eng[e] # NoStatus \/ diff.eng[e] # NoStatus) => Store.eng[e] # NoStatus
      BY <1>0, <1>1, Zenon DEF GoodInv, Up, Run
    <3> QED BY <1>1, <1>13, <3>1 DEF Eng3, Eng2, Over, NoStatus
  <2>4. /\ GoodInv(e) /\ db' = db /\ life' = life /\ at' = at /\ upd' = upd /\ diff'.pos = diff.pos
        /\ epc' = epc
    BY <1>0, <1>1, <1>4, <1>5, Zenon
  <2> QED BY <1>6, <1>12, <1>13, <2>1, <2>2, <2>3, <2>4, Zenon DEF GoodInv
<1>16. BaseInv(e)'
  <2>1. diff'.base >= diff.base /\ diff'.base \in Int
    BY <1>0, <1>4, <1>5, RowTypes DEF DiffsType, NoRow
  <2> QED BY <1>1, <1>4, <1>5, <2>1, BaseKept, Zenon
<1>17. (tstat' = tstat /\ diff'.status = diff.status) \/ StatusMoves({e})
  <2>1. CASE st \notin Invalid
    BY <1>2, <1>4, <1>5, <2>1, Zenon
  <2>2. CASE st \in Invalid
    <3>1. diff'.status = tstat' /\ tstat' = st /\ tstat' \in TableStatuses \ {NoStatus}
      BY <1>2, <1>3, <1>4, <1>5, <2>2 DEF TableStatuses, Invalid
    <3>2. Order(tstat, tstat')
      BY <2>2, <3>1, Zenon DEF Order
    <3>3. ASSUME Good, NEW x \in Engines, NEW p \in Rows, Snap(p, estat[x], tstat)
          PROVE  Snap(p, estat[x], tstat')
      <4>1. ~(tstat >= 140)
        BY <1>13, <3>3, Zenon
      <4> QED BY ONLY <2>2, <3>1, <3>3, <4>1 DEF Snap, Invalid
    <3> QED BY <3>1, <3>2, <3>3, Zenon DEF StatusMoves
  <2> QED BY <2>1, <2>2, Zenon
<1>18. /\ {e} \in SUBSET Engines /\ diff'.sum = diff.sum /\ diff'.base = diff.base /\ alloc' >= alloc
       /\ UNCHANGED <<driver, db, mem, tmp, lost, upd, csum, spc>>
  BY <1>0, <1>1, <1>4, <1>5 DEF ProcessType
<1>19. \A x \in {e} : ChainInv(x)' /\ GoodInv(x)' /\ BaseInv(x)'
  BY <1>14, <1>15, <1>16, Zenon
<1> QED BY <1>1, <1>5, <1>7, <1>9, <1>11, <1>17, <1>18, <1>19, EngineStep, Zenon

=============================================================================
