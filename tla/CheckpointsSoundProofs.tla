------------------------- MODULE CheckpointsSoundProofs -------------------------
(***************************************************************************)
(* The steps of the saver, of a crash, a restart and the commands keep the *)
(* invariant of CheckpointsProofs: what is on disk is sound and is never   *)
(* taken back, for any number of engines and rows, any driver and any      *)
(* number of crashes, failures and commands.                               *)
(***************************************************************************)
EXTENDS CheckpointsProofs

-----------------------------------------------------------------------------
(* Steps of the saver.                                                     *)

\* The saver takes the coalesced updates: they are now the ones being saved.
LEMMA SwapKeeps ==
  ASSUME IInv, Swap
  PROVE  IInv'
<1>0. /\ DiffsType /\ StoreType /\ ProcessType /\ SaverType /\ BudgetType /\ SaverInv /\ FileInv /\ StatusInv
      /\ \A x \in Engines : DiskInv(x) /\ ChainInv(x) /\ GoodInv(x) /\ BaseInv(x)
  BY Use, Zenon
<1>1. /\ spc = "swap" /\ diff' = NewTableCheckpointDiff
      /\ IF diff.any THEN upd' = diff /\ spc' = "update" /\ wg' = wg
                     ELSE spc' = "idle" /\ wg' = wg - 1 /\ upd' = upd
      /\ UNCHANGED <<driver, db, mem, tmp, lost, life, tstat, csum, alloc, at, estat, epc, reg>>
      /\ UNCHANGED <<token, trouble, ctls>>
  BY Zenon DEF Swap, store, process, budget
<1>2. upd = NewTableCheckpointDiff /\ upd' = diff
  BY <1>0, <1>1, Zenon DEF SaverInv
<1>3. /\ TypeOK'
  <2>1. SaverType' /\ DiffsType'
    BY <1>0, <1>1, <1>2, Empties DEF SaverType, SaverInv, DiffsType
  <2> QED BY <1>0, <1>1, <2>1, TypesNext, Zenon DEF StoreType, ProcessType, BudgetType
<1>4. SaverInv'
  <2>1. ~diff'.any
    BY <1>1, Empties, Zenon
  <2>2. wg' = (IF life' \in Alive THEN 1 ELSE 0) + token' + (IF spc' = "idle" THEN 0 ELSE 1)
    BY <1>0, <1>1 DEF SaverInv, SaverType
  <2>3. spc' = "idle" => upd' = NewTableCheckpointDiff
    BY <1>0, <1>1, <1>2, Zenon DEF SaverInv
  <2> QED BY <1>0, <1>1, <2>1, <2>2, <2>3, Zenon DEF SaverInv
<1>5. FileInv'
  BY <1>0, <1>1, Zenon DEF FileInv, Store
<1>6. Store' = Store /\ (Good' <=> Good)
  BY <1>1, Zenon DEF Store, Good
<1>7. Status2' = Status3 /\ Status3' = Status3 /\ Sum3' = Sum3
  BY <1>1, <1>2, <1>6, Empties, Zenon DEF Status2, Status3, Sum2, Sum3, Over
<1>8. \A x \in Engines : /\ Pos2(x)' = Pos3(x) /\ Pos3(x)' = Pos3(x)
                         /\ Eng2(x)' = Eng3(x) /\ Eng3(x)' = Eng3(x)
  BY <1>1, <1>2, <1>6, Empties, Zenon DEF Pos2, Pos3, Eng2, Eng3, Over
<1>9. StatusInv'
  <2>1. Store.status \in Statuses /\ Status2 \in Statuses /\ Status3 \in Statuses
    BY <1>0, Steps
       DEF StatusInv, Status2, Status3, Over, Store, TableStatuses, Invalid, NoStatus, Loaded
  <2>2. life \in Up => Order(Store.status, Status3)
    BY <1>0, <2>1, OrderStep DEF StatusInv
  <2>3. Order(Status3, Status3)
    BY <2>1, OrderTrans, Zenon
  <2>4. {upd'.status, diff'.status} \subseteq TableStatuses
    BY <1>0, <1>1, <1>2, Empties DEF StatusInv, TableStatuses
  <2> QED BY <1>0, <1>1, <1>6, <1>7, <2>2, <2>3, <2>4 DEF StatusInv
<1>10. ASSUME NEW x \in Engines PROVE EngineInv(x)'
  <2>0. DiskInv(x) /\ ChainInv(x) /\ GoodInv(x) /\ BaseInv(x)
    BY <1>0, Zenon
  <2>a. /\ Pos2(x)' = Pos3(x) /\ Pos3(x)' = Pos3(x) /\ Eng2(x)' = Eng3(x) /\ Eng3(x)' = Eng3(x)
        /\ upd'.pos[x] = diff.pos[x] /\ upd'.eng[x] = diff.eng[x]
        /\ diff'.pos[x] = NoRow /\ diff'.eng[x] = NoStatus
    BY <1>1, <1>2, <1>8, Empties, Zenon
  <2>b. /\ Store.pos[x] \in Rows /\ Pos2(x) \in Rows /\ Pos3(x) \in Rows /\ at[x] \in Rows
        /\ Store.eng[x] \in Statuses /\ Eng2(x) \in Statuses /\ Eng3(x) \in Statuses
    BY <1>0, LevelTypes, Zenon
  <2>1. DiskInv(x)'
    BY <1>1, <1>6, <2>0, Zenon DEF DiskInv
  <2>2. ChainInv(x)'
    <3>1. life \in Up => Order(Store.eng[x], Eng3(x)) /\ Order(Eng3(x), Eng3(x))
      BY <2>0, <2>b, OrderStep, OrderTrans, Zenon DEF ChainInv
    <3>2. life \in Up => Store.pos[x] <= Pos3(x) /\ Pos3(x) <= Pos3(x)
      BY <2>0, <2>b DEF ChainInv, Rows, NoRow
    <3> QED BY <1>1, <1>6, <2>0, <2>a, <3>1, <3>2, Zenon DEF ChainInv
  <2>3. GoodInv(x)'
    BY <1>1, <1>6, <1>7, <2>0, <2>a, Zenon DEF GoodInv
  <2>4. BaseInv(x)'
    <3>1. \A h \in Int : (Covered3(h) => Covered2(h)') /\ (Covered3(h) => Covered3(h)')
      <4>1. db.base \in Nat /\ upd.base = -1 /\ diff.base \in Int
        BY <1>0, <1>2, Empties, RowTypes DEF DiffsType, StoreType, NoRow
      <4> QED BY <1>1, <1>2, <4>1 DEF Covered3, Covered2
    <3>2. Handle(x, Pos3(x)) \in Int /\ Handle(x, at[x]) \in Int
      BY <2>b, HandleInt, Zenon
    <3>3. /\ Handle(x, Pos2(x))' = Handle(x, Pos3(x)) /\ Handle(x, Pos3(x))' = Handle(x, Pos3(x))
          /\ Handle(x, at[x])' = Handle(x, at[x])
      BY <1>1, <2>a, Zenon DEF Handle
    <3>4. /\ driver' = driver /\ (lost' <=> lost) /\ life' = life /\ epc' = epc /\ reg' = reg
          /\ alloc' = alloc
      BY <1>1, Zenon
    <3> QED BY <2>0, <2>a, <3>1, <3>2, <3>3, <3>4, Zenon DEF BaseInv
  <2> QED BY <2>1, <2>2, <2>3, <2>4, Zenon DEF EngineInv
<1> QED BY <1>3, <1>4, <1>5, <1>9, <1>10, Zenon DEF IInv

\* The saver has work only while the import runs.
LEMMA SaverBusy ==
  ASSUME IInv, spc # "idle"
  PROVE  /\ life \in {"populate", "insert", "inserting", "rebase", "restore", "waiting"}
         /\ life \in Run /\ life \in Up /\ life \in Opened /\ life \notin Moving /\ life \notin Quiet
         /\ life # "initialize" /\ life # "clean"
<1>1. life \in Run \ Quiet
  BY Use, Zenon DEF SaverInv
<1> QED BY <1>1, Zenon DEF Run, Quiet, Up, Opened, Moving

\* The store takes the update that is being saved.
Absorbs ==
  /\ spc = "update" /\ UNCHANGED <<driver, diff, life, tstat, csum, alloc, at, estat, epc, reg>>
  /\ Applied(Store', Store, upd)
  /\ upd' = NewTableCheckpointDiff \/ (upd' = upd /\ driver = "file")
  /\ db' = db \/ db' = Store'
  /\ Good' => Good
  /\ Good' /\ driver # "glue" => Store'.sum = Sum2

\* A row that is there is updated, and one that is not is not made.
LEMMA AbsorbRow ==
  ASSUME IInv, Absorbs, NEW x \in Engines
  PROVE  /\ Store'.pos[x] = (IF Store.pos[x] # NoRow THEN Pos2(x) ELSE NoRow)
         /\ Store'.eng[x] = (IF Store.eng[x] # NoStatus THEN Eng2(x) ELSE NoStatus)
         /\ Store'.pos[x] = NoRow <=> Store.pos[x] = NoRow
         /\ Store'.eng[x] = NoStatus <=> Store.eng[x] = NoStatus
         /\ Pos2(x)' = (IF upd' = upd THEN Over(upd.pos[x], NoRow, Store'.pos[x]) ELSE Store'.pos[x])
         /\ Pos3(x)' = Over(diff.pos[x], NoRow, Pos2(x)')
         /\ Eng2(x)' = (IF upd' = upd THEN Over(upd.eng[x], NoStatus, Store'.eng[x]) ELSE Store'.eng[x])
         /\ Eng3(x)' = Over(diff.eng[x], NoStatus, Eng2(x)')
<1>1. /\ diff' = diff /\ Applied(Store', Store, upd)
      /\ upd' = upd \/ upd' = NewTableCheckpointDiff
  BY Zenon DEF Absorbs
<1>2. /\ Store'.pos[x] = (IF Store.pos[x] # NoRow THEN Pos2(x) ELSE NoRow)
      /\ Store'.eng[x] = (IF Store.eng[x] # NoStatus THEN Eng2(x) ELSE NoStatus)
  BY <1>1, Zenon DEF Applied, Pos2, Eng2
<1>3. /\ Pos2(x) = NoRow => Store.pos[x] = NoRow
      /\ Eng2(x) = NoStatus => Store.eng[x] = NoStatus
  BY Zenon DEF Pos2, Eng2, Over
<1>4. /\ Pos2(x)' = Over(upd'.pos[x], NoRow, Store'.pos[x]) /\ Pos3(x)' = Over(diff.pos[x], NoRow, Pos2(x)')
      /\ Eng2(x)' = Over(upd'.eng[x], NoStatus, Store'.eng[x]) /\ Eng3(x)' = Over(diff.eng[x], NoStatus, Eng2(x)')
  BY <1>1, Zenon DEF Pos2, Eng2, Pos3, Eng3, Over
<1>5. upd' # upd => upd'.pos[x] = NoRow /\ upd'.eng[x] = NoStatus
  BY <1>1, Empties, Zenon
<1>6. /\ Pos2(x)' = (IF upd' = upd THEN Over(upd.pos[x], NoRow, Store'.pos[x]) ELSE Store'.pos[x])
      /\ Eng2(x)' = (IF upd' = upd THEN Over(upd.eng[x], NoStatus, Store'.eng[x]) ELSE Store'.eng[x])
  BY <1>4, <1>5, Zenon DEF Over
<1> QED BY <1>2, <1>3, <1>4, <1>6, Zenon

\* While nothing was forgotten it reaches what was said to come.
LEMMA AbsorbLevels ==
  ASSUME IInv, Absorbs, NEW x \in Engines, Good
  PROVE  /\ Store'.pos[x] = Pos2(x) /\ Pos2(x)' = Pos2(x) /\ Pos3(x)' = Pos3(x)
         /\ Store'.eng[x] = Eng2(x) /\ Eng2(x)' = Eng2(x) /\ Eng3(x)' = Eng3(x)
<1>1. /\ upd.pos[x] # NoRow => Store.pos[x] # NoRow
      /\ upd.eng[x] # NoStatus => Store.eng[x] # NoStatus
  BY Use, SaverBusy, Zenon DEF GoodInv, Absorbs
<1>2. /\ Store'.pos[x] = Pos2(x) /\ Store'.eng[x] = Eng2(x)
  BY <1>1, AbsorbRow, Zenon DEF Pos2, Eng2, Over
<1>3. Pos2(x)' = Pos2(x) /\ Eng2(x)' = Eng2(x)
  BY <1>2, AbsorbRow, Zenon DEF Pos2, Eng2, Over
<1> QED BY <1>2, <1>3, AbsorbRow, Zenon DEF Pos3, Eng3, Over

\* ... and so do the status of the table and the checksum,
LEMMA AbsorbStatus ==
  ASSUME IInv, Absorbs
  PROVE  /\ Store'.status = Status2 /\ Status2' = Status2 /\ Status3' = Status3
         /\ Good' /\ driver # "glue" => Sum2' = Sum2 /\ Sum3' = Sum3
<1>1. /\ diff' = diff /\ Applied(Store', Store, upd)
      /\ upd' = upd \/ upd' = NewTableCheckpointDiff
      /\ Good' /\ driver # "glue" => Store'.sum = Sum2
  BY Zenon DEF Absorbs
<1>2. Store'.status = Status2
  BY <1>1, Zenon DEF Applied, Status2
<1>3. Status2' = Over(upd'.status, NoStatus, Store'.status) /\ Sum2' = Over(upd'.sum, 0, Store'.sum)
  BY Zenon DEF Status2, Sum2
<1>4. upd' # upd => upd'.status = NoStatus /\ upd'.sum = 0
  BY <1>1, Empties, Zenon
<1>5. Status2' = Status2 /\ (Good' /\ driver # "glue" => Sum2' = Sum2)
  BY <1>1, <1>2, <1>3, <1>4, Zenon DEF Status2, Sum2, Over
<1> QED BY <1>1, <1>2, <1>5, Zenon DEF Status3, Sum3

\* ... which keeps StatusInv,
LEMMA AbsorbStatusInv ==
  ASSUME IInv, Absorbs, {mem'.status, tmp'.status} \subseteq {mem.status, tmp.status, Status2}
  PROVE  StatusInv'
<1>0. StatusInv /\ life \in Run /\ life \in Up /\ life \in Opened /\ life # "clean"
  BY Use, SaverBusy, Zenon DEF Absorbs
<1>1. /\ driver' = driver /\ diff' = diff /\ life' = life /\ tstat' = tstat /\ csum' = csum
      /\ Store'.has /\ (db' = db \/ db' = Store') /\ (Good' => Good)
      /\ upd' = NewTableCheckpointDiff \/ upd' = upd
  BY Zenon DEF Absorbs, Applied
<1>2. /\ Store'.status = Status2 /\ Status2' = Status2 /\ Status3' = Status3
      /\ Good' /\ driver # "glue" => Sum2' = Sum2 /\ Sum3' = Sum3
  BY AbsorbStatus, Zenon
<1>3. {Store.status, Status2, Status3, tstat, db.status} \subseteq TableStatuses
  BY <1>0, Zenon DEF StatusInv, Status2, Status3, Over, Store
<1>4. /\ db.status \in Statuses /\ Store.status \in Statuses /\ Status2 \in Statuses
  BY <1>3, Steps, Zenon DEF TableStatuses, Invalid, NoStatus, Loaded
<1>5. /\ Order(db.status, Store.status) /\ Order(Store.status, Status2) /\ db.has
      /\ Order(Status2, Status3) /\ Order(Status3, tstat)
  BY <1>0, Zenon DEF StatusInv
<1>6. Order(db.status, Status2) /\ Order(Status2, Status2)
  BY <1>4, <1>5, OrderStep, OrderTrans, Zenon
<1>7. Order(db'.status, Store'.status) /\ db'.has
  BY <1>1, <1>2, <1>5, <1>6, Zenon
<1>8. {db'.status, mem'.status, tmp'.status, upd'.status, diff'.status, tstat'} \subseteq TableStatuses
  <2>1. {mem.status, tmp.status, upd.status, diff.status} \subseteq TableStatuses
    BY <1>0, Zenon DEF StatusInv
  <2>2. db'.status \in {db.status, Status2} /\ upd'.status \in {NoStatus, upd.status}
    BY <1>1, <1>2, Empties, Zenon
  <2>3. NoStatus \in TableStatuses
    BY Zenon DEF TableStatuses
  <2> QED BY <1>1, <1>3, <2>1, <2>2, <2>3, Zenon
<1>9. Good' => Status3' = tstat' /\ (driver # "glue" => Sum3' = csum')
  BY <1>0, <1>1, <1>2, Zenon DEF StatusInv
<1> QED BY <1>0, <1>1, <1>2, <1>5, <1>6, <1>7, <1>8, <1>9, Zenon DEF StatusInv

\* ... and what is said of an engine.
LEMMA AbsorbChain ==
  ASSUME IInv, Absorbs, NEW x \in Engines
  PROVE  ChainInv(x)' /\ GoodInv(x)'
<1>0. /\ ChainInv(x) /\ GoodInv(x) /\ life \in Run /\ life \in Up /\ life \in Opened /\ DiskInv(x) /\ StatusInv
      /\ db.pos[x] \in Rows /\ Store.pos[x] \in Rows /\ Pos2(x) \in Rows /\ Pos3(x) \in Rows /\ at[x] \in Rows
      /\ db.eng[x] \in Statuses /\ Store.eng[x] \in Statuses /\ Eng2(x) \in Statuses /\ Eng3(x) \in Statuses
      /\ estat[x] \in Statuses
  BY Use, SaverBusy, LevelTypes, Zenon DEF Absorbs
<1>1. /\ driver' = driver /\ diff' = diff /\ life' = life /\ at' = at /\ estat' = estat /\ epc' = epc
      /\ tstat' = tstat /\ (db' = db \/ db' = Store') /\ (Good' => Good)
      /\ upd' = NewTableCheckpointDiff \/ (upd' = upd /\ driver = "file")
  BY Zenon DEF Absorbs
<1>2. /\ db.pos[x] <= Store.pos[x] /\ Order(db.eng[x], Store.eng[x])
      /\ Store.pos[x] # NoRow => Store.eng[x] # NoStatus
      /\ Store.pos[x] <= Pos2(x) /\ Pos2(x) <= Pos3(x) /\ Pos3(x) <= at[x]
      /\ Order(Store.eng[x], Eng2(x)) /\ Order(Eng2(x), Eng3(x)) /\ Order(Eng3(x), estat[x])
  BY <1>0, Zenon DEF ChainInv
<1>3. life \in {"populate", "insert"} => at[x] = NoRow /\ estat[x] = NoStatus
  BY <1>0, Zenon DEF ChainInv
<1>a. /\ Store'.pos[x] = (IF Store.pos[x] # NoRow THEN Pos2(x) ELSE NoRow)
      /\ Store'.eng[x] = (IF Store.eng[x] # NoStatus THEN Eng2(x) ELSE NoStatus)
      /\ Store'.pos[x] = NoRow <=> Store.pos[x] = NoRow
      /\ Store'.eng[x] = NoStatus <=> Store.eng[x] = NoStatus
  BY AbsorbRow, Zenon
<1>4. ChainInv(x)'
  <2>1. db'.pos[x] <= Store'.pos[x]
    BY <1>0, <1>1, <1>2, <1>a DEF Rows, NoRow
  <2>2. Order(db'.eng[x], Store'.eng[x])
    <3>1. Order(db.eng[x], Eng2(x))
      BY <1>0, <1>2, OrderStep, Zenon
    <3>2. Order(db.eng[x], Store'.eng[x])
      BY <1>2, <1>a, <3>1, Zenon
    <3>3. Order(Store'.eng[x], Store'.eng[x])
      BY <1>0, <1>a, OrderTrans, Steps DEF NoStatus
    <3> QED BY <1>1, <3>2, <3>3, Zenon
  <2>3. /\ Store'.pos[x] <= Pos2(x)' /\ Pos2(x)' <= Pos3(x)' /\ Pos3(x)' <= at[x]
    <3>1. CASE Good
      BY <1>0, <1>2, <3>1, AbsorbLevels DEF Rows, NoRow
    <3>2. CASE ~Good
      <4>1. Pos2(x)' = Store'.pos[x] /\ Pos3(x)' = Over(diff.pos[x], NoRow, Store'.pos[x])
        BY <1>1, <3>2, AbsorbRow, Empties DEF Good, Over
      <4>2. Store'.pos[x] \in {Pos2(x), NoRow} /\ Pos3(x)' \in {Pos3(x), Store'.pos[x]}
        BY <1>a, <4>1, Zenon DEF Pos3, Over
      <4>3. Store'.pos[x] <= Pos3(x) /\ Pos3(x) <= at[x] /\ Store'.pos[x] \in Rows
        BY <1>0, <1>2, <4>2, ConstantsAssumption DEF Rows, NoRow
      <4> QED BY <1>0, <4>1, <4>2, <4>3 DEF Rows, NoRow
    <3> QED BY <3>1, <3>2, Zenon
  <2>4. Order(Store'.eng[x], Eng2(x)') /\ Order(Eng2(x)', Eng3(x)') /\ Order(Eng3(x)', estat[x])
    <3>1. CASE Good
      BY <1>0, <1>2, <3>1, AbsorbLevels, OrderTrans, Zenon
    <3>2. CASE ~Good
      <4>1. Eng2(x)' = Store'.eng[x] /\ Eng3(x)' = Over(diff.eng[x], NoStatus, Store'.eng[x])
        BY <1>1, <3>2, AbsorbRow, Empties DEF Good, Over
      <4>2. Store'.eng[x] \in {Eng2(x), NoStatus} /\ Eng3(x)' \in {Eng3(x), Store'.eng[x]}
        BY <1>a, <4>1, Zenon DEF Eng3, Over
      <4>3. Order(Eng2(x), estat[x])
        BY <1>0, <1>2, OrderStep, Zenon
      <4>4. Order(Store'.eng[x], Eng3(x)) /\ Order(Store'.eng[x], estat[x]) /\ Order(Store'.eng[x], Store'.eng[x])
        <5>1. Order(NoStatus, Eng3(x)) /\ Order(NoStatus, estat[x]) /\ Order(NoStatus, NoStatus)
          BY <1>0, OrderTrans, Steps DEF NoStatus
        <5>2. Order(Eng2(x), Eng2(x))
          BY <1>0, OrderTrans, Zenon
        <5> QED BY <1>2, <4>2, <4>3, <5>1, <5>2, Zenon
      <4> QED BY <1>2, <4>1, <4>2, <4>4, Zenon
    <3> QED BY <3>1, <3>2, Zenon
  <2> QED BY <1>0, <1>1, <1>2, <1>3, <1>a, <2>1, <2>2, <2>3, <2>4, Zenon DEF ChainInv
<1>5. GoodInv(x)'
  <2>1. CASE ~Good
    BY <1>1, <2>1, Zenon DEF GoodInv
  <2>2. CASE Good
    <3>1. /\ Store'.pos[x] = Pos2(x) /\ Pos2(x)' = Pos2(x) /\ Pos3(x)' = Pos3(x)
          /\ Store'.eng[x] = Eng2(x) /\ Eng2(x)' = Eng2(x) /\ Eng3(x)' = Eng3(x)
      BY <2>2, AbsorbLevels, Zenon
    <3>2. Store'.status = Status2 /\ Status2' = Status2 /\ Status3' = Status3
      BY AbsorbStatus, Zenon
    <3>3. /\ upd'.pos[x] # NoRow => upd.pos[x] # NoRow
          /\ upd'.eng[x] # NoStatus => upd.eng[x] # NoStatus
      BY <1>1, Empties, Zenon
    <3> QED BY <1>0, <1>1, <1>a, <2>2, <3>1, <3>2, <3>3, Zenon DEF GoodInv
  <2> QED BY <2>1, <2>2, Zenon
<1> QED BY <1>4, <1>5, Zenon

\* The end of a save.
LEMMA SavedKeeps ==
  ASSUME IInv, Saved, spc \in {"update", "rename"}, UNCHANGED <<diff, token, life, epc>>
  PROVE  SaverInv' /\ SaverType' /\ DiffsType'
<1>1. SaverInv /\ SaverType /\ DiffsType /\ life \notin Quiet
  BY Use, SaverBusy, Zenon
<1>2. upd' = NewTableCheckpointDiff /\ spc' = "idle" /\ wg' = wg - 1
  BY Zenon DEF Saved
<1>3. wg' = (IF life' \in Alive THEN 1 ELSE 0) + token' + (IF spc' = "idle" THEN 0 ELSE 1)
  BY <1>1, <1>2 DEF SaverInv, SaverType
<1>4. SaverType' /\ DiffsType'
  BY <1>1, <1>2, Empties DEF SaverInv, SaverType, DiffsType
<1> QED BY <1>1, <1>2, <1>3, <1>4, Zenon DEF SaverInv

\* Update by a SQL driver: the transaction is all that happens.
LEMMA UpdateSQLKeeps ==
  ASSUME IInv, UpdateSQL
  PROVE  IInv'
<1>0. /\ DiffsType /\ StoreType /\ ProcessType /\ SaverType /\ BudgetType /\ SaverInv /\ FileInv /\ StatusInv
      /\ \A x \in Engines : DiskInv(x) /\ ChainInv(x) /\ GoodInv(x) /\ BaseInv(x)
  BY Use, Zenon
<1>1. /\ spc = "update" /\ driver # "file" /\ Saved
      /\ db' = (IF driver = "glue" THEN GlueUpdate(db, upd) ELSE MySQLUpdate(db, upd))
      /\ UNCHANGED <<driver, mem, tmp, lost, diff, life, tstat, csum, alloc, at, estat, epc, reg>>
      /\ UNCHANGED <<token, trouble, ctls>>
  BY Zenon DEF UpdateSQL, Commit, process, budget
<1>2. life \in Run /\ life \in Up /\ life \in Opened /\ life \notin Moving /\ db.has
  BY <1>0, <1>1, SaverBusy, Zenon DEF StatusInv
<1>3. /\ Applied(db', db, upd) /\ db'.base >= db.base /\ db'.base >= upd.base
      /\ driver # "glue" => db'.sum = Over(upd.sum, 0, db.sum)
  BY <1>0, <1>1, <1>2, SQLApplied, Zenon DEF StoreType, DiffsType
<1>4. /\ upd' = NewTableCheckpointDiff /\ spc' = "idle" /\ Store = db /\ Store' = db' /\ (Good' <=> Good)
  BY <1>1, Zenon DEF Saved, Store, Good
<1>5. Absorbs
  BY <1>1, <1>3, <1>4, Zenon DEF Absorbs, Sum2
<1>6. SaverInv' /\ SaverType' /\ DiffsType'
  BY <1>1, SavedKeeps, Zenon
<1>7. TypeOK'
  BY <1>0, <1>1, <1>3, <1>6, TypesNext, Zenon DEF StoreType, ProcessType, BudgetType, Applied
<1>8. FileInv'
  BY <1>0, <1>1, <1>2, <1>4, Zenon DEF FileInv, Moving, Up
<1>9. StatusInv'
  BY <1>1, <1>5, AbsorbStatusInv, Zenon
<1>10. ASSUME NEW x \in Engines PROVE EngineInv(x)'
  <2>0. /\ DiskInv(x) /\ GoodInv(x) /\ BaseInv(x) /\ Store.pos[x] \in Rows /\ Pos2(x) \in Rows
        /\ Pos3(x) \in Rows
    BY <1>0, LevelTypes, Zenon
  <2>1. ChainInv(x)' /\ GoodInv(x)'
    BY <1>5, AbsorbChain, Zenon
  <2>2. /\ db'.pos[x] = NoRow <=> db.pos[x] = NoRow
        /\ db'.eng[x] = NoStatus <=> db.eng[x] = NoStatus
    BY <1>4, <1>5, AbsorbRow, Zenon
  <2>3. Good => /\ db'.pos[x] = Pos2(x) /\ Pos2(x)' = Pos2(x) /\ Pos3(x)' = Pos3(x)
                /\ db'.eng[x] = Eng2(x) /\ db'.status = Status2
    BY <1>4, <1>5, AbsorbLevels, AbsorbStatus, Zenon
  <2>4. \A h \in Int : /\ Covered2(h) => db'.base > h /\ Covered2(h)'
                       /\ Covered3(h) => Covered3(h)'
    <3>1. db.base \in Int /\ upd.base \in Int /\ db'.base \in Int /\ diff' = diff /\ diff.base \in Int
      BY <1>0, <1>1, <1>3, RowTypes DEF StoreType, DiffsType, Applied, NoRow
    <3> QED BY <1>3, <3>1 DEF Covered2, Covered3
  <2>5. {Handle(x, Pos2(x)), Handle(x, Pos3(x)), Handle(x, at[x])} \subseteq Int
    BY <1>0, <2>0, LevelTypes, HandleInt, Zenon
  <2>6. /\ driver' = driver /\ (lost' <=> lost) /\ life' = life /\ epc' = epc /\ reg' = reg
        /\ alloc' = alloc /\ at' = at /\ Handle(x, at[x])' = Handle(x, at[x])
    BY <1>1, Zenon DEF Handle
  <2>7. BaseInv(x)'
    <3>1. CASE lost
      BY <2>6, <3>1, Zenon DEF BaseInv
    <3>2. CASE ~lost
      <4>1. Pos2(x)' = Pos2(x) /\ Pos3(x)' = Pos3(x)
        BY <2>3, <3>2, Zenon DEF Good
      <4>2. Handle(x, Pos2(x))' = Handle(x, Pos2(x)) /\ Handle(x, Pos3(x))' = Handle(x, Pos3(x))
        BY <4>1, Zenon DEF Handle
      <4> QED BY <2>0, <2>4, <2>5, <2>6, <4>1, <4>2, Zenon DEF BaseInv
    <3> QED BY <3>1, <3>2, Zenon
  <2>8. DiskInv(x)'
    <3>1. Good => Snap(db'.pos[x], db'.eng[x], db'.status)
      BY <1>2, <2>0, <2>3, Zenon DEF GoodInv
    <3>2. ~lost => (db'.pos[x] > 0 => db'.base > Handle(x, db'.pos[x]))
      <4>1. ~lost => db'.pos[x] = Pos2(x) /\ (Pos2(x) > 0 => Covered2(Handle(x, Pos2(x))))
        BY <1>1, <1>2, <2>0, <2>3, Zenon DEF BaseInv, Good
      <4> QED BY <2>4, <2>5, <4>1, Zenon
    <3> QED BY <1>2, <1>3, <1>4, <2>0, <2>2, <2>6, <3>1, <3>2, Zenon DEF DiskInv, Applied, Moving
  <2> QED BY <2>1, <2>7, <2>8, Zenon DEF EngineInv
<1> QED BY <1>6, <1>7, <1>8, <1>9, <1>10, Zenon DEF IInv

\* Update by the file driver changes its copy first, whether or not it can save it.
LEMMA FileAbsorbs ==
  ASSUME IInv, driver = "file", spc = "update", life # "inserting", mem' = FileUpdate(mem, upd),
         UNCHANGED <<driver, db, diff, token, life, tstat, csum, alloc, at, estat, epc, reg, ctls>>,
         \/ upd' = upd /\ spc' = "rename" /\ tmp' = mem' /\ lost' = lost
         \/ upd' = NewTableCheckpointDiff /\ spc' = "idle" /\ tmp' = tmp /\ lost' = TRUE,
         SaverInv', SaverType', BudgetType'
  PROVE  IInv'
<1>0. /\ DiffsType /\ StoreType /\ ProcessType /\ FileInv /\ StatusInv
      /\ \A x \in Engines : DiskInv(x)
  BY Use, Zenon
<1>1. life \in Run /\ life \in Up /\ life \in Opened /\ life \notin Moving /\ life # "initialize"
  BY SaverBusy, Zenon
<1>2. Store = mem /\ Store' = mem' /\ Good /\ Good' /\ mem.has
  BY <1>0, <1>1, Zenon DEF Store, Good, StatusInv
<1>3. Applied(mem', mem, upd) /\ mem'.sum = Over(upd.sum, 0, mem.sum)
  BY <1>0, <1>2, FileApplied, Zenon DEF StoreType, DiffsType
<1>4. Absorbs
  BY <1>2, <1>3, Zenon DEF Absorbs, Sum2
<1>5. DiffsType' /\ StoreType'
  BY <1>0, <1>3, Empties, Zenon DEF DiffsType, StoreType, Applied
<1>6. TypeOK'
  BY <1>0, <1>5, TypesNext, Zenon DEF ProcessType
<1>7. /\ Store'.status = Status2 /\ Status2' = Status2 /\ Sum2' = Sum2 /\ Store'.sum = Sum2
  BY <1>2, <1>3, <1>4, AbsorbStatus, Zenon DEF Sum2
<1>8. StatusInv'
  BY <1>2, <1>4, <1>7, AbsorbStatusInv, Zenon
<1>9. \A x \in Engines : /\ Store'.pos[x] = Pos2(x) /\ Pos2(x)' = Pos2(x)
                         /\ Store'.eng[x] = Eng2(x) /\ Eng2(x)' = Eng2(x)
  BY <1>2, <1>4, AbsorbLevels, Zenon
<1>10. FileInv'
  BY <1>0, <1>1, <1>7, <1>9, Zenon DEF FileInv
<1>11. ASSUME NEW x \in Engines PROVE EngineInv(x)'
  <2>1. ChainInv(x)' /\ GoodInv(x)'
    BY <1>4, AbsorbChain, Zenon
  <2>2. DiskInv(x)'
    BY <1>0, <1>1, <1>2, Zenon DEF DiskInv, Moving
  <2>3. BaseInv(x)'
    BY Zenon DEF BaseInv
  <2> QED BY <2>1, <2>2, <2>3, Zenon DEF EngineInv
<1> QED BY <1>6, <1>8, <1>10, <1>11, Zenon DEF IInv

\* Update of the file driver writes the temporary file.
LEMMA UpdateFileKeeps ==
  ASSUME IInv, UpdateFile
  PROVE  IInv'
<1>0. SaverInv /\ SaverType /\ BudgetType
  BY Use, Zenon
<1>1. /\ spc = "update" /\ driver = "file" /\ life # "inserting" /\ spc' = "rename"
      /\ mem' = FileUpdate(mem, upd) /\ tmp' = mem'
      /\ UNCHANGED <<driver, db, lost, diff, token, upd, wg, trouble, ctls>>
      /\ UNCHANGED <<life, tstat, csum, alloc, at, estat, epc, reg>>
  BY Zenon DEF UpdateFile, SaveTmp, process, budget
<1>2. life \notin Quiet
  BY <1>1, SaverBusy, Zenon
<1>3. SaverInv' /\ SaverType' /\ BudgetType'
  BY <1>0, <1>1, <1>2, Zenon DEF SaverInv, SaverType, BudgetType
<1> QED BY <1>1, <1>3, FileAbsorbs, Zenon

\* The rename: the disk catches up.
LEMMA UpdateRenameKeeps ==
  ASSUME IInv, UpdateRename
  PROVE  IInv'
<1>0. /\ DiffsType /\ StoreType /\ ProcessType /\ SaverType /\ BudgetType /\ SaverInv /\ FileInv /\ StatusInv
      /\ \A x \in Engines : DiskInv(x) /\ ChainInv(x) /\ GoodInv(x)
  BY Use, Zenon
<1>1. /\ spc = "rename" /\ Saved /\ db' = tmp /\ lost' = FALSE
      /\ UNCHANGED <<driver, mem, tmp, diff, life, tstat, csum, alloc, at, estat, epc, reg>>
      /\ UNCHANGED <<token, trouble, ctls>>
  BY Zenon DEF UpdateRename, SaveRename, process, budget
<1>2. /\ life \in Run /\ life \in Up /\ life \in Opened /\ life \notin Moving
      /\ life # "initialize" /\ life # "inserting" /\ driver = "file" /\ tmp = mem
  BY <1>0, <1>1, SaverBusy, Zenon DEF FileInv
<1>3. /\ upd' = NewTableCheckpointDiff /\ spc' = "idle" /\ Store = mem /\ Store' = mem /\ Good /\ Good'
      /\ db' = mem
  BY <1>1, <1>2, Zenon DEF Saved, Store, Good
<1>4. SaverInv' /\ SaverType' /\ DiffsType'
  BY <1>1, SavedKeeps, Zenon
<1>5. TypeOK'
  BY <1>0, <1>1, <1>4, TypesNext, Zenon DEF StoreType, ProcessType, BudgetType
<1>6. FileInv'
  BY <1>0, <1>1, <1>2, <1>3, Zenon DEF FileInv
<1>7. Status2' = Status2 /\ Status3' = Status3 /\ Sum3' = Sum3 /\ Status2 = mem.status
  BY <1>0, <1>1, <1>3, Empties, Zenon DEF FileInv, Status2, Status3, Sum2, Sum3, Over
<1>8. ASSUME NEW x \in Engines
      PROVE  /\ Pos2(x)' = Pos2(x) /\ Pos3(x)' = Pos3(x) /\ Eng2(x)' = Eng2(x) /\ Eng3(x)' = Eng3(x)
             /\ Pos2(x) = mem.pos[x] /\ Eng2(x) = mem.eng[x]
  <2>1. Pos2(x) = mem.pos[x] /\ Eng2(x) = mem.eng[x]
    BY <1>0, <1>1, <1>3, Zenon DEF FileInv
  <2>2. upd'.pos[x] = NoRow /\ upd'.eng[x] = NoStatus /\ diff' = diff
    BY <1>1, <1>3, Empties, Zenon
  <2>3. Pos2(x)' = mem.pos[x] /\ Eng2(x)' = mem.eng[x]
    BY <1>3, <2>2, Zenon DEF Pos2, Eng2, Over
  <2> QED BY <2>1, <2>2, <2>3, Zenon DEF Pos3, Eng3
<1>9. StatusInv'
  <2>1. {mem.status, upd'.status} \subseteq TableStatuses /\ mem.status \in Statuses
    BY <1>0, <1>3, Empties, Steps DEF StatusInv, TableStatuses, NoStatus, Loaded, Invalid
  <2>2. Order(mem.status, mem.status) /\ mem.has
    BY <1>0, <1>2, <1>3, <2>1, OrderTrans, Zenon DEF StatusInv
  <2> QED BY <1>0, <1>1, <1>2, <1>3, <1>7, <2>1, <2>2 DEF StatusInv
<1>10. ASSUME NEW x \in Engines PROVE EngineInv(x)'
  <2>0. /\ ChainInv(x) /\ GoodInv(x) /\ mem.pos[x] \in Rows /\ mem.eng[x] \in Statuses
    BY <1>0, RowTypes, Zenon DEF StoreType
  <2>1. Order(mem.eng[x], mem.eng[x]) /\ mem.pos[x] <= mem.pos[x] /\ mem.has
    BY <1>0, <1>2, <1>3, <2>0, OrderTrans DEF Rows, NoRow, StatusInv
  <2>2. ChainInv(x)'
    BY <1>1, <1>2, <1>3, <1>8, <2>0, <2>1, Zenon DEF ChainInv
  <2>3. GoodInv(x)'
    <3>1. upd'.pos[x] = NoRow /\ upd'.eng[x] = NoStatus /\ diff' = diff /\ epc' = epc
      BY <1>1, <1>3, Empties, Zenon
    <3> QED BY <1>1, <1>2, <1>3, <1>7, <1>8, <2>0, <3>1, Zenon DEF GoodInv
  <2>4. DiskInv(x)'
    BY <1>1, <1>2, <1>3, <2>0, <2>1, Zenon DEF DiskInv, GoodInv, ChainInv, Moving
  <2>5. BaseInv(x)'
    BY <1>1, <1>2, Zenon DEF BaseInv
  <2> QED BY <2>2, <2>3, <2>4, <2>5, Zenon DEF EngineInv
<1> QED BY <1>4, <1>5, <1>6, <1>9, <1>10, Zenon DEF IInv

\* An update that fails is forgotten by the SQL drivers: the places after it are no
\* more than they would have been.
LEMMA UpdateFailsKeeps ==
  ASSUME IInv, UpdateFails
  PROVE  IInv'
<1>0. /\ DiffsType /\ StoreType /\ ProcessType /\ SaverType /\ BudgetType /\ SaverInv /\ FileInv /\ StatusInv
      /\ \A x \in Engines : DiskInv(x) /\ ChainInv(x)
  BY Use, Zenon
<1>1. /\ spc = "update" /\ trouble > 0 /\ trouble' = trouble - 1 /\ lost' = TRUE /\ Saved
      /\ driver = "file" => life # "inserting" /\ mem' = FileUpdate(mem, upd)
      /\ driver # "file" => mem' = mem
      /\ UNCHANGED <<driver, db, tmp, diff, life, tstat, csum, alloc, at, estat, epc, reg, token, ctls>>
  BY Zenon DEF UpdateFails, process
<1>2. SaverInv' /\ SaverType' /\ DiffsType'
  BY <1>1, SavedKeeps, Zenon
<1>3. BudgetType'
  BY <1>0, <1>1, ConstantsAssumption DEF BudgetType
<1>4. upd' = NewTableCheckpointDiff /\ spc' = "idle"
  BY <1>1, Zenon DEF Saved
<1>5. CASE driver = "file"
  BY <1>1, <1>2, <1>3, <1>4, <1>5, FileAbsorbs, Zenon
<1>6. CASE driver # "file"
  <2>1. /\ life \in Run /\ life \in Up /\ life \in Opened /\ life \notin Moving /\ life # "clean"
        /\ Store = db /\ Store' = db /\ ~Good'
    BY <1>1, <1>6, SaverBusy, Zenon DEF Store, Good
  <2>2. TypeOK'
    BY <1>0, <1>1, <1>2, <1>3, <1>6, TypesNext, Zenon DEF StoreType, ProcessType
  <2>3. FileInv'
    BY <1>0, <1>1, <1>4, <1>6, Zenon DEF FileInv
  <2>4. StatusInv'
    <3>1. Status2' = db.status /\ Status3' = Over(diff.status, NoStatus, db.status)
      BY <1>1, <1>4, <2>1, Empties, Zenon DEF Status2, Status3, Over
    <3>2. Status3' \in {Status3, db.status}
      BY <3>1, Zenon DEF Status3, Over
    <3>3. db.status \in Statuses /\ Status2 \in Statuses /\ Status3 \in Statuses /\ tstat \in Statuses
      BY <1>0, <2>1, Steps
         DEF StatusInv, Status2, Status3, Over, TableStatuses, Invalid, NoStatus, Loaded
    <3>4. Order(db.status, Status2) /\ Order(Status2, Status3) /\ Order(Status3, tstat)
      BY <1>0, <2>1, Zenon DEF StatusInv
    <3>5. Order(db.status, Status3)
      BY <3>3, <3>4, OrderStep, Zenon
    <3>6. Order(db.status, tstat) /\ Order(db.status, db.status)
      BY <3>3, <3>4, <3>5, OrderStep, OrderTrans, Zenon
    <3>7. Order(Status2', Status3') /\ Order(Status3', tstat)
      BY <3>1, <3>2, <3>4, <3>5, <3>6, Zenon
    <3>8. upd'.status \in TableStatuses
      BY <1>4, Empties, Zenon DEF TableStatuses
    <3> QED BY <1>0, <1>1, <1>6, <2>1, <3>1, <3>6, <3>7, <3>8, Zenon DEF StatusInv
  <2>5. ASSUME NEW x \in Engines PROVE EngineInv(x)'
    <3>0. /\ ChainInv(x) /\ DiskInv(x) /\ db.pos[x] \in Rows /\ Pos2(x) \in Rows /\ Pos3(x) \in Rows
          /\ at[x] \in Rows /\ db.eng[x] \in Statuses /\ Eng2(x) \in Statuses /\ Eng3(x) \in Statuses
          /\ estat[x] \in Statuses
      BY <1>0, LevelTypes, Zenon
    <3>1. /\ Pos2(x)' = db.pos[x] /\ Pos3(x)' = Over(diff.pos[x], NoRow, db.pos[x])
          /\ Eng2(x)' = db.eng[x] /\ Eng3(x)' = Over(diff.eng[x], NoStatus, db.eng[x])
      BY <1>1, <1>4, <2>1, Empties, Zenon DEF Pos2, Pos3, Eng2, Eng3, Over
    <3>2. Pos3(x)' \in {Pos3(x), db.pos[x]} /\ Eng3(x)' \in {Eng3(x), db.eng[x]}
      BY <3>1, Zenon DEF Pos3, Eng3, Over
    <3>3. /\ db.pos[x] <= Pos2(x) /\ Pos2(x) <= Pos3(x) /\ Pos3(x) <= at[x]
          /\ Order(db.eng[x], Eng2(x)) /\ Order(Eng2(x), Eng3(x)) /\ Order(Eng3(x), estat[x])
      BY <2>1, <3>0, Zenon DEF ChainInv
    <3>4. Order(db.eng[x], Eng3(x))
      BY <3>0, <3>3, OrderStep, Zenon
    <3>5. Order(db.eng[x], estat[x]) /\ Order(db.eng[x], db.eng[x])
      BY <3>0, <3>3, <3>4, OrderStep, OrderTrans, Zenon
    <3>6. Order(Eng2(x)', Eng3(x)') /\ Order(Eng3(x)', estat[x])
      BY <3>1, <3>2, <3>3, <3>4, <3>5, Zenon
    <3>7. db.pos[x] <= db.pos[x] /\ Pos2(x)' <= Pos3(x)' /\ Pos3(x)' <= at[x]
      BY <3>0, <3>1, <3>2, <3>3 DEF Rows, NoRow
    <3>8. ChainInv(x)'
      BY <1>1, <2>1, <3>0, <3>1, <3>5, <3>6, <3>7, Zenon DEF ChainInv
    <3>9. DiskInv(x)' /\ GoodInv(x)' /\ BaseInv(x)'
      BY <1>1, <2>1, <3>0, Zenon DEF DiskInv, GoodInv, BaseInv
    <3> QED BY <3>8, <3>9, Zenon DEF EngineInv
  <2> QED BY <1>2, <2>2, <2>3, <2>4, <2>5, Zenon DEF IInv
<1> QED BY <1>5, <1>6, Zenon

-----------------------------------------------------------------------------
(* The life of a process.                                                  *)

\* While no import runs, and before it has sent anything, there is nothing between
\* the import and the store.
LEMMA QuietLevels ==
  ASSUME IInv, life \in Quiet
  PROVE  /\ diff = NewTableCheckpointDiff /\ upd = NewTableCheckpointDiff /\ token = 0 /\ spc = "idle"
         /\ \A e \in Engines : life # "restore" /\ epc[e] = "idle"
         /\ Status2 = Store.status /\ Status3 = Store.status /\ Sum2 = Store.sum /\ Sum3 = Store.sum
         /\ \A e \in Engines : /\ Pos2(e) = Store.pos[e] /\ Pos3(e) = Store.pos[e]
                               /\ Eng2(e) = Store.eng[e] /\ Eng3(e) = Store.eng[e]
<1>1. SaverInv
  BY Use, Zenon
<1>2. diff = NewTableCheckpointDiff /\ upd = NewTableCheckpointDiff /\ token = 0 /\ spc = "idle"
  BY <1>1 DEF SaverInv
<1>3. life # "restore" /\ \A e \in Engines : epc[e] = "idle"
  BY <1>1, Zenon DEF SaverInv, Quiet, Moving
<1>4. Status2 = Store.status /\ Status3 = Store.status /\ Sum2 = Store.sum /\ Sum3 = Store.sum
  BY <1>2, Empties, Zenon DEF Status2, Status3, Sum2, Sum3, Over
<1>5. \A e \in Engines : /\ Pos2(e) = Store.pos[e] /\ Pos3(e) = Store.pos[e]
                         /\ Eng2(e) = Store.eng[e] /\ Eng3(e) = Store.eng[e]
  BY <1>2, Empties, Zenon DEF Pos2, Pos3, Eng2, Eng3, Over
<1> QED BY <1>2, <1>3, <1>4, <1>5, Zenon

\* While no import runs the disk is all there is.
LEMMA DownKeeps ==
  ASSUME IInv, life' \in {"down", "finished"} \cup Moving, driver' = driver, driver = "file" => life' \notin Moving,
         TypeOK', SaverInv', \A e \in Engines : DiskInv(e)', ~db'.has => db'.status = NoStatus,
         {db'.status, mem'.status, tmp'.status, upd'.status, diff'.status, tstat'} \subseteq TableStatuses
  PROVE  IInv'
<1>1. life' \notin Opened /\ life' \notin Up /\ life' \notin Run /\ life' \in Quiet
  BY Zenon DEF Opened, Up, Run, Moving, Quiet
<1>2. spc' = "idle"
  BY <1>1, Zenon DEF SaverInv
<1>3. FileInv'
  BY <1>1, <1>2, Zenon DEF FileInv, Moving
<1>4. StatusInv'
  BY <1>1, Zenon DEF StatusInv, Moving
<1>5. \A e \in Engines : EngineInv(e)'
  BY <1>1, Zenon DEF EngineInv, ChainInv, GoodInv, BaseInv, Moving
<1> QED BY <1>3, <1>4, <1>5, Zenon DEF IInv

\* Exit and Crash leave what is on disk.
LEMMA ForgetKeeps ==
  ASSUME IInv, Forget, BudgetType'
  PROVE  IInv'
<1>0. StoreType /\ StatusInv /\ \A e \in Engines : DiskInv(e)
  BY Use, Zenon
<1>1. /\ life' = "down" /\ tstat' = NoStatus /\ csum' = 0 /\ alloc' = 0
      /\ at' = [e \in Engines |-> 0] /\ estat' = [e \in Engines |-> Loaded]
      /\ epc' = [e \in Engines |-> "idle"] /\ reg' = [e \in Engines |-> 0]
      /\ diff' = NewTableCheckpointDiff /\ upd' = NewTableCheckpointDiff
      /\ token' = 0 /\ spc' = "idle" /\ wg' = 0
      /\ mem' = NoCheckpoint /\ tmp' = NoCheckpoint
      /\ lost' = (lost /\ driver # "file") /\ driver' = driver /\ db' = db
  BY Zenon DEF Forget
<1>2. StoreType' /\ DiffsType'
  BY <1>0, <1>1, Empties, Zenon DEF StoreType, DiffsType
<1>3. ProcessType'
  BY <1>1, ConstantsAssumption, Steps DEF ProcessType, Rows, NoRow, NoStatus, Loaded
<1>4. TypeOK'
  BY <1>1, <1>2, <1>3, TypesNext DEF SaverType
<1>5. SaverInv'
  BY <1>1, Empties DEF SaverInv, Alive, Quiet, Moving
<1>6. {db'.status, mem'.status, tmp'.status, upd'.status, diff'.status, tstat'} \subseteq TableStatuses
  BY <1>0, <1>1, Empties DEF StatusInv, TableStatuses
<1>7. (Good' => Good) /\ (driver' # "file" /\ ~lost' => ~lost)
  BY <1>1, Zenon DEF Good
<1>8. \A e \in Engines : DiskInv(e)'
  BY <1>0, <1>1, <1>7, Zenon DEF DiskInv, Moving
<1>9. ~db'.has => db'.status = NoStatus
  BY <1>0, <1>1, Zenon DEF StatusInv
<1> QED BY <1>1, <1>4, <1>5, <1>6, <1>8, <1>9, DownKeeps, Zenon DEF Moving

\* The process ends, as it should or by a crash.
LEMMA EndKeeps ==
  ASSUME IInv, Exit \/ Crash
  PROVE  IInv'
<1>1. Forget /\ ctls' = ctls /\ (trouble' = trouble \/ (trouble > 0 /\ trouble' = trouble - 1))
  BY Zenon DEF Exit, Crash, budget
<1>2. BudgetType'
  BY <1>1, Use, ConstantsAssumption DEF BudgetType
<1> QED BY <1>1, <1>2, ForgetKeeps, Zenon

\* A step that only replaces the checkpoint on disk, at the end or between two imports.
LEMMA ReplaceKeeps ==
  ASSUME IInv, life \in {"down", "clean"} \cup Moving, life' \in {"down", "finished"} \cup Moving,
         life = "down" => life' = "down", driver = "file" => life' \notin Moving, BudgetType',
         UNCHANGED <<driver, mem, tmp, lost, tstat, csum, alloc, at, estat, epc, reg>>,
         UNCHANGED <<diff, token, spc, upd, wg>>, db' \in CheckpointType, db'.status \in TableStatuses,
         ~db'.has => db'.status = NoStatus, \A e \in Engines : DiskInv(e)'
  PROVE  IInv'
<1>0. /\ DiffsType /\ StoreType /\ ProcessType /\ SaverType /\ SaverInv /\ StatusInv
  BY Use, Zenon
<1>1. TypeOK'
  BY <1>0, TypesNext, Zenon DEF DiffsType, StoreType, ProcessType, SaverType
<1>2. life \in Quiet /\ life' \in Quiet /\ life \notin Alive /\ life' \notin Alive /\ life' # "restore" /\ life # "restore"
  BY Zenon DEF Quiet, Alive, Moving
<1>3. SaverInv'
  BY <1>0, <1>2, Zenon DEF SaverInv
<1>4. {db'.status, mem'.status, tmp'.status, upd'.status, diff'.status, tstat'} \subseteq TableStatuses
  BY <1>0 DEF StatusInv
<1> QED BY <1>1, <1>3, <1>4, DownKeeps, Zenon

\* A checkpoint without rows says nothing wrong.
LEMMA EmptyDisk ==
  ASSUME NEW e \in Engines, db'.pos[e] = NoRow, db'.eng[e] = NoStatus
  PROVE  DiskInv(e)'
<1>1. Snap(db'.pos[e], db'.eng[e], db'.status)
  BY DEF Snap, NoRow, NoStatus, Invalid, Loaded
<1> QED BY <1>1 DEF DiskInv, NoRow

\* The checkpoint is removed, at the end of the import or by a command.
LEMMA RemoveKeeps ==
  ASSUME IInv, Remove \/ CtlRemove \/ CtlErrorDestroy
  PROVE  IInv'
<1>0. StoreType /\ BudgetType /\ StatusInv
  BY Use, Zenon
<1>1. /\ UNCHANGED <<driver, mem, tmp, lost, tstat, csum, alloc, at, estat, epc, reg>>
      /\ UNCHANGED <<diff, token, spc, upd, wg, trouble>>
      /\ \/ life = "clean" /\ life' = "finished" /\ ctls' = ctls
         \/ life = "down" /\ life' = "down" /\ ctls > 0 /\ ctls' = ctls - 1
      /\ db' \in {NoCheckpoint, Removed(db)}
  BY Zenon DEF Remove, CtlRemove, CtlErrorDestroy, Ctl, Destroyed, Commit, saver, budget, process
<1>2. BudgetType'
  BY <1>0, <1>1, ConstantsAssumption DEF BudgetType
<1>3. /\ db' \in CheckpointType /\ db'.status = NoStatus
      /\ \A e \in Engines : db'.eng[e] = NoStatus /\ db'.pos[e] = NoRow
  BY <1>0, <1>1, Empties, RemovedOp DEF StoreType
<1>4. \A e \in Engines : DiskInv(e)'
  BY <1>3, EmptyDisk, Zenon
<1> QED BY <1>1, <1>2, <1>3, <1>4, ReplaceKeeps, Zenon DEF Moving, TableStatuses

\* checkpoint-error-ignore
LEMMA CtlErrorIgnoreKeeps ==
  ASSUME IInv, CtlErrorIgnore
  PROVE  IInv'
<1>0. StoreType /\ BudgetType /\ StatusInv /\ \A e \in Engines : DiskInv(e)
  BY Use, Zenon
<1>1. /\ UNCHANGED <<driver, mem, tmp, lost, tstat, csum, alloc, at, estat, epc, reg>>
      /\ UNCHANGED <<diff, token, spc, upd, wg, trouble>>
      /\ life = "down" /\ life' = "down" /\ ctls > 0 /\ ctls' = ctls - 1
      /\ db' = ErrorIgnored(db)
  BY Zenon DEF CtlErrorIgnore, Ctl, saver, process
<1>2. BudgetType'
  BY <1>0, <1>1, ConstantsAssumption DEF BudgetType
<1>3. /\ db' \in CheckpointType /\ db'.has = db.has /\ db'.pos = db.pos /\ db'.base = db.base
      /\ db'.status = (IF db.has /\ db.status <= MaxInvalid THEN Loaded ELSE db.status)
      /\ \A e \in Engines :
           db'.eng[e] = IF db.eng[e] # NoStatus /\ db.eng[e] <= MaxInvalid THEN Loaded ELSE db.eng[e]
  BY <1>0, <1>1, ErrorIgnoredOp, Zenon DEF StoreType
<1>4. db'.status \in TableStatuses /\ (~db'.has => db'.status = NoStatus)
  BY <1>0, <1>3 DEF StatusInv, TableStatuses
<1>5. ASSUME NEW e \in Engines PROVE DiskInv(e)'
  <2>1. /\ DiskInv(e) /\ db.eng[e] \in Statuses /\ db.status \in TableStatuses /\ db.pos[e] \in Rows
    BY <1>0, RowTypes, Zenon DEF StoreType, StatusInv
  <2>2. /\ db'.pos[e] # NoRow => db'.eng[e] # NoStatus
        /\ db'.eng[e] # NoStatus => db'.has
    BY <1>3, <2>1 DEF DiskInv, Loaded, NoStatus
  <2>3. Good => Snap(db'.pos[e], db'.eng[e], db'.status)
    <3>1. Good => Snap(db.pos[e], db.eng[e], db.status) /\ (db.eng[e] # NoStatus => db.has)
      BY <2>1, Zenon DEF DiskInv
    <3>2. db.eng[e] \in {0, 30, 60, 90, 120, 140, 210, 6, 9, 12}
      BY <2>1, Steps, Zenon
    <3>3. db.status \in {0, 30, 140, 210, 6, 9, 12}
      BY <2>1, Zenon DEF TableStatuses, Invalid, NoStatus, Loaded
    <3> QED BY <1>3, <3>1, <3>2, <3>3 DEF Snap, Invalid, Loaded, NoStatus, MaxInvalid
  <2>4. /\ Good' <=> Good
        /\ driver' = driver /\ (lost' <=> lost) /\ db'.pos[e] = db.pos[e] /\ db'.base = db.base
    BY <1>1, <1>3, Zenon DEF Good
  <2> QED BY <1>1, <2>1, <2>2, <2>3, <2>4, Zenon DEF DiskInv, Moving
<1> QED BY <1>1, <1>2, <1>3, <1>4, <1>5, ReplaceKeeps, Zenon DEF Moving

\* MoveCheckpoints of a SQL driver, table by table.
LEMMA MoveTableKeeps ==
  ASSUME IInv, MoveTable
  PROVE  IInv'
<1>0. StoreType /\ BudgetType /\ StatusInv /\ \A e \in Engines : DiskInv(e) /\ GoodInv(e)
  BY Use, Zenon
<1>1. /\ UNCHANGED <<driver, mem, tmp, lost, tstat, csum, alloc, at, estat, epc, reg>>
      /\ UNCHANGED <<diff, token, spc, upd, wg, trouble, ctls>>
      /\ driver # "file" /\ db' = Moved(db, life)
      /\ \/ life = "clean" /\ life' = "chunk"
         \/ life = "chunk" /\ life' = "engine"
         \/ life = "engine" /\ life' = "table"
         \/ life = "table" /\ life' = "finished"
  BY DEF MoveTable, MoveOrder, Commit, saver, budget
<1>2. BudgetType' /\ (Good' <=> Good)
  BY <1>0, <1>1, Zenon DEF BudgetType, Good
<1>3. CASE life = "clean"
  <2>1. /\ db' \in CheckpointType /\ db'.has = db.has /\ db'.status = db.status /\ db'.eng = db.eng
        /\ \A e \in Engines : db'.pos[e] = NoRow
    BY <1>0, <1>1, <1>3, MovedOp, Zenon DEF StoreType
  <2>2. Store = db /\ Status3 = db.status /\ tstat = 210 /\ (Good => Status3 = tstat)
    BY <1>0, <1>1, <1>3, QuietLevels, Zenon DEF Quiet, Store, StatusInv, Run
  <2>3. ASSUME NEW e \in Engines PROVE DiskInv(e)'
    <3>1. DiskInv(e) /\ db.eng[e] \in Statuses
      BY <1>0, RowTypes, Zenon DEF StoreType
    <3>2. Good => Snap(NoRow, db.eng[e], db.status)
      BY <2>2, <3>1, Steps DEF DiskInv, Snap, NoRow, NoStatus, Invalid, Loaded
    <3> QED BY <1>1, <1>2, <1>3, <2>1, <3>1, <3>2 DEF DiskInv, NoRow
  <2> QED BY <1>0, <1>1, <1>2, <1>3, <2>1, <2>3, ReplaceKeeps, Zenon DEF Moving, StatusInv
<1>4. CASE life = "chunk"
  <2>1. /\ db' \in CheckpointType /\ db'.has = db.has /\ db'.status = db.status /\ db'.pos = db.pos
        /\ \A e \in Engines : db'.eng[e] = NoStatus
    BY <1>0, <1>1, <1>4, MovedOp, Zenon DEF StoreType
  <2>2. \A e \in Engines : DiskInv(e)'
    BY <1>0, <1>4, <2>1, EmptyDisk, Zenon DEF DiskInv, Moving
  <2> QED BY <1>0, <1>1, <1>2, <1>4, <2>1, <2>2, ReplaceKeeps, Zenon DEF Moving, StatusInv
<1>5. CASE life = "engine"
  <2>1. db' \in CheckpointType /\ db'.status = NoStatus /\ db'.pos = db.pos /\ db'.eng = db.eng
    BY <1>0, <1>1, <1>5, MovedOp, Zenon DEF StoreType
  <2>2. \A e \in Engines : DiskInv(e)'
    BY <1>0, <1>5, <2>1, EmptyDisk, Zenon DEF DiskInv, Moving
  <2> QED BY <1>0, <1>1, <1>2, <1>5, <2>1, <2>2, ReplaceKeeps, Zenon DEF Moving, TableStatuses
<1>6. CASE life = "table"
  <2>1. /\ db' \in CheckpointType /\ db'.has = db.has /\ db'.status = db.status /\ db'.pos = db.pos
        /\ db'.eng = db.eng
    BY <1>0, <1>1, <1>6, MovedOp, Zenon DEF StoreType
  <2>2. \A e \in Engines : DiskInv(e)'
    BY <1>0, <1>6, <2>1, EmptyDisk, Zenon DEF DiskInv, Moving
  <2> QED BY <1>0, <1>1, <1>2, <1>6, <2>1, <2>2, ReplaceKeeps, Zenon DEF Moving, StatusInv
<1> QED BY <1>1, <1>3, <1>4, <1>5, <1>6, Zenon

\* A process that starts takes over what is on disk.
LEMMA StartKeeps ==
  ASSUME IInv, Start
  PROVE  IInv'
<1>0. /\ DiffsType /\ StoreType /\ ProcessType /\ SaverType /\ BudgetType /\ SaverInv /\ StatusInv
      /\ \A x \in Engines : DiskInv(x)
  BY Use, Zenon
<1> DEFINE c == Initialized(db)
<1>1. /\ life = "down" /\ wg' = 1
      /\ \/ driver = "file" /\ mem' = c /\ tmp' = c /\ db' = db /\ life' = "initialize"
         \/ driver # "file" /\ mem' = mem /\ tmp' = tmp /\ db' = c /\ life' = "check"
      /\ UNCHANGED <<driver, lost, tstat, csum, alloc, at, estat, epc, reg>>
      /\ UNCHANGED <<diff, token, spc, upd, trouble, ctls>>
  BY Zenon DEF Start, SaveTmp, Commit, budget
<1>2. /\ c \in CheckpointType /\ c.has /\ c.status = (IF db.has THEN db.status ELSE Loaded)
      /\ c.eng = db.eng /\ c.pos = db.pos /\ c.base = db.base /\ c.sum = db.sum
  BY <1>0, InitializedOp, Zenon DEF StoreType
<1> HIDE DEF c
<1>3. /\ diff = NewTableCheckpointDiff /\ upd = NewTableCheckpointDiff /\ token = 0 /\ spc = "idle"
      /\ \A e \in Engines : epc[e] = "idle"
  BY <1>1, QuietLevels, Zenon DEF Quiet
<1>4. TypeOK'
  BY <1>0, <1>1, <1>2, TypesNext, Zenon DEF DiffsType, StoreType, ProcessType, SaverType, BudgetType
<1>5. SaverInv'
  BY <1>1, <1>3, Empties DEF SaverInv, Alive, Quiet, Moving
<1>6. /\ Store' = c /\ (Good' <=> Good) /\ life' \notin Run /\ life' \in Opened
      /\ life' = "initialize" => life' \notin Up
  BY <1>1, Zenon DEF Store, Good, Run, Opened, Up
<1>7. FileInv'
  BY <1>1, <1>3, Zenon DEF FileInv, Moving, Up, Run
<1>8. Status2' = c.status /\ Status3' = c.status
  BY <1>1, <1>3, <1>6, Empties, Zenon DEF Status2, Status3, Over
<1>9. StatusInv'
  <2>1. c.status \in TableStatuses /\ c.status \in Statuses /\ db.status \in Statuses
    BY <1>0, <1>2, Steps DEF StatusInv, TableStatuses, Invalid, NoStatus, Loaded
  <2>2. Order(db.status, c.status) /\ Order(c.status, c.status)
    BY <1>0, <1>2, <2>1, OrderTrans DEF StatusInv
  <2>3. {db'.status, mem'.status, tmp'.status, upd'.status, diff'.status, tstat'} \subseteq TableStatuses
    BY <1>0, <1>1, <2>1 DEF StatusInv
  <2>4. /\ ~db'.has => db'.status = NoStatus
        /\ life' \in Up => db'.has
        /\ Order(db'.status, c.status)
    BY <1>0, <1>1, <1>2, <1>6, <2>2, Zenon DEF StatusInv
  <2>5. life' \notin {"populate", "insert", "inserting", "clean"}
    BY <1>1, Zenon
  <2> QED BY <1>2, <1>6, <1>8, <2>2, <2>3, <2>4, <2>5, Zenon DEF StatusInv
<1>10. ASSUME NEW x \in Engines PROVE EngineInv(x)'
  <2>0. /\ DiskInv(x) /\ db.pos[x] \in Rows /\ db.eng[x] \in Statuses /\ db.status \in TableStatuses
    BY <1>0, RowTypes, Zenon DEF StoreType, StatusInv
  <2>1. /\ Pos2(x)' = db.pos[x] /\ Pos3(x)' = db.pos[x] /\ Eng2(x)' = db.eng[x] /\ Eng3(x)' = db.eng[x]
    BY <1>1, <1>2, <1>3, <1>6, Empties, Zenon DEF Pos2, Pos3, Eng2, Eng3, Over
  <2>2. Good => Snap(db.pos[x], db.eng[x], c.status)
    <3>1. CASE db.has
      BY <1>2, <2>0, <3>1, Zenon DEF DiskInv
    <3>2. CASE ~db.has
      BY <1>2, <2>0, <3>2 DEF DiskInv, Snap, NoRow, NoStatus, Loaded, Invalid
    <3> QED BY <3>1, <3>2, Zenon
  <2>3. DiskInv(x)'
    BY <1>1, <1>2, <1>6, <2>0, <2>2, Zenon DEF DiskInv, Moving
  <2>4. db.pos[x] <= db.pos[x] /\ Order(db.eng[x], db.eng[x])
    BY <2>0, OrderTrans DEF Rows, NoRow
  <2>5. ChainInv(x)'
    BY <1>1, <1>2, <1>6, <2>0, <2>1, <2>4, Zenon DEF ChainInv, DiskInv
  <2>6. GoodInv(x)'
    <3>1. /\ upd'.pos[x] = NoRow /\ diff'.pos[x] = NoRow /\ upd'.eng[x] = NoStatus /\ diff'.eng[x] = NoStatus
          /\ epc'[x] = "idle"
      BY <1>1, <1>3, Empties, Zenon
    <3>2. /\ Store'.pos[x] = db.pos[x] /\ Store'.eng[x] = db.eng[x] /\ Store'.status = c.status
          /\ life' \notin Run /\ (Good' => Good)
      BY <1>2, <1>6, Zenon
    <3> QED BY <1>8, <2>1, <2>2, <3>1, <3>2, Zenon DEF GoodInv
  <2>7. BaseInv(x)'
    <3>1. /\ Handle(x, Pos2(x))' = Handle(x, db.pos[x]) /\ Handle(x, Pos3(x))' = Handle(x, db.pos[x])
          /\ epc'[x] = "idle"
      BY <1>1, <1>3, <2>1, Zenon DEF Handle
    <3>2. driver' # "file" => db'.base = db.base /\ (lost' <=> lost) /\ driver # "file"
      BY <1>1, <1>2, Zenon
    <3> QED BY <2>0, <2>1, <3>1, <3>2, Zenon DEF BaseInv, DiskInv, Covered2, Covered3
  <2> QED BY <2>3, <2>5, <2>6, <2>7, Zenon DEF EngineInv
<1> QED BY <1>4, <1>5, <1>7, <1>9, <1>10, Zenon DEF IInv

\* A rename by the main goroutine: the disk catches up.
LEMMA CatchUpKeeps ==
  ASSUME IInv, FileInitialized \/ FileInserted
  PROVE  IInv'
<1>0. /\ DiffsType /\ StoreType /\ ProcessType /\ SaverType /\ BudgetType /\ SaverInv /\ FileInv /\ StatusInv
      /\ \A x \in Engines : DiskInv(x) /\ ChainInv(x) /\ GoodInv(x)
  BY Use, Zenon
<1>1. /\ db' = tmp /\ lost' = FALSE
      /\ \/ life = "initialize" /\ life' = "check"
         \/ life = "inserting" /\ life' = "rebase"
      /\ UNCHANGED <<driver, mem, tmp, tstat, csum, alloc, at, estat, epc, reg>>
      /\ UNCHANGED <<diff, token, spc, upd, wg, trouble, ctls>>
  BY Zenon DEF FileInitialized, FileInserted, SaveRename, saver, budget
<1>2. /\ life \in Opened /\ life' \in Opened /\ life' \in Up /\ life' \notin Moving
      /\ (life' \in Run <=> life \in Run) /\ (life \in Up <=> life = "inserting")
      /\ life' \notin {"populate", "insert", "inserting", "clean", "initialize"}
  BY <1>1, Zenon DEF Opened, Up, Run, Moving
<1>3. driver = "file" /\ tmp = mem /\ spc # "rename" /\ db' = mem
  BY <1>0, <1>1, Zenon DEF FileInv
<1>4. Store = mem /\ Store' = mem /\ Good /\ Good'
  BY <1>1, <1>3, Zenon DEF Store, Good
<1>5. TypeOK'
  BY <1>0, <1>1, TypesNext, Zenon DEF DiffsType, StoreType, ProcessType, SaverType, BudgetType
<1>6. SaverInv'
  <2>1. life \in Alive /\ life' \in Alive /\ (life' \in Quiet => life \in Quiet) /\ life' \in Quiet \cup Run
        /\ life # "restore"
    BY <1>1, Zenon DEF Alive, Quiet, Moving, Run
  <2> QED BY <1>0, <1>1, <2>1, Zenon DEF SaverInv
<1>7. FileInv'
  BY <1>1, <1>2, <1>3, Zenon DEF FileInv
<1>8. /\ Status2' = Status2 /\ Status3' = Status3 /\ Sum3' = Sum3
      /\ life = "initialize" => Status2 = mem.status /\ Status3 = mem.status
  BY <1>1, <1>4, QuietLevels, Zenon DEF Status2, Status3, Sum2, Sum3, Over, Quiet
<1>9. ASSUME NEW x \in Engines
      PROVE  /\ Pos2(x)' = Pos2(x) /\ Pos3(x)' = Pos3(x) /\ Eng2(x)' = Eng2(x) /\ Eng3(x)' = Eng3(x)
             /\ life = "initialize" => /\ Pos2(x) = mem.pos[x] /\ Pos3(x) = mem.pos[x]
                                       /\ Eng2(x) = mem.eng[x] /\ Eng3(x) = mem.eng[x]
                                       /\ upd.pos[x] = NoRow /\ diff.pos[x] = NoRow
                                       /\ upd.eng[x] = NoStatus /\ diff.eng[x] = NoStatus
                                       /\ epc[x] = "idle"
  <2>1. /\ Pos2(x)' = Pos2(x) /\ Pos3(x)' = Pos3(x) /\ Eng2(x)' = Eng2(x) /\ Eng3(x)' = Eng3(x)
    BY <1>1, <1>4, Zenon DEF Pos2, Pos3, Eng2, Eng3
  <2> QED BY <1>4, <2>1, QuietLevels, Empties, Zenon DEF Quiet
<1>10. StatusInv'
  <2>1. mem.status \in TableStatuses /\ mem.status \in Statuses /\ mem.has
    BY <1>0, <1>2, <1>4, Steps, Zenon DEF StatusInv, TableStatuses, Invalid, NoStatus, Loaded
  <2>2. Order(mem.status, mem.status)
    BY <2>1, OrderTrans, Zenon
  <2>3. Order(mem.status, Status2) /\ Order(Status2, Status3)
    BY <1>0, <1>1, <1>2, <1>4, <1>8, <2>2 DEF StatusInv
  <2> QED BY <1>0, <1>1, <1>2, <1>3, <1>4, <1>8, <2>1, <2>2, <2>3 DEF StatusInv
<1>11. ASSUME NEW x \in Engines PROVE EngineInv(x)'
  <2>0. /\ ChainInv(x) /\ GoodInv(x) /\ mem.pos[x] \in Rows /\ mem.eng[x] \in Statuses /\ mem.has
    BY <1>0, <1>2, <1>4, RowTypes, Zenon DEF StoreType, StatusInv
  <2>a. /\ Pos2(x)' = Pos2(x) /\ Pos3(x)' = Pos3(x) /\ Eng2(x)' = Eng2(x) /\ Eng3(x)' = Eng3(x)
    BY <1>9, Zenon
  <2>1. mem.pos[x] <= mem.pos[x] /\ Order(mem.eng[x], mem.eng[x])
    BY <2>0, OrderTrans DEF Rows, NoRow
  <2>2. /\ mem.pos[x] <= Pos2(x) /\ Pos2(x) <= Pos3(x) /\ Order(mem.eng[x], Eng2(x)) /\ Order(Eng2(x), Eng3(x))
    <3>1. CASE life = "initialize"
      BY <1>9, <2>1, <3>1, Zenon
    <3>2. CASE life = "inserting"
      BY <1>2, <1>4, <2>0, <3>2, Zenon DEF ChainInv
    <3> QED BY <1>1, <3>1, <3>2, Zenon
  <2>3. ChainInv(x)'
    BY <1>1, <1>2, <1>3, <1>4, <2>0, <2>a, <2>1, <2>2, Zenon DEF ChainInv
  <2>4. GoodInv(x)'
    <3>1. CASE life = "initialize"
      BY <1>1, <1>2, <1>4, <1>8, <1>9, <2>0, <3>1, Zenon DEF GoodInv
    <3>2. CASE life = "inserting"
      BY <1>1, <1>2, <1>4, <1>8, <2>0, <2>a, <3>2, Zenon DEF GoodInv
    <3> QED BY <1>1, <3>1, <3>2, Zenon
  <2>5. DiskInv(x)'
    BY <1>1, <1>2, <1>3, <1>4, <2>0, Zenon DEF DiskInv, ChainInv, GoodInv, Moving
  <2>6. BaseInv(x)'
    BY <1>1, <1>3, Zenon DEF BaseInv
  <2> QED BY <2>3, <2>4, <2>5, <2>6, Zenon DEF EngineInv
<1> QED BY <1>5, <1>6, <1>7, <1>10, <1>11, Zenon DEF IInv

\* restoreTables reads the checkpoint, and the import continues from it.
LEMMA CheckKeeps ==
  ASSUME IInv, Check
  PROVE  IInv'
<1>0. /\ DiffsType /\ StoreType /\ ProcessType /\ SaverType /\ BudgetType /\ SaverInv /\ FileInv /\ StatusInv
      /\ \A x \in Engines : DiskInv(x) /\ ChainInv(x) /\ GoodInv(x) /\ BaseInv(x)
  BY Use, Zenon
<1>1. /\ Get \in CheckpointType /\ Get.status = Store.status /\ Get.base = Store.base
      /\ Get.pos = Store.pos /\ Get.eng = Store.eng /\ (driver # "glue" => Get.sum = Store.sum)
  <2>1. Get = (IF driver = "file" THEN mem ELSE IF driver = "glue" THEN [db EXCEPT !.sum = 0] ELSE db)
    BY <1>0, ConstantsAssumption DEF Get, MySQLGet, FileGet, GlueGet, StoreType
  <2>2. LET m == [db EXCEPT !.sum = 0]
        IN  /\ m \in CheckpointType /\ m.status = db.status /\ m.base = db.base
            /\ m.pos = db.pos /\ m.eng = db.eng
    <3>1. 0 \in 0 .. 1 /\ db \in CheckpointType
      BY <1>0 DEF StoreType
    <3> QED BY <3>1, Zenon DEF CheckpointType
  <2> QED BY <1>0, <2>1, <2>2, Zenon DEF Store, StoreType
<1> DEFINE g == Get
<1>2. /\ life = "check" /\ tstat' = g.status /\ alloc' = g.base /\ at' = g.pos /\ estat' = g.eng
      /\ csum' = g.sum
      /\ \/ g.status <= MaxInvalid /\ life' = "waiting" /\ wg' = wg - 1
         \/ /\ ~(g.status <= MaxInvalid) /\ wg' = wg
            /\ life' = IF ~HasEngines(g) /\ g.status < 60 THEN "populate" ELSE "restore"
      /\ UNCHANGED <<driver, db, mem, tmp, lost, epc, reg, diff, token, spc, upd, trouble, ctls>>
  BY Zenon DEF Check, store, budget, AllWritten
<1>a. /\ g \in CheckpointType /\ g.status = Store.status /\ g.base = Store.base
      /\ g.pos = Store.pos /\ g.eng = Store.eng /\ (driver # "glue" => g.sum = Store.sum)
  BY <1>1, Zenon
<1> HIDE DEF g
<1>3. /\ diff = NewTableCheckpointDiff /\ upd = NewTableCheckpointDiff /\ token = 0 /\ spc = "idle"
      /\ \A e \in Engines : epc[e] = "idle"
      /\ Status2 = Store.status /\ Status3 = Store.status /\ Sum3 = Store.sum
      /\ \A e \in Engines : /\ Pos2(e) = Store.pos[e] /\ Pos3(e) = Store.pos[e]
                            /\ Eng2(e) = Store.eng[e] /\ Eng3(e) = Store.eng[e]
  BY <1>2, QuietLevels, Zenon DEF Quiet
<1>4. ProcessType'
  BY <1>0, <1>2, <1>a, Zenon DEF ProcessType, CheckpointType, Rows
<1>5. life' \in {"waiting", "populate", "restore"}
  BY <1>2, Zenon
<1>6. SaverType' /\ SaverInv'
  <2>1. life \in Alive /\ (life' \in Alive <=> life' # "waiting") /\ life' \notin Quiet /\ life' \in Run
    BY <1>2, <1>5, Zenon DEF Alive, Quiet, Moving, Run
  <2>2. SaverType' /\ wg' = (IF life' \in Alive THEN 1 ELSE 0) + token' + (IF spc' = "idle" THEN 0 ELSE 1)
    BY <1>0, <1>2, <1>3, <2>1 DEF SaverInv, SaverType
  <2> QED BY <1>0, <1>2, <1>3, <2>1, <2>2, Zenon DEF SaverInv
<1>7. TypeOK'
  BY <1>0, <1>2, <1>4, <1>6, TypesNext, Zenon DEF DiffsType, StoreType, BudgetType
<1>8. life \in Up /\ life \in Opened /\ life' \in Run /\ life' \in Up /\ life' \in Opened /\ life' \notin Moving
  BY <1>2, <1>5, Zenon DEF Up, Opened, Run, Moving
<1>9. FileInv'
  BY <1>2, <1>5, <1>8, FileKept, Zenon
<1>10. /\ Store' = Store /\ (Good' <=> Good) /\ Status2' = Status2 /\ Status3' = Status3 /\ Sum3' = Sum3
       /\ \A x \in Engines : /\ Pos2(x)' = Pos2(x) /\ Eng2(x)' = Eng2(x)
                             /\ Pos3(x)' = Pos3(x) /\ Eng3(x)' = Eng3(x)
  BY <1>2, LevelsSame, Zenon DEF Good, Sum3, Sum2, Store
<1>11. Store.status \in TableStatuses /\ Store.status \in Statuses
  BY <1>0, Steps DEF StatusInv, Store, TableStatuses, Invalid, NoStatus, Loaded
<1>12. life' = "populate" => /\ Store.status = Loaded
                             /\ \A x \in Engines : Store.pos[x] = NoRow /\ Store.eng[x] = NoStatus
  <2>1. life' = "populate" => ~HasEngines(g) /\ Store.status < 60 /\ ~(Store.status <= MaxInvalid)
    BY <1>2, <1>a, Zenon
  <2>2. life' = "populate" => Store.status = Loaded
    BY <1>11, <2>1 DEF TableStatuses, Invalid, NoStatus, Loaded, MaxInvalid
  <2>3. life' = "populate" => \A x \in Engines : Store.eng[x] = NoStatus
    BY <1>a, <2>1, Zenon DEF HasEngines
  <2> QED BY <1>0, <1>8, <2>2, <2>3, Zenon DEF ChainInv
<1>13. StatusInv'
  <2>1. Order(Store.status, Store.status)
    BY <1>11, OrderTrans, Zenon
  <2>2. life' \notin {"insert", "inserting", "clean"}
    BY <1>5, Zenon
  <2>3. /\ StatusInv /\ db' = db /\ mem' = mem /\ tmp' = tmp /\ upd' = upd /\ diff' = diff
        /\ tstat' = Store.status /\ driver' = driver /\ Store' = Store
        /\ Status2' = Store.status /\ Status3' = Store.status
        /\ (driver # "glue" => Sum3' = csum')
    BY <1>0, <1>2, <1>3, <1>a, <1>10, Zenon
  <2>4. /\ life \in Up /\ life \in Opened /\ (life' = "populate" => Store.status = Loaded)
    BY <1>8, <1>12, Zenon
  <2> QED BY ONLY <1>11, <2>1, <2>2, <2>3, <2>4 DEF StatusInv
<1>14. ASSUME NEW x \in Engines PROVE EngineInv(x)'
  <2>0. /\ DiskInv(x) /\ ChainInv(x) /\ GoodInv(x) /\ BaseInv(x) /\ Store.pos[x] \in Rows
        /\ Store.eng[x] \in Statuses
    BY <1>0, LevelTypes, Zenon
  <2>1. /\ at'[x] = Store.pos[x] /\ estat'[x] = Store.eng[x] /\ tstat' = Store.status /\ epc'[x] = "idle"
        /\ upd' = upd /\ diff' = diff /\ db' = db
    BY <1>2, <1>3, <1>a, Zenon
  <2>2. DiskInv(x)'
    BY <1>2, <1>8, <1>10, <2>0, Zenon DEF DiskInv, Moving
  <2>3. Store.pos[x] <= Store.pos[x] /\ Order(Store.eng[x], Store.eng[x])
    <3>1. Store.pos[x] <= Store.pos[x]
      BY ONLY <2>0, ConstantsAssumption DEF Rows, NoRow
    <3> QED BY <2>0, <3>1, OrderTrans, Zenon
  <2>4. ChainInv(x)'
    BY <1>3, <1>5, <1>8, <1>10, <1>12, <2>0, <2>1, <2>3, Zenon DEF ChainInv
  <2>5. GoodInv(x)'
    BY <1>3, <1>8, <1>10, <2>0, <2>1, Zenon DEF GoodInv
  <2>6. BaseInv(x)'
    <3>1. diff'.base >= diff.base /\ diff'.base \in Int
      BY <1>0, <2>1, RowTypes DEF DiffsType, NoRow
    <3> QED BY <1>2, <1>8, <2>1, <3>1, BaseKept, Zenon
  <2> QED BY <2>2, <2>4, <2>5, <2>6, Zenon DEF EngineInv
<1> QED BY <1>6, <1>7, <1>9, <1>13, <1>14, Zenon DEF IInv

\* Before InsertEngineCheckpoints there are no rows, neither in the store nor on the way.
LEMMA NoRowsYet ==
  ASSUME IInv, life = "insert", NEW x \in Engines
  PROVE  /\ Pos3(x) = NoRow /\ Pos2(x) = NoRow /\ Store.pos[x] = NoRow /\ db.pos[x] = NoRow
         /\ Eng3(x) = NoStatus /\ Eng2(x) = NoStatus /\ Store.eng[x] = NoStatus /\ db.eng[x] = NoStatus
<1>0. /\ ChainInv(x) /\ db.pos[x] \in Rows /\ Store.pos[x] \in Rows /\ Pos2(x) \in Rows
      /\ Pos3(x) \in Rows
      /\ db.eng[x] \in Statuses /\ Store.eng[x] \in Statuses /\ Eng2(x) \in Statuses /\ Eng3(x) \in Statuses
  BY Use, LevelTypes, Zenon
<1>1. /\ Pos3(x) <= NoRow /\ Pos2(x) <= Pos3(x) /\ Store.pos[x] <= Pos2(x) /\ db.pos[x] <= Store.pos[x]
      /\ Order(db.eng[x], Store.eng[x]) /\ Order(Store.eng[x], Eng2(x)) /\ Order(Eng2(x), Eng3(x))
      /\ Order(Eng3(x), NoStatus)
  BY <1>0, Zenon DEF ChainInv, Run, Up, Opened
<1>2. Pos3(x) = NoRow /\ Pos2(x) = NoRow /\ Store.pos[x] = NoRow /\ db.pos[x] = NoRow
  BY <1>0, <1>1 DEF Rows, NoRow
<1>3. \A s \in Statuses : Order(s, NoStatus) => s = NoStatus
  BY Steps DEF Order, NoStatus, Invalid
<1>4. Eng3(x) = NoStatus /\ Eng2(x) = NoStatus /\ Store.eng[x] = NoStatus /\ db.eng[x] = NoStatus
  BY <1>0, <1>1, <1>3, Zenon
<1> QED BY <1>2, <1>4, Zenon

\* InsertEngineCheckpoints makes them.
LEMMA InsertKeeps ==
  ASSUME IInv, Insert
  PROVE  IInv'
<1>0. /\ DiffsType /\ StoreType /\ ProcessType /\ SaverType /\ BudgetType /\ SaverInv /\ FileInv /\ StatusInv
      /\ \A x \in Engines : DiskInv(x) /\ ChainInv(x) /\ GoodInv(x)
  BY Use, Zenon
<1> DEFINE c == WithEngines(Store)
<1>1. /\ life = "insert" /\ spc # "rename"
      /\ at' = [e \in Engines |-> 0] /\ estat' = [e \in Engines |-> Loaded]
      /\ \/ driver = "file" /\ mem' = c /\ tmp' = c /\ db' = db /\ life' = "inserting"
         \/ driver # "file" /\ mem' = mem /\ tmp' = tmp /\ db' = c /\ life' = "rebase"
      /\ UNCHANGED <<driver, lost, tstat, csum, alloc, epc, reg>>
      /\ UNCHANGED <<diff, token, spc, upd, wg, trouble, ctls>>
  BY Zenon DEF Insert, SaveTmp, Commit, saver, budget, Store
<1>2. /\ c \in CheckpointType /\ c.has = Store.has /\ c.status = Store.status
      /\ \A e \in Engines : c.eng[e] = Loaded /\ c.pos[e] = 0
      /\ c.base = Store.base /\ c.sum = Store.sum
  BY <1>0, WithEnginesOp, Zenon DEF StoreType, Store
<1> HIDE DEF c
<1>3. ProcessType'
  BY <1>0, <1>1, ConstantsAssumption, Steps DEF ProcessType, Rows, NoRow, Loaded
<1>4. TypeOK'
  BY <1>0, <1>1, <1>2, <1>3, TypesNext, Zenon DEF DiffsType, StoreType, SaverType, BudgetType
<1>5. SaverInv'
  <2>1. /\ life \in Alive /\ life' \in Alive /\ life' \notin Quiet /\ life' \in Run /\ life # "restore"
    BY <1>1, Zenon DEF Alive, Quiet, Moving, Run
  <2> QED BY <1>0, <1>1, <2>1, Zenon DEF SaverInv
<1>6. /\ life \in Run /\ life \in Up /\ life \in Opened /\ life' \in Run /\ life' \in Up /\ life' \in Opened
      /\ life' \notin Moving /\ life' \notin {"populate", "insert", "clean", "initialize"}
  BY <1>1, Zenon DEF Run, Up, Opened, Moving
<1>7. Store' = c /\ (Good' <=> Good) /\ Store.has /\ db.has /\ tstat = Loaded
  BY <1>0, <1>1, <1>6, Zenon DEF Store, Good, StatusInv
<1>8. FileInv'
  BY <1>1, <1>6, Zenon DEF FileInv
<1>9. Status2' = Status2 /\ Status3' = Status3 /\ Sum3' = Sum3
  BY <1>1, <1>2, <1>7, Zenon DEF Status2, Status3, Sum2, Sum3
<1>10. StatusInv'
  <2>1. db'.has /\ (db' = db \/ db'.status = Store.status) /\ Store.status \in TableStatuses
    BY <1>0, <1>1, <1>2, <1>7, Zenon DEF StatusInv, Store
  <2>2. Order(db'.status, Store.status)
    <3>1. Order(Store.status, Store.status)
      BY <2>1, OrderTrans, Steps DEF TableStatuses, Invalid, NoStatus, Loaded
    <3> QED BY <1>0, <1>6, <2>1, <3>1, Zenon DEF StatusInv
  <2>3. {db'.status, mem'.status, tmp'.status, upd'.status, diff'.status, tstat'} \subseteq TableStatuses
    BY <1>0, <1>1, <1>2, <2>1 DEF StatusInv
  <2>4. /\ Order(Store.status, Status2) /\ Order(Status2, Status3) /\ Order(Status3, tstat)
        /\ Good => Status3 = tstat /\ (driver # "glue" => Sum3 = csum)
    BY <1>0, <1>6, Zenon DEF StatusInv
  <2>5. driver' = driver /\ tstat' = tstat /\ csum' = csum
    BY <1>1, Zenon
  <2> QED BY <1>2, <1>6, <1>7, <1>9, <2>1, <2>2, <2>3, <2>4, <2>5, Zenon DEF StatusInv
<1>11. Store.status \in {NoStatus, Loaded} /\ Status2 \in {NoStatus, Loaded} /\ Status3 \in {NoStatus, Loaded}
  <2>1. /\ Order(Store.status, Status2) /\ Order(Status2, Status3) /\ Order(Status3, Loaded)
    BY <1>0, <1>6, <1>7, Zenon DEF StatusInv
  <2>2. Store.status \in TableStatuses /\ Status2 \in TableStatuses /\ Status3 \in TableStatuses
    BY <1>0, Zenon DEF StatusInv, Status2, Status3, Over, Store
  <2>3. Status3 \in {NoStatus, Loaded}
    BY <2>1, <2>2 DEF Order, TableStatuses, Invalid, NoStatus, Loaded
  <2>4. Status2 \in {NoStatus, Loaded}
    BY <2>1, <2>2, <2>3 DEF Order, TableStatuses, Invalid, NoStatus, Loaded
  <2> QED BY <2>1, <2>2, <2>3, <2>4 DEF Order, TableStatuses, Invalid, NoStatus, Loaded
<1>12. ASSUME NEW x \in Engines PROVE EngineInv(x)'
  <2>0. /\ DiskInv(x) /\ ChainInv(x) /\ db.pos[x] \in Rows /\ Store.pos[x] \in Rows /\ Pos2(x) \in Rows
        /\ Pos3(x) \in Rows
        /\ db.eng[x] \in Statuses /\ Store.eng[x] \in Statuses /\ Eng2(x) \in Statuses /\ Eng3(x) \in Statuses
    BY <1>0, LevelTypes, Zenon
  <2>1. /\ Pos3(x) = NoRow /\ Pos2(x) = NoRow /\ Store.pos[x] = NoRow /\ db.pos[x] = NoRow
        /\ Eng3(x) = NoStatus /\ Eng2(x) = NoStatus /\ Store.eng[x] = NoStatus /\ db.eng[x] = NoStatus
    BY <1>1, NoRowsYet, Zenon
  <2>5. upd.pos[x] = NoRow /\ diff.pos[x] = NoRow /\ upd.eng[x] = NoStatus /\ diff.eng[x] = NoStatus
    BY <2>1, Zenon DEF Pos2, Pos3, Eng2, Eng3, Over
  <2>6. /\ Store'.pos[x] = 0 /\ Store'.eng[x] = Loaded
        /\ Pos2(x)' = 0 /\ Pos3(x)' = 0 /\ Eng2(x)' = Loaded /\ Eng3(x)' = Loaded
        /\ at'[x] = 0 /\ estat'[x] = Loaded
    BY <1>1, <1>2, <1>7, <2>5, Zenon DEF Pos2, Pos3, Eng2, Eng3, Over
  <2>7. \A t \in {NoStatus, Loaded} : Snap(0, Loaded, t) /\ Snap(NoRow, NoStatus, t)
    BY DEF Snap, NoStatus, Loaded, Invalid, NoRow
  <2>8. (db'.pos[x] = NoRow /\ db'.eng[x] = NoStatus) \/ (db'.pos[x] = 0 /\ db'.eng[x] = Loaded)
    BY <1>1, <1>2, <2>1, Zenon
  <2>9. db'.has /\ (db' = db \/ db'.status = Store.status)
    BY <1>1, <1>2, <1>7, Zenon
  <2>10. DiskInv(x)'
    <3>1. Good => Snap(db'.pos[x], db'.eng[x], db'.status)
      BY <1>1, <1>2, <1>11, <2>0, <2>1, <2>7, Zenon DEF DiskInv
    <3> QED BY <1>6, <1>7, <2>8, <2>9, <3>1 DEF DiskInv, NoStatus, Loaded, NoRow, Moving
  <2>11. ChainInv(x)'
    <3>1. Order(Loaded, Loaded) /\ Order(NoStatus, Loaded)
      BY DEF Order, Loaded, NoStatus, Invalid
    <3> QED BY <1>6, <2>6, <2>8, <3>1 DEF ChainInv, NoRow, Loaded, NoStatus
  <2>12. GoodInv(x)'
    <3>1. /\ Snap(0, Loaded, Store'.status) /\ Snap(0, Loaded, Status2') /\ Snap(0, Loaded, Status3')
          /\ Snap(0, Loaded, tstat')
      BY <1>1, <1>2, <1>7, <1>9, <1>11, <2>7, Zenon
    <3> QED BY <1>6, <2>6, <3>1 DEF GoodInv, NoRow, Loaded, NoStatus
  <2>13. BaseInv(x)'
    <3>1. epc'[x] = "idle"
      BY <1>0, <1>1, Zenon DEF SaverInv
    <3> QED BY <2>6, <3>1 DEF BaseInv
  <2> QED BY <2>10, <2>11, <2>12, <2>13, Zenon DEF EngineInv
<1> QED BY <1>4, <1>5, <1>8, <1>10, <1>12, Zenon DEF IInv

-----------------------------------------------------------------------------
(* The theorems.                                                           *)

\* A step that changes nothing.
LEMMA StutterKeeps ==
  ASSUME IInv, UNCHANGED vars
  PROVE  IInv'
<1>0. /\ TypeOK /\ SaverInv /\ FileInv /\ StatusInv
      /\ \A x \in Engines : DiskInv(x) /\ ChainInv(x) /\ GoodInv(x) /\ BaseInv(x)
  BY Use, Zenon DEF IInv
<1>1. /\ driver' = driver /\ db' = db /\ mem' = mem /\ tmp' = tmp /\ lost' = lost /\ life' = life
      /\ tstat' = tstat /\ csum' = csum /\ alloc' = alloc /\ at' = at /\ estat' = estat /\ epc' = epc
      /\ reg' = reg /\ diff' = diff /\ token' = token /\ spc' = spc /\ upd' = upd /\ wg' = wg
      /\ trouble' = trouble /\ ctls' = ctls
  BY Zenon DEF vars, store, process, saver, budget
<1>2. TypeOK' /\ SaverInv'
  BY <1>0, <1>1, Zenon DEF TypeOK, SaverInv
<1>3. /\ Store' = Store /\ (Good' <=> Good) /\ Status2' = Status2 /\ Status3' = Status3 /\ Sum2' = Sum2
      /\ Sum3' = Sum3
      /\ \A x \in Engines : /\ Pos2(x)' = Pos2(x) /\ Eng2(x)' = Eng2(x)
                            /\ Pos3(x)' = Pos3(x) /\ Eng3(x)' = Eng3(x)
  BY <1>1, LevelsSame, Zenon DEF Good, Sum2, Sum3, Store
<1>a. FileInv'
  BY <1>0, <1>1, <1>3, Zenon DEF FileInv
<1>b. StatusInv
  BY <1>0, Zenon
<1>4. StatusInv'
  BY ONLY <1>b, <1>1, <1>3 DEF StatusInv
<1>5. ASSUME NEW x \in Engines PROVE EngineInv(x)'
  <2>0. DiskInv(x) /\ ChainInv(x) /\ GoodInv(x) /\ BaseInv(x)
    BY <1>0, Zenon
  <2>1. DiskInv(x)' /\ ChainInv(x)'
    BY <1>1, <1>3, <2>0, Zenon DEF DiskInv, ChainInv
  <2>2. GoodInv(x)'
    BY <1>1, <1>3, <2>0, Zenon DEF GoodInv
  <2>3. BaseInv(x)'
    BY <1>1, <1>3, <2>0, Zenon DEF BaseInv, Covered2, Covered3, Handle
  <2> QED BY <2>1, <2>2, <2>3, Zenon DEF EngineInv
<1> QED BY <1>2, <1>a, <1>4, <1>5, Zenon DEF IInv

\* Every step keeps the invariant.
LEMMA NextIInv == IInv /\ [Next]_vars => IInv'
<1> SUFFICES ASSUME IInv, [Next]_vars PROVE IInv'
  BY Zenon
<1>1. CASE Start
  BY <1>1, StartKeeps, Zenon
<1>2. CASE FileInitialized \/ FileInserted
  BY <1>2, CatchUpKeeps, Zenon
<1>3. CASE Check
  BY <1>3, CheckKeeps, Zenon
<1>4. CASE SendChecksum
  BY <1>4, SendChecksumKeeps, Zenon
<1>5. CASE Insert
  BY <1>5, InsertKeeps, Zenon
<1>6. CASE SendBase
  BY <1>6, SendBaseKeeps, Zenon
<1>7. ASSUME NEW e \in Engines, Producer(e) PROVE IInv'
  BY <1>7, DeliverKeeps, ReadBaseKeeps, SendRebaseKeeps, SendChunkKeeps, SendEngineStatusKeeps,
     Zenon DEF Producer
<1>8. CASE SendTableStatus
  BY <1>8, SendTableStatusKeeps, Zenon
<1>9. CASE CloseChannel \/ WaitDone
  BY <1>9, WaitKeeps, Zenon
<1>10. CASE Saver
  BY <1>10, TokenKeeps, SwapKeeps, UpdateSQLKeeps, UpdateFileKeeps, UpdateRenameKeeps,
     UpdateFailsKeeps, Zenon DEF Saver
<1>11. CASE Remove \/ CtlErrorDestroy \/ CtlRemove
  BY <1>11, RemoveKeeps, Zenon
<1>12. CASE MoveTable
  BY <1>12, MoveTableKeeps, Zenon
<1>13. CASE Exit \/ Crash
  BY <1>13, EndKeeps, Zenon
<1>14. CASE CtlErrorIgnore
  BY <1>14, CtlErrorIgnoreKeeps, Zenon
<1>15. CASE UNCHANGED vars
  BY <1>15, StutterKeeps, Zenon
<1> QED BY <1>1, <1>2, <1>3, <1>4, <1>5, <1>6, <1>7, <1>8, <1>9, <1>10, <1>11, <1>12, <1>13,
           <1>14, <1>15,
           Zenon DEF Next

\* The invariant says that the checkpoints are sound.
LEMMA IInvSound == IInv => CheckpointsAreSound
<1> SUFFICES ASSUME IInv PROVE CheckpointsAreSound
  BY Zenon
<1>0. /\ TypeOK /\ StoreType /\ ProcessType /\ DiffsType /\ SaverInv /\ FileInv /\ StatusInv
      /\ \A e \in Engines : DiskInv(e) /\ ChainInv(e) /\ GoodInv(e)
  BY Use, Zenon DEF IInv
<1>1. DurableIsPrefix
  <2>1. Good <=> ~lost \/ driver = "file"
    BY Zenon DEF Good
  <2>2. \A e \in Engines : /\ Good => Snap(db.pos[e], db.eng[e], db.status)
                           /\ db.pos[e] # NoRow => db.eng[e] # NoStatus
                           /\ db.eng[e] # NoStatus => db.has
    BY <1>0, Zenon DEF DiskInv
  <2> QED BY <1>0, <2>1, <2>2 DEF DurableIsPrefix, Snap
<1>2. AllocBaseCovers
  BY <1>0, Zenon DEF AllocBaseCovers, DiskInv
<1>3. AllSavedAtWait
  <2> SUFFICES ASSUME life \in {"clean", "exit"}, ~lost
               PROVE  /\ db.pos = at /\ db.eng = estat /\ db.status = tstat
                      /\ driver # "glue" => db.sum = csum
    BY Zenon DEF AllSavedAtWait
  <2>1. life \in Quiet /\ life \in Run /\ life \in Up /\ life # "inserting" /\ Good
    BY Zenon DEF Quiet, Run, Up, Good
  <2>2. spc = "idle" /\ Status3 = Store.status /\ Sum3 = Store.sum
    BY <2>1, QuietLevels, Zenon
  <2>3. Store = db
    BY <1>0, <2>1, <2>2, Zenon DEF Store, FileInv
  <2>4. db.status = tstat /\ (driver # "glue" => db.sum = csum)
    BY <1>0, <2>1, <2>2, <2>3, Zenon DEF StatusInv
  <2>5. \A e \in Engines : db.pos[e] = at[e] /\ db.eng[e] = estat[e]
    BY <1>0, <2>1, <2>3, QuietLevels, Zenon DEF GoodInv
  <2>6. /\ db.pos \in [Engines -> Rows] /\ db.eng \in [Engines -> Statuses]
        /\ at \in [Engines -> Rows] /\ estat \in [Engines -> Statuses]
    BY <1>0, Zenon DEF StoreType, ProcessType, CheckpointType, Rows
  <2>7. db.pos = at /\ db.eng = estat
    BY <2>5, <2>6
  <2> QED BY <2>4, <2>7, Zenon
<1> QED BY <1>1, <1>2, <1>3, Zenon DEF CheckpointsAreSound

\* What is on disk is always a state that the import went through, with a base beyond its
\* row IDs, and waitCheckpointFinish leaves nothing unsaved: for every driver, any number
\* of engines and rows, and any crashes, failed updates and commands (saveCheckpoint,
\* listenCheckpointUpdates, Update, tidb-lightning-ctl).
THEOREM Sound == Spec => []CheckpointsAreSound
<1>1. Spec => []IInv
  BY InitIInv, NextIInv, PTL DEF Spec
<1> QED BY <1>1, IInvSound, PTL

\* The checkpoint that a step leaves on disk is no less than the one it found.
DiskForward ==
  /\ db.has => db'.has /\ Forward(db.status, db'.status)
  /\ \A e \in Engines : Forward(db.eng[e], db'.eng[e]) /\ db'.pos[e] >= db.pos[e]

\* What the invariant calls order is what ProgressKept asks for.
LEMMA OrderForward ==
  ASSUME IInv, db' \in CheckpointType, db.has => db'.has /\ Order(db.status, db'.status),
         \A e \in Engines : Order(db.eng[e], db'.eng[e]) /\ db.pos[e] <= db'.pos[e]
  PROVE  DiskForward
<1>1. /\ db.status \in Statuses /\ db'.status \in Statuses
      /\ \A e \in Engines : /\ db.eng[e] \in Statuses /\ db'.eng[e] \in Statuses
                            /\ db.pos[e] \in Rows /\ db'.pos[e] \in Rows
  BY Use, RowTypes, Zenon DEF StoreType
<1>2. \A a, b \in Statuses : Order(a, b) => Forward(a, b)
  BY Steps DEF Order, Forward, Invalid, MaxInvalid
<1>3. \A p, q \in Rows : p <= q => q >= p
  BY Zenon DEF Rows, NoRow
<1> QED BY <1>1, <1>2, <1>3, Zenon DEF DiskForward

\* Every step that is not one of the final cleaning or of the user's commands goes forward.
LEMMA NextForward ==
  IInv /\ [Next]_vars =>
    (life \notin {"down", "clean", "chunk", "engine", "table"} => DiskForward)
<1> SUFFICES ASSUME IInv, [Next]_vars, life \notin {"down", "clean", "chunk", "engine", "table"}
             PROVE  DiskForward
  BY Zenon
<1>0. /\ StoreType /\ DiffsType /\ FileInv /\ StatusInv /\ \A e \in Engines : ChainInv(e) /\ DiskInv(e)
  BY Use, Zenon
<1>1. /\ db.status \in Statuses
      /\ \A e \in Engines : db.eng[e] \in Statuses /\ db.pos[e] \in Rows
  BY <1>0, RowTypes, Zenon DEF StoreType
<1>2. /\ Order(db.status, db.status)
      /\ \A e \in Engines : Order(db.eng[e], db.eng[e]) /\ db.pos[e] <= db.pos[e]
  BY <1>1, OrderTrans DEF Rows, NoRow
<1>3. CASE db' = db
  BY <1>0, <1>2, <1>3, OrderForward, Zenon DEF StoreType
<1>4. CASE FileInitialized \/ FileInserted \/ UpdateRename
  <2>1. db' = tmp /\ (life \in {"initialize", "inserting"} \/ spc = "rename")
    BY <1>4, Zenon DEF FileInitialized, FileInserted, UpdateRename, SaveRename
  <2>2. tmp = mem /\ driver = "file" /\ life \in Opened
    BY <1>0, <2>1, SaverBusy, Zenon DEF FileInv, Opened, Up, Run
  <2>3. db' = Store
    BY <2>1, <2>2, Zenon DEF Store
  <2> QED BY <1>0, <2>1, <2>2, <2>3, OrderForward, Zenon DEF StatusInv, ChainInv, StoreType
<1>5. CASE Insert
  <2>1. life = "insert" /\ (db' = db \/ db' = WithEngines(db))
    BY <1>5, Zenon DEF Insert, SaveTmp, Commit
  <2>2. CASE db' = WithEngines(db)
    <3>1. /\ db' \in CheckpointType /\ db'.has = db.has /\ db'.status = db.status
          /\ \A e \in Engines : db'.eng[e] = Loaded /\ db'.pos[e] = 0
      BY <1>0, <2>2, WithEnginesOp, Zenon DEF StoreType
    <3>2. \A e \in Engines : db.eng[e] = NoStatus /\ db.pos[e] = NoRow
      BY <2>1, NoRowsYet, Zenon
    <3>3. Order(NoStatus, Loaded) /\ NoRow <= 0
      BY DEF Order, NoStatus, Loaded, Invalid, NoRow
    <3> QED BY <1>2, <3>1, <3>2, <3>3, OrderForward, Zenon
  <2> QED BY <1>3, <2>1, <2>2, Zenon
<1>6. CASE UpdateSQL
  <2>1. /\ spc = "update" /\ Store = db
        /\ db' = (IF driver = "glue" THEN GlueUpdate(db, upd) ELSE MySQLUpdate(db, upd))
    BY <1>6, Zenon DEF UpdateSQL, Commit, Store
  <2>2. life \in Up /\ db.has
    BY <1>0, <2>1, SaverBusy, Zenon DEF StatusInv
  <2>3. Applied(db', db, upd)
    BY <1>0, <2>1, <2>2, SQLApplied, Zenon DEF StoreType, DiffsType
  <2>4. db' \in CheckpointType /\ db'.has /\ db'.status = Status2 /\ Order(db.status, Status2)
    BY <1>0, <2>1, <2>2, <2>3, Zenon DEF Applied, Status2, StatusInv
  <2>5. ASSUME NEW e \in Engines PROVE Order(db.eng[e], db'.eng[e]) /\ db.pos[e] <= db'.pos[e]
    <3>1. /\ db'.eng[e] = (IF db.eng[e] # NoStatus THEN Eng2(e) ELSE NoStatus)
          /\ db'.pos[e] = (IF db.pos[e] # NoRow THEN Pos2(e) ELSE NoRow)
      BY <2>1, <2>3, Zenon DEF Applied, Eng2, Pos2
    <3>2. Order(db.eng[e], Eng2(e)) /\ db.pos[e] <= Pos2(e)
      BY <1>0, <2>1, <2>2, Zenon DEF ChainInv
    <3>3. Order(db.eng[e], db.eng[e]) /\ db.pos[e] <= db.pos[e]
      BY <1>2, Zenon
    <3> QED BY <3>1, <3>2, <3>3, Zenon
  <2> QED BY <2>4, <2>5, OrderForward, Zenon
<1>7. CASE \E e \in Engines : Producer(e)
  BY <1>3, <1>7, Zenon
     DEF Producer, Deliver, ReadBase, SendRebase, SendChunk, SendEngineStatus, store
<1>8. CASE Check \/ SendChecksum \/ SendBase \/ SendTableStatus \/ CloseChannel \/ WaitDone
  BY <1>3, <1>8, Zenon
     DEF Check, SendChecksum, SendBase, SendTableStatus, CloseChannel, WaitDone, store
<1>9. CASE TakeToken \/ Swap \/ UpdateFile \/ UpdateFails
  BY <1>3, <1>9, Zenon DEF TakeToken, Swap, UpdateFile, UpdateFails, SaveTmp, store
<1>10. CASE Exit \/ Crash \/ UNCHANGED vars
  BY <1>3, <1>10, Zenon DEF Exit, Crash, Forget, vars, store
<1>11. /\ ~Start /\ ~Remove /\ ~CtlErrorIgnore /\ ~CtlErrorDestroy /\ ~CtlRemove /\ ~MoveTable
  BY DEF Start, Remove, CtlErrorIgnore, CtlErrorDestroy, CtlRemove, Ctl, MoveTable, MoveOrder
<1> QED BY <1>4, <1>5, <1>6, <1>7, <1>8, <1>9, <1>10, <1>11, Zenon DEF Next, Saver

\* No step but the final cleaning and the user's own commands takes durable progress back:
\* neither a late update nor one saved after a failure (Update, InsertEngineCheckpoints).
THEOREM Forwards == Spec => ProgressKept
<1>1. Spec => []IInv
  BY InitIInv, NextIInv, PTL DEF Spec
<1>2. IInv /\ [Next]_vars =>
        [life \notin {"down", "clean", "chunk", "engine", "table"} =>
           (/\ db.has => db'.has /\ Forward(db.status, db'.status)
            /\ \A e \in Engines : Forward(db.eng[e], db'.eng[e]) /\ db'.pos[e] >= db.pos[e])]_vars
  BY NextForward, Zenon DEF DiskForward
<1> QED BY <1>1, <1>2, PTL DEF Spec, ProgressKept
==============================================================================
