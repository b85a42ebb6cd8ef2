-------------------------- MODULE TableMetaProofs --------------------------
(***************************************************************************)
(* Proofs about TableMeta for any set of tasks, any number of crashes and  *)
(* retried commits, and every setting of the constants.                    *)
(***************************************************************************)
EXTENDS TableMeta, WellFoundedInduction, TLAPS

\* The seven statuses are the numbers the code compares.
USE DEF metaStatusInitial, metaStatusRowIDAllocated, metaStatusRestoreStarted,
        metaStatusRestoreFinished, metaStatusChecksuming,
        metaStatusChecksumSkipped, metaStatusFinished

\* The empty checksum is a checksum.
LEMMA NoChecksumType == NoChecksum \in KVChecksum
  BY Zenon DEF NoChecksum, KVChecksum

\* Rows stay rows under the updates the transactions make: AllocTableRowIDs,
\* UpdateTableBaseChecksum, UpdateTableStatus and CheckAndUpdateLocalChecksum.
LEMMA RowUpdates ==
  ASSUME NEW r \in MetaRow, NEW s \in 0..6, NEW b \in Nat, NEW m \in Nat, NEW k \in KVChecksum
  PROVE  /\ [r EXCEPT !.base = b, !.max = m, !.status = s] \in MetaRow
         /\ [r EXCEPT !.status = s, !.ckBase = k] \in MetaRow
         /\ [r EXCEPT !.status = s] \in MetaRow
         /\ [r EXCEPT !.kvs = m, !.status = s] \in MetaRow
<1> USE DEF MetaRow
<1>1. [r EXCEPT !.base = b, !.max = m, !.status = s] \in MetaRow
  BY ZenonT(60)
<1>2. [r EXCEPT !.status = s, !.ckBase = k] \in MetaRow
  BY ZenonT(60)
<1>3. [r EXCEPT !.status = s] \in MetaRow
  BY ZenonT(60)
<1>4. [r EXCEPT !.kvs = m, !.status = s] \in MetaRow
  BY ZenonT(60)
<1> QED BY <1>1, <1>2, <1>3, <1>4, Zenon

\* A non-empty set of natural numbers has a least element.
LEMMA LeastNat ==
  ASSUME NEW S \in SUBSET Nat, S # {}
  PROVE  \E u \in S : \A v \in S : u <= v
<1> DEFINE R == {ss \in Nat \X Nat : ss[1] < ss[2]}
<1>1. OpToRel(<, Nat) = R
  BY Zenon DEF OpToRel
<1>2. IsWellFoundedOn(R, Nat)
  BY <1>1, NatLessThanWellFounded, Zenon
<1> HIDE DEF R
<1>3. PICK u \in S : \A v \in S : ~(<<v, u>> \in R)
  BY <1>2, WFMin, Zenon
<1>4. ASSUME NEW v \in S PROVE u <= v
  <2>1. <<v, u>> \in Nat \X Nat /\ <<v, u>>[1] = v /\ <<v, u>>[2] = u
    BY Zenon
  <2>2. ~(v < u)
    BY <1>3, <2>1, Zenon DEF R
  <2> QED BY <2>2
<1> QED BY <1>4, Zenon

\* When the scan of CheckAndUpdateLocalChecksum neither fails, nor ends at the
\* own row, nor decides to skip, every other row is checksum_skipped.
LEMMA LastOneStands ==
  ASSUME TypeOK, ProgressInv, NEW t \in Tasks,
         ~CheckError(t), ~CheckEarly(t), ~CheckSkip(t)
  PROVE  \A u \in rows \ {t} : meta[u].status = metaStatusChecksumSkipped
<1>1. Stops(t) \subseteq Tasks /\ Stops(t) \in SUBSET Nat
  BY TableMetaAssumption, Zenon DEF Stops, Live, TypeOK
<1>2. ASSUME Stops(t) # {} PROVE FALSE
  <2>1. PICK u \in Stops(t) : \A v \in Stops(t) : u <= v
    BY <1>1, <1>2, LeastNat, Zenon
  <2>2. StopsAt(t, u)
    BY <2>1, Zenon DEF StopsAt
  <2>3. u # t
    BY <2>2, Zenon DEF CheckEarly
  <2>4. meta[u].status <= metaStatusChecksuming /\ meta[u].status \in 0..6
    BY <1>1, <2>1, <2>3, Zenon DEF Stops, TypeOK, MetaRow
  <2> QED BY <1>1, <2>1, <2>2, <2>3, <2>4 DEF CheckError, CheckSkip
<1>3. ASSUME NEW u \in rows \ {t} PROVE meta[u].status = metaStatusChecksumSkipped
  <2>1. u \in Tasks /\ meta[u].status \in 0..6 /\ meta[u].status < 6
    BY Zenon DEF TypeOK, MetaRow, ProgressInv
  <2>2. u \in Live
    BY <2>1, Zenon DEF Live
  <2>3. ~(meta[u].status <= metaStatusChecksuming)
    BY <1>2, <2>2, Zenon DEF Stops
  <2> QED BY <2>1, <2>3
<1> QED BY <1>3, Zenon

-----------------------------------------------------------------------------
(* Type correctness.                                                       *)

\* The initial state is well typed.
LEMMA InitTypeOK == Init => TypeOK
  BY NoChecksumType, TableMetaAssumption
     DEF Init, TypeOK, MetaRow, NewRow, Locals, NewLocals, PCs, KVChecksum, Origins

\* What the allocation closure assigns is well typed.
LEMMA AllocLocalsType ==
  ASSUME TypeOK, NEW t \in Tasks, NEW m \in MaxRowIDMax(t)
  PROVE  /\ m \in Nat
         /\ \A u \in Scanned(t) \ {t} : meta[u].max <= m
         /\ NewRowIDBase(t, m) \in Nat
         /\ NewStatus(t, m) \in 0..6
         /\ AllocLocals(t, m) \in Locals
         /\ AllocLocals(t, m).new = NewStatus(t, m)
         /\ AllocLocals(t, m).base = NewRowIDBase(t, m)
         /\ AllocLocals(t, m).cur = IF CurStatus(t) = 0 THEN NewStatus(t, m) ELSE CurStatus(t)
         /\ CurStatus(t) \in 0..6
<1>1. Scanned(t) \subseteq Tasks
  BY Zenon DEF Scanned, Live, TypeOK
<1>2. \A u \in Tasks : /\ meta[u].max \in Nat /\ meta[u].base \in Nat
                       /\ meta[u].status \in 0..6 /\ meta[u].ckBase \in KVChecksum
  BY Zenon DEF TypeOK, MetaRow
<1>3. m \in Nat /\ \A u \in Scanned(t) \ {t} : meta[u].max <= m
  BY <1>1, <1>2 DEF MaxRowIDMax
<1>4. /\ loc[t] \in Locals /\ loc[t].cur \in 0..6 /\ loc[t].new \in 0..6
      /\ loc[t].base \in Nat /\ nextID \in Nat \ {0}
  BY Zenon DEF TypeOK, Locals
<1>5. CurStatus(t) \in 0..6
  BY <1>2, <1>4, Zenon DEF CurStatus
<1>6. NewRowIDBase(t, m) \in Nat
  BY <1>2, <1>3, <1>4 DEF NewRowIDBase
<1>7. NewStatus(t, m) \in 0..6
  BY <1>4 DEF NewStatus
<1>8. /\ AllocLocals(t, m) \in Locals
      /\ AllocLocals(t, m).new = NewStatus(t, m)
      /\ AllocLocals(t, m).base = NewRowIDBase(t, m)
      /\ AllocLocals(t, m).cur = IF CurStatus(t) = 0 THEN NewStatus(t, m) ELSE CurStatus(t)
  BY <1>2, <1>4, <1>5, <1>6, <1>7, Zenon DEF AllocLocals, Locals
<1> QED BY <1>3, <1>5, <1>6, <1>7, <1>8, Zenon

\* What the closure of CheckAndUpdateLocalChecksum assigns is well typed.
LEMMA CheckLocalsType ==
  ASSUME TypeOK, NEW t \in Tasks
  PROVE  CheckLocals(t) \in Locals
<1> DEFINE new == IF CheckEarly(t) THEN meta[t].status
                  ELSE IF CheckSkip(t) THEN metaStatusChecksumSkipped ELSE loc[t].new
           need == IF CheckEarly(t) THEN meta[t].status = metaStatusChecksuming
                   ELSE IF CheckSkip(t) THEN FALSE ELSE loc[t].need
<1>1. loc[t] \in Locals /\ meta[t].status \in 0..6
  BY Zenon DEF TypeOK, MetaRow
<1>2. new \in 0..6
  BY <1>1 DEF Locals
<1>4. need \in BOOLEAN
  BY <1>1, Zenon DEF Locals
<1>3. CheckLocals(t) = [loc[t] EXCEPT !.new = new, !.need = need]
  BY Zenon DEF CheckLocals
<1> HIDE DEF new, need
<1> QED BY <1>1, <1>2, <1>3, <1>4, Zenon DEF Locals

\* Every transaction, crash and retry keeps the types.
LEMMA NextTypeOK == TypeOK /\ [Next]_vars => TypeOK'
<1> SUFFICES ASSUME TypeOK, [Next]_vars PROVE TypeOK'
  BY Zenon
<1> USE DEF TypeOK
<1>1. CASE UNCHANGED vars
  BY <1>1, Zenon DEF vars
<1>2. ASSUME NEW t \in Tasks, Start(t) PROVE TypeOK'
  <2>1. [NewLocals EXCEPT !.base = saved[t].base, !.ck = saved[t].ck] \in Locals
    <3>1. NewLocals \in Locals
      BY NoChecksumType DEF NewLocals, Locals
    <3>2. saved[t].base \in Nat /\ saved[t].ck \in KVChecksum
      BY Zenon
    <3> QED BY <3>1, <3>2, Zenon DEF Locals
  <2> QED BY <1>2, <2>1, Zenon DEF Start, PCs
<1>3. ASSUME NEW t \in Tasks, InitTableMeta(t) PROVE TypeOK'
  <2>1. NewRow \in MetaRow
    BY NoChecksumType DEF NewRow, MetaRow
  <2> QED BY <1>3, <2>1, Zenon DEF InitTableMeta, Goto, PCs
<1>4. ASSUME NEW t \in Tasks, AllocTableRowIDs(t) PROVE TypeOK'
  <2>1. PICK m \in MaxRowIDMax(t) :
          /\ meta' = IF CurStatus(t) = metaStatusInitial /\ t \in rows
                     THEN [meta EXCEPT ![t].base = NewRowIDBase(t, m),
                                       ![t].max = NewRowIDBase(t, m) + RawRowIDMax,
                                       ![t].status = NewStatus(t, m)]
                     ELSE meta
          /\ loc' = [loc EXCEPT ![t] = AllocLocals(t, m)]
          /\ pc' = [pc EXCEPT ![t] = IF AllocLocals(t, m).cur < metaStatusRestoreStarted
                                     THEN "baseck" ELSE "rebase"]
    BY <1>4, Zenon DEF AllocTableRowIDs
  <2>2. /\ NewRowIDBase(t, m) \in Nat /\ NewStatus(t, m) \in 0..6
        /\ AllocLocals(t, m) \in Locals
    BY AllocLocalsType, Zenon
  <2>3. meta' \in [Tasks -> MetaRow]
    <3>1. NewRowIDBase(t, m) + RawRowIDMax \in Nat
      BY <2>2, TableMetaAssumption
    <3>2. [meta[t] EXCEPT !.base = NewRowIDBase(t, m), !.max = NewRowIDBase(t, m) + RawRowIDMax,
                          !.status = NewStatus(t, m)] \in MetaRow
      BY <2>2, <3>1, RowUpdates, Zenon
    <3> QED BY <2>1, <3>2, Zenon
  <2> QED BY <1>4, <2>1, <2>2, <2>3, Zenon DEF AllocTableRowIDs, PCs
<1>5. ASSUME NEW t \in Tasks, AllocRetry(t) PROVE TypeOK'
  BY <1>5, AllocLocalsType DEF AllocRetry
<1>6. ASSUME NEW t \in Tasks, AllocFail(t) PROVE TypeOK'
  BY <1>6, Zenon DEF AllocFail, Goto, PCs
<1>7. ASSUME NEW t \in Tasks, BaseChecksum(t) PROVE TypeOK'
  <2>1. loc' \in [Tasks -> Locals]
    <3>1. /\ (IF remote # loc[t].bck THEN remote ELSE loc[t].ret) \in KVChecksum
          /\ loc[t] \in Locals
      BY Zenon DEF Locals
    <3>2. [loc[t] EXCEPT !.ret = IF remote # loc[t].bck THEN remote ELSE loc[t].ret] \in Locals
      BY <3>1, Zenon DEF Locals
    <3> QED BY <1>7, <3>2, Zenon DEF BaseChecksum
  <2> QED BY <1>7, <2>1, Zenon DEF BaseChecksum, Goto, PCs
<1>8. ASSUME NEW t \in Tasks, UpdateTableBaseChecksum(t) PROVE TypeOK'
  <2>1. meta' \in [Tasks -> MetaRow]
    <3> DEFINE ck == IF HasKVs(loc[t].ret) THEN loc[t].ret ELSE meta[t].ckBase
    <3>1. ck \in KVChecksum /\ 2 \in 0..6
      BY DEF Locals, MetaRow
    <3> HIDE DEF ck
    <3>2. [meta[t] EXCEPT !.status = 2, !.ckBase = ck] \in MetaRow
      BY <3>1, RowUpdates, Zenon
    <3> QED BY <1>8, <3>2, Zenon DEF UpdateTableBaseChecksum, ck
  <2> QED BY <1>8, <2>1, Zenon DEF UpdateTableBaseChecksum, Goto, PCs
<1>9. ASSUME NEW t \in Tasks, RebaseChunkRowIDs(t) PROVE TypeOK'
  <2>1. loc' \in [Tasks -> Locals]
    <3> DEFINE ret == IF HasKVs(loc[t].ret) THEN loc[t].ret ELSE loc[t].bck
    <3>1. ret \in KVChecksum /\ loc[t] \in Locals
      BY Zenon DEF Locals
    <3>2. loc' = [loc EXCEPT ![t] = [@ EXCEPT !.ck = ret]] \/ loc' = loc
      BY <1>9, Zenon DEF RebaseChunkRowIDs
    <3> HIDE DEF ret
    <3>3. [loc[t] EXCEPT !.ck = ret] \in Locals
      BY <3>1, Zenon DEF Locals
    <3> QED BY <3>2, <3>3, Zenon
  <2>2. pend' \in [Tasks -> [ck : BOOLEAN, checksummed : BOOLEAN]]
    <3>1. [pend[t] EXCEPT !.ck = TRUE] \in [ck : BOOLEAN, checksummed : BOOLEAN]
      BY Zenon
    <3> QED BY <1>9, <3>1, Zenon DEF RebaseChunkRowIDs
  <2> QED BY <1>9, <2>1, <2>2, Zenon DEF RebaseChunkRowIDs, Goto, PCs
<1>10. ASSUME NEW t \in Tasks, InsertEngineCheckpoints(t) PROVE TypeOK'
  <2> DEFINE S == [engines : BOOLEAN, base : Nat, ck : KVChecksum, checksummed : BOOLEAN]
  <2>1. loc[t].base \in Nat /\ TRUE \in BOOLEAN /\ saved[t] \in S
    BY Zenon DEF Locals
  <2>2. [saved[t] EXCEPT !.engines = TRUE, !.base = loc[t].base] \in S
    BY <2>1, Zenon
  <2>3. saved' \in [Tasks -> S]
    BY <1>10, <2>2, Zenon DEF InsertEngineCheckpoints
  <2> QED BY <1>10, <2>3, Zenon DEF InsertEngineCheckpoints, Goto, PCs
<1>11. ASSUME NEW t \in Tasks, ImportEngine(t) PROVE TypeOK'
  BY <1>11 DEF ImportEngine, KVChecksum, Origins
<1>12. ASSUME NEW t \in Tasks, UpdateTableStatus(t) PROVE TypeOK'
  <2>1. meta' \in [Tasks -> MetaRow]
    <3>1. [meta[t] EXCEPT !.status = 3] \in MetaRow
      <4>1. 3 \in 0..6 /\ meta[t] \in MetaRow
        OBVIOUS
      <4> QED BY <4>1, RowUpdates, Zenon
    <3> QED BY <1>12, <3>1, Zenon DEF UpdateTableStatus
  <2> QED BY <1>12, <2>1, Zenon DEF UpdateTableStatus, Goto, PCs
<1>13. ASSUME NEW t \in Tasks, AlterAutoIncrement(t) PROVE TypeOK'
  <2>1. loc' \in [Tasks -> Locals]
    <3>1. [loc[t] EXCEPT !.new = 4, !.need = TRUE] \in Locals
      <4>1. 4 \in 0..6 /\ TRUE \in BOOLEAN /\ loc[t] \in Locals
        OBVIOUS
      <4> QED BY <4>1, Zenon DEF Locals
    <3> QED BY <1>13, <3>1, Zenon DEF AlterAutoIncrement
  <2>2. nextID' \in Nat \ {0}
    BY <1>13, TableMetaAssumption DEF AlterAutoIncrement
  <2> QED BY <1>13, <2>1, <2>2, Zenon DEF AlterAutoIncrement, Goto, PCs
<1>14. ASSUME NEW t \in Tasks, CheckAndUpdateLocalChecksum(t) PROVE TypeOK'
  <2>1. CheckLocals(t) \in Locals
    BY CheckLocalsType, Zenon
  <2>2. meta' \in [Tasks -> MetaRow]
    <3>1. CheckLocals(t).new \in 0..6 /\ Chunks \in Nat
      BY <2>1, TableMetaAssumption, Zenon DEF Locals
    <3>2. [meta[t] EXCEPT !.kvs = Chunks, !.status = CheckLocals(t).new] \in MetaRow
      BY <3>1, RowUpdates, Zenon
    <3> QED BY <1>14, <3>2, Zenon DEF CheckAndUpdateLocalChecksum
  <2> QED BY <1>14, <2>1, <2>2, Zenon DEF CheckAndUpdateLocalChecksum, Goto, PCs
<1>15. ASSUME NEW t \in Tasks, CheckRetry(t) PROVE TypeOK'
  BY <1>15, CheckLocalsType DEF CheckRetry
<1>16. ASSUME NEW t \in Tasks, CheckFail(t) \/ CompareChecksum(t) PROVE TypeOK'
  BY <1>16, Zenon DEF CheckFail, CompareChecksum, Goto, PCs
<1>17. ASSUME NEW t \in Tasks, FinishTable(t) PROVE TypeOK'
  BY <1>17, Zenon DEF FinishTable, Goto, PCs
<1>18. ASSUME NEW t \in Tasks, FlushCheckpoint(t) PROVE TypeOK'
  <2>1. saved' \in [Tasks -> [engines : BOOLEAN, base : Nat, ck : KVChecksum,
                              checksummed : BOOLEAN]]
    <3> DEFINE ck == IF pend[t].ck THEN loc[t].ck ELSE saved[t].ck
               cd == saved[t].checksummed \/ pend[t].checksummed
    <3>1. ck \in KVChecksum /\ cd \in BOOLEAN
      BY Zenon DEF Locals
    <3>2. saved' = [saved EXCEPT ![t] = [@ EXCEPT !.ck = ck, !.checksummed = cd]]
      BY <1>18, Zenon DEF FlushCheckpoint
    <3> HIDE DEF ck, cd
    <3>3. [saved[t] EXCEPT !.ck = ck, !.checksummed = cd]
             \in [engines : BOOLEAN, base : Nat, ck : KVChecksum, checksummed : BOOLEAN]
      BY <3>1, Zenon
    <3> QED BY <3>2, <3>3, Zenon
  <2> QED BY <1>18, <2>1, Zenon DEF FlushCheckpoint
<1>19. ASSUME NEW t \in Tasks, Crash(t) PROVE TypeOK'
  BY <1>19 DEF Crash, PCs
<1> QED
  BY <1>1, <1>2, <1>3, <1>4, <1>5, <1>6, <1>7, <1>8, <1>9, <1>10, <1>11, <1>12,
     <1>13, <1>14, <1>15, <1>16, <1>17, <1>18, <1>19, Zenon
     DEF Next, Step

\* Every variable of the table metadata protocol keeps its type: in particular
\* AllocTableRowIDs never hands out a negative row id base.
THEOREM TypeCorrect == Spec => []TypeOK
  BY InitTypeOK, NextTypeOK, PTL DEF Spec

-----------------------------------------------------------------------------
(* The inductive invariant.                                                *)

IInv == TypeOK /\ TableMetaInv

\* The invariant holds before any task has started.
LEMMA InitIInv == Init => IInv
  BY InitTypeOK DEF Init, IInv, TableMetaInv, ProgressInv, ImportingInv, ChecksumingExcludes,
         AtMostOneChecksuming, RowRangesDisjoint, NewRow

\* A step that leaves the rows, their statuses and ranges, and what is in the
\* table alone, preserves everything but what ProgressInv says of one task.
LEMMA LocalStep ==
  ASSUME IInv, rows' = rows, meta' = meta, remote' = remote,
         \A u \in Tasks : saved'[u].engines = saved[u].engines,
         ProgressInv'
  PROVE  TableMetaInv'
  BY Zenon DEF IInv, TableMetaInv, ImportingInv, ChecksumingExcludes, AtMostOneChecksuming,
         RowRangesDisjoint, TypeOK

\* A step that changes only the status of the row of t, and neither to
\* checksuming nor from initial, keeps the ranges disjoint.
LEMMA RangesKept ==
  ASSUME IInv, rows' \subseteq rows,
         \A u \in rows' : /\ meta'[u].base = meta[u].base /\ meta'[u].max = meta[u].max
                          /\ meta[u].status >= 1 \/ meta'[u].status = meta[u].status
  PROVE  RowRangesDisjoint'
  BY Zenon DEF IInv, TableMetaInv, RowRangesDisjoint

\* The committed allocation transaction of AllocTableRowIDs keeps the invariant:
\* the base it computes lies above the ranges of all rows, and it does not run
\* while a row is checksuming.
LEMMA AllocStep ==
  ASSUME IInv, TypeOK', NEW t \in Tasks, AllocTableRowIDs(t)
  PROVE  TableMetaInv'
<1> USE DEF IInv, TableMetaInv
<1>1. PICK m \in MaxRowIDMax(t) :
        /\ meta' = IF CurStatus(t) = metaStatusInitial /\ t \in rows
                   THEN [meta EXCEPT ![t].base = NewRowIDBase(t, m),
                                     ![t].max = NewRowIDBase(t, m) + RawRowIDMax,
                                     ![t].status = NewStatus(t, m)]
                   ELSE meta
        /\ loc' = [loc EXCEPT ![t] = AllocLocals(t, m)]
        /\ pc' = [pc EXCEPT ![t] = IF AllocLocals(t, m).cur < metaStatusRestoreStarted
                                   THEN "baseck" ELSE "rebase"]
  BY Zenon DEF AllocTableRowIDs
<1>2. /\ pc[t] = "alloc" /\ ~AllocError(t) /\ rows' = rows /\ remote' = remote
      /\ saved' = saved
  BY Zenon DEF AllocTableRowIDs
<1>3. /\ t \in rows /\ ~saved[t].engines /\ loc[t].new \in {1, 2}
      /\ meta[t].status \in {0, 1, 2}
  <2>1. meta[t].status \in 0..6
    BY Zenon DEF TypeOK, MetaRow
  <2> QED BY <1>2, <2>1 DEF ProgressInv
<1>4. t \in Live /\ CurStatus(t) = meta[t].status
  BY <1>3 DEF Live, CurStatus
<1>5. rows = Live
  BY Zenon DEF ProgressInv, Live, TypeOK
<1>6. NewStatus(t, m) \in {1, 2}
  BY <1>3, Zenon DEF NewStatus
<1>7. CASE meta[t].status = 0
  <2>1. ~OwnAllocated(t) /\ Scanned(t) = rows
    BY <1>5, <1>7 DEF OwnAllocated, Scanned
  <2>2. \A u \in rows : meta[u].status # 4
    BY <1>2, <2>1, Zenon DEF AllocError
  <2>3. AllocLocals(t, m).cur = NewStatus(t, m)
    BY <1>4, <1>7, AllocLocalsType, Zenon
  <2>4. NewRowIDBase(t, m) \in Nat /\ \A u \in rows \ {t} : meta[u].max <= NewRowIDBase(t, m)
    <3>1. m \in Nat /\ NewRowIDBase(t, m) \in Nat /\ \A u \in rows \ {t} : meta[u].max <= m
      BY <2>1, AllocLocalsType, Zenon
    <3>2. NewRowIDBase(t, m) >= m
      BY <1>4, <1>7, <3>1 DEF NewRowIDBase, TypeOK
    <3> QED BY <3>1, <3>2 DEF TypeOK, MetaRow
  <2>5. /\ meta'[t].status = NewStatus(t, m)
        /\ meta'[t].base = NewRowIDBase(t, m)
        /\ meta'[t].max = NewRowIDBase(t, m) + RawRowIDMax
        /\ \A u \in Tasks \ {t} : meta'[u] = meta[u]
    BY <1>1, <1>3, <1>4, <1>7, Zenon DEF TypeOK, MetaRow
  <2>6. ProgressInv'
    BY <1>1, <1>2, <1>3, <1>6, <2>3, <2>5 DEF ProgressInv, TypeOK
  <2>7. ImportingInv'
    BY <1>2, <1>3, <2>5, Zenon DEF ImportingInv
  <2>8. ChecksumingExcludes' /\ AtMostOneChecksuming'
    <3>1. \A u \in rows : meta'[u].status # 4
      <4>1. meta'[t].status # 4
        BY <1>6, <2>5
      <4>2. \A u \in rows \ {t} : meta'[u].status = meta[u].status
        BY <2>5, Zenon DEF TypeOK
      <4> QED BY <2>2, <4>1, <4>2, Zenon
    <3> QED BY <1>2, <3>1, Zenon DEF ChecksumingExcludes, AtMostOneChecksuming
  <2>9. RowRangesDisjoint'
    <3>1. \A u \in rows \ {t} : meta'[u].max <= meta'[t].base
      BY <2>4, <2>5 DEF TypeOK
    <3> QED BY <1>2, <2>5, <3>1, Zenon DEF RowRangesDisjoint, TypeOK
  <2> QED BY <2>6, <2>7, <2>8, <2>9, Zenon
<1>8. CASE meta[t].status # 0
  <2>1. meta' = meta /\ AllocLocals(t, m).cur = meta[t].status
    BY <1>1, <1>4, <1>8, AllocLocalsType, Zenon
  <2>2. ProgressInv'
    <3>1. meta[t].status < 2 <=> meta[t].status = 1
      BY <1>3, <1>8
    <3>2. pc' = [pc EXCEPT ![t] = IF meta[t].status < 2 THEN "baseck" ELSE "rebase"]
      BY <1>1, <2>1, Zenon
    <3>3. \A u \in Tasks \ {t} : pc'[u] = pc[u] /\ loc'[u] = loc[u]
      BY <1>1, Zenon DEF TypeOK
    <3>4. pc'[t] = IF meta[t].status = 1 THEN "baseck" ELSE "rebase"
      BY <3>1, <3>2, Zenon DEF TypeOK
    <3> QED BY <1>2, <1>3, <1>8, <2>1, <3>3, <3>4 DEF ProgressInv
  <2> QED BY <1>2, <2>1, <2>2, LocalStep, Zenon
<1> QED BY <1>7, <1>8, Zenon

\* The committed transaction of CheckAndUpdateLocalChecksum keeps the invariant:
\* it makes a row checksuming only when all others are checksum_skipped.
LEMMA CheckStep ==
  ASSUME IInv, TypeOK', NEW t \in Tasks, CheckAndUpdateLocalChecksum(t)
  PROVE  TableMetaInv'
<1> USE DEF IInv, TableMetaInv
<1>1. /\ ~CheckError(t) /\ pc[t] = "check" /\ rows' = rows /\ remote' = remote
      /\ saved' = saved /\ pc' = [pc EXCEPT ![t] = IF CheckLocals(t).need
                                                   THEN "compare" ELSE "done"]
      /\ loc' = [loc EXCEPT ![t] = CheckLocals(t)]
      /\ meta' = IF CheckEarly(t) \/ t \notin rows THEN meta
                 ELSE [meta EXCEPT ![t].kvs = Chunks, ![t].status = CheckLocals(t).new]
  BY Zenon DEF CheckAndUpdateLocalChecksum, Goto
<1>2. saved[t].engines /\ loc[t].new \in {4, 5}
  BY <1>1, Zenon DEF ProgressInv
<1>3. CASE CheckEarly(t) \/ t \notin rows
  <2>1. ProgressInv'
    BY <1>1, <1>2, <1>3 DEF ProgressInv, TypeOK
  <2> QED BY <1>1, <1>3, <2>1, LocalStep, Zenon
<1>4. CASE ~CheckEarly(t) /\ t \in rows
  <2>1. CheckLocals(t).new = IF CheckSkip(t) THEN 5 ELSE loc[t].new
    BY <1>4 DEF CheckLocals, TypeOK, Locals
  <2>2. CheckLocals(t).new \in {4, 5}
    BY <1>2, <2>1, Zenon
  <2>3. CheckLocals(t).new = 4 => \A u \in rows \ {t} : meta[u].status = 5
    BY <1>1, <1>4, <2>1, LastOneStands
  <2>4. /\ meta'[t].status = CheckLocals(t).new
        /\ meta'[t].base = meta[t].base /\ meta'[t].max = meta[t].max
        /\ \A u \in Tasks \ {t} : meta'[u] = meta[u]
    BY <1>1, <1>4, Zenon DEF TypeOK, MetaRow
  <2>5. remote[t] = Chunks /\ meta[t].status >= 1
    BY <1>1, <1>2, <1>4, Zenon DEF ProgressInv
  <2>6. ProgressInv'
    BY <1>1, <1>2, <2>2, <2>4 DEF ProgressInv, TypeOK
  <2>7. ImportingInv'
    BY <1>1, <2>4, <2>5, Zenon DEF ImportingInv
  <2>8. ChecksumingExcludes' /\ AtMostOneChecksuming'
    <3>1. CASE CheckLocals(t).new = 4
      BY <1>1, <2>3, <2>4, <3>1 DEF ChecksumingExcludes, AtMostOneChecksuming, TypeOK
    <3>2. CASE CheckLocals(t).new = 5
      BY <1>1, <2>4, <3>2 DEF ChecksumingExcludes, AtMostOneChecksuming, TypeOK
    <3> QED BY <2>2, <3>1, <3>2, Zenon
  <2>9. RowRangesDisjoint'
    <3>1. \A u \in rows' : /\ meta'[u].base = meta[u].base /\ meta'[u].max = meta[u].max
                           /\ meta[u].status >= 1 \/ meta'[u].status = meta[u].status
      BY <1>1, <2>4, <2>5, Zenon DEF TypeOK
    <3> QED BY <1>1, <3>1, RangesKept, Zenon
  <2> QED BY <2>6, <2>7, <2>8, <2>9, Zenon
<1> QED BY <1>3, <1>4, Zenon

\* Every step of every task keeps the invariant.
LEMMA NextIInv == IInv /\ [Next]_vars => IInv'
<1> SUFFICES ASSUME IInv, [Next]_vars PROVE IInv'
  BY Zenon
<1> USE DEF IInv
<1>0. TypeOK'
  BY NextTypeOK, Zenon
<1>1. CASE UNCHANGED vars
  BY <1>0, <1>1, Zenon DEF vars, TableMetaInv, ProgressInv, ImportingInv, ChecksumingExcludes,
         AtMostOneChecksuming, RowRangesDisjoint
<1>2. ASSUME NEW t \in Tasks, Start(t) PROVE IInv'
  <2>1. ProgressInv'
    BY <1>2, Zenon DEF Start, NewLocals, TableMetaInv, ProgressInv, TypeOK
  <2> QED BY <1>0, <1>2, <2>1, LocalStep, Zenon DEF Start
<1>3. ASSUME NEW t \in Tasks, InitTableMeta(t) PROVE IInv'
  <2>1. /\ rows' = rows \cup {t} /\ t \in rows'
        /\ \A u \in Tasks \ {t} : meta'[u] = meta[u]
        /\ \A u \in rows : meta'[u] = meta[u]
        /\ t \notin rows => meta'[t].status = 0
    BY <1>3, Zenon DEF InitTableMeta, NewRow, TypeOK
  <2>2. ~saved[t].engines
    BY <1>3, Zenon DEF InitTableMeta, Goto, TableMetaInv, ProgressInv
  <2>3. ProgressInv'
    BY <1>3, <2>1, <2>2 DEF InitTableMeta, Goto, TableMetaInv, ProgressInv, TypeOK
  <2>4. ImportingInv' /\ ChecksumingExcludes' /\ AtMostOneChecksuming' /\ RowRangesDisjoint'
    BY <1>3, <2>1, <2>2 DEF InitTableMeta, TableMetaInv, ImportingInv, ChecksumingExcludes,
           AtMostOneChecksuming, RowRangesDisjoint, TypeOK
  <2> QED BY <1>0, <2>3, <2>4, Zenon DEF TableMetaInv
<1>4. ASSUME NEW t \in Tasks, AllocTableRowIDs(t) PROVE IInv'
  BY <1>0, <1>4, AllocStep, Zenon
<1>5. ASSUME NEW t \in Tasks, AllocRetry(t) PROVE IInv'
  <2>1. PICK m \in MaxRowIDMax(t) : loc' = [loc EXCEPT ![t] = AllocLocals(t, m)]
    BY <1>5, Zenon DEF AllocRetry
  <2>2. NewStatus(t, m) \in {1, 2}
    BY <1>5, Zenon DEF AllocRetry, NewStatus, TableMetaInv, ProgressInv
  <2>3. loc'[t].new \in {1, 2} /\ \A u \in Tasks \ {t} : loc'[u] = loc[u]
    BY <2>1, <2>2, AllocLocalsType, Zenon DEF TypeOK
  <2>4. ProgressInv'
    BY <1>5, <2>3, Zenon DEF AllocRetry, TableMetaInv, ProgressInv, TypeOK
  <2> QED BY <1>0, <1>5, <2>4, LocalStep, Zenon DEF AllocRetry
<1>6. ASSUME NEW t \in Tasks, AllocFail(t) \/ CheckFail(t) \/ CompareChecksum(t) PROVE IInv'
  <2>0. /\ pc[t] \in {"alloc", "check", "compare"} /\ pc'[t] \in {"failed", "finish", "invalid"}
        /\ pc'[t] = "finish" => pc[t] = "compare"
        /\ \A u \in Tasks \ {t} : pc'[u] = pc[u]
        /\ UNCHANGED <<rows, meta, remote, loc, saved>>
    BY <1>6, Zenon DEF AllocFail, CheckFail, CompareChecksum, Goto, TypeOK
  <2>1. ProgressInv'
    BY <2>0, Zenon DEF TableMetaInv, ProgressInv
  <2> QED BY <1>0, <1>6, <2>1, LocalStep, Zenon DEF AllocFail, CheckFail, CompareChecksum
<1>7. ASSUME NEW t \in Tasks, BaseChecksum(t) PROVE IInv'
  <2>1. ProgressInv'
    BY <1>7, Zenon DEF BaseChecksum, Goto, TableMetaInv, ProgressInv, TypeOK
  <2> QED BY <1>0, <1>7, <2>1, LocalStep, Zenon DEF BaseChecksum
<1>8. ASSUME NEW t \in Tasks, UpdateTableBaseChecksum(t) PROVE IInv'
  <2>1. t \in rows /\ meta[t].status = 1 /\ ~saved[t].engines
    BY <1>8, Zenon DEF UpdateTableBaseChecksum, Goto, TableMetaInv, ProgressInv
  <2>2. /\ meta'[t].status = 2 /\ meta'[t].base = meta[t].base /\ meta'[t].max = meta[t].max
        /\ \A u \in Tasks \ {t} : meta'[u] = meta[u]
        /\ rows' = rows /\ remote' = remote /\ saved' = saved
    BY <1>8, <2>1 DEF UpdateTableBaseChecksum, TypeOK, MetaRow
  <2>3. ProgressInv'
    BY <1>8, <2>1, <2>2 DEF UpdateTableBaseChecksum, Goto, TableMetaInv, ProgressInv, TypeOK
  <2>4. ImportingInv' /\ ChecksumingExcludes' /\ AtMostOneChecksuming'
    <3>1. ImportingInv'
      BY <2>1, <2>2, Zenon DEF TableMetaInv, ImportingInv
    <3>2. \A u \in rows \ {t} : meta'[u].status = meta[u].status
      BY <2>2, Zenon DEF TypeOK
    <3>3. ChecksumingExcludes'
      BY <2>1, <2>2, <3>2 DEF TableMetaInv, ChecksumingExcludes
    <3>4. AtMostOneChecksuming'
      BY <2>1, <2>2, <3>2 DEF TableMetaInv, AtMostOneChecksuming
    <3> QED BY <3>1, <3>3, <3>4, Zenon
  <2>5. RowRangesDisjoint'
    BY <2>1, <2>2, RangesKept DEF TypeOK
  <2> QED BY <1>0, <2>3, <2>4, <2>5, Zenon DEF TableMetaInv
<1>9. ASSUME NEW t \in Tasks, RebaseChunkRowIDs(t) PROVE IInv'
  <2>1. ProgressInv'
    BY <1>9 DEF RebaseChunkRowIDs, Goto, TableMetaInv, ProgressInv, TypeOK
  <2> QED BY <1>0, <1>9, <2>1, LocalStep, Zenon DEF RebaseChunkRowIDs
<1>10. ASSUME NEW t \in Tasks, InsertEngineCheckpoints(t) PROVE IInv'
  <2>1. t \in rows /\ meta[t].status = 2
    BY <1>10, Zenon DEF InsertEngineCheckpoints, Goto, TableMetaInv, ProgressInv
  <2>2. saved'[t].engines /\ \A u \in Tasks \ {t} : saved'[u] = saved[u]
    BY <1>10, Zenon DEF InsertEngineCheckpoints, TypeOK
  <2>3. ProgressInv'
    BY <1>10, <2>1, <2>2 DEF InsertEngineCheckpoints, Goto, TableMetaInv, ProgressInv, TypeOK
  <2>4. ImportingInv' /\ ChecksumingExcludes' /\ AtMostOneChecksuming' /\ RowRangesDisjoint'
    BY <1>10, <2>1, <2>2, Zenon DEF InsertEngineCheckpoints, TableMetaInv, ImportingInv,
           ChecksumingExcludes, AtMostOneChecksuming, RowRangesDisjoint
  <2> QED BY <1>0, <2>3, <2>4, Zenon DEF TableMetaInv
<1>11. ASSUME NEW t \in Tasks, ImportEngine(t) PROVE IInv'
  <2>1. \A u \in Tasks \ {t} : remote'[u] = remote[u]
    BY <1>11, Zenon DEF ImportEngine, TypeOK, KVChecksum, Origins
  <2>2. pc[t] = "restore" /\ remote[t] # Chunks /\ saved[t].engines
    BY <1>11, TableMetaAssumption
       DEF ImportEngine, TableMetaInv, ProgressInv, TypeOK, KVChecksum, Origins
  <2>3. ProgressInv'
    BY <1>11, <2>1, <2>2 DEF ImportEngine, TableMetaInv, ProgressInv
  <2>4. ImportingInv' /\ ChecksumingExcludes' /\ AtMostOneChecksuming' /\ RowRangesDisjoint'
    BY <1>11, <2>1, <2>2, Zenon DEF ImportEngine, TableMetaInv, ImportingInv, ChecksumingExcludes,
           AtMostOneChecksuming, RowRangesDisjoint
  <2> QED BY <1>0, <2>3, <2>4, Zenon DEF TableMetaInv
<1>12. ASSUME NEW t \in Tasks, UpdateTableStatus(t) PROVE IInv'
  <2>1. saved[t].engines /\ remote[t] = Chunks /\ (t \in rows => meta[t].status >= 1)
    BY <1>12, Zenon DEF UpdateTableStatus, Goto, TableMetaInv, ProgressInv
  <2>2. /\ t \in rows => meta'[t].status = 3
        /\ meta'[t].status \in {3, meta[t].status}
        /\ meta'[t].base = meta[t].base /\ meta'[t].max = meta[t].max
        /\ \A u \in Tasks \ {t} : meta'[u] = meta[u]
        /\ rows' = rows /\ remote' = remote /\ saved' = saved
    BY <1>12, Zenon DEF UpdateTableStatus, TypeOK, MetaRow
  <2>3. ProgressInv'
    BY <1>12, <2>1, <2>2 DEF UpdateTableStatus, Goto, TableMetaInv, ProgressInv, TypeOK
  <2>4. ImportingInv' /\ ChecksumingExcludes' /\ AtMostOneChecksuming'
    <3>1. ImportingInv'
      BY <2>1, <2>2, Zenon DEF TableMetaInv, ImportingInv
    <3>2. \A u \in rows \ {t} : meta'[u].status = meta[u].status
      BY <2>2, Zenon DEF TypeOK
    <3>3. ChecksumingExcludes'
      BY <2>1, <2>2, <3>2 DEF TableMetaInv, ChecksumingExcludes
    <3>4. AtMostOneChecksuming'
      BY <2>1, <2>2, <3>2 DEF TableMetaInv, AtMostOneChecksuming
    <3> QED BY <3>1, <3>3, <3>4, Zenon
  <2>5. RowRangesDisjoint'
    BY <2>1, <2>2, RangesKept, Zenon DEF TypeOK
  <2> QED BY <1>0, <2>3, <2>4, <2>5, Zenon DEF TableMetaInv
<1>13. ASSUME NEW t \in Tasks, AlterAutoIncrement(t) PROVE IInv'
  <2>1. loc'[t].new = 4 /\ \A u \in Tasks \ {t} : loc'[u] = loc[u]
    BY <1>13, Zenon DEF AlterAutoIncrement, TypeOK, Locals
  <2>2. ProgressInv'
    BY <1>13, <2>1 DEF AlterAutoIncrement, Goto, TableMetaInv, ProgressInv, TypeOK
  <2> QED BY <1>0, <1>13, <2>2, LocalStep, Zenon DEF AlterAutoIncrement
<1>14. ASSUME NEW t \in Tasks, CheckAndUpdateLocalChecksum(t) PROVE IInv'
  BY <1>0, <1>14, CheckStep, Zenon
<1>15. ASSUME NEW t \in Tasks, CheckRetry(t) PROVE IInv'
  <2>1. loc'[t] = CheckLocals(t) /\ \A u \in Tasks \ {t} : loc'[u] = loc[u]
    BY <1>15, Zenon DEF CheckRetry, TypeOK
  <2>2. CheckLocals(t).new \in {4, 5}
    <3>1. CheckLocals(t).new = IF CheckEarly(t) THEN meta[t].status
                               ELSE IF CheckSkip(t) THEN 5 ELSE loc[t].new
      BY Zenon DEF CheckLocals, TypeOK, Locals
    <3>2. loc[t].new \in {4, 5} /\ meta[t].status < 6 /\ meta[t].status \in 0..6
      BY <1>15, Zenon DEF CheckRetry, TableMetaInv, ProgressInv, TypeOK, MetaRow
    <3>3. CheckEarly(t) => meta[t].status >= 4
      BY Zenon DEF CheckEarly, StopsAt, Stops
    <3> QED BY <3>1, <3>2, <3>3
  <2>3. ProgressInv'
    BY <1>15, <2>1, <2>2, Zenon DEF CheckRetry, TableMetaInv, ProgressInv
  <2> QED BY <1>0, <1>15, <2>3, LocalStep, Zenon DEF CheckRetry
<1>16. ASSUME NEW t \in Tasks, FinishTable(t) PROVE IInv'
  <2>1. /\ rows' \subseteq rows /\ meta' = meta /\ remote' = remote /\ saved' = saved
        /\ \A u \in rows : meta[u].status \notin {4, 5} => u \in rows'
    BY <1>16, Zenon DEF FinishTable
  <2>2. ProgressInv'
    <3>1. \A u \in Tasks : pc[u] \in {"alloc", "baseck", "baseupd", "rebase", "engines"}
            => u \in rows'
      <4>1. \A u \in Tasks : pc[u] \in {"alloc", "baseck", "baseupd", "rebase", "engines"}
              => u \in rows /\ ~saved[u].engines /\ meta[u].status <= 2
        BY Zenon DEF TableMetaInv, ProgressInv, TypeOK
      <4> QED BY <2>1, <4>1
    <3> QED BY <1>16, <2>1, <3>1 DEF FinishTable, Goto, TableMetaInv, ProgressInv, TypeOK
  <2>3. ImportingInv' /\ ChecksumingExcludes' /\ AtMostOneChecksuming'
    BY <2>1 DEF TableMetaInv, ImportingInv, ChecksumingExcludes, AtMostOneChecksuming
  <2>4. RowRangesDisjoint'
    BY <2>1, RangesKept, Zenon
  <2> QED BY <1>0, <2>2, <2>3, <2>4, Zenon DEF TableMetaInv
<1>17. ASSUME NEW t \in Tasks, FlushCheckpoint(t) PROVE IInv'
  <2>1. \A u \in Tasks : saved'[u].engines = saved[u].engines
    BY <1>17, Zenon DEF FlushCheckpoint, TypeOK
  <2>2. ProgressInv'
    <3>1. UNCHANGED <<rows, meta, remote, pc, loc>>
      BY <1>17, Zenon DEF FlushCheckpoint
    <3> QED BY <2>1, <3>1, Zenon DEF TableMetaInv, ProgressInv
  <2> QED BY <1>0, <1>17, <2>1, <2>2, LocalStep, Zenon DEF FlushCheckpoint
<1>18. ASSUME NEW t \in Tasks, Crash(t) PROVE IInv'
  <2>1. ProgressInv'
    BY <1>18, Zenon DEF Crash, TableMetaInv, ProgressInv, TypeOK
  <2> QED BY <1>0, <1>18, <2>1, LocalStep, Zenon DEF Crash
<1> QED
  BY <1>1, <1>2, <1>3, <1>4, <1>5, <1>6, <1>7, <1>8, <1>9, <1>10, <1>11, <1>12,
     <1>13, <1>14, <1>15, <1>16, <1>17, <1>18, Zenon
     DEF Next, Step

\* The inductive invariant holds in every reachable state.
THEOREM Invariance == Spec => [](TypeOK /\ TableMetaInv)
  BY InitIInv, NextIInv, PTL DEF Spec, IInv

\* No interleaving of restoreTable and postProcess, crash, restart or retried
\* transaction makes two rows checksuming.
THEOREM OneChecksuming == Spec => []AtMostOneChecksuming
  BY Invariance, PTL DEF IInv, TableMetaInv

\* AllocTableRowIDs never gives overlapping ranges to two tasks whose rows are
\* in the table at the same time.
THEOREM RangesDisjoint == Spec => []RowRangesDisjoint
  BY Invariance, PTL DEF IInv, TableMetaInv

\* No data is added to the table while a row is checksuming.
THEOREM Frozen == Spec => FrozenWhileChecksuming
<1>1. IInv /\ [Next]_vars =>
        [(\E t \in rows : meta[t].status = metaStatusChecksuming) => remote' = remote]_vars
  <2> SUFFICES ASSUME IInv, [Next]_vars,
                      NEW c \in rows, meta[c].status = metaStatusChecksuming
               PROVE  remote' = remote
    BY Zenon DEF vars
  <2>1. \A t \in Tasks : ~ImportEngine(t)
    <3> SUFFICES ASSUME NEW t \in Tasks, ImportEngine(t) PROVE FALSE
      BY Zenon
    <3>1. saved[t].engines /\ remote[t] # Chunks
      BY TableMetaAssumption
         DEF ImportEngine, IInv, TableMetaInv, ProgressInv, TypeOK, KVChecksum, Origins
    <3>2. t \in rows /\ meta[t].status = metaStatusRestoreStarted
      BY <3>1, Zenon DEF IInv, TableMetaInv, ImportingInv
    <3> QED BY <3>2, Zenon DEF IInv, TableMetaInv, ChecksumingExcludes
  <2>2. ASSUME NEW t \in Tasks,
               \/ Start(t) \/ InitTableMeta(t) \/ AllocTableRowIDs(t) \/ AllocRetry(t) \/ AllocFail(t)
        PROVE  remote' = remote
    BY <2>2, Zenon DEF Start, InitTableMeta, AllocTableRowIDs, AllocRetry, AllocFail
  <2>3. ASSUME NEW t \in Tasks,
               \/ BaseChecksum(t) \/ UpdateTableBaseChecksum(t) \/ RebaseChunkRowIDs(t)
               \/ InsertEngineCheckpoints(t) \/ UpdateTableStatus(t) \/ AlterAutoIncrement(t)
        PROVE  remote' = remote
    BY <2>3, Zenon DEF BaseChecksum, UpdateTableBaseChecksum, RebaseChunkRowIDs,
           InsertEngineCheckpoints, UpdateTableStatus, AlterAutoIncrement
  <2>4. ASSUME NEW t \in Tasks,
               \/ CheckAndUpdateLocalChecksum(t) \/ CheckRetry(t) \/ CheckFail(t) \/ CompareChecksum(t)
        PROVE  remote' = remote
    BY <2>4, Zenon DEF CheckAndUpdateLocalChecksum, CheckRetry, CheckFail, CompareChecksum
  <2>5. ASSUME NEW t \in Tasks, FinishTable(t) \/ FlushCheckpoint(t) \/ Crash(t)
        PROVE  remote' = remote
    BY <2>5, Zenon DEF FinishTable, FlushCheckpoint, Crash
  <2>6. CASE UNCHANGED vars
    BY <2>6, Zenon DEF vars
  <2> QED BY <2>1, <2>2, <2>3, <2>4, <2>5, <2>6, Zenon DEF Next, Step
<1> QED BY <1>1, Invariance, PTL DEF Spec, IInv, FrozenWhileChecksuming

=============================================================================
