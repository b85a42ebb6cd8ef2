------------------------ MODULE TableMetaSafeProofs ------------------------
(***************************************************************************)
(* Row ids and the cleanup, for any set of tasks: SafeInv is inductive     *)
(* together with the invariant of TableMetaProofs.                         *)
(***************************************************************************)
EXTENDS TableMetaProofs

\* The seven statuses are the numbers the code compares.
USE DEF metaStatusInitial, metaStatusRowIDAllocated, metaStatusRestoreStarted,
        metaStatusRestoreFinished, metaStatusChecksuming,
        metaStatusChecksumSkipped, metaStatusFinished

-----------------------------------------------------------------------------
(* The invariant.                                                          *)

\* While no commit is retried, the status of a row says what its task has done,
\* also after a crash: the task that compares is checksuming, one that is done is
\* skipped or has deleted its row, and skipped rows are never left alone.
CleanupTask(t) ==
    /\ saved[t].checksummed \/ pend[t].checksummed => t \notin rows /\ saved[t].engines
    /\ pc[t] = "check" => loc[t].new = metaStatusChecksuming /\ loc[t].need
    /\ t \in rows =>
         /\ pc[t] \in {"alter", "check"} => meta[t].status = metaStatusRestoreFinished
         /\ pc[t] \in {"compare", "finish"} => meta[t].status = metaStatusChecksuming
         /\ pc[t] = "done" /\ Checksum # "off" => meta[t].status = metaStatusChecksumSkipped
SkippedNotAlone == rows # {} => \E t \in rows : meta[t].status # metaStatusChecksumSkipped
CleanupInv == retries = 0 => SkippedNotAlone /\ \A t \in Tasks : CleanupTask(t)

\* If in addition no process died after it was done with the table, the task that
\* compares and finishes has its row, so that nobody joins meanwhile and the rows
\* it deletes are those of tasks that are done.
DoneTask(t) ==
    /\ saved[t].checksummed \/ pend[t].checksummed => pc[t] = "done"
    /\ saved[t].engines /\ t \notin rows => pc[t] = "done"
    /\ t \in rows /\ meta[t].status = metaStatusChecksumSkipped => pc[t] = "done"
NoneBeside ==
    \A t, u \in rows : meta[t].status = metaStatusChecksuming =>
        meta[u].status # metaStatusRestoreFinished
DoneInv == retries = 0 /\ redone = 0 => NoneBeside /\ \A t \in Tasks : DoneTask(t)

\* Where the row ids of a task are known to the others: in its row, and once that
\* row may be deleted in the next row id of the table as well.  A row that is
\* deleted leaves no allocated row behind, so later ranges start above it.
Given(t) == t \in rows /\ meta[t].status # metaStatusInitial
MayBeDeleted(t) ==
    \/ t \notin rows \/ pc[t] \in {"check", "compare", "finish"}
    \/ meta[t].status \in {metaStatusChecksuming, metaStatusChecksumSkipped}
RowIDTask(t) ==
    /\ t \in rows /\ ~Given(t) => meta[t].max = 0
    /\ Given(t) => meta[t].max = meta[t].base + RawRowIDMax /\ meta[t].base >= remote[0]
    /\ pc[t] \in {"baseck", "baseupd", "rebase", "engines"} => loc[t].base = meta[t].base
    /\ saved[t].engines /\ t \in rows => saved[t].base = meta[t].base
    /\ saved[t].engines /\ MayBeDeleted(t) => nextID > saved[t].base + UsedRowIDs
Above(t, u) ==
    saved[t].engines /\ t \notin rows /\ Given(u) => meta[u].base >= saved[t].base + UsedRowIDs
RowIDInv ==
    NeedAutoID /\ retries = 0 /\ redone = 0 =>
        /\ nextID > remote[0]
        /\ \A t \in Tasks : RowIDTask(t)
        /\ \A t, u \in Tasks : Above(t, u)

SafeInv == CleanupInv /\ DoneInv /\ RowIDInv /\ UsedRowIDsDisjoint

-----------------------------------------------------------------------------
(* What a step of one task has to show.                                    *)

\* Before any task has started there is nothing to say.
LEMMA InitSafe == Init => SafeInv
<1> SUFFICES ASSUME Init PROVE SafeInv
  BY Zenon
<1>1. /\ rows = {} /\ nextID > remote[0]
      /\ \A t \in Tasks : pc[t] = "down" /\ ~saved[t].engines /\ ~saved[t].checksummed /\ ~pend[t].checksummed
  BY TableMetaAssumption DEF Init, Origins
<1> QED BY <1>1, Zenon DEF SafeInv, CleanupInv, DoneInv, RowIDInv, UsedRowIDsDisjoint,
               SkippedNotAlone, CleanupTask, NoneBeside, DoneTask, RowIDTask, Above, Given

\* The types the proofs need.
LEMMA Types ==
  ASSUME IInv
  PROVE  /\ rows \subseteq Tasks /\ nextID \in Nat /\ remote[0] \in Nat
         /\ retries \in Nat /\ redone \in Nat
         /\ RawRowIDMax \in Nat /\ UsedRowIDs \in Nat /\ UsedRowIDs <= RawRowIDMax
         /\ \A u \in Tasks : /\ meta[u].status \in 0..5 /\ meta[u].base \in Nat /\ meta[u].max \in Nat
                             /\ saved[u].base \in Nat
<1>1. rows \subseteq Tasks /\ nextID \in Nat /\ remote[0] \in Nat /\ retries \in Nat /\ redone \in Nat
  BY Zenon DEF IInv, TypeOK, KVChecksum, Origins
<1>2. \A u \in Tasks : /\ meta[u].status \in 0..6 /\ meta[u].base \in Nat /\ meta[u].max \in Nat
                       /\ saved[u].base \in Nat
  BY Zenon DEF IInv, TypeOK, MetaRow
<1>3. \A u \in Tasks : meta[u].status < 6
  BY Zenon DEF IInv, TableMetaInv, ProgressInv
<1>4. RawRowIDMax \in Nat /\ UsedRowIDs \in Nat /\ UsedRowIDs <= RawRowIDMax
  <2>1. RawRowIDMax \in Nat /\ UsedRowIDs \in 0..RawRowIDMax
    BY TableMetaAssumption, Zenon
  <2> QED BY <2>1
<1>5. \A u \in Tasks : meta[u].status \in 0..5
  BY <1>2, <1>3
<1> QED BY <1>1, <1>2, <1>4, <1>5, Zenon

\* What the place of a task says of its row (ProgressInv).
LEMMA Progress ==
  ASSUME IInv, NEW t \in Tasks
  PROVE  /\ pc[t] \in {"init", "alloc"} => ~saved[t].engines /\ loc[t].new \in {1, 2}
         /\ pc[t] \in {"alloc", "baseck", "baseupd", "rebase", "engines"} => t \in rows
         /\ pc[t] \in {"baseck", "baseupd"} => meta[t].status = 1
         /\ pc[t] \in {"rebase", "engines"} => meta[t].status = 2
         /\ pc[t] \in {"baseck", "baseupd", "rebase", "engines"} => ~saved[t].engines
         /\ pc[t] \in {"restore", "alter", "check", "compare", "finish"} => saved[t].engines
         /\ t \in rows /\ saved[t].engines => meta[t].status # 0
         /\ t \in rows /\ ~saved[t].engines => meta[t].status \in {0, 1, 2}
<1>1. meta[t].status \in 0..5
  BY Types, Zenon
<1> QED BY <1>1 DEF IInv, TableMetaInv, ProgressInv

\* A step of task t keeps CleanupInv, DoneInv or RowIDInv when it keeps what they say of t
\* and of the others.
LEMMA CleanupKept ==
  ASSUME SafeInv, NEW t \in Tasks, retries' = retries,
         \A u \in Tasks \ {t} : retries = 0 /\ CleanupTask(u) => CleanupTask(u)',
         retries = 0 /\ CleanupTask(t) => CleanupTask(t)',
         retries = 0 /\ SkippedNotAlone => SkippedNotAlone'
  PROVE  CleanupInv'
BY Zenon DEF SafeInv, CleanupInv

\* ... and DoneInv,
LEMMA DoneKept ==
  ASSUME SafeInv, NEW t \in Tasks, retries' = retries, redone' = 0 => redone = 0,
         \A u \in Tasks \ {t} : retries = 0 /\ redone' = 0 /\ DoneTask(u) => DoneTask(u)',
         retries = 0 /\ redone' = 0 /\ DoneTask(t) => DoneTask(t)',
         retries = 0 /\ redone' = 0 /\ NoneBeside => NoneBeside'
  PROVE  DoneInv'
BY Zenon DEF SafeInv, DoneInv

\* ... and RowIDInv.
LEMMA RowIDKept ==
  ASSUME SafeInv, NEW t \in Tasks, retries' = retries, redone' = 0 => redone = 0,
         NeedAutoID /\ retries = 0 /\ redone' = 0 =>
           /\ nextID > remote[0] => nextID' > remote'[0]
           /\ \A u \in Tasks \ {t} : RowIDTask(u) => RowIDTask(u)'
           /\ RowIDTask(t) => RowIDTask(t)'
           /\ \A u, v \in Tasks : Above(u, v) => Above(u, v)'
  PROVE  RowIDInv'
BY Zenon DEF SafeInv, RowIDInv

\* A step that saves no engines keeps the used row ids apart.
LEMMA UsedKept ==
  ASSUME SafeInv, retries' = retries, redone' = 0 => redone = 0, remote'[0] = remote[0],
         \A u \in Tasks : saved'[u].engines = saved[u].engines /\ saved'[u].base = saved[u].base
  PROVE  UsedRowIDsDisjoint'
BY Zenon DEF SafeInv, UsedRowIDsDisjoint

\* A step that leaves the rows of table_meta, what was in the table before, the next row
\* id and the saved engines alone keeps all of RowIDInv, unless the task moves to a place
\* that says something of the row ids.
LEMMA RowIDsStay ==
  ASSUME IInv, SafeInv, NEW t \in Tasks, rows' = rows, meta' = meta, remote'[0] = remote[0],
         nextID' = nextID, retries' = retries, redone' = 0 => redone = 0,
         \A u \in Tasks : saved'[u].engines = saved[u].engines /\ saved'[u].base = saved[u].base,
         \A u \in Tasks \ {t} : pc'[u] = pc[u] /\ loc'[u] = loc[u],
         pc'[t] \in {"baseck", "baseupd", "rebase", "engines"} =>
           pc[t] \in {"baseck", "baseupd", "rebase", "engines"} /\ loc'[t].base = loc[t].base,
         pc'[t] \in {"check", "compare", "finish"} => pc[t] \in {"check", "compare", "finish"}
  PROVE  RowIDInv' /\ UsedRowIDsDisjoint'
<1>1. UsedRowIDsDisjoint'
  BY UsedKept, Zenon
<1>2. \A u \in Tasks : Given(u)' <=> Given(u)
  BY Zenon DEF Given
<1>3. \A u \in Tasks \ {t} : RowIDTask(u) => RowIDTask(u)'
  BY <1>2 DEF RowIDTask, MayBeDeleted
<1>4. RowIDTask(t) => RowIDTask(t)'
  BY <1>2, Zenon DEF RowIDTask, MayBeDeleted
<1>5. \A u, v \in Tasks : Above(u, v) => Above(u, v)'
  BY <1>2, Zenon DEF Above
<1> QED BY <1>1, <1>3, <1>4, <1>5, RowIDKept, Zenon

\* A step that changes neither the rows nor what is saved keeps CleanupInv and DoneInv,
\* unless the task moves to a place that says more of its row.
LEMMA MovesKeep ==
  ASSUME SafeInv, NEW t \in Tasks, rows' = rows, meta' = meta, retries' = retries,
         redone' = 0 => redone = 0,
         \A u \in Tasks : /\ saved'[u].engines = saved[u].engines
                          /\ saved'[u].checksummed \/ pend'[u].checksummed =>
                               saved[u].checksummed \/ pend[u].checksummed,
         \A u \in Tasks \ {t} : pc'[u] = pc[u] /\ loc'[u] = loc[u],
         \/ pc'[t] = pc[t] /\ loc'[t] = loc[t]
         \/ /\ pc'[t] \notin {"alter", "check", "done"}
            /\ pc'[t] \in {"compare", "finish"} => pc[t] \in {"compare", "finish"}
            /\ pc[t] = "done" => redone' # 0
  PROVE  CleanupInv' /\ DoneInv'
<1>1. \A u \in Tasks \ {t} : CleanupTask(u) => CleanupTask(u)'
  BY Zenon DEF CleanupTask
<1>2. CleanupTask(t) => CleanupTask(t)'
  BY Zenon DEF CleanupTask
<1>3. SkippedNotAlone => SkippedNotAlone'
  BY Zenon DEF SkippedNotAlone
<1>4. \A u \in Tasks \ {t} : DoneTask(u) => DoneTask(u)'
  BY Zenon DEF DoneTask
<1>5. redone' = 0 /\ DoneTask(t) => DoneTask(t)'
  BY Zenon DEF DoneTask
<1>6. NoneBeside => NoneBeside'
  BY Zenon DEF NoneBeside
<1> QED BY <1>1, <1>2, <1>3, <1>4, <1>5, <1>6, CleanupKept, DoneKept, Zenon

-----------------------------------------------------------------------------
(* The steps.                                                              *)

\* A task that starts, or starts again, is at no place SafeInv says anything of.
LEMMA StartSafe ==
  ASSUME IInv, SafeInv, NEW t \in Tasks, Start(t)
  PROVE  SafeInv'
<1>0. /\ pc' = [pc EXCEPT ![t] = IF saved[t].engines THEN "restore" ELSE "init"]
      /\ loc' = [loc EXCEPT ![t] = [NewLocals EXCEPT !.base = saved[t].base, !.ck = saved[t].ck]]
      /\ UNCHANGED <<rows, meta, remote, nextID, saved, pend, retries, crashes, redone>>
  BY Zenon DEF Start
<1>1. PICK l : loc' = [loc EXCEPT ![t] = l]
  BY <1>0, Zenon
<1>2. pc[t] \in {"down", "failed"}
  BY Zenon DEF Start
<1>3. PICK p \in {"restore", "init"} : pc' = [pc EXCEPT ![t] = p]
  BY <1>0, Zenon
<1>4. /\ pc'[t] \in {"restore", "init"}
      /\ \A u \in Tasks \ {t} : pc'[u] = pc[u] /\ loc'[u] = loc[u]
  BY <1>1, <1>3, Zenon DEF IInv, TypeOK
<1>5. UNCHANGED <<rows, meta, remote, nextID, saved, pend, retries, crashes, redone>>
  BY <1>0, Zenon
<1>6. CleanupInv' /\ DoneInv'
  BY <1>2, <1>4, <1>5, MovesKeep, Zenon
<1>7. RowIDInv' /\ UsedRowIDsDisjoint'
  BY <1>4, <1>5, RowIDsStay, Zenon
<1> QED BY <1>6, <1>7, Zenon DEF SafeInv

\* A new row is initial; an old one is kept.
LEMMA InitTableMetaSafe ==
  ASSUME IInv, SafeInv, NEW t \in Tasks, InitTableMeta(t)
  PROVE  SafeInv'
<1>1. /\ pc[t] = "init" /\ pc'[t] = "alloc"
      /\ \A u \in Tasks \ {t} : pc'[u] = pc[u] /\ meta'[u] = meta[u]
      /\ rows' = rows \cup {t}
      /\ t \in rows => meta'[t] = meta[t]
      /\ t \notin rows => meta'[t].status = 0 /\ meta'[t].max = 0
      /\ UNCHANGED <<remote, nextID, loc, total, saved, pend, retries, crashes, redone>>
  BY Zenon DEF InitTableMeta, Goto, NewRow, IInv, TypeOK
<1>2. /\ rows \subseteq Tasks /\ ~saved[t].engines /\ meta'[t].status \in {0, 1, 2}
  <2>1. rows \subseteq Tasks /\ ~saved[t].engines
    BY <1>1, Types, Progress, Zenon
  <2>2. t \in rows => meta[t].status \in {0, 1, 2}
    BY <2>1, Progress, Zenon
  <2> QED BY <1>1, <2>1, <2>2, Zenon
<1>3. CleanupInv'
  <2>1. \A u \in Tasks \ {t} : CleanupTask(u) => CleanupTask(u)'
    BY <1>1, Zenon DEF CleanupTask
  <2>2. CleanupTask(t) => CleanupTask(t)'
    BY <1>1, <1>2, Zenon DEF CleanupTask
  <2>3. SkippedNotAlone'
    BY <1>1, <1>2 DEF SkippedNotAlone
  <2> QED BY <1>1, <2>1, <2>2, <2>3, CleanupKept, Zenon
<1>4. DoneInv'
  <2>1. \A u \in Tasks \ {t} : DoneTask(u) => DoneTask(u)'
    BY <1>1, Zenon DEF DoneTask
  <2>2. DoneTask(t) => DoneTask(t)'
    BY <1>1, <1>2 DEF DoneTask
  <2>3. NoneBeside => NoneBeside'
    BY <1>1, <1>2 DEF NoneBeside
  <2> QED BY <1>1, <2>1, <2>2, <2>3, DoneKept, Zenon
<1>5. RowIDInv'
  <2>1. \A u \in Tasks : (Given(u)' <=> Given(u)) /\ (Given(u) => meta'[u] = meta[u])
    BY <1>1, <1>2, Zenon DEF Given
  <2>2. \A u \in Tasks \ {t} : RowIDTask(u) => RowIDTask(u)'
    BY <1>1, <2>1, Zenon DEF RowIDTask, MayBeDeleted
  <2>3. RowIDTask(t) => RowIDTask(t)'
    BY <1>1, <1>2, <2>1, Zenon DEF RowIDTask
  <2>4. \A u, v \in Tasks : Above(u, v) => Above(u, v)'
    BY <1>1, <1>2, <2>1, Zenon DEF Above
  <2> QED BY <1>1, <2>2, <2>3, <2>4, RowIDKept, Zenon
<1>6. UsedRowIDsDisjoint'
  BY <1>1, UsedKept, Zenon
<1> QED BY <1>3, <1>4, <1>5, <1>6, Zenon DEF SafeInv

\* After a retried commit nothing is said.
LEMMA RetrySafe ==
  ASSUME IInv, NEW t \in Tasks, AllocRetry(t) \/ CheckRetry(t)
  PROVE  SafeInv'
<1>1. retries \in Nat /\ retries' = retries + 1
  BY Types, Zenon DEF AllocRetry, CheckRetry
<1> QED BY <1>1 DEF SafeInv, CleanupInv, DoneInv, RowIDInv, UsedRowIDsDisjoint

\* A task that crashes keeps its row; if it was done with the table that is counted.
LEMMA CrashSafe ==
  ASSUME IInv, SafeInv, NEW t \in Tasks, Crash(t)
  PROVE  SafeInv'
<1>1. /\ pc'[t] = "down" /\ (pc[t] = "done" => redone' # 0) /\ (redone' = 0 => redone = 0)
      /\ ~pend'[t].checksummed
      /\ \A u \in Tasks \ {t} : pc'[u] = pc[u] /\ pend'[u] = pend[u]
      /\ UNCHANGED <<rows, meta, remote, nextID, loc, total, saved, retries>>
  BY DEF Crash, IInv, TypeOK
<1>2. CleanupInv' /\ DoneInv'
  BY <1>1, MovesKeep, Zenon
<1>3. RowIDInv' /\ UsedRowIDsDisjoint'
  BY <1>1, RowIDsStay, Zenon
<1> QED BY <1>2, <1>3, Zenon DEF SafeInv

\* A failed allocation or check, and the comparison, change the place of the task only.
LEMMA FailSafe ==
  ASSUME IInv, SafeInv, NEW t \in Tasks, AllocFail(t) \/ CheckFail(t) \/ CompareChecksum(t)
  PROVE  SafeInv'
<1>1. /\ pc[t] \in {"alloc", "check", "compare"} /\ pc'[t] \in {"failed", "finish", "invalid"}
      /\ pc'[t] = "finish" => pc[t] = "compare"
      /\ \A u \in Tasks \ {t} : pc'[u] = pc[u]
      /\ UNCHANGED <<rows, meta, remote, nextID, loc, total, saved, pend, retries, crashes, redone>>
  BY Zenon DEF AllocFail, CheckFail, CompareChecksum, Goto, IInv, TypeOK
<1>2. CleanupInv' /\ DoneInv'
  BY <1>1, MovesKeep, Zenon
<1>3. RowIDInv' /\ UsedRowIDsDisjoint'
  BY <1>1, RowIDsStay, Zenon
<1> QED BY <1>2, <1>3, Zenon DEF SafeInv

\* The base checksum says nothing of row ids or statuses.
LEMMA BaseChecksumSafe ==
  ASSUME IInv, SafeInv, NEW t \in Tasks, BaseChecksum(t) \/ RebaseChunkRowIDs(t)
  PROVE  SafeInv'
<1>1. /\ pc[t] \in {"baseck", "rebase"} /\ pc'[t] \in {"baseupd", "engines"}
      /\ \A u \in Tasks \ {t} : pc'[u] = pc[u]
  BY Zenon DEF BaseChecksum, RebaseChunkRowIDs, Goto, IInv, TypeOK
<1>2. UNCHANGED <<rows, meta, remote, nextID, total, saved, retries, crashes, redone>>
  BY Zenon DEF BaseChecksum, RebaseChunkRowIDs
<1>3. /\ \A u \in Tasks : pend'[u].checksummed = pend[u].checksummed
      /\ loc'[t].base = loc[t].base /\ \A u \in Tasks \ {t} : loc'[u] = loc[u]
  <2>1. ASSUME BaseChecksum(t)
        PROVE  pend' = pend /\ \E c : loc' = [loc EXCEPT ![t].ret = c] \/ loc' = loc
    BY <2>1, Zenon DEF BaseChecksum
  <2>2. ASSUME RebaseChunkRowIDs(t)
        PROVE  \/ \E c : loc' = [loc EXCEPT ![t].ck = c] /\ pend' = [pend EXCEPT ![t].ck = TRUE]
               \/ loc' = loc /\ pend' = pend
    BY <2>2, Zenon DEF RebaseChunkRowIDs
  <2>3. loc \in [Tasks -> Locals] /\ pend \in [Tasks -> [ck : BOOLEAN, checksummed : BOOLEAN]]
    BY Zenon DEF IInv, TypeOK
  <2>4. loc' = loc \/ (\E c : loc' = [loc EXCEPT ![t].ret = c] \/ loc' = [loc EXCEPT ![t].ck = c])
    BY <2>1, <2>2, Zenon
  <2>5. pend' = pend \/ pend' = [pend EXCEPT ![t].ck = TRUE]
    BY <2>1, <2>2, Zenon
  <2>6. \A u \in Tasks : pend'[u].checksummed = pend[u].checksummed
    BY <2>3, <2>5
  <2>7. loc'[t].base = loc[t].base /\ \A u \in Tasks \ {t} : loc'[u] = loc[u]
    BY <2>3, <2>4 DEF Locals
  <2> QED BY <2>6, <2>7, Zenon
<1>4. CleanupInv' /\ DoneInv'
  BY <1>1, <1>2, <1>3, MovesKeep, Zenon
<1>5. RowIDInv' /\ UsedRowIDsDisjoint'
  BY <1>1, <1>2, <1>3, RowIDsStay, Zenon
<1> QED BY <1>4, <1>5, Zenon DEF SafeInv

\* A step that changes the row of t only, within the statuses that say the same of row ids,
\* and moves t to a place that says no more of them.
LEMMA RowIDsRow ==
  ASSUME IInv, SafeInv, NEW t \in Tasks, rows' = rows, remote'[0] = remote[0],
         nextID' = nextID, retries' = retries, redone' = redone, saved' = saved,
         meta'[t].base = meta[t].base, meta'[t].max = meta[t].max,
         t \in rows => meta[t].status # 0 /\ meta'[t].status # 0,
         \A u \in Tasks \ {t} : pc'[u] = pc[u] /\ loc'[u] = loc[u] /\ meta'[u] = meta[u],
         pc'[t] \in {"baseck", "baseupd", "rebase", "engines"} =>
           pc[t] \in {"baseck", "baseupd", "rebase", "engines"} /\ loc'[t].base = loc[t].base,
         MayBeDeleted(t)' => MayBeDeleted(t)
  PROVE  RowIDInv' /\ UsedRowIDsDisjoint'
<1>1. UsedRowIDsDisjoint'
  BY UsedKept, Zenon
<1>2. \A u \in Tasks : (Given(u)' <=> Given(u)) /\ meta'[u].base = meta[u].base
  BY Zenon DEF Given
<1>3. \A u \in Tasks \ {t} : RowIDTask(u) => RowIDTask(u)'
  BY <1>2, Zenon DEF RowIDTask, MayBeDeleted
<1>4. RowIDTask(t) => RowIDTask(t)'
  BY <1>2, Zenon DEF RowIDTask
<1>5. \A u, v \in Tasks : Above(u, v) => Above(u, v)'
  BY <1>2, Zenon DEF Above
<1> QED BY <1>1, <1>3, <1>4, <1>5, RowIDKept, Zenon

\* The update of UpdateTableBaseChecksum leaves the range of a row alone.
LEMMA RowFields ==
  ASSUME NEW r \in MetaRow, NEW s, NEW k
  PROVE  LET q == [r EXCEPT !.status = s, !.ckBase = k]
         IN q.status = s /\ q.base = r.base /\ q.max = r.max
  BY Zenon DEF MetaRow

\* The first task goes from row_id_allocated to restore_started.
LEMMA BaseUpdateSafe ==
  ASSUME IInv, SafeInv, NEW t \in Tasks, UpdateTableBaseChecksum(t)
  PROVE  SafeInv'
<1>1. /\ pc[t] = "baseupd" /\ pc'[t] = "rebase"
      /\ \A u \in Tasks \ {t} : pc'[u] = pc[u] /\ meta'[u] = meta[u]
      /\ UNCHANGED <<rows, remote, nextID, loc, total, saved, pend, retries, crashes, redone>>
  BY Zenon DEF UpdateTableBaseChecksum, Goto, IInv, TypeOK
<1>2. t \in rows /\ ~saved[t].engines /\ meta[t].status = 1 /\ rows \subseteq Tasks
  BY <1>1, Progress, Types, Zenon
<1>3. meta'[t].status = 2 /\ meta'[t].base = meta[t].base /\ meta'[t].max = meta[t].max
  <2>1. meta[t] \in MetaRow /\ meta \in [Tasks -> MetaRow]
    BY Zenon DEF IInv, TypeOK
  <2>2. PICK k : meta'[t] = [meta[t] EXCEPT !.status = 2, !.ckBase = k]
    <3> DEFINE k == IF HasKVs(loc[t].ret) THEN loc[t].ret ELSE meta[t].ckBase
    <3>1. meta'[t] = [meta[t] EXCEPT !.status = 2, !.ckBase = k]
      BY <1>2, <2>1, Zenon DEF UpdateTableBaseChecksum, MetaRow
    <3> QED BY <3>1, Zenon
  <2> QED BY <2>1, <2>2, RowFields
<1>4. CleanupInv'
  <2>1. \A u \in Tasks \ {t} : CleanupTask(u) => CleanupTask(u)'
    BY <1>1, Zenon DEF CleanupTask
  <2>2. CleanupTask(t) => CleanupTask(t)'
    BY <1>1, <1>2, <1>3, Zenon DEF CleanupTask
  <2>3. SkippedNotAlone'
    BY <1>1, <1>2, <1>3 DEF SkippedNotAlone
  <2> QED BY <1>1, <2>1, <2>2, <2>3, CleanupKept, Zenon
<1>5. DoneInv'
  <2>1. \A u \in Tasks \ {t} : DoneTask(u) => DoneTask(u)'
    BY <1>1, Zenon DEF DoneTask
  <2>2. DoneTask(t) => DoneTask(t)'
    BY <1>1, <1>2, <1>3 DEF DoneTask
  <2>3. NoneBeside => NoneBeside'
    BY <1>1, <1>2, <1>3 DEF NoneBeside
  <2> QED BY <1>1, <2>1, <2>2, <2>3, DoneKept, Zenon
<1>6. RowIDInv' /\ UsedRowIDsDisjoint'
  <2>1. MayBeDeleted(t)' => MayBeDeleted(t)
    BY <1>1, <1>2, <1>3 DEF MayBeDeleted
  <2> QED BY <1>1, <1>2, <1>3, <2>1, RowIDsRow
<1> QED BY <1>4, <1>5, <1>6, Zenon DEF SafeInv

\* The engines are saved with the range of the row, which lies above those of the tasks
\* whose rows are gone and beside those of the others.
LEMMA InsertEnginesSafe ==
  ASSUME IInv, SafeInv, NEW t \in Tasks, InsertEngineCheckpoints(t)
  PROVE  SafeInv'
<1>1. /\ pc[t] = "engines" /\ pc'[t] = "restore"
      /\ \A u \in Tasks \ {t} : pc'[u] = pc[u] /\ saved'[u] = saved[u]
      /\ saved'[t].engines /\ saved'[t].base = loc[t].base
      /\ saved'[t].checksummed = saved[t].checksummed
      /\ UNCHANGED <<rows, meta, remote, nextID, loc, total, pend, retries, crashes, redone>>
  BY DEF InsertEngineCheckpoints, Goto, IInv, TypeOK
<1>2. t \in rows /\ ~saved[t].engines /\ meta[t].status = 2 /\ rows \subseteq Tasks
  BY <1>1, Progress, Types, Zenon
<1>3. CleanupInv'
  <2>1. \A u \in Tasks \ {t} : CleanupTask(u) => CleanupTask(u)'
    BY <1>1, Zenon DEF CleanupTask
  <2>2. CleanupTask(t) => CleanupTask(t)'
    BY <1>1, <1>2, Zenon DEF CleanupTask
  <2>3. SkippedNotAlone => SkippedNotAlone'
    BY <1>1, Zenon DEF SkippedNotAlone
  <2> QED BY <1>1, <2>1, <2>2, <2>3, CleanupKept, Zenon
<1>4. DoneInv'
  <2>1. \A u \in Tasks \ {t} : DoneTask(u) => DoneTask(u)'
    BY <1>1, Zenon DEF DoneTask
  <2>2. DoneTask(t) => DoneTask(t)'
    BY <1>1, <1>2, Zenon DEF DoneTask
  <2>3. NoneBeside => NoneBeside'
    BY <1>1, Zenon DEF NoneBeside
  <2> QED BY <1>1, <2>1, <2>2, <2>3, DoneKept, Zenon
<1>5. RowIDInv'
  <2>1. \A u \in Tasks : Given(u)' <=> Given(u)
    BY <1>1, Zenon DEF Given
  <2>2. \A u \in Tasks \ {t} : RowIDTask(u) => RowIDTask(u)'
    BY <1>1, <2>1, Zenon DEF RowIDTask, MayBeDeleted
  <2>3. RowIDTask(t) => RowIDTask(t)'
    BY <1>1, <1>2, <2>1 DEF RowIDTask, MayBeDeleted
  <2>4. \A u, v \in Tasks : Above(u, v) => Above(u, v)'
    BY <1>1, <1>2, <2>1, Zenon DEF Above
  <2> QED BY <1>1, <2>2, <2>3, <2>4, RowIDKept, Zenon
<1>6. UsedRowIDsDisjoint'
  <2> SUFFICES ASSUME NeedAutoID, retries = 0, redone = 0 PROVE UsedRowIDsDisjoint'
    BY <1>1, Zenon DEF UsedRowIDsDisjoint
  <2>0. /\ \A u \in Tasks : RowIDTask(u)
        /\ \A u, v \in Tasks : Above(u, v)
    BY Zenon DEF SafeInv, RowIDInv
  <2>1. Given(t)
    BY <1>2 DEF Given
  <2>2. /\ saved'[t].base = meta[t].base /\ meta[t].base >= remote[0]
        /\ meta[t].max = meta[t].base + RawRowIDMax
    BY <1>1, <2>0, <2>1, Zenon DEF RowIDTask
  <2>3. ASSUME NEW u \in Tasks \ {t}, saved[u].engines
        PROVE  \/ saved'[t].base + UsedRowIDs <= saved[u].base
               \/ saved[u].base + UsedRowIDs <= saved'[t].base
    <3>1. CASE u \in rows
      <4>1. meta[u].status # 0 /\ Given(u)
        BY <2>3, <3>1, Progress, Zenon DEF Given
      <4>2. saved[u].base = meta[u].base /\ meta[u].max = meta[u].base + RawRowIDMax
        BY <2>0, <2>3, <3>1, <4>1, Zenon DEF RowIDTask
      <4>3. meta[t].max <= meta[u].base \/ meta[u].max <= meta[t].base
        <5>1. meta[t].status \in 0..5 /\ meta[u].status \in 0..5
          BY Types, Zenon
        <5> QED BY <1>2, <2>3, <3>1, <4>1, <5>1 DEF IInv, TableMetaInv, RowRangesDisjoint
      <4> QED BY <2>2, <4>2, <4>3, Types
    <3>2. CASE u \notin rows
      <4>1. meta[t].base >= saved[u].base + UsedRowIDs
        BY <2>0, <2>1, <2>3, <3>2, Zenon DEF Above
      <4> QED BY <2>2, <4>1, Types, Zenon
    <3> QED BY <3>1, <3>2, Zenon
  <2>4. \A u \in Tasks : saved'[u].engines /\ u # t => saved[u].engines /\ saved'[u].base = saved[u].base
    BY <1>1, Zenon
  <2> QED BY <1>1, <2>2, <2>3, <2>4, Zenon DEF SafeInv, UsedRowIDsDisjoint
<1> QED BY <1>3, <1>4, <1>5, <1>6, Zenon DEF SafeInv

\* Imported data does not change what was in the table before.
LEMMA ImportSafe ==
  ASSUME IInv, SafeInv, NEW t \in Tasks, ImportEngine(t)
  PROVE  SafeInv'
<1>1. remote'[0] = remote[0]
  BY TableMetaAssumption, Zenon DEF ImportEngine, KVChecksum, Origins, IInv, TypeOK
<1>2. UNCHANGED <<rows, meta, nextID, pc, loc, total, saved, pend, retries, crashes, redone>>
  BY Zenon DEF ImportEngine
<1>3. CleanupInv' /\ DoneInv'
  BY <1>2, MovesKeep, Zenon
<1>4. RowIDInv' /\ UsedRowIDsDisjoint'
  BY <1>1, <1>2, RowIDsStay, Zenon
<1> QED BY <1>3, <1>4, Zenon DEF SafeInv

\* A checkpoint that is written says what the task had sent.
LEMMA FlushSafe ==
  ASSUME IInv, SafeInv, NEW t \in Tasks, FlushCheckpoint(t)
  PROVE  SafeInv'
<1>1. /\ \A u \in Tasks : /\ saved'[u].engines = saved[u].engines /\ saved'[u].base = saved[u].base
                          /\ saved'[u].checksummed \/ pend'[u].checksummed =>
                               saved[u].checksummed \/ pend[u].checksummed
      /\ UNCHANGED <<rows, meta, remote, nextID, pc, loc, total, retries, crashes, redone>>
  BY DEF FlushCheckpoint, IInv, TypeOK
<1>2. CleanupInv' /\ DoneInv'
  BY <1>1, MovesKeep, Zenon
<1>3. RowIDInv' /\ UsedRowIDsDisjoint'
  BY <1>1, RowIDsStay, Zenon
<1> QED BY <1>2, <1>3, Zenon DEF SafeInv

\* A task that has restored its data says so in its row, whatever the row said before: no
\* other row is checksuming then.
LEMMA UpdateStatusSafe ==
  ASSUME IInv, SafeInv, NEW t \in Tasks, UpdateTableStatus(t)
  PROVE  SafeInv'
<1>1. /\ pc[t] = "restore" /\ pc'[t] = "alter"
      /\ \A u \in Tasks \ {t} : pc'[u] = pc[u] /\ meta'[u] = meta[u]
      /\ UNCHANGED <<rows, remote, nextID, loc, total, saved, pend, retries, crashes, redone>>
  BY Zenon DEF UpdateTableStatus, Goto, IInv, TypeOK
<1>2. rows \subseteq Tasks /\ saved[t].engines /\ (t \in rows => meta[t].status \in 1..5)
  <2>1. rows \subseteq Tasks /\ saved[t].engines /\ (t \in rows => meta[t].status # 0)
    BY <1>1, Progress, Types, Zenon
  <2>2. meta[t].status \in 0..5
    BY Types, Zenon
  <2> QED BY <2>1, <2>2
<1>3. /\ t \in rows => meta'[t].status = 3
      /\ meta'[t].base = meta[t].base /\ meta'[t].max = meta[t].max
      /\ t \notin rows => meta' = meta
  BY Zenon DEF UpdateTableStatus, IInv, TypeOK, MetaRow
<1>4. CleanupInv'
  <2>1. \A u \in Tasks \ {t} : CleanupTask(u) => CleanupTask(u)'
    BY <1>1, Zenon DEF CleanupTask
  <2>2. CleanupTask(t) => CleanupTask(t)'
    BY <1>1, <1>2, <1>3, Zenon DEF CleanupTask
  <2>3. SkippedNotAlone => SkippedNotAlone'
    <3>1. CASE t \in rows
      BY <1>1, <1>3, <3>1 DEF SkippedNotAlone
    <3>2. CASE t \notin rows
      BY <1>1, <1>3, <3>2, Zenon DEF SkippedNotAlone
    <3> QED BY <3>1, <3>2, Zenon
  <2> QED BY <1>1, <2>1, <2>2, <2>3, CleanupKept, Zenon
<1>5. DoneInv'
  <2>1. \A u \in Tasks \ {t} : DoneTask(u) => DoneTask(u)'
    BY <1>1, Zenon DEF DoneTask
  <2>2. DoneTask(t) => DoneTask(t)'
    BY <1>1, <1>2, <1>3 DEF DoneTask
  <2>3. ASSUME retries = 0, redone = 0, NoneBeside PROVE NoneBeside'
    <3>1. CASE t \notin rows
      BY <1>1, <1>3, <2>3, <3>1 DEF NoneBeside
    <3>2. ASSUME t \in rows, NEW u \in rows \ {t} PROVE meta[u].status # 4
      <4>1. DoneTask(t)
        BY <2>3, Zenon DEF SafeInv, DoneInv
      <4>2. meta[t].status # 5
        BY <1>1, <3>2, <4>1, Zenon DEF DoneTask
      <4>3. meta[u].status = 4 => meta[t].status \notin {1, 2, 4}
        BY <3>2, Zenon DEF IInv, TableMetaInv, ChecksumingExcludes, AtMostOneChecksuming
      <4>4. meta[u].status = 4 => meta[t].status # 3
        BY <2>3, <3>2, Zenon DEF NoneBeside
      <4> QED BY <1>2, <3>2, <4>2, <4>3, <4>4
    <3>3. CASE t \in rows
      <4>1. \A u \in rows : meta'[u].status # 4
        BY <1>1, <1>2, <1>3, <3>2, <3>3
      <4> QED BY <1>1, <4>1, Zenon DEF NoneBeside
    <3> QED BY <3>1, <3>3, Zenon
  <2> QED BY <1>1, <2>1, <2>2, <2>3, DoneKept, Zenon
<1>6. RowIDInv' /\ UsedRowIDsDisjoint'
  <2>1. MayBeDeleted(t)' => MayBeDeleted(t)
    BY <1>1, <1>3 DEF MayBeDeleted
  <2> QED BY <1>1, <1>2, <1>3, <2>1, RowIDsRow
<1> QED BY <1>4, <1>5, <1>6, Zenon DEF SafeInv

\* The next row id of the table is raised above the ids of the task before its row can
\* become one that another task deletes.
LEMMA AlterSafe ==
  ASSUME IInv, SafeInv, NEW t \in Tasks, AlterAutoIncrement(t)
  PROVE  SafeInv'
<1>1. /\ pc[t] = "alter"
      /\ pc'[t] = (IF saved[t].checksummed \/ Checksum = "off" THEN "done" ELSE "check")
      /\ \A u \in Tasks \ {t} : pc'[u] = pc[u] /\ loc'[u] = loc[u]
      /\ loc'[t].new = 4 /\ loc'[t].need
      /\ UNCHANGED <<rows, meta, remote, total, saved, pend, retries, crashes, redone>>
  BY DEF AlterAutoIncrement, Goto, IInv, TypeOK, Locals
<1>2. saved[t].engines
  BY <1>1, Progress, Zenon
<1>3. /\ nextID' >= nextID /\ nextID' \in Nat
      /\ NeedAutoID /\ ~saved[t].checksummed => nextID' > saved[t].base + UsedRowIDs
  <2>1. nextID \in Nat /\ saved[t].base \in Nat /\ UsedRowIDs \in Nat
    BY Types, Zenon
  <2>2. nextID' = IF NeedAutoID /\ ~saved[t].checksummed /\ nextID <= saved[t].base + UsedRowIDs
                  THEN saved[t].base + UsedRowIDs + 1 ELSE nextID
    BY Zenon DEF AlterAutoIncrement
  <2> QED BY <2>1, <2>2
<1>4. CleanupInv'
  <2>1. \A u \in Tasks \ {t} : CleanupTask(u) => CleanupTask(u)'
    BY <1>1, Zenon DEF CleanupTask
  <2>2. CleanupTask(t) => CleanupTask(t)'
    BY <1>1, Zenon DEF CleanupTask
  <2>3. SkippedNotAlone => SkippedNotAlone'
    BY <1>1, Zenon DEF SkippedNotAlone
  <2> QED BY <1>1, <2>1, <2>2, <2>3, CleanupKept, Zenon
<1>5. DoneInv'
  <2>1. \A u \in Tasks \ {t} : DoneTask(u) => DoneTask(u)'
    BY <1>1, Zenon DEF DoneTask
  <2>2. DoneTask(t) => DoneTask(t)'
    BY <1>1, Zenon DEF DoneTask
  <2>3. NoneBeside => NoneBeside'
    BY <1>1, Zenon DEF NoneBeside
  <2> QED BY <1>1, <2>1, <2>2, <2>3, DoneKept, Zenon
<1>6. RowIDInv'
  <2> SUFFICES ASSUME NeedAutoID, retries = 0, redone = 0 PROVE RowIDInv'
    BY <1>1, Zenon DEF RowIDInv
  <2>1. ~saved[t].checksummed
    <3>1. DoneTask(t)
      BY Zenon DEF SafeInv, DoneInv
    <3> QED BY <1>1, <3>1, Zenon DEF DoneTask
  <2>2. \A u \in Tasks : nextID > saved[u].base + UsedRowIDs => nextID' > saved[u].base + UsedRowIDs
    BY <1>3, Types
  <2>3. nextID > remote[0] => nextID' > remote'[0]
    BY <1>1, <1>3, Types
  <2>4. \A u \in Tasks : Given(u)' <=> Given(u)
    BY <1>1, Zenon DEF Given
  <2>5. \A u \in Tasks \ {t} : RowIDTask(u) => RowIDTask(u)'
    BY <1>1, <2>2, <2>4, Zenon DEF RowIDTask, MayBeDeleted
  <2>6. RowIDTask(t) => RowIDTask(t)'
    BY <1>1, <1>3, <2>1, <2>4, Zenon DEF RowIDTask
  <2>7. \A u, v \in Tasks : Above(u, v) => Above(u, v)'
    BY <1>1, <2>4, Zenon DEF Above
  <2> QED BY <1>1, <2>3, <2>5, <2>6, <2>7, RowIDKept, Zenon
<1>7. UsedRowIDsDisjoint'
  BY <1>1, UsedKept, Zenon
<1> QED BY <1>4, <1>5, <1>6, <1>7, Zenon DEF SafeInv

\* A task becomes checksum_skipped because of another row that is not, and checksuming
\* only when all others are skipped.
LEMMA CheckSafe ==
  ASSUME IInv, SafeInv, NEW t \in Tasks, CheckAndUpdateLocalChecksum(t)
  PROVE  SafeInv'
<1>1. /\ ~CheckError(t) /\ pc[t] = "check"
      /\ pc'[t] = (IF CheckLocals(t).need THEN "compare" ELSE "done")
      /\ \A u \in Tasks \ {t} : pc'[u] = pc[u] /\ loc'[u] = loc[u]
      /\ UNCHANGED <<rows, remote, nextID, saved, pend, retries, crashes, redone>>
  BY Zenon DEF CheckAndUpdateLocalChecksum, Goto, IInv, TypeOK
<1>0. meta' = IF CheckEarly(t) \/ t \notin rows THEN meta
              ELSE [meta EXCEPT ![t].kvs = Chunks, ![t].status = CheckLocals(t).new]
  BY Zenon DEF CheckAndUpdateLocalChecksum
<1>2. /\ CheckLocals(t).new = IF CheckEarly(t) THEN meta[t].status
                              ELSE IF CheckSkip(t) THEN 5 ELSE loc[t].new
      /\ CheckLocals(t).need = IF CheckEarly(t) THEN meta[t].status = 4
                               ELSE IF CheckSkip(t) THEN FALSE ELSE loc[t].need
  BY Zenon DEF CheckLocals, IInv, TypeOK, Locals
<1> SUFFICES ASSUME retries = 0 PROVE SafeInv'
  BY <1>1, Zenon DEF SafeInv, CleanupInv, DoneInv, RowIDInv, UsedRowIDsDisjoint
<1>3. /\ loc[t].new = 4 /\ loc[t].need /\ (t \in rows => meta[t].status = 3)
      /\ rows \subseteq Tasks
  <2>1. CleanupTask(t)
    BY Zenon DEF SafeInv, CleanupInv
  <2> QED BY <1>1, <2>1, Types, Zenon DEF CleanupTask
<1>4. ~CheckEarly(t)
  <2>1. CheckEarly(t) => t \in rows /\ meta[t].status >= 4
    BY Zenon DEF CheckEarly, StopsAt, Stops, Live
  <2> QED BY <1>3, <2>1
<1>5. CheckSkip(t) => \E u \in rows \ {t} : meta[u].status # 5
  BY DEF CheckSkip, StopsAt, Stops, Live
<1>6. /\ pc'[t] = (IF CheckSkip(t) THEN "done" ELSE "compare")
      /\ t \in rows => meta'[t].status = IF CheckSkip(t) THEN 5 ELSE 4
      /\ t \notin rows => meta' = meta
      /\ meta'[t].base = meta[t].base /\ meta'[t].max = meta[t].max
      /\ \A u \in Tasks \ {t} : meta'[u] = meta[u]
  BY <1>0, <1>1, <1>2, <1>3, <1>4 DEF IInv, TypeOK, MetaRow
<1>7. CleanupInv'
  <2>1. \A u \in Tasks \ {t} : CleanupTask(u) => CleanupTask(u)'
    BY <1>1, <1>6, Zenon DEF CleanupTask
  <2>2. CleanupTask(t) => CleanupTask(t)'
    BY <1>1, <1>6, Zenon DEF CleanupTask
  <2>3. SkippedNotAlone => SkippedNotAlone'
    <3>1. CASE t \in rows /\ CheckSkip(t)
      BY <1>1, <1>3, <1>5, <1>6, <3>1 DEF SkippedNotAlone
    <3>2. CASE t \in rows /\ ~CheckSkip(t)
      BY <1>1, <1>6, <3>2 DEF SkippedNotAlone
    <3>3. CASE t \notin rows
      BY <1>1, <1>6, <3>3, Zenon DEF SkippedNotAlone
    <3> QED BY <3>1, <3>2, <3>3, Zenon
  <2> QED BY <1>1, <2>1, <2>2, <2>3, CleanupKept, Zenon
<1>8. redone = 0 => t \in rows
  <2>1. redone = 0 => DoneTask(t)
    BY Zenon DEF SafeInv, DoneInv
  <2> QED BY <1>1, <2>1, Progress, Zenon DEF DoneTask
<1>9. DoneInv'
  <2>1. \A u \in Tasks \ {t} : DoneTask(u) => DoneTask(u)'
    BY <1>1, <1>6, Zenon DEF DoneTask
  <2>2. redone = 0 /\ DoneTask(t) => DoneTask(t)'
    BY <1>1, <1>6, <1>8 DEF DoneTask
  <2>3. ASSUME redone = 0, NoneBeside PROVE NoneBeside'
    <3>1. CASE CheckSkip(t)
      <4>1. meta'[t].status = 5
        BY <1>6, <1>8, <2>3, <3>1, Zenon
      <4> QED BY <1>1, <1>3, <1>6, <2>3, <4>1 DEF NoneBeside
    <3>2. CASE ~CheckSkip(t)
      <4>1. \A u \in rows \ {t} : meta[u].status = 5
        BY <1>1, <1>4, <1>8, <2>3, <3>2, LastOneStands, Zenon DEF IInv, TableMetaInv
      <4>2. \A u \in rows : meta'[u].status # 3
        BY <1>3, <1>6, <3>2, <4>1
      <4> QED BY <1>1, <4>2, Zenon DEF NoneBeside
    <3> QED BY <3>1, <3>2, Zenon
  <2> QED BY <1>1, <2>1, <2>2, <2>3, DoneKept, Zenon
<1>10. RowIDInv' /\ UsedRowIDsDisjoint'
  <2>1. MayBeDeleted(t)
    BY <1>1, Zenon DEF MayBeDeleted
  <2>2. pc'[t] \in {"compare", "done"} /\ (t \in rows => meta[t].status # 0 /\ meta'[t].status # 0)
    BY <1>3, <1>6
  <2> QED BY <1>1, <1>6, <2>1, <2>2, RowIDsRow, Zenon
<1> QED BY <1>7, <1>9, <1>10, Zenon DEF SafeInv

\* The first allocation of a task: its range begins above the ranges of all rows and, when
\* there is none, above all row ids the table has seen.
LEMMA NewBase ==
  ASSUME IInv, SafeInv, NEW t \in Tasks, NEW m \in MaxRowIDMax(t), t \in rows,
         meta[t].status = 0, NeedAutoID, retries = 0, redone = 0
  PROVE  /\ NewRowIDBase(t, m) \in Nat /\ NewRowIDBase(t, m) >= remote[0]
         /\ \A u \in Tasks : saved[u].engines /\ u \notin rows =>
              NewRowIDBase(t, m) >= saved[u].base + UsedRowIDs
<1> DEFINE b == NewRowIDBase(t, m)
<1>1. /\ nextID > remote[0]
      /\ \A u \in Tasks : RowIDTask(u)
      /\ \A u, v \in Tasks : Above(u, v)
  BY Zenon DEF SafeInv, RowIDInv
<1>2. t \in Live /\ rows = Live /\ CurStatus(t) = 0
  <2>1. \A u \in rows : meta[u].status < 6
    BY Types
  <2> QED BY <2>1, Zenon DEF Live, CurStatus
<1>3. b \in Nat /\ m \in Nat
  BY AllocLocalsType, Zenon DEF IInv
<1>4. b = IF m = 0 THEN nextID - 1 ELSE m
  BY <1>2, Zenon DEF NewRowIDBase
<1>5. ASSUME m # 0
      PROVE  \E w \in Tasks : Given(w) /\ meta[w].base <= m
  <2>1. m \in {0} \cup {meta[u].max : u \in Scanned(t) \ {t}}
    BY Zenon DEF MaxRowIDMax
  <2>2. Scanned(t) \subseteq rows
    BY <1>2, Zenon DEF Scanned
  <2>3. PICK w \in rows : meta[w].max = m
    BY <1>5, <2>1, <2>2, Zenon
  <2>4. w \in Tasks /\ meta[w].base \in Nat /\ RawRowIDMax \in Nat
    BY <2>3, Types, Zenon
  <2>5. RowIDTask(w)
    BY <1>1, <2>4, Zenon
  <2>6. Given(w) /\ meta[w].max = meta[w].base + RawRowIDMax
    BY <1>5, <2>3, <2>5, Zenon DEF RowIDTask
  <2> QED BY <2>3, <2>4, <2>6
<1> HIDE DEF b
<1>6. ASSUME NEW x \in Nat, nextID > x, \A w \in Tasks : Given(w) => meta[w].base >= x
      PROVE  b >= x
  <2>1. nextID \in Nat /\ \A w \in Tasks : meta[w].base \in Nat
    BY Types, Zenon
  <2>2. CASE m = 0
    BY <1>4, <1>6, <2>1, <2>2
  <2>3. CASE m # 0
    BY <1>3, <1>4, <1>5, <1>6, <2>1, <2>3
  <2> QED BY <2>2, <2>3, Zenon
<1>7. b >= remote[0]
  <2>1. \A w \in Tasks : Given(w) => meta[w].base >= remote[0]
    BY <1>1, Zenon DEF RowIDTask
  <2> QED BY <1>1, <1>6, <2>1, Types, Zenon
<1>8. ASSUME NEW u \in Tasks, saved[u].engines, u \notin rows
      PROVE  b >= saved[u].base + UsedRowIDs
  <2>1. saved[u].base + UsedRowIDs \in Nat
    BY Types
  <2>2. nextID > saved[u].base + UsedRowIDs
    BY <1>1, <1>8, Zenon DEF RowIDTask, MayBeDeleted
  <2>3. \A w \in Tasks : Given(w) => meta[w].base >= saved[u].base + UsedRowIDs
    BY <1>1, <1>8, Zenon DEF Above
  <2> QED BY <1>6, <2>1, <2>2, <2>3, Zenon
<1> QED BY <1>3, <1>7, <1>8, Zenon DEF b

\* The allocation writes the row of the task, or finds it written.
LEMMA AllocSafe ==
  ASSUME IInv, SafeInv, NEW t \in Tasks, AllocTableRowIDs(t)
  PROVE  SafeInv'
<1>0. PICK m \in MaxRowIDMax(t) :
        /\ meta' = IF CurStatus(t) = metaStatusInitial /\ t \in rows
                   THEN [meta EXCEPT ![t].base = NewRowIDBase(t, m),
                                     ![t].max = NewRowIDBase(t, m) + RawRowIDMax,
                                     ![t].status = NewStatus(t, m)]
                   ELSE meta
        /\ loc' = [loc EXCEPT ![t] = AllocLocals(t, m)]
        /\ pc' = [pc EXCEPT ![t] = IF AllocLocals(t, m).cur < metaStatusRestoreStarted
                                   THEN "baseck" ELSE "rebase"]
  BY Zenon DEF AllocTableRowIDs
<1>1. /\ pc[t] = "alloc" /\ pc'[t] \in {"baseck", "rebase"}
      /\ \A u \in Tasks \ {t} : pc'[u] = pc[u] /\ loc'[u] = loc[u]
      /\ loc'[t] = AllocLocals(t, m)
      /\ UNCHANGED <<rows, remote, nextID, saved, pend, retries, crashes, redone>>
  <2>1. pc[t] = "alloc" /\ UNCHANGED <<rows, remote, nextID, saved, pend, retries, crashes, redone>>
    BY Zenon DEF AllocTableRowIDs
  <2>2. loc'[t] = AllocLocals(t, m) /\ \A u \in Tasks \ {t} : loc'[u] = loc[u]
    BY <1>0, Zenon DEF IInv, TypeOK
  <2>3. pc'[t] \in {"baseck", "rebase"} /\ \A u \in Tasks \ {t} : pc'[u] = pc[u]
    <3>1. PICK p \in {"baseck", "rebase"} : pc' = [pc EXCEPT ![t] = p]
      BY <1>0, Zenon
    <3> QED BY <3>1, Zenon DEF IInv, TypeOK
  <2> QED BY <2>1, <2>2, <2>3, Zenon
<1>2. t \in rows /\ ~saved[t].engines /\ meta[t].status \in {0, 1, 2} /\ rows \subseteq Tasks
  <2>1. t \in rows /\ ~saved[t].engines
    BY <1>1, Progress, Zenon
  <2> QED BY <2>1, Progress, Types, Zenon
<1>3. t \in Live /\ CurStatus(t) = meta[t].status
  <2>1. t \in Live
    BY <1>2 DEF Live
  <2> QED BY <2>1, Zenon DEF CurStatus
<1>4. /\ loc'[t].base = NewRowIDBase(t, m) /\ NewRowIDBase(t, m) \in Nat
      /\ meta'[t].status \in {1, 2} /\ meta'[t].base = NewRowIDBase(t, m)
      /\ meta[t].status = 0 => meta'[t].max = NewRowIDBase(t, m) + RawRowIDMax
      /\ meta[t].status # 0 => meta'[t] = meta[t]
      /\ \A u \in Tasks \ {t} : meta'[u] = meta[u]
  <2>1. loc'[t].base = NewRowIDBase(t, m) /\ NewRowIDBase(t, m) \in Nat
    BY <1>1, AllocLocalsType DEF IInv
  <2>2. NewStatus(t, m) \in {1, 2}
    <3>1. loc[t].new \in {1, 2}
      BY <1>1, Progress, Zenon
    <3> QED BY <3>1, Zenon DEF NewStatus
  <2>3. CASE meta[t].status = 0
    BY <1>0, <1>2, <1>3, <2>1, <2>2, <2>3 DEF IInv, TypeOK, MetaRow
  <2>4. CASE meta[t].status # 0
    <3>1. meta' = meta
      BY <1>0, <1>3, <2>4, Zenon
    <3>2. NewRowIDBase(t, m) = meta[t].base
      BY <1>2, <1>3, <2>4 DEF NewRowIDBase, OwnAllocated
    <3> QED BY <1>2, <2>1, <2>4, <3>1, <3>2, Zenon
  <2> QED BY <2>3, <2>4, Zenon
<1>5. CleanupInv'
  <2>1. \A u \in Tasks \ {t} : CleanupTask(u) => CleanupTask(u)'
    BY <1>1, <1>4, Zenon DEF CleanupTask
  <2>2. CleanupTask(t) => CleanupTask(t)'
    BY <1>1, <1>2, Zenon DEF CleanupTask
  <2>3. SkippedNotAlone'
    BY <1>1, <1>2, <1>4 DEF SkippedNotAlone
  <2> QED BY <1>1, <2>1, <2>2, <2>3, CleanupKept, Zenon
<1>6. DoneInv'
  <2>1. \A u \in Tasks \ {t} : DoneTask(u) => DoneTask(u)'
    BY <1>1, <1>4, Zenon DEF DoneTask
  <2>2. DoneTask(t) => DoneTask(t)'
    BY <1>1, <1>2, <1>4 DEF DoneTask
  <2>3. NoneBeside => NoneBeside'
    <3>1. meta'[t].status \notin {3, 4}
      BY <1>4
    <3> QED BY <1>1, <1>2, <1>4, <3>1 DEF NoneBeside
  <2> QED BY <1>1, <2>1, <2>2, <2>3, DoneKept, Zenon
<1>7. RowIDInv'
  <2> SUFFICES ASSUME NeedAutoID, retries = 0, redone = 0 PROVE RowIDInv'
    BY <1>1, Zenon DEF RowIDInv
  <2>1. /\ RowIDTask(t)
        /\ \A u, v \in Tasks : Above(u, v)
    BY Zenon DEF SafeInv, RowIDInv
  <2>2. Given(t)' /\ \A u \in Tasks \ {t} : Given(u)' <=> Given(u)
    BY <1>1, <1>2, <1>4 DEF Given
  <2>3. /\ meta'[t].max = meta'[t].base + RawRowIDMax /\ meta'[t].base >= remote[0]
        /\ \A u \in Tasks : saved[u].engines /\ u \notin rows => meta'[t].base >= saved[u].base + UsedRowIDs
    <3>1. CASE meta[t].status = 0
      BY <1>2, <1>4, <3>1, NewBase, Zenon
    <3>2. CASE meta[t].status # 0
      <4>1. Given(t)
        BY <1>2, <3>2, Zenon DEF Given
      <4>2. meta[t].max = meta[t].base + RawRowIDMax /\ meta[t].base >= remote[0]
        BY <2>1, <4>1, Zenon DEF RowIDTask
      <4>3. \A u \in Tasks : saved[u].engines /\ u \notin rows => meta[t].base >= saved[u].base + UsedRowIDs
        BY <2>1, <4>1, Zenon DEF Above
      <4> QED BY <1>4, <3>2, <4>2, <4>3, Zenon
    <3> QED BY <3>1, <3>2, Zenon
  <2>4. \A u \in Tasks \ {t} : RowIDTask(u) => RowIDTask(u)'
    BY <1>1, <1>4, <2>2, Zenon DEF RowIDTask, MayBeDeleted
  <2>5. RowIDTask(t)'
    BY <1>1, <1>2, <1>4, <2>2, <2>3, Zenon DEF RowIDTask
  <2>6. \A u, v \in Tasks : Above(u, v)'
    <3>1. \A u \in Tasks : Above(u, t)'
      BY <1>1, <2>3, Zenon DEF Above
    <3>2. \A u \in Tasks : \A v \in Tasks \ {t} : Above(u, v)'
      BY <1>1, <1>4, <2>1, <2>2, Zenon DEF Above
    <3> QED BY <3>1, <3>2, Zenon
  <2>7. nextID' = nextID /\ remote' = remote
    BY <1>1, Zenon
  <2> QED BY <1>1, <2>4, <2>5, <2>6, <2>7, RowIDKept, Zenon
<1>8. UsedRowIDsDisjoint'
  BY <1>1, UsedKept, Zenon
<1> QED BY <1>5, <1>6, <1>7, <1>8, Zenon DEF SafeInv

\* The task that finishes deletes its own row and rows of tasks that are done, and the
\* rows that stay are of tasks that have not allocated.
LEMMA FinishSafe ==
  ASSUME IInv, SafeInv, NEW t \in Tasks, FinishTable(t)
  PROVE  SafeInv'
<1>1. /\ pc[t] = "finish" /\ pc'[t] = "done"
      /\ \A u \in Tasks \ {t} : pc'[u] = pc[u] /\ pend'[u].checksummed = pend[u].checksummed
      /\ rows' = {u \in rows : meta[u].status \notin {4, 5}}
      /\ UNCHANGED <<meta, remote, nextID, loc, total, saved, retries, crashes, redone>>
  BY Zenon DEF FinishTable, Goto, IInv, TypeOK
<1>2. saved[t].engines /\ rows \subseteq Tasks
  BY <1>1, Progress, Types, Zenon
<1>3. CleanupInv'
  <2>1. \A u \in Tasks \ {t} : CleanupTask(u) => CleanupTask(u)'
    BY <1>1, Zenon DEF CleanupTask
  <2>2. CleanupTask(t) => CleanupTask(t)'
    BY <1>1, <1>2, Zenon DEF CleanupTask
  <2>3. SkippedNotAlone'
    BY <1>1, Zenon DEF SkippedNotAlone
  <2> QED BY <1>1, <2>1, <2>2, <2>3, CleanupKept, Zenon
<1>4. ASSUME retries = 0, redone = 0
      PROVE  /\ t \in rows /\ t \notin rows'
             /\ \A u \in rows \ rows' : u = t \/ pc[u] = "done"
             /\ \A u \in rows' : meta[u].status = 0
  <2>0. CleanupTask(t) /\ \A u \in Tasks : DoneTask(u)
    BY <1>4, Zenon DEF SafeInv, CleanupInv, DoneInv
  <2>1. t \in rows
    BY <1>1, <1>2, <2>0, Zenon DEF DoneTask
  <2>2. meta[t].status = 4
    BY <1>1, <2>0, <2>1, Zenon DEF CleanupTask
  <2>3. \A u \in rows : meta[u].status = 4 => u = t
    BY <2>1, <2>2, Zenon DEF IInv, TableMetaInv, AtMostOneChecksuming
  <2>4. \A u \in rows : meta[u].status = 5 => pc[u] = "done"
    BY <1>2, <2>0, Zenon DEF DoneTask
  <2>5. \A u \in rows : meta[u].status \notin {1, 2}
    BY <2>1, <2>2, Zenon DEF IInv, TableMetaInv, ChecksumingExcludes
  <2>6. \A u \in rows : meta[u].status # 3
    BY <1>4, <2>1, <2>2, Zenon DEF SafeInv, DoneInv, NoneBeside
  <2>7. \A u \in rows : meta[u].status \in 0..5
    BY <1>2, Types, Zenon
  <2>8. \A u \in rows' : meta[u].status = 0
    BY <1>1, <2>5, <2>6, <2>7
  <2> QED BY <1>1, <2>1, <2>2, <2>3, <2>4, <2>8, Zenon
<1>5. DoneInv'
  <2>1. \A u \in Tasks \ {t} : retries = 0 /\ redone' = 0 /\ DoneTask(u) => DoneTask(u)'
    BY <1>1, <1>4, Zenon DEF DoneTask
  <2>2. DoneTask(t)'
    BY <1>1, Zenon DEF DoneTask
  <2>3. NoneBeside => NoneBeside'
    BY <1>1, Zenon DEF NoneBeside
  <2> QED BY <1>1, <2>1, <2>2, <2>3, DoneKept, Zenon
<1>6. RowIDInv'
  <2> SUFFICES ASSUME NeedAutoID, retries = 0, redone = 0 PROVE RowIDInv'
    BY <1>1, Zenon DEF RowIDInv
  <2>1. \A u \in Tasks : ~Given(u)'
    BY <1>1, <1>4, Zenon DEF Given
  <2>2. \A u \in Tasks : u \in rows' => u \in rows /\ ~Given(u)
    BY <1>1, <1>4, Zenon DEF Given
  <2>3. \A u \in Tasks : MayBeDeleted(u)' => MayBeDeleted(u)
    BY <1>1, Zenon DEF MayBeDeleted
  <2>4. \A u \in Tasks : RowIDTask(u) => RowIDTask(u)'
    BY <1>1, <2>1, <2>2, <2>3, Zenon DEF RowIDTask
  <2>5. \A u, v \in Tasks : Above(u, v)'
    BY <2>1, Zenon DEF Above
  <2> QED BY <1>1, <2>4, <2>5, RowIDKept, Zenon
<1>7. UsedRowIDsDisjoint'
  BY <1>1, UsedKept, Zenon
<1> QED BY <1>3, <1>5, <1>6, <1>7, Zenon DEF SafeInv

\* Every step of every task keeps SafeInv.
LEMMA NextSafe == IInv /\ SafeInv /\ [Next]_vars => SafeInv'
<1> SUFFICES ASSUME IInv, SafeInv, [Next]_vars PROVE SafeInv'
  BY Zenon
<1>1. CASE UNCHANGED vars
  <2> USE <1>1 DEF vars
  <2>1. CleanupInv' /\ DoneInv'
    BY Zenon DEF SafeInv, CleanupInv, SkippedNotAlone, CleanupTask, DoneInv, NoneBeside, DoneTask
  <2>2. RowIDInv' /\ UsedRowIDsDisjoint'
    BY Zenon DEF SafeInv, RowIDInv, RowIDTask, MayBeDeleted, Above, Given, UsedRowIDsDisjoint
  <2> QED BY <2>1, <2>2, Zenon DEF SafeInv
<1> QED
  BY <1>1, StartSafe, InitTableMetaSafe, AllocSafe, RetrySafe, FailSafe, BaseChecksumSafe,
     BaseUpdateSafe, InsertEnginesSafe, ImportSafe, UpdateStatusSafe, AlterSafe, CheckSafe,
     FinishSafe, FlushSafe, CrashSafe, Zenon DEF Next, Step

\* The row ids that two tasks use never overlap, as long as no commit is retried and no
\* task finishes the table a second time, and the last task that leaves removes the rows
\* of all, as long as no commit is retried: for any number of tasks and crashes
\* (AllocTableRowIDs, RebaseChunkRowIDs, AlterAutoIncrement, CheckAndUpdateLocalChecksum,
\* FinishTable).
THEOREM Safe == Spec => []TableMetaIsSafe
<1>1. IInv /\ SafeInv => TableMetaIsSafe
  <2>1. IInv /\ SafeInv => LastTaskCleansUp
    <3> SUFFICES ASSUME IInv, SafeInv, retries = 0, \A t \in Tasks : pc[t] = "done",
                        Checksum # "off", rows # {}
                 PROVE  FALSE
      BY Zenon DEF LastTaskCleansUp
    <3>1. rows \subseteq Tasks
      BY Types, Zenon
    <3> QED BY <3>1, Zenon DEF SafeInv, CleanupInv, CleanupTask, SkippedNotAlone
  <2> QED BY <2>1, Zenon DEF TableMetaIsSafe, SafeInv, IInv
<1> QED BY <1>1, InitIInv, NextIInv, InitSafe, NextSafe, PTL DEF Spec

\* When the finished rows are deleted, every task that has a row and has begun to import
\* has all of its data in the table, as long as no commit is retried and no task finishes
\* the table a second time (CheckAndUpdateLocalChecksum, FinishTable).
THEOREM FinishCovers == Spec => FinishCoversAllTasks
<1>1. IInv /\ SafeInv /\ [Next]_vars =>
        [\A t \in Tasks : FinishTable(t) /\ retries = 0 /\ redone = 0 =>
           \A u \in rows : saved[u].engines => remote[u] = Chunks]_vars
  <2> SUFFICES ASSUME IInv, SafeInv, NEW t \in Tasks, FinishTable(t), retries = 0, redone = 0,
                      NEW u \in rows, saved[u].engines
               PROVE  remote[u] = Chunks
    BY Zenon
  <2>0. pc[t] = "finish"
    BY Zenon DEF FinishTable, Goto
  <2>1. saved[t].engines /\ u \in Tasks /\ DoneTask(t) /\ CleanupTask(t)
    BY <2>0, Progress, Types, Zenon DEF SafeInv, DoneInv, CleanupInv
  <2>2. t \in rows
    BY <2>0, <2>1, Zenon DEF DoneTask
  <2>3. meta[t].status = 4
    BY <2>0, <2>1, <2>2, Zenon DEF CleanupTask
  <2>4. meta[u].status # 2
    BY <2>2, <2>3, Zenon DEF IInv, TableMetaInv, ChecksumingExcludes
  <2> QED BY <2>1, <2>4, Zenon DEF IInv, TableMetaInv, ImportingInv
<1> QED BY <1>1, InitIInv, NextIInv, InitSafe, NextSafe, PTL DEF Spec, FinishCoversAllTasks
=============================================================================
