---- MODULE LocalEngines ----
(***************************************************************************)
(* The engines of the local backend and the goroutines that share them:    *)
(* the owner of each engine (write, CloseEngine, ImportEngine,             *)
(* CleanupEngine), the disk quota check (EngineFileSizes, FlushAllEngines, *)
(* ImportEngine and ResetEngine), a goroutine that calls FlushEngine, and  *)
(* the ingest goroutine of each engine.  File.mutex is Go's RWMutex: a     *)
(* pending writer keeps new readers waiting.                               *)
(***************************************************************************)
EXTENDS Integers

CONSTANTS
  Engines,
  Recovered,    \* the sets of engines that may have been reopened after a restart
                \* (CloseEngine's recovery mode)
  NRows,        \* bound on the rows written to an engine
  MaxQuota,     \* bound on disk quota checks that find the quota exceeded
  MaxFlush      \* bound on calls of FlushEngine

ASSUME EnginesAssumption ==
  /\ Engines # {}
  /\ Recovered \subseteq SUBSET Engines /\ NRows \in Nat /\ MaxQuota \in Nat /\ MaxFlush \in Nat

VARIABLES
  inMap,        \* local.engines
  mu,           \* File.mutex of each engine
  state,        \* isImportingAtomic: "import" while the owner imports, else "read"
  closed, db, ctx, dir,  \* File.closed; whether File.db and File.ctx are not nil; the DB directory
  written, mem, pend, stored, imported,  \* rows: all, in writers, in SSTs, in the DB, in TiKV
  opc,          \* where the owner of each engine is
  wpc,          \* where its ingest goroutine is
  qpc, qtodo, qheld, qfile,  \* where the quota check is, engines left, read locks, File loaded
  large, busy, locked, quotas,  \* large engines; whether some are importing; diskQuotaLock
  fpc, ffile, flushes, \* where the caller of FlushEngine is, and its engine
  panicked      \* "" or why the process panicked

fileVars == <<inMap, closed, db, ctx, dir>>
rowVars == <<written, mem, pend, stored, imported>>
quotaVars == <<qpc, qtodo, qheld, qfile, large, busy, locked, quotas>>
flushVars == <<fpc, ffile, flushes>>
vars == <<fileVars, mu, state, rowVars, opc, wpc, quotaVars, flushVars, panicked>>

----------------------------------------------------------------------------
(* File.mutex.                                                             *)

Free == [rd |-> {}, wr |-> "none", rwait |-> {}]
WantRead(m, p) ==
  IF m.wr = "none" THEN [m EXCEPT !.rd = @ \cup {p}] ELSE [m EXCEPT !.rwait = @ \cup {p}]
HasRead(e, p) == p \in mu[e].rd
EndRead(m, p) == [m EXCEPT !.rd = @ \ {p}]
HasWrite(e, p) == mu[e].wr = p /\ mu[e].rd = {}
EndWrite(m) == [rd |-> m.rwait, wr |-> "none", rwait |-> {}]

RLock(e, p) == mu' = [mu EXCEPT ![e] = WantRead(@, p)]
RUnlock(e, p) == mu' = [mu EXCEPT ![e] = EndRead(@, p)]
Lock(e, p) == mu[e].wr = "none" /\ mu' = [mu EXCEPT ![e].wr = p]
Unlock(e) == mu' = [mu EXCEPT ![e] = EndWrite(@)] /\ state' = [state EXCEPT ![e] = "read"]

OwnerPC == {"write", "close", "flush", "flushing", "flushed", "wlock", "import", "ilock",
            "importing", "cleanup", "clock", "done"}
QuotaPC == {"idle", "size", "flush", "rlock", "flushing", "import", "wlock", "ilock", "reset",
            "rwlock", "rslock"}

\* The variables keep their types.
TypeOK ==
  /\ inMap \subseteq Engines
  /\ mu \in [Engines -> [rd : SUBSET {"owner", "quota", "flush", "worker"},
                         wr : {"none", "owner", "quota"},
                         rwait : SUBSET {"owner", "quota", "flush", "worker"}]]
  /\ state \in [Engines -> {"read", "import"}]
  /\ {closed, db, ctx, dir} \subseteq [Engines -> BOOLEAN]
  /\ {written, mem, pend, stored, imported} \subseteq [Engines -> SUBSET (1..NRows)]
  /\ opc \in [Engines -> OwnerPC] /\ wpc \in [Engines -> {"idle", "rlock"}]
  /\ qpc \in QuotaPC /\ qtodo \subseteq Engines /\ qheld \subseteq Engines
  /\ qfile \subseteq Engines /\ large \subseteq Engines /\ {busy, locked} \subseteq BOOLEAN
  /\ quotas \in 0..MaxQuota
  /\ fpc \in {"idle", "flush", "flushing"} /\ ffile \in Engines /\ flushes \in 0..MaxFlush
  /\ panicked \in {"", "nil db", "nil ctx"}

\* OpenEngine for a new engine; a recovered one has its rows on disk and is
\* not open yet
Init ==
  \E reopened \in Recovered :
  LET rows == [e \in Engines |-> IF e \in reopened THEN 1..NRows ELSE {}]
      none == [e \in Engines |-> {}]
      fresh == [e \in Engines |-> e \notin reopened]
  IN /\ inMap = Engines \ reopened /\ mu = [e \in Engines |-> Free]
     /\ state = [e \in Engines |-> "read"] /\ closed = [e \in Engines |-> FALSE]
     /\ db = fresh /\ ctx = fresh /\ dir = [e \in Engines |-> TRUE]
     /\ written = rows /\ stored = rows /\ mem = none /\ pend = none /\ imported = none
     /\ opc = [e \in Engines |-> IF e \in reopened THEN "close" ELSE "write"]
     /\ wpc = [e \in Engines |-> "idle"]
     /\ qpc = "idle" /\ qtodo = {} /\ qheld = {} /\ qfile = {} /\ large = {} /\ quotas = 0
     /\ busy = FALSE /\ locked = FALSE
     /\ fpc = "idle" /\ ffile = (CHOOSE e \in Engines : TRUE) /\ flushes = 0 /\ panicked = ""

Unlocked(e) == state[e] = "read"

\* flushLocalWriters: the rows in memory become SSTs
Spill(es) ==
  /\ pend' = [e \in Engines |-> IF e \in es THEN pend[e] \cup mem[e] ELSE pend[e]]
  /\ mem' = [e \in Engines |-> IF e \in es THEN {} ELSE mem[e]]
  /\ UNCHANGED <<written, stored, imported>>

----------------------------------------------------------------------------
(* The owner of an engine.                                                 *)

OGoto(e, from, to) == opc[e] = from /\ opc' = [opc EXCEPT ![e] = to]
OwnerOnly == UNCHANGED <<wpc, quotaVars, flushVars, panicked>>

\* MUTANT: the rows are written while the quota check imports the engine
MutWriteRows(e) ==
  /\ opc[e] = "write"
  /\ \E row \in (1..NRows) \ written[e] :
       written' = [written EXCEPT ![e] = @ \cup {row}] /\ mem' = [mem EXCEPT ![e] = @ \cup {row}]
  /\ UNCHANGED <<fileVars, mu, state, pend, stored, imported, opc>> /\ OwnerOnly

\* WriteRows under the shared disk quota lock
WriteRows(e) ==
  /\ opc[e] = "write" /\ ~locked
  /\ \E row \in (1..NRows) \ written[e] :
       written' = [written EXCEPT ![e] = @ \cup {row}] /\ mem' = [mem EXCEPT ![e] = @ \cup {row}]
  /\ UNCHANGED <<fileVars, mu, state, pend, stored, imported, opc>> /\ OwnerOnly

\* the writers are closed; an engine that others flush is closed after that
CloseWriters(e) ==
  /\ OGoto(e, "write", "close") /\ (fpc # "idle" => ffile # e) /\ Spill({e})
  /\ UNCHANGED <<fileVars, mu, state>> /\ OwnerOnly

\* CloseEngine: flush it with the read lock, or open it in recovery mode
CloseEngine(e) ==
  /\ \/ e \in inMap /\ OGoto(e, "close", "flush") /\ RLock(e, "owner") /\ UNCHANGED fileVars
     \/ /\ e \notin inMap /\ OGoto(e, "close", "import") /\ inMap' = inMap \cup {e}
        /\ db' = [db EXCEPT ![e] = TRUE] /\ UNCHANGED <<mu, closed, ctx, dir>>
  /\ UNCHANGED <<state, rowVars>> /\ OwnerOnly

CloseFlush(e) ==
  /\ HasRead(e, "owner") /\ OGoto(e, "flush", "flushing") /\ Spill({e})
  /\ UNCHANGED <<fileVars, mu, state>> /\ OwnerOnly

CloseFlushed(e) ==
  /\ pend[e] = {} /\ OGoto(e, "flushing", "flushed") /\ RUnlock(e, "owner")
  /\ UNCHANGED <<fileVars, state, rowVars>> /\ OwnerOnly

\* the goroutine asks for the write lock to close, import or clean up the engine
OwnerLock(e) ==
  /\ \/ OGoto(e, "flushed", "wlock")
     \/ OGoto(e, "import", "ilock")
     \/ OGoto(e, "cleanup", "clock")
  /\ Lock(e, "owner") /\ UNCHANGED <<fileVars, state, rowVars>> /\ OwnerOnly

SetClosed(e) ==
  /\ HasWrite(e, "owner") /\ OGoto(e, "wlock", "import")
  /\ closed' = [closed EXCEPT ![e] = TRUE] /\ Unlock(e)
  /\ UNCHANGED <<inMap, db, ctx, dir, rowVars>> /\ OwnerOnly

\* ImportEngine: everything in the DB, unless TotalSize is 0
StartImport(e) ==
  /\ HasWrite(e, "owner") /\ OGoto(e, "ilock", "importing")
  /\ state' = [state EXCEPT ![e] = "import"]
  /\ UNCHANGED <<fileVars, mu, rowVars>> /\ OwnerOnly

ImportEngine(e) ==
  /\ OGoto(e, "importing", "cleanup") /\ Unlock(e)
  /\ imported' = [imported EXCEPT ![e] = @ \cup stored[e]]
  /\ UNCHANGED <<fileVars, written, mem, pend, stored>> /\ OwnerOnly

\* CleanupEngine: delete it from the map, close the DB, remove its files
CleanupEngine(e) ==
  /\ HasWrite(e, "owner") /\ OGoto(e, "clock", "done") /\ Unlock(e)
  /\ inMap' = inMap \ {e} /\ db' = [db EXCEPT ![e] = FALSE] /\ dir' = [dir EXCEPT ![e] = FALSE]
  /\ stored' = [stored EXCEPT ![e] = {}] /\ pend' = [pend EXCEPT ![e] = {}]
  /\ UNCHANGED <<closed, ctx, written, mem, imported>> /\ OwnerOnly

OwnerStep(e) ==
  \/ CloseWriters(e) \/ CloseEngine(e) \/ CloseFlush(e) \/ CloseFlushed(e) \/ OwnerLock(e)
  \/ SetClosed(e) \/ StartImport(e) \/ ImportEngine(e) \/ CleanupEngine(e)

----------------------------------------------------------------------------
(* The ingest goroutine: ingestSSTs takes the read lock.                   *)

WorkerLock(e) ==
  /\ wpc[e] = "idle" /\ pend[e] # {} /\ wpc' = [wpc EXCEPT ![e] = "rlock"] /\ RLock(e, "worker")
  /\ UNCHANGED <<fileVars, state, rowVars, opc, quotaVars, flushVars, panicked>>

\* MUTANT: the SSTs ingested stay pending
MutIngestSSTs(e) ==
  /\ wpc[e] = "rlock" /\ HasRead(e, "worker") /\ ~closed[e]
  /\ wpc' = [wpc EXCEPT ![e] = "idle"] /\ RUnlock(e, "worker")
  /\ stored' = [stored EXCEPT ![e] = @ \cup pend[e]]
  /\ UNCHANGED <<fileVars, state, written, mem, pend, imported, opc, quotaVars, flushVars, panicked>>

IngestSSTs(e) ==
  /\ wpc[e] = "rlock" /\ HasRead(e, "worker") /\ ~closed[e]
  /\ wpc' = [wpc EXCEPT ![e] = "idle"] /\ RUnlock(e, "worker")
  /\ stored' = [stored EXCEPT ![e] = @ \cup pend[e]] /\ pend' = [pend EXCEPT ![e] = {}]
  /\ UNCHANGED <<fileVars, state, written, mem, imported, opc, quotaVars, flushVars, panicked>>

WorkerStep(e) == WorkerLock(e) \/ IngestSSTs(e)

----------------------------------------------------------------------------
(* FlushEngine, of an engine that is still written to.                     *)

FlushLock(e) ==
  /\ fpc = "idle" /\ flushes < MaxFlush /\ opc[e] = "write" /\ flushes' = flushes + 1
  /\ fpc' = "flush" /\ ffile' = e /\ RLock(e, "flush")
  /\ UNCHANGED <<fileVars, state, rowVars, opc, wpc, quotaVars, panicked>>

FlushEngine ==
  /\ fpc = "flush" /\ HasRead(ffile, "flush") /\ fpc' = "flushing" /\ Spill({ffile})
  /\ UNCHANGED <<fileVars, mu, state, opc, wpc, quotaVars, ffile, flushes, panicked>>

Flushed ==
  /\ fpc = "flushing" /\ pend[ffile] = {} /\ fpc' = "idle" /\ RUnlock(ffile, "flush")
  /\ UNCHANGED <<fileVars, state, rowVars, opc, wpc, quotaVars, ffile, flushes, panicked>>

FlushStep == FlushEngine \/ Flushed

----------------------------------------------------------------------------
(* The disk quota check.                                                   *)

QuotaOnly == UNCHANGED <<opc, wpc, flushVars>>

\* CheckDiskQuota: EngineFileSizes ranges over the map without a lock
QuotaStart ==
  /\ qpc = "idle" /\ quotas < MaxQuota /\ quotas' = quotas + 1
  /\ qpc' = "size" /\ qtodo' = inMap /\ large' = {} /\ busy' = FALSE
  /\ UNCHANGED <<fileVars, mu, state, rowVars, qheld, qfile, locked, panicked>> /\ QuotaOnly

\* the range loads the next engine of the map
SizeLoad ==
  /\ qpc = "size" /\ qfile = {} /\ \E e \in qtodo :
       \/ e \in inMap /\ qfile' = {e} /\ UNCHANGED qtodo
       \/ e \notin inMap /\ qtodo' = qtodo \ {e} /\ UNCHANGED qfile
  /\ UNCHANGED <<fileVars, mu, state, rowVars, qpc, qheld, large, busy, locked, quotas, panicked>>
  /\ QuotaOnly

\* getEngineFileSize reads e.db; the engine may be among the large ones that
\* are not importing
SizeRead ==
  /\ qpc = "size" /\ \E e \in qfile :
       /\ qtodo' = qtodo \ {e} /\ qfile' = {}
       /\ \/ ~db[e] /\ panicked' = "nil db" /\ UNCHANGED large
          \/ db[e] /\ UNCHANGED <<panicked, large>>
          \/ db[e] /\ Unlocked(e) /\ large' = large \cup {e} /\ UNCHANGED panicked
       /\ busy' \in {busy, busy \/ ~Unlocked(e)}
  /\ UNCHANGED <<fileVars, mu, state, rowVars, qpc, qheld, locked, quotas>> /\ QuotaOnly

\* the quota is respected, or diskQuotaLock is taken and kept; when all large
\* engines are importing already the check is repeated
QuotaLock ==
  /\ qpc = "size" /\ qtodo = {} /\ qfile = {}
  /\ qpc' = IF large # {} THEN "flush" ELSE IF busy THEN "size" ELSE "idle"
  /\ locked' = (large # {} \/ busy) /\ busy' = FALSE /\ qtodo' = IF locked' THEN inMap ELSE {}
  /\ UNCHANGED <<fileVars, mu, state, rowVars, qheld, qfile, large, quotas, panicked>>
  /\ QuotaOnly

\* FlushAllEngines, tryRLockAllEngines: skip an engine that is being imported
\* or closed, wait for the read lock of another
TryRLock ==
  /\ qpc = "flush" /\ \E e \in qtodo :
       \/ /\ e \in inMap /\ Unlocked(e) /\ RLock(e, "quota") /\ qfile' = {e} /\ qpc' = "rlock"
          /\ UNCHANGED qtodo
       \/ (e \notin inMap \/ ~Unlocked(e)) /\ qtodo' = qtodo \ {e} /\ UNCHANGED <<mu, qfile, qpc>>
  /\ UNCHANGED <<fileVars, state, rowVars, qheld, large, busy, locked, quotas, panicked>>
  /\ QuotaOnly

\* ... and keep it unless the engine is closed
GotRLock ==
  /\ qpc = "rlock" /\ \E e \in qfile :
       /\ HasRead(e, "quota") /\ qpc' = "flush" /\ qfile' = {} /\ qtodo' = qtodo \ {e}
       /\ IF closed[e] THEN RUnlock(e, "quota") /\ UNCHANGED qheld
          ELSE qheld' = qheld \cup {e} /\ UNCHANGED mu
  /\ UNCHANGED <<fileVars, state, rowVars, large, busy, locked, quotas, panicked>> /\ QuotaOnly

\* flushEngineWithoutLock of each engine kept; it waits on e.ctx too
FlushAll ==
  /\ qpc = "flush" /\ qtodo = {}
  /\ IF \A e \in qheld : ctx[e]
     THEN qpc' = "flushing" /\ Spill(qheld) /\ UNCHANGED panicked
     ELSE panicked' = "nil ctx" /\ UNCHANGED <<qpc, rowVars>>
  /\ UNCHANGED <<fileVars, mu, state, qtodo, qheld, qfile, large, busy, locked, quotas>>
  /\ QuotaOnly

FlushedAll ==
  /\ qpc = "flushing" /\ \A e \in qheld : pend[e] = {}
  /\ mu' = [e \in Engines |-> IF e \in qheld THEN EndRead(mu[e], "quota") ELSE mu[e]]
  /\ qpc' = "import" /\ qheld' = {} /\ qtodo' = large
  /\ UNCHANGED <<fileVars, state, rowVars, qfile, large, busy, locked, quotas, panicked>>
  /\ QuotaOnly

\* UnsafeImportAndReset of the next large engine: ImportEngine loads it from
\* the map, then waits for the write lock
QuotaLoad ==
  /\ qpc = "import" /\ \E e \in qtodo :
       IF e \in inMap THEN qfile' = {e} /\ qpc' = "wlock" /\ UNCHANGED qtodo
       ELSE qtodo' = qtodo \ {e} /\ UNCHANGED <<qfile, qpc>>
  /\ UNCHANGED <<fileVars, mu, state, rowVars, qheld, large, busy, locked, quotas, panicked>>
  /\ QuotaOnly

\* ResetEngine loads it again
ResetLoad ==
  /\ qpc = "reset" /\ \E e \in qfile :
       IF e \in inMap THEN qpc' = "rwlock" /\ UNCHANGED <<qtodo, qfile>>
       ELSE qpc' = "import" /\ qtodo' = qtodo \ {e} /\ qfile' = {}
  /\ UNCHANGED <<fileVars, mu, state, rowVars, qheld, large, busy, locked, quotas, panicked>>
  /\ QuotaOnly

QuotaWantLock ==
  /\ \/ qpc = "wlock" /\ qpc' = "ilock"
     \/ qpc = "rwlock" /\ qpc' = "rslock"
  /\ \E e \in qfile : Lock(e, "quota")
  /\ UNCHANGED <<fileVars, state, rowVars, qtodo, qheld, qfile, large, busy, locked, quotas, panicked>>
  /\ QuotaOnly

QuotaImport ==
  /\ qpc = "ilock" /\ \E e \in qfile :
       /\ HasWrite(e, "quota") /\ Unlock(e) /\ imported' = [imported EXCEPT ![e] = @ \cup stored[e]]
       /\ panicked' = IF stored[e] # {} /\ ~db[e] THEN "nil db" ELSE panicked
  /\ qpc' = "reset"
  /\ UNCHANGED <<fileVars, written, mem, pend, stored, qtodo, qheld, qfile, large, busy, locked, quotas>>
  /\ QuotaOnly

\* ResetEngine: delete the DB and the SSTs, and open a new DB
ResetEngine ==
  /\ qpc = "rslock" /\ \E e \in qfile :
       /\ HasWrite(e, "quota") /\ Unlock(e) /\ stored' = [stored EXCEPT ![e] = {}]
       /\ db' = [db EXCEPT ![e] = TRUE] /\ dir' = [dir EXCEPT ![e] = TRUE]
       /\ qtodo' = qtodo \ {e} /\ pend' = [pend EXCEPT ![e] = {}]
  /\ qpc' = "import" /\ qfile' = {}
  /\ UNCHANGED <<inMap, closed, ctx, written, mem, imported, qheld, large, busy, locked, quotas, panicked>>
  /\ QuotaOnly

QuotaUnlock ==
  /\ qpc = "import" /\ qtodo = {} /\ qpc' = "idle" /\ locked' = FALSE
  /\ UNCHANGED <<fileVars, mu, state, rowVars, qtodo, qheld, qfile, large, busy, quotas, panicked>>
  /\ QuotaOnly

QuotaStep ==
  \/ SizeLoad \/ SizeRead \/ QuotaLock \/ TryRLock \/ GotRLock \/ FlushAll \/ FlushedAll
  \/ QuotaLoad \/ ResetLoad \/ QuotaWantLock \/ QuotaImport \/ ResetEngine \/ QuotaUnlock

----------------------------------------------------------------------------

Ended ==
  \/ panicked # ""
  \/ (\A e \in Engines : opc[e] = "done") /\ qpc = "idle" /\ fpc = "idle"
Next ==
  \/ panicked = "" /\ \E e \in Engines :
       WriteRows(e) \/ OwnerStep(e) \/ WorkerStep(e) \/ FlushLock(e)
  \/ panicked = "" /\ (FlushStep \/ QuotaStart \/ QuotaStep)
  \/ Ended /\ UNCHANGED vars
Spec == Init /\ [][Next]_vars

\* every goroutine goes on, and the owner closes its engine at last; rows,
\* quota checks and flushes need not come
Fairness ==
  /\ \A e \in Engines :
       WF_vars(panicked = "" /\ OwnerStep(e)) /\ WF_vars(panicked = "" /\ WorkerStep(e))
  /\ WF_vars(panicked = "" /\ FlushStep) /\ WF_vars(panicked = "" /\ QuotaStep)
FairSpec == Spec /\ Fairness

----------------------------------------------------------------------------
(* Properties.                                                             *)

\* No row is lost: every row written is in memory, in an SST, in the DB, or
\* imported, although the quota check imports and resets engines that are
\* still written to and CleanupEngine deletes what an engine holds; and an engine
\* that has been cleaned up has all of its rows imported.
RowsKept ==
  /\ TypeOK
  /\ \A e \in Engines :
       /\ written[e] = mem[e] \cup pend[e] \cup stored[e] \cup imported[e]
       /\ opc[e] = "done" => written[e] = imported[e]

\* Every engine is closed, imported and cleaned up at last: a flush, the ingest
\* it waits for and a goroutine that wants the write lock never block one
\* another for good.
EnginesFinish == <>(panicked # "" \/ \A e \in Engines : opc[e] = "done")
====
