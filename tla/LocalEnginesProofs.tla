------------------------- MODULE LocalEnginesProofs -------------------------
(***************************************************************************)
(* No row of an engine is lost, for any set of engines, any number of rows *)
(* and any number of quota checks and flushes.                             *)
(***************************************************************************)
EXTENDS LocalEngines, TLAPS

-----------------------------------------------------------------------------
(* The invariant.                                                          *)

\* Nothing that the local writers or the ingest goroutine still hold.
Empty(e) == mem[e] = {} /\ pend[e] = {}
AfterFlush == {"flushed", "wlock", "import", "ilock", "importing", "cleanup", "clock", "done"}

Kept(e) == written[e] = mem[e] \cup pend[e] \cup stored[e] \cup imported[e]

\* What the owner of an engine has done to it.  The last two conjuncts are why
\* tryRLockAllEngines may skip an engine that is closed or being imported.
OwnerInv(e) ==
  /\ opc[e] # "write" => mem[e] = {}
  /\ opc[e] \in AfterFlush => pend[e] = {}
  /\ opc[e] \in {"cleanup", "clock", "done"} => stored[e] \subseteq imported[e]
  /\ e \notin inMap => Empty(e) /\ opc[e] \in {"close", "done"}
  /\ closed[e] => opc[e] \in AfterFlush
  /\ state[e] = "import" => opc[e] = "importing"

\* What the quota check has done: from FlushAllEngines on no engine holds rows that a
\* reset would delete, and what ResetEngine deletes was imported.
QuotaInv(e) ==
  /\ qpc \in {"flush", "rlock"} /\ e \notin qtodo \cup qheld => Empty(e)
  /\ qpc = "flushing" => mem[e] = {} /\ (e \notin qheld => pend[e] = {})
  /\ qpc \in {"import", "wlock", "ilock", "reset", "rwlock", "rslock"} => Empty(e)
  /\ qpc \in {"reset", "rwlock", "rslock"} /\ e \in qfile => stored[e] \subseteq imported[e]

\* It holds diskQuotaLock from then on, and works on one engine at a time.
LockedInv == (qpc \notin {"idle", "size"} => locked) /\ \A x, y \in qfile : x = y

EngineInv(e) == Kept(e) /\ OwnerInv(e) /\ QuotaInv(e)
IInv == TypeOK /\ LockedInv /\ \A e \in Engines : EngineInv(e)

-----------------------------------------------------------------------------
(* The types, by the goroutine that changes them.                          *)

Procs == {"owner", "quota", "flush", "worker"}
Mutex == [rd : SUBSET Procs, wr : {"none", "owner", "quota"}, rwait : SUBSET Procs]
RowSets == [Engines -> SUBSET (1..NRows)]
FileType == inMap \subseteq Engines /\ {closed, db, ctx, dir} \subseteq [Engines -> BOOLEAN]
LockType == mu \in [Engines -> Mutex] /\ state \in [Engines -> {"read", "import"}]
RowType == {written, mem, pend, stored, imported} \subseteq RowSets
PlaceType == opc \in [Engines -> OwnerPC] /\ wpc \in [Engines -> {"idle", "rlock"}]
QuotaType ==
  /\ qpc \in QuotaPC /\ qtodo \subseteq Engines /\ qheld \subseteq Engines
  /\ qfile \subseteq Engines /\ large \subseteq Engines /\ {busy, locked} \subseteq BOOLEAN
  /\ quotas \in 0..MaxQuota
FlushType ==
  /\ fpc \in {"idle", "flush", "flushing"} /\ ffile \in Engines /\ flushes \in 0..MaxFlush
PanicType == panicked \in {"", "nil db", "nil ctx"}

\* TypeOK, taken apart.
LEMMA Types ==
  TypeOK <=> FileType /\ LockType /\ RowType /\ PlaceType /\ QuotaType /\ FlushType /\ PanicType
BY Zenon DEF TypeOK, FileType, LockType, RowType, PlaceType, QuotaType, FlushType, PanicType,
       Mutex, Procs, RowSets

\* The same of the next state.
LEMMA TypesNext ==
  /\ FileType' /\ LockType' /\ RowType' /\ PlaceType' /\ QuotaType' /\ FlushType' /\ PanicType'
  => TypeOK'
BY Zenon DEF TypeOK, FileType, LockType, RowType, PlaceType, QuotaType, FlushType, PanicType,
       Mutex, Procs, RowSets

\* What is not assigned keeps its type.
LEMMA Stays ==
  /\ FileType /\ UNCHANGED fileVars => FileType'
  /\ LockType /\ UNCHANGED <<mu, state>> => LockType'
  /\ RowType /\ UNCHANGED rowVars => RowType'
  /\ PlaceType /\ UNCHANGED <<opc, wpc>> => PlaceType'
  /\ QuotaType /\ UNCHANGED quotaVars => QuotaType'
  /\ FlushType /\ UNCHANGED flushVars => FlushType'
  /\ PanicType /\ UNCHANGED panicked => PanicType'
<1>1. FileType /\ UNCHANGED fileVars => FileType'
  BY Zenon DEF FileType, fileVars
<1>2. LockType /\ UNCHANGED <<mu, state>> => LockType'
  BY Zenon DEF LockType
<1>3. RowType /\ UNCHANGED rowVars => RowType'
  BY Zenon DEF RowType, rowVars
<1>4. PlaceType /\ UNCHANGED <<opc, wpc>> => PlaceType'
  BY Zenon DEF PlaceType
<1>5. QuotaType /\ UNCHANGED quotaVars => QuotaType'
  BY Zenon DEF QuotaType, quotaVars
<1>6. FlushType /\ UNCHANGED flushVars => FlushType'
  BY Zenon DEF FlushType, flushVars
<1>7. PanicType /\ UNCHANGED panicked => PanicType'
  BY Zenon DEF PanicType
<1> QED BY <1>1, <1>2, <1>3, <1>4, <1>5, <1>6, <1>7, Zenon

\* The mutex operations return mutexes.
LEMMA MutexOps ==
  ASSUME NEW m \in Mutex, NEW p \in Procs
  PROVE  WantRead(m, p) \in Mutex /\ EndRead(m, p) \in Mutex /\ EndWrite(m) \in Mutex
BY Zenon DEF WantRead, EndRead, EndWrite, Mutex

\* The operations on the mutex of an engine keep LockType.
LEMMA LockOps ==
  ASSUME LockType, NEW e \in Engines, NEW p \in Procs
  PROVE  /\ RLock(e, p) /\ UNCHANGED state => LockType'
         /\ RUnlock(e, p) /\ UNCHANGED state => LockType'
         /\ Lock(e, p) /\ p \in {"owner", "quota"} /\ UNCHANGED state => LockType'
         /\ Unlock(e) => LockType' /\ state'[e] = "read" /\ \A x \in Engines \ {e} : state'[x] = state[x]
<1>1. mu \in [Engines -> Mutex] /\ mu[e] \in Mutex /\ state \in [Engines -> {"read", "import"}]
  BY Zenon DEF LockType
<1>2. RLock(e, p) => mu' \in [Engines -> Mutex]
  BY <1>1, MutexOps, Zenon DEF RLock
<1>3. RUnlock(e, p) => mu' \in [Engines -> Mutex]
  BY <1>1, MutexOps, Zenon DEF RUnlock
<1>4. Lock(e, p) /\ p \in {"owner", "quota"} => mu' \in [Engines -> Mutex]
  BY <1>1 DEF Lock, Mutex
<1>5. Unlock(e) => mu' \in [Engines -> Mutex] /\ state' \in [Engines -> {"read", "import"}]
  BY <1>1, MutexOps, Zenon DEF Unlock
<1>6. Unlock(e) => state'[e] = "read" /\ \A x \in Engines \ {e} : state'[x] = state[x]
  BY <1>1, Zenon DEF Unlock
<1> QED BY <1>1, <1>2, <1>3, <1>4, <1>5, <1>6, Zenon DEF LockType

\* flushLocalWriters moves rows from memory to SSTs.
LEMMA Spilt ==
  ASSUME RowType, NEW es, Spill(es)
  PROVE  /\ RowType'
         /\ \A x \in Engines : /\ x \in es => mem'[x] = {} /\ pend'[x] = pend[x] \cup mem[x]
                               /\ x \notin es => mem'[x] = mem[x] /\ pend'[x] = pend[x]
         /\ written' = written /\ stored' = stored /\ imported' = imported
<1>1. \A x \in Engines : pend[x] \in SUBSET (1..NRows) /\ mem[x] \in SUBSET (1..NRows)
  BY Zenon DEF RowType, RowSets
<1>2. pend' \in RowSets /\ mem' \in RowSets
  BY <1>1, Zenon DEF Spill, RowSets
<1> QED BY <1>2, Zenon DEF Spill, RowType

\* OGoto moves one owner.
LEMMA Went ==
  ASSUME PlaceType, NEW e \in Engines, NEW from \in OwnerPC, NEW to \in OwnerPC,
         OGoto(e, from, to), UNCHANGED wpc
  PROVE  /\ PlaceType' /\ opc[e] = from /\ opc'[e] = to
         /\ \A x \in Engines \ {e} : opc'[x] = opc[x]
BY Zenon DEF OGoto, PlaceType

\* The initial state: a new engine is empty, a recovered one has its rows in the DB.
LEMMA InitIInv == Init => IInv
<1> SUFFICES ASSUME Init PROVE IInv
  BY Zenon
<1>1. PICK reopened \in Recovered :
       /\ inMap = Engines \ reopened /\ mu = [e \in Engines |-> Free]
       /\ state = [e \in Engines |-> "read"] /\ closed = [e \in Engines |-> FALSE]
       /\ db = [e \in Engines |-> e \notin reopened] /\ ctx = [e \in Engines |-> e \notin reopened]
       /\ dir = [e \in Engines |-> TRUE]
       /\ written = [e \in Engines |-> IF e \in reopened THEN 1..NRows ELSE {}]
       /\ stored = [e \in Engines |-> IF e \in reopened THEN 1..NRows ELSE {}]
       /\ mem = [e \in Engines |-> {}]
       /\ pend = [e \in Engines |-> {}] /\ imported = [e \in Engines |-> {}]
       /\ opc = [e \in Engines |-> IF e \in reopened THEN "close" ELSE "write"]
  BY Zenon DEF Init
<1>2. ffile = CHOOSE e \in Engines : TRUE
  BY Zenon DEF Init
<1>a. /\ wpc = [e \in Engines |-> "idle"]
      /\ qpc = "idle" /\ qtodo = {} /\ qheld = {} /\ qfile = {} /\ large = {} /\ quotas = 0
      /\ busy = FALSE /\ locked = FALSE
      /\ fpc = "idle" /\ flushes = 0
  BY Zenon DEF Init
<1>3. FileType /\ RowType
  BY <1>1, Zenon DEF FileType, RowType, RowSets
<1>4. LockType
  BY <1>1, Zenon DEF LockType, Free, Mutex
<1>5. PlaceType
  BY <1>1, <1>a, Zenon DEF PlaceType, OwnerPC
<1>6. QuotaType /\ FlushType /\ PanicType
  <2>1. ffile \in Engines
    BY <1>2, EnginesAssumption, Zenon
  <2>2. MaxQuota \in Nat /\ MaxFlush \in Nat
    BY EnginesAssumption, Zenon
  <2>3. {busy, locked} \subseteq BOOLEAN
    BY <1>a, Zenon
  <2>4. QuotaType
    BY <1>a, <2>2, <2>3 DEF QuotaType, QuotaPC
  <2>5. FlushType
    BY <1>a, <2>1, <2>2 DEF FlushType
  <2>6. PanicType
    BY Zenon DEF Init, PanicType
  <2> QED BY <2>4, <2>5, <2>6, Zenon
<1>7. LockedInv
  BY <1>a, Zenon DEF LockedInv
<1>8. \A e \in Engines : EngineInv(e)
  BY <1>1, <1>a, Zenon DEF EngineInv, Kept, OwnerInv, QuotaInv, Empty, AfterFlush
<1> QED BY <1>3, <1>4, <1>5, <1>6, <1>7, <1>8, Types, Zenon DEF IInv

-----------------------------------------------------------------------------
(* The owner of an engine, its ingest goroutine and FlushEngine.           *)

\* A step leaves an engine as it is.
Same(x) ==
  /\ written'[x] = written[x] /\ mem'[x] = mem[x] /\ pend'[x] = pend[x]
  /\ stored'[x] = stored[x] /\ imported'[x] = imported[x]
  /\ opc'[x] = opc[x] /\ closed'[x] = closed[x] /\ state'[x] = state[x]
  /\ (x \in inMap' <=> x \in inMap)

\* A step of one engine that leaves the quota check alone has to keep what the invariant
\* says of that engine.
LEMMA EngineStep ==
  ASSUME IInv, NEW e \in Engines, TypeOK', UNCHANGED quotaVars,
         \A x \in Engines \ {e} : Same(x), EngineInv(e)'
  PROVE  IInv'
<1>1. qpc' = qpc /\ qtodo' = qtodo /\ qheld' = qheld /\ qfile' = qfile /\ locked' = locked
  BY Zenon DEF quotaVars
<1>2. LockedInv'
  BY <1>1, Zenon DEF IInv, LockedInv
<1>3. \A x \in Engines \ {e} : Kept(x)' /\ OwnerInv(x)'
  BY DEF IInv, EngineInv, Same, Kept, OwnerInv, Empty
<1>4. \A x \in Engines \ {e} : QuotaInv(x)'
  BY <1>1, Zenon DEF IInv, EngineInv, Same, QuotaInv, Empty
<1> QED BY <1>2, <1>3, <1>4, Zenon DEF IInv, EngineInv

\* What the invariant says of one engine, and the types.
LEMMA Use ==
  ASSUME IInv, NEW e \in Engines
  PROVE  /\ Kept(e) /\ OwnerInv(e) /\ QuotaInv(e) /\ LockedInv
         /\ FileType /\ LockType /\ RowType /\ PlaceType /\ QuotaType /\ FlushType /\ PanicType
BY Types, Zenon DEF IInv, EngineInv

\* OwnerOnly, taken apart.
LEMMA Only ==
  ASSUME OwnerOnly
  PROVE  UNCHANGED wpc /\ UNCHANGED quotaVars /\ UNCHANGED flushVars /\ UNCHANGED panicked
BY Zenon DEF OwnerOnly

\* A row is written only while the quota check does not hold diskQuotaLock.
LEMMA WriteKeeps ==
  ASSUME IInv, NEW e \in Engines, WriteRows(e)
  PROVE  IInv'
<1>u. /\ Kept(e) /\ OwnerInv(e) /\ QuotaInv(e) /\ LockedInv
      /\ FileType /\ LockType /\ RowType /\ PlaceType /\ QuotaType /\ FlushType /\ PanicType
  BY Use, Zenon
<1> USE <1>u, Only
<1>1. /\ opc[e] = "write" /\ ~locked /\ OwnerOnly
      /\ UNCHANGED fileVars /\ UNCHANGED <<mu, state, pend, stored, imported, opc>>
  BY Zenon DEF WriteRows
<1>2. PICK row \in 1..NRows : /\ written' = [written EXCEPT ![e] = @ \cup {row}]
                             /\ mem' = [mem EXCEPT ![e] = @ \cup {row}]
  BY Zenon DEF WriteRows
<1>3. RowType'
  BY <1>1, <1>2 DEF RowType, RowSets
<1>4. TypeOK'
  BY <1>1, <1>3, TypesNext, Stays, Zenon
<1>5. /\ written'[e] = written[e] \cup {row} /\ mem'[e] = mem[e] \cup {row}
      /\ \A x \in Engines \ {e} : written'[x] = written[x] /\ mem'[x] = mem[x]
  BY <1>2, Zenon DEF RowType, RowSets
<1>6. \A x \in Engines \ {e} : Same(x)
  BY <1>1, <1>5, Zenon DEF Same, fileVars
<1>7. qpc' \in {"idle", "size"}
  BY <1>1, Zenon DEF LockedInv, quotaVars
<1>8. EngineInv(e)'
  <2>1. Kept(e)'
    BY <1>1, <1>5, Zenon DEF Kept
  <2>2. OwnerInv(e)'
    BY <1>1, <1>5, Zenon DEF OwnerInv, AfterFlush, fileVars
  <2>3. QuotaInv(e)'
    BY <1>7, Zenon DEF QuotaInv
  <2> QED BY <2>1, <2>2, <2>3, Zenon DEF EngineInv
<1> QED BY <1>1, <1>4, <1>6, <1>8, EngineStep, Zenon

\* The rows in memory become SSTs when the writers are closed and when the owner flushes.
LEMMA SpillKeeps ==
  ASSUME IInv, NEW e \in Engines, CloseWriters(e) \/ CloseFlush(e)
  PROVE  IInv'
<1>u. /\ Kept(e) /\ OwnerInv(e) /\ QuotaInv(e) /\ LockedInv
      /\ FileType /\ LockType /\ RowType /\ PlaceType /\ QuotaType /\ FlushType /\ PanicType
  BY Use, Zenon
<1> USE <1>u, Only
<1>1. PICK from \in {"write", "flush"} : \E to \in {"close", "flushing"} : OGoto(e, from, to)
  BY Zenon DEF CloseWriters, CloseFlush
<1>2. PICK to \in {"close", "flushing"} : OGoto(e, from, to)
  BY <1>1, Zenon
<1>3. Spill({e}) /\ UNCHANGED fileVars /\ UNCHANGED <<mu, state>> /\ OwnerOnly
  BY Zenon DEF CloseWriters, CloseFlush
<1>4. /\ PlaceType' /\ opc[e] = from /\ opc'[e] = to
      /\ \A x \in Engines \ {e} : opc'[x] = opc[x]
  BY <1>2, <1>3, Went, Zenon DEF OwnerPC
<1>5. /\ RowType' /\ mem'[e] = {} /\ pend'[e] = pend[e] \cup mem[e]
      /\ \A x \in Engines \ {e} : mem'[x] = mem[x] /\ pend'[x] = pend[x]
      /\ written' = written /\ stored' = stored /\ imported' = imported
  BY <1>3, Spilt, Zenon
<1>6. TypeOK'
  BY <1>3, <1>4, <1>5, TypesNext, Stays, Zenon
<1>7. \A x \in Engines \ {e} : Same(x)
  BY <1>3, <1>4, <1>5, Zenon DEF Same, fileVars
<1>8. EngineInv(e)'
  <2>1. Kept(e)'
    BY <1>5, Zenon DEF Kept
  <2>2. OwnerInv(e)'
    BY <1>3, <1>4, <1>5, Zenon DEF OwnerInv, AfterFlush, Empty, fileVars
  <2>3. QuotaInv(e)'
    BY <1>3, <1>5, Zenon DEF QuotaInv, Empty, quotaVars
  <2> QED BY <2>1, <2>2, <2>3, Zenon DEF EngineInv
<1> QED BY <1>3, <1>6, <1>7, <1>8, EngineStep, Zenon

\* A step of the owner that moves no rows.
LEMMA OwnerMoves ==
  ASSUME IInv, NEW e \in Engines, NEW from \in OwnerPC, NEW to \in OwnerPC,
         OGoto(e, from, to), OwnerOnly, UNCHANGED rowVars, FileType', LockType',
         \A x \in Engines \ {e} : closed'[x] = closed[x] /\ state'[x] = state[x]
                                  /\ (x \in inMap' <=> x \in inMap),
         from # "write", to # "write", to \notin {"cleanup", "clock", "done"} \/ from = "cleanup",
         to \in AfterFlush => from \in AfterFlush \/ pend[e] = {},
         e \in inMap', closed'[e] => to \in AfterFlush,
         state'[e] = "import" => to = "importing"
  PROVE  IInv'
<1>u. /\ Kept(e) /\ OwnerInv(e) /\ QuotaInv(e) /\ LockedInv
      /\ FileType /\ LockType /\ RowType /\ PlaceType /\ QuotaType /\ FlushType /\ PanicType
  BY Use, Zenon
<1> USE <1>u, Only
<1>1. /\ PlaceType' /\ opc[e] = from /\ opc'[e] = to
      /\ \A x \in Engines \ {e} : opc'[x] = opc[x]
  BY Went, Zenon
<1>2. written' = written /\ mem' = mem /\ pend' = pend /\ stored' = stored /\ imported' = imported
  BY Zenon DEF rowVars
<1>3. TypeOK'
  BY <1>1, TypesNext, Stays, Zenon
<1>4. \A x \in Engines \ {e} : Same(x)
  BY <1>1, <1>2, Zenon DEF Same
<1>5. EngineInv(e)'
  <2>1. Kept(e)'
    BY <1>2, Zenon DEF Kept
  <2>2. OwnerInv(e)'
    BY <1>1, <1>2, Zenon DEF OwnerInv
  <2>3. QuotaInv(e)'
    BY <1>2, Zenon DEF QuotaInv, Empty, quotaVars
  <2> QED BY <2>1, <2>2, <2>3, Zenon DEF EngineInv
<1> QED BY <1>3, <1>4, <1>5, EngineStep, Zenon

\* CloseEngine, in both modes.
LEMMA CloseKeeps ==
  ASSUME IInv, NEW e \in Engines, CloseEngine(e)
  PROVE  IInv'
<1>u. /\ Kept(e) /\ OwnerInv(e) /\ QuotaInv(e) /\ LockedInv
      /\ FileType /\ LockType /\ RowType /\ PlaceType /\ QuotaType /\ FlushType /\ PanicType
  BY Use, Zenon
<1> USE <1>u, Only
<1>0. UNCHANGED state /\ UNCHANGED rowVars /\ OwnerOnly
  BY Zenon DEF CloseEngine
<1>1. CASE e \in inMap /\ OGoto(e, "close", "flush") /\ RLock(e, "owner") /\ UNCHANGED fileVars
  <2>1. opc[e] = "close" /\ inMap' = inMap /\ closed' = closed
    BY <1>1, Zenon DEF OGoto, fileVars
  <2>2. FileType' /\ LockType'
    BY <1>0, <1>1, Stays, LockOps, Zenon DEF Procs
  <2>3. ~closed'[e] /\ state'[e] # "import"
    BY <1>0, <2>1, Zenon DEF OwnerInv, AfterFlush
  <2> QED BY <1>0, <1>1, <2>1, <2>2, <2>3, OwnerMoves, Zenon DEF OwnerPC, AfterFlush
<1>2. CASE /\ e \notin inMap /\ OGoto(e, "close", "import") /\ inMap' = inMap \cup {e}
           /\ db' = [db EXCEPT ![e] = TRUE] /\ UNCHANGED <<mu, closed, ctx, dir>>
  <2>1. opc[e] = "close" /\ closed' = closed
    BY <1>2, Zenon DEF OGoto
  <2>2. FileType'
    BY <1>2, Zenon DEF FileType
  <2>3. LockType'
    BY <1>0, <1>2, Stays, Zenon
  <2>4. ~closed'[e] /\ state'[e] # "import" /\ pend[e] = {}
    BY <1>0, <1>2, <2>1, Zenon DEF OwnerInv, AfterFlush, Empty
  <2>5. \A x \in Engines \ {e} : closed'[x] = closed[x] /\ state'[x] = state[x] /\ (x \in inMap' <=> x \in inMap)
    BY <1>0, <1>2, Zenon
  <2>6. e \in inMap' /\ OGoto(e, "close", "import")
    BY <1>2, Zenon
  <2> QED BY <1>0, <2>2, <2>3, <2>4, <2>5, <2>6, OwnerMoves, Zenon DEF OwnerPC, AfterFlush
<1> QED BY <1>1, <1>2, Zenon DEF CloseEngine

\* The end of the flush and the requests for the write lock.
LEMMA LockKeeps ==
  ASSUME IInv, NEW e \in Engines, CloseFlushed(e) \/ OwnerLock(e)
  PROVE  IInv'
<1>u. /\ Kept(e) /\ OwnerInv(e) /\ QuotaInv(e) /\ LockedInv
      /\ FileType /\ LockType /\ RowType /\ PlaceType /\ QuotaType /\ FlushType /\ PanicType
  BY Use, Zenon
<1> USE <1>u, Only
<1>1. UNCHANGED fileVars /\ UNCHANGED state /\ UNCHANGED rowVars /\ OwnerOnly
  BY Zenon DEF CloseFlushed, OwnerLock
<1>2. LockType'
  BY LockOps, Zenon DEF CloseFlushed, OwnerLock, Procs
<1>3. \/ OGoto(e, "flushing", "flushed") /\ pend[e] = {}
      \/ OGoto(e, "flushed", "wlock") \/ OGoto(e, "import", "ilock") \/ OGoto(e, "cleanup", "clock")
  BY Zenon DEF CloseFlushed, OwnerLock
<1>4. ASSUME NEW from \in {"flushing", "flushed", "import", "cleanup"},
             NEW to \in {"flushed", "wlock", "ilock", "clock"}, OGoto(e, from, to),
             to = "flushed" => pend[e] = {}, to # "flushed" => from # "flushing",
             to = "clock" => from = "cleanup"
      PROVE  IInv'
  <2>1. opc[e] = from /\ FileType' /\ inMap' = inMap /\ closed' = closed
    BY <1>1, <1>4, Stays, Zenon DEF OGoto, fileVars
  <2>2. e \in inMap' /\ state'[e] # "import"
    BY <1>1, <2>1, Zenon DEF OwnerInv
  <2>3. to \in AfterFlush /\ (from \in AfterFlush \/ pend[e] = {})
    BY <1>4, Zenon DEF AfterFlush
  <2>4. from \in OwnerPC /\ to \in OwnerPC
    BY <1>4, Zenon DEF OwnerPC
  <2> QED BY <1>1, <1>2, <1>4, <2>1, <2>2, <2>3, <2>4, OwnerMoves, Zenon
<1> QED BY <1>3, <1>4, Zenon

\* File.closed and isImportingAtomic are set under the write lock.
LEMMA MarkKeeps ==
  ASSUME IInv, NEW e \in Engines, SetClosed(e) \/ StartImport(e)
  PROVE  IInv'
<1>u. /\ Kept(e) /\ OwnerInv(e) /\ QuotaInv(e) /\ LockedInv
      /\ FileType /\ LockType /\ RowType /\ PlaceType /\ QuotaType /\ FlushType /\ PanicType
  BY Use, Zenon
<1> USE <1>u, Only
<1>0. UNCHANGED rowVars /\ OwnerOnly /\ inMap' = inMap
  BY Zenon DEF SetClosed, StartImport, fileVars
<1>1. CASE SetClosed(e)
  <2>1. OGoto(e, "wlock", "import") /\ opc[e] = "wlock" /\ Unlock(e)
    BY <1>1, Zenon DEF SetClosed, OGoto
  <2>2. FileType' /\ \A x \in Engines \ {e} : closed'[x] = closed[x]
    BY <1>1 DEF SetClosed, FileType
  <2>3. LockType' /\ state'[e] = "read" /\ \A x \in Engines \ {e} : state'[x] = state[x]
    BY <2>1, LockOps, Zenon DEF Procs
  <2>4. e \in inMap'
    BY <1>0, <2>1, Zenon DEF OwnerInv
  <2> QED BY <1>0, <2>1, <2>2, <2>3, <2>4, OwnerMoves, Zenon DEF OwnerPC, AfterFlush
<1>2. CASE StartImport(e)
  <2>1. OGoto(e, "ilock", "importing") /\ opc[e] = "ilock" /\ UNCHANGED fileVars /\ mu' = mu
    BY <1>2, Zenon DEF StartImport, OGoto
  <2>2. FileType' /\ closed' = closed
    BY <2>1, Stays, Zenon DEF fileVars
  <2>3. LockType' /\ \A x \in Engines \ {e} : state'[x] = state[x]
    BY <1>2, <2>1, Zenon DEF StartImport, LockType
  <2>4. e \in inMap'
    BY <1>0, <2>1, Zenon DEF OwnerInv
  <2> QED BY <1>0, <2>1, <2>2, <2>3, <2>4, OwnerMoves, Zenon DEF OwnerPC, AfterFlush
<1> QED BY <1>1, <1>2, Zenon

\* The owner imports what is in the DB, which is all there is.
LEMMA ImportKeeps ==
  ASSUME IInv, NEW e \in Engines, ImportEngine(e)
  PROVE  IInv'
<1>u. /\ Kept(e) /\ OwnerInv(e) /\ QuotaInv(e) /\ LockedInv
      /\ FileType /\ LockType /\ RowType /\ PlaceType /\ QuotaType /\ FlushType /\ PanicType
  BY Use, Zenon
<1> USE <1>u, Only
<1>1. /\ OGoto(e, "importing", "cleanup") /\ Unlock(e) /\ OwnerOnly
      /\ imported' = [imported EXCEPT ![e] = @ \cup stored[e]]
      /\ UNCHANGED fileVars /\ UNCHANGED <<written, mem, pend, stored>>
  BY Zenon DEF ImportEngine
<1>2. PlaceType' /\ opc[e] = "importing" /\ opc'[e] = "cleanup" /\ \A x \in Engines \ {e} : opc'[x] = opc[x]
  BY <1>1, Went, Zenon DEF OwnerPC
<1>3. RowType' /\ imported'[e] = imported[e] \cup stored[e] /\ \A x \in Engines \ {e} : imported'[x] = imported[x]
  BY <1>1 DEF RowType, RowSets
<1>4. LockType' /\ state'[e] = "read" /\ \A x \in Engines \ {e} : state'[x] = state[x]
  BY <1>1, LockOps, Zenon DEF Procs
<1>5. TypeOK'
  BY <1>1, <1>2, <1>3, <1>4, TypesNext, Stays, Zenon
<1>6. inMap' = inMap /\ closed' = closed
  BY <1>1, Zenon DEF fileVars
<1>7. \A x \in Engines \ {e} : Same(x)
  BY <1>1, <1>2, <1>3, <1>4, <1>6, Zenon DEF Same
<1>8. EngineInv(e)'
  <2>1. Kept(e)'
    BY <1>1, <1>3, Zenon DEF Kept
  <2>2. OwnerInv(e)'
    BY <1>1, <1>2, <1>3, <1>4, <1>6, Zenon DEF OwnerInv, AfterFlush
  <2>3. QuotaInv(e)'
    BY <1>1, <1>3, Zenon DEF QuotaInv, Empty, quotaVars
  <2> QED BY <2>1, <2>2, <2>3, Zenon DEF EngineInv
<1> QED BY <1>1, <1>5, <1>7, <1>8, EngineStep, Zenon

\* CleanupEngine deletes what has been imported.
LEMMA CleanupKeeps ==
  ASSUME IInv, NEW e \in Engines, CleanupEngine(e)
  PROVE  IInv'
<1>u. /\ Kept(e) /\ OwnerInv(e) /\ QuotaInv(e) /\ LockedInv
      /\ FileType /\ LockType /\ RowType /\ PlaceType /\ QuotaType /\ FlushType /\ PanicType
  BY Use, Zenon
<1> USE <1>u, Only
<1>1. /\ OGoto(e, "clock", "done") /\ Unlock(e) /\ OwnerOnly
      /\ inMap' = inMap \ {e} /\ db' = [db EXCEPT ![e] = FALSE] /\ dir' = [dir EXCEPT ![e] = FALSE]
      /\ stored' = [stored EXCEPT ![e] = {}] /\ pend' = [pend EXCEPT ![e] = {}]
      /\ UNCHANGED <<closed, ctx, written, mem, imported>>
  BY Zenon DEF CleanupEngine
<1>2. PlaceType' /\ opc[e] = "clock" /\ opc'[e] = "done" /\ \A x \in Engines \ {e} : opc'[x] = opc[x]
  BY <1>1, Went, Zenon DEF OwnerPC
<1>3. RowType' /\ stored'[e] = {} /\ pend'[e] = {}
      /\ \A x \in Engines \ {e} : stored'[x] = stored[x] /\ pend'[x] = pend[x]
  <2>1. /\ stored' = [stored EXCEPT ![e] = {}] /\ pend' = [pend EXCEPT ![e] = {}]
        /\ UNCHANGED <<written, mem, imported>>
    BY <1>1, Zenon
  <2> QED BY <2>1 DEF RowType, RowSets
<1>4. LockType' /\ state'[e] = "read" /\ \A x \in Engines \ {e} : state'[x] = state[x]
  BY <1>1, LockOps, Zenon DEF Procs
<1>5. FileType'
  BY <1>1, Zenon DEF FileType
<1>6. TypeOK'
  BY <1>1, <1>2, <1>3, <1>4, <1>5, TypesNext, Stays, Zenon
<1>7. \A x \in Engines \ {e} : Same(x)
  BY <1>1, <1>2, <1>3, <1>4, Zenon DEF Same
<1>8. EngineInv(e)'
  <2>1. Kept(e)'
    BY <1>1, <1>2, <1>3, Zenon DEF Kept, OwnerInv, AfterFlush
  <2>2. OwnerInv(e)'
    BY <1>1, <1>2, <1>3, <1>4, Zenon DEF OwnerInv, AfterFlush, Empty
  <2>3. QuotaInv(e)'
    BY <1>1, <1>3, Zenon DEF QuotaInv, Empty, quotaVars
  <2> QED BY <2>1, <2>2, <2>3, Zenon DEF EngineInv
<1> QED BY <1>1, <1>6, <1>7, <1>8, EngineStep, Zenon

\* The ingest goroutine moves SSTs into the DB.
LEMMA WorkerKeeps ==
  ASSUME IInv, NEW e \in Engines, WorkerStep(e)
  PROVE  IInv'
<1>u. /\ Kept(e) /\ OwnerInv(e) /\ QuotaInv(e) /\ LockedInv
      /\ FileType /\ LockType /\ RowType /\ PlaceType /\ QuotaType /\ FlushType /\ PanicType
  BY Use, Zenon
<1> USE <1>u
<1>1. /\ UNCHANGED fileVars /\ UNCHANGED <<state, opc>>
      /\ UNCHANGED quotaVars /\ UNCHANGED flushVars /\ UNCHANGED panicked
  BY Zenon DEF WorkerStep, WorkerLock, IngestSSTs
<1>2. LockType'
  BY LockOps, Zenon DEF WorkerStep, WorkerLock, IngestSSTs, Procs
<1>3. PlaceType'
  BY <1>1, Zenon DEF PlaceType, WorkerStep, WorkerLock, IngestSSTs
<1>4. /\ RowType' /\ written' = written /\ mem' = mem /\ imported' = imported
      /\ \A x \in Engines \ {e} : stored'[x] = stored[x] /\ pend'[x] = pend[x]
      /\ \/ stored'[e] = stored[e] /\ pend'[e] = pend[e]
         \/ stored'[e] = stored[e] \cup pend[e] /\ pend'[e] = {}
  <2>1. CASE WorkerLock(e)
    BY <2>1, Stays, Zenon DEF WorkerLock, rowVars
  <2>2. CASE IngestSSTs(e)
    <3>1. stored \in RowSets /\ pend \in RowSets
      BY Zenon DEF RowType
    <3>2. /\ stored' = [stored EXCEPT ![e] = @ \cup pend[e]] /\ pend' = [pend EXCEPT ![e] = {}]
          /\ UNCHANGED <<written, mem, imported>>
      BY <2>2, Zenon DEF IngestSSTs
    <3>3. /\ stored' \in RowSets /\ stored'[e] = stored[e] \cup pend[e]
          /\ \A x \in Engines \ {e} : stored'[x] = stored[x]
      BY <3>1, <3>2, Zenon DEF RowSets
    <3>4. /\ pend' \in RowSets /\ pend'[e] = {}
          /\ \A x \in Engines \ {e} : pend'[x] = pend[x]
      BY <3>1, <3>2, Zenon DEF RowSets
    <3> QED BY <3>2, <3>3, <3>4, Zenon DEF RowType
  <2> QED BY <2>1, <2>2, Zenon DEF WorkerStep
<1>5. TypeOK'
  BY <1>1, <1>2, <1>3, <1>4, TypesNext, Stays, Zenon
<1>6. inMap' = inMap /\ closed' = closed
  BY <1>1, Zenon DEF fileVars
<1>7. \A x \in Engines \ {e} : Same(x)
  BY <1>1, <1>4, <1>6, Zenon DEF Same
<1>8. EngineInv(e)'
  <2>1. Kept(e)'
    BY <1>4, Zenon DEF Kept
  <2>2. OwnerInv(e)'
    BY <1>1, <1>4, <1>6, Zenon DEF OwnerInv, AfterFlush, Empty
  <2>3. QuotaInv(e)'
    BY <1>1, <1>4, Zenon DEF QuotaInv, Empty, quotaVars
  <2> QED BY <2>1, <2>2, <2>3, Zenon DEF EngineInv
<1> QED BY <1>1, <1>5, <1>7, <1>8, EngineStep, Zenon

\* FlushEngine spills the rows of its engine, or waits.
LEMMA FlushKeeps ==
  ASSUME IInv, FlushStep \/ \E e \in Engines : FlushLock(e)
  PROVE  IInv'
<1>0. FileType /\ LockType /\ RowType /\ PlaceType /\ QuotaType /\ FlushType /\ PanicType
  BY Types, Zenon DEF IInv
<1>1. /\ UNCHANGED fileVars /\ UNCHANGED <<state, opc, wpc>>
      /\ UNCHANGED quotaVars /\ UNCHANGED panicked
  BY Zenon DEF FlushStep, FlushLock, FlushEngine, Flushed
<1>2. LockType' /\ FlushType'
  <2>1. ASSUME NEW e \in Engines, FlushLock(e) PROVE LockType' /\ FlushType'
    <3>1. LockType'
      BY <1>0, <2>1, LockOps, Zenon DEF FlushLock, Procs
    <3>2. FlushType'
      BY <1>0, <2>1, EnginesAssumption DEF FlushLock, FlushType
    <3> QED BY <3>1, <3>2, Zenon
  <2>2. ASSUME FlushEngine PROVE LockType' /\ FlushType'
    BY <1>0, <2>2, Stays, Zenon DEF FlushEngine, FlushType
  <2>3. ASSUME Flushed PROVE LockType' /\ FlushType'
    <3>1. LockType'
      BY <1>0, <2>3, LockOps, Zenon DEF Flushed, FlushType, Procs
    <3>2. FlushType'
      BY <1>0, <2>3, Zenon DEF Flushed, FlushType
    <3> QED BY <3>1, <3>2, Zenon
  <2> QED BY <2>1, <2>2, <2>3, Zenon DEF FlushStep
<1>3. /\ RowType' /\ written' = written /\ stored' = stored /\ imported' = imported
      /\ \A x \in Engines : \/ mem'[x] = mem[x] /\ pend'[x] = pend[x]
                            \/ mem'[x] = {} /\ pend'[x] = pend[x] \cup mem[x]
  <2>1. CASE FlushEngine
    <3>1. Spill({ffile})
      BY <2>1, Zenon DEF FlushEngine
    <3> QED BY <1>0, <3>1, Spilt, Zenon
  <2>2. CASE UNCHANGED rowVars
    BY <1>0, <2>2, Stays, Zenon DEF rowVars
  <2> QED BY <2>1, <2>2, Zenon DEF FlushStep, FlushLock, Flushed
<1>4. TypeOK'
  BY <1>0, <1>1, <1>2, <1>3, TypesNext, Stays, Zenon
<1>5. inMap' = inMap /\ closed' = closed
  BY <1>1, Zenon DEF fileVars
<1>6. qpc' = qpc /\ qtodo' = qtodo /\ qheld' = qheld /\ qfile' = qfile /\ locked' = locked
  BY <1>1, Zenon DEF quotaVars
<1>7. ASSUME NEW x \in Engines PROVE EngineInv(x)'
  <2>1. Kept(x)'
    BY <1>3, Use, Zenon DEF Kept
  <2>2. OwnerInv(x)'
    BY <1>1, <1>3, <1>5, Use, Zenon DEF OwnerInv, AfterFlush, Empty
  <2>3. QuotaInv(x)'
    BY <1>3, <1>6, Use, Zenon DEF QuotaInv, Empty
  <2> QED BY <2>1, <2>2, <2>3, Zenon DEF EngineInv
<1>8. LockedInv'
  BY <1>6, Zenon DEF IInv, LockedInv
<1> QED BY <1>4, <1>7, <1>8, Zenon DEF IInv

-----------------------------------------------------------------------------
(* The disk quota check.                                                   *)

\* The types and QuotaOnly, taken apart.
LEMMA QuotaUse ==
  ASSUME IInv
  PROVE  /\ FileType /\ LockType /\ RowType /\ PlaceType /\ QuotaType /\ FlushType /\ PanicType
         /\ LockedInv
         /\ QuotaOnly => UNCHANGED opc /\ UNCHANGED wpc /\ UNCHANGED flushVars
BY Types, Zenon DEF IInv, QuotaOnly

\* A step of the quota check that changes neither rows nor files has to keep what is said
\* of its own place.
LEMMA QuotaMoves ==
  ASSUME IInv, QuotaOnly, UNCHANGED fileVars, UNCHANGED rowVars, UNCHANGED state,
         LockType', QuotaType', PanicType', LockedInv', \A e \in Engines : QuotaInv(e)'
  PROVE  IInv'
<1>1. TypeOK'
  BY QuotaUse, TypesNext, Stays, Zenon
<1>2. \A e \in Engines : Kept(e)' /\ OwnerInv(e)'
  BY QuotaUse, Zenon DEF IInv, EngineInv, Kept, OwnerInv, Empty, fileVars, rowVars
<1> QED BY <1>1, <1>2, Zenon DEF IInv, EngineInv

\* EngineFileSizes: nothing is said before diskQuotaLock is taken.
LEMMA SizeKeeps ==
  ASSUME IInv, QuotaStart \/ SizeLoad \/ SizeRead
  PROVE  IInv'
<1> USE QuotaUse
<1>1. QuotaOnly /\ UNCHANGED fileVars /\ UNCHANGED rowVars /\ UNCHANGED <<mu, state>>
  BY Zenon DEF QuotaStart, SizeLoad, SizeRead
<1>2. qpc' = "size"
  BY Zenon DEF QuotaStart, SizeLoad, SizeRead
<1>3. LockType'
  BY <1>1, Stays, Zenon
<1>4. LockedInv' /\ \A e \in Engines : QuotaInv(e)'
  <2>1. \A x, y \in qfile' : x = y
    <3>1. CASE QuotaStart
      BY <3>1, Zenon DEF QuotaStart, LockedInv
    <3>2. CASE SizeLoad
      BY <3>2, Zenon DEF SizeLoad, LockedInv
    <3>3. CASE SizeRead
      BY <3>3, Zenon DEF SizeRead
    <3> QED BY <3>1, <3>2, <3>3, Zenon
  <2> QED BY <1>2, <2>1, Zenon DEF LockedInv, QuotaInv
<1>5. QuotaType' /\ PanicType'
  <2>1. CASE QuotaStart
    <3>1. PanicType'
      BY <2>1, Stays, Zenon DEF QuotaStart
    <3>2. inMap \subseteq Engines /\ MaxQuota \in Nat /\ busy' \in BOOLEAN
      BY <2>1, EnginesAssumption, Zenon DEF QuotaStart, FileType
    <3>3. /\ quotas < MaxQuota /\ quotas' = quotas + 1 /\ qpc' = "size" /\ qtodo' = inMap /\ large' = {}
          /\ UNCHANGED <<qheld, qfile, locked>>
      BY <2>1, Zenon DEF QuotaStart
    <3> QED BY <3>1, <3>2, <3>3 DEF QuotaType, QuotaPC
  <2>2. CASE SizeLoad
    <3>1. PanicType'
      BY <2>2, Stays, Zenon DEF SizeLoad
    <3>2. QuotaType'
      BY <2>2, Zenon DEF SizeLoad, QuotaType
    <3> QED BY <3>1, <3>2, Zenon
  <2>3. CASE SizeRead
    <3>1. PanicType'
      BY <2>3, Zenon DEF SizeRead, PanicType
    <3>2. PICK e \in qfile : /\ qtodo' = qtodo \ {e} /\ qfile' = {}
                             /\ large' \in {large, large \cup {e}}
                             /\ busy' \in {busy, busy \/ ~Unlocked(e)}
      BY <2>3, Zenon DEF SizeRead
    <3>3. UNCHANGED <<qpc, qheld, locked, quotas>>
      BY <2>3, Zenon DEF SizeRead
    <3>4. busy' \in BOOLEAN
      BY <3>2, Zenon DEF QuotaType
    <3> QED BY <3>1, <3>2, <3>3, <3>4, Zenon DEF QuotaType
  <2> QED BY <2>1, <2>2, <2>3, Zenon
<1> QED BY <1>1, <1>3, <1>4, <1>5, QuotaMoves, Zenon

\* diskQuotaLock is taken: the engines not in the map are empty.
LEMMA QuotaLockKeeps ==
  ASSUME IInv, QuotaLock
  PROVE  IInv'
<1> USE QuotaUse
<1>1. QuotaOnly /\ UNCHANGED fileVars /\ UNCHANGED rowVars /\ UNCHANGED <<mu, state>> /\ UNCHANGED panicked
  BY Zenon DEF QuotaLock
<1>2. LockType' /\ PanicType'
  BY <1>1, Stays, Zenon
<1>3. /\ qpc' \in {"flush", "size", "idle"} /\ (qpc' = "flush" => locked' /\ qtodo' = inMap)
      /\ locked' \in BOOLEAN /\ qtodo' \subseteq Engines
  BY Zenon DEF QuotaLock, FileType, QuotaType
<1>4. busy' = FALSE /\ UNCHANGED <<qheld, qfile, large, quotas>>
  BY Zenon DEF QuotaLock
<1>5. QuotaType' /\ LockedInv'
  <2>1. {busy', locked'} \subseteq BOOLEAN
    BY <1>3, <1>4, Zenon
  <2>2. QuotaType'
    BY <1>3, <1>4, <2>1, Zenon DEF QuotaType, QuotaPC
  <2> QED BY <1>3, <1>4, <2>2, Zenon DEF LockedInv
<1>6. \A e \in Engines : QuotaInv(e)'
  <2>1. ASSUME NEW e \in Engines PROVE e \notin inMap => Empty(e)'
    BY <1>1, Use, Zenon DEF OwnerInv, Empty, rowVars
  <2> QED BY <1>3, <2>1, Zenon DEF QuotaInv
<1> QED BY <1>1, <1>2, <1>5, <1>6, QuotaMoves, Zenon

\* tryRLockAllEngines: an engine that is skipped is empty.
LEMMA RLockKeeps ==
  ASSUME IInv, TryRLock \/ GotRLock
  PROVE  IInv'
<1> USE QuotaUse
<1>1. QuotaOnly /\ UNCHANGED fileVars /\ UNCHANGED rowVars /\ UNCHANGED state /\ UNCHANGED panicked
  BY Zenon DEF TryRLock, GotRLock
<1>2. PanicType'
  BY <1>1, Stays, Zenon
<1>3. PICK e \in Engines :
        /\ qpc \in {"flush", "rlock"} /\ qpc' \in {"flush", "rlock"} /\ locked' = locked
        /\ qtodo' \in {qtodo, qtodo \ {e}} /\ qfile' \in {qfile, {e}, {}}
        /\ qheld' \in {qheld, qheld \cup {e}}
        /\ UNCHANGED <<large, busy, locked, quotas>>
        /\ LockType'
        /\ qtodo' = qtodo \/ qheld' = qheld \cup {e} \/ e \notin inMap \/ ~Unlocked(e) \/ closed[e]
  <2>1. CASE TryRLock
    <3>1. PICK e \in qtodo :
            \/ /\ e \in inMap /\ Unlocked(e) /\ RLock(e, "quota") /\ qfile' = {e} /\ qpc' = "rlock"
               /\ UNCHANGED qtodo
            \/ (e \notin inMap \/ ~Unlocked(e)) /\ qtodo' = qtodo \ {e} /\ UNCHANGED <<mu, qfile, qpc>>
      BY <2>1, Zenon DEF TryRLock
    <3>2. e \in Engines /\ LockType'
      BY <1>1, <3>1, LockOps, Stays, Zenon DEF QuotaType, Procs
    <3>3. qpc = "flush" /\ UNCHANGED <<qheld, large, busy, locked, quotas>>
      BY <2>1, Zenon DEF TryRLock
    <3> QED BY <3>1, <3>2, <3>3, Zenon
  <2>2. CASE GotRLock
    <3>1. PICK e \in qfile :
            /\ qpc' = "flush" /\ qfile' = {} /\ qtodo' = qtodo \ {e}
            /\ IF closed[e] THEN RUnlock(e, "quota") /\ UNCHANGED qheld
               ELSE qheld' = qheld \cup {e} /\ UNCHANGED mu
      BY <2>2, Zenon DEF GotRLock
    <3>2. e \in Engines /\ LockType'
      BY <1>1, <3>1, LockOps, Stays, Zenon DEF QuotaType, Procs
    <3>3. qpc = "rlock" /\ UNCHANGED <<large, busy, locked, quotas>>
      BY <2>2, Zenon DEF GotRLock
    <3> QED BY <3>1, <3>2, <3>3, Zenon
  <2> QED BY <2>1, <2>2, Zenon
<1>4. QuotaType'
  BY <1>3, Zenon DEF QuotaType, QuotaPC
<1>5. LockedInv'
  BY <1>3 DEF LockedInv
<1>6. e \notin inMap \/ ~Unlocked(e) \/ closed[e] => Empty(e)
  BY Use, Zenon DEF OwnerInv, Empty, Unlocked, AfterFlush, LockType
<1>7. \A x \in Engines : QuotaInv(x)'
  <2>1. ASSUME NEW x \in Engines, x \notin qtodo' \cup qheld' PROVE Empty(x)'
    <3>1. CASE x = e
      BY <1>1, <1>3, <1>6, <2>1, <3>1, Use, Zenon DEF QuotaInv, Empty, rowVars
    <3>2. CASE x # e
      BY <1>1, <1>3, <2>1, <3>2, Use, Zenon DEF QuotaInv, Empty, rowVars
    <3> QED BY <3>1, <3>2, Zenon
  <2> QED BY <1>3, <2>1, Zenon DEF QuotaInv
<1> QED BY <1>1, <1>2, <1>3, <1>4, <1>5, <1>7, QuotaMoves, Zenon

\* flushEngineWithoutLock of the engines that are kept.
LEMMA FlushAllKeeps ==
  ASSUME IInv, FlushAll
  PROVE  IInv'
<1> USE QuotaUse
<1>1. /\ QuotaOnly /\ UNCHANGED fileVars /\ UNCHANGED <<mu, state>> /\ qpc = "flush" /\ qtodo = {}
      /\ UNCHANGED <<qtodo, qheld, qfile, large, busy, locked, quotas>>
  BY Zenon DEF FlushAll
<1>2. LockType' /\ PanicType'
  <2>1. LockType'
    BY <1>1, Stays, Zenon
  <2>2. PanicType'
    BY Zenon DEF FlushAll, PanicType
  <2> QED BY <2>1, <2>2, Zenon
<1>3. CASE qpc' = "flushing" /\ Spill(qheld)
  <2>1. /\ RowType' /\ written' = written /\ stored' = stored /\ imported' = imported
        /\ \A x \in Engines : /\ x \in qheld => mem'[x] = {} /\ pend'[x] = pend[x] \cup mem[x]
                              /\ x \notin qheld => mem'[x] = mem[x] /\ pend'[x] = pend[x]
    BY <1>3, Spilt, Zenon
  <2>2. QuotaType'
    BY <1>1, <1>3, Zenon DEF QuotaType, QuotaPC
  <2>3. TypeOK'
    BY <1>1, <1>2, <2>1, <2>2, TypesNext, Stays, Zenon
  <2>4. LockedInv'
    BY <1>1, Zenon DEF LockedInv
  <2>5. inMap' = inMap /\ closed' = closed
    BY <1>1, Zenon DEF fileVars
  <2>6. ASSUME NEW x \in Engines PROVE EngineInv(x)'
    <3>1. Kept(x)'
      BY <2>1, Use, Zenon DEF Kept
    <3>2. OwnerInv(x)'
      BY <1>1, <2>1, <2>5, Use, Zenon DEF OwnerInv, AfterFlush, Empty
    <3>3. x \notin qheld => Empty(x)
      BY <1>1, Use, Zenon DEF QuotaInv
    <3>4. QuotaInv(x)'
      BY <1>1, <1>3, <2>1, <3>3, Zenon DEF QuotaInv, Empty
    <3> QED BY <3>1, <3>2, <3>4, Zenon DEF EngineInv
  <2> QED BY <2>3, <2>4, <2>6, Zenon DEF IInv
<1>4. CASE qpc' = qpc /\ UNCHANGED rowVars
  <2>1. QuotaType' /\ LockedInv'
    BY <1>1, <1>4, Zenon DEF QuotaType, LockedInv
  <2>2. \A x \in Engines : QuotaInv(x)'
    BY <1>1, <1>4, Use, Zenon DEF QuotaInv, Empty, rowVars
  <2> QED BY <1>1, <1>2, <1>4, <2>1, <2>2, QuotaMoves, Zenon
<1> QED BY <1>3, <1>4, Zenon DEF FlushAll

\* All engines are empty when the flush has ended.
LEMMA FlushedAllKeeps ==
  ASSUME IInv, FlushedAll
  PROVE  IInv'
<1> USE QuotaUse
<1>1. /\ QuotaOnly /\ UNCHANGED fileVars /\ UNCHANGED rowVars /\ UNCHANGED state /\ UNCHANGED panicked
      /\ qpc = "flushing" /\ qpc' = "import" /\ qheld' = {} /\ qtodo' = large
      /\ UNCHANGED <<qfile, large, busy, locked, quotas>>
  BY Zenon DEF FlushedAll
<1>2. LockType'
  <2>1. mu' = [e \in Engines |-> IF e \in qheld THEN EndRead(mu[e], "quota") ELSE mu[e]]
    BY Zenon DEF FlushedAll
  <2>2. \A e \in Engines : mu[e] \in Mutex /\ EndRead(mu[e], "quota") \in Mutex
    BY MutexOps, Zenon DEF LockType, Procs
  <2> QED BY <1>1, <2>1, <2>2, Zenon DEF LockType
<1>3. QuotaType' /\ PanicType'
  BY <1>1, Stays, Zenon DEF QuotaType, QuotaPC
<1>4. LockedInv'
  BY <1>1, Zenon DEF LockedInv
<1>5. ASSUME NEW e \in Engines PROVE QuotaInv(e)'
  <2>1. Empty(e)
    BY <1>1, Use, Zenon DEF FlushedAll, QuotaInv, Empty
  <2> QED BY <1>1, <2>1, Zenon DEF QuotaInv, Empty, rowVars
<1> QED BY <1>1, <1>2, <1>3, <1>4, <1>5, QuotaMoves, Zenon

\* The places of the imports and the resets of the large engines.
ImportPC == {"import", "wlock", "ilock", "reset", "rwlock", "rslock"}

\* UnsafeImportAndReset loads an engine, waits for its lock or ends.
LEMMA LoadKeeps ==
  ASSUME IInv, QuotaLoad \/ ResetLoad \/ QuotaWantLock \/ QuotaUnlock
  PROVE  IInv'
<1> USE QuotaUse
<1>1. QuotaOnly /\ UNCHANGED fileVars /\ UNCHANGED rowVars /\ UNCHANGED state /\ UNCHANGED panicked
  BY Zenon DEF QuotaLoad, ResetLoad, QuotaWantLock, QuotaUnlock
<1>2. PanicType'
  BY <1>1, Stays, Zenon
<1>3. /\ UNCHANGED <<qheld, large, busy, quotas>>
      /\ qpc \in ImportPC /\ qtodo' \subseteq qtodo /\ qfile' \subseteq Engines
      /\ qfile' = qfile \/ \A x, y \in qfile' : x = y
      /\ locked' = locked \/ (qpc' = "idle" /\ locked' = FALSE)
      /\ qpc' \in ImportPC \cup {"idle"}
      /\ qpc' \in {"reset", "rwlock", "rslock"} => qpc \in {"reset", "rwlock", "rslock"} /\ qfile' = qfile
  <2>1. CASE QuotaLoad
    BY <2>1, Zenon DEF QuotaLoad, ImportPC, QuotaType
  <2>2. CASE ResetLoad
    BY <2>2, Zenon DEF ResetLoad, ImportPC, QuotaType
  <2>3. CASE QuotaWantLock
    BY <2>3, Zenon DEF QuotaWantLock, ImportPC, QuotaType
  <2>4. CASE QuotaUnlock
    BY <2>4, Zenon DEF QuotaUnlock, ImportPC, QuotaType
  <2> QED BY <2>1, <2>2, <2>3, <2>4, Zenon
<1>4. LockType'
  <2>1. CASE QuotaWantLock
    BY <1>1, <2>1, LockOps, Zenon DEF QuotaWantLock, QuotaType, Procs
  <2>2. CASE UNCHANGED mu
    BY <1>1, <2>2, Stays, Zenon
  <2> QED BY <2>1, <2>2, Zenon DEF QuotaLoad, ResetLoad, QuotaUnlock
<1>5. QuotaType'
  <2>1. locked' \in BOOLEAN
    BY <1>3, Zenon DEF QuotaType
  <2>2. qpc' \in QuotaPC
    BY <1>3, Zenon DEF ImportPC, QuotaPC
  <2>3. /\ UNCHANGED <<qheld, large, busy, quotas>> /\ qtodo' \subseteq qtodo /\ qfile' \subseteq Engines
    BY <1>3, Zenon
  <2> QED BY <2>1, <2>2, <2>3, Zenon DEF QuotaType
<1>6. LockedInv'
  BY <1>3 DEF LockedInv, ImportPC
<1>7. ASSUME NEW e \in Engines PROVE QuotaInv(e)'
  <2>1. Empty(e)
    BY <1>3, Use, Zenon DEF QuotaInv, ImportPC
  <2>2. qpc' \in {"reset", "rwlock", "rslock"} /\ e \in qfile' => stored[e] \subseteq imported[e]
    BY <1>3, Use, Zenon DEF QuotaInv
  <2> QED BY <1>1, <1>3, <2>1, <2>2, Zenon DEF QuotaInv, Empty, rowVars, ImportPC
<1> QED BY <1>1, <1>2, <1>4, <1>5, <1>6, <1>7, QuotaMoves, Zenon

\* The quota check imports what is in the DB of an engine.
LEMMA QuotaImportKeeps ==
  ASSUME IInv, QuotaImport
  PROVE  IInv'
<1> USE QuotaUse
<1>0. PICK e \in qfile : Unlock(e) /\ imported' = [imported EXCEPT ![e] = @ \cup stored[e]]
  BY Zenon DEF QuotaImport
<1>1. /\ QuotaOnly /\ UNCHANGED fileVars /\ UNCHANGED <<written, mem, pend, stored>>
      /\ qpc = "ilock" /\ qpc' = "reset"
      /\ UNCHANGED <<qtodo, qheld, qfile, large, busy, locked, quotas>>
  BY Zenon DEF QuotaImport
<1>2. e \in Engines
  BY <1>0, Zenon DEF QuotaType
<1>3. LockType' /\ state'[e] = "read" /\ \A x \in Engines \ {e} : state'[x] = state[x]
  BY <1>0, <1>2, LockOps, Zenon DEF Procs
<1>4. RowType' /\ imported'[e] = imported[e] \cup stored[e] /\ \A x \in Engines \ {e} : imported'[x] = imported[x]
  <2>1. imported \in RowSets /\ stored \in RowSets
    BY Zenon DEF RowType
  <2>2. /\ imported' \in RowSets /\ imported'[e] = imported[e] \cup stored[e]
        /\ \A x \in Engines \ {e} : imported'[x] = imported[x]
    BY <1>0, <1>2, <2>1, Zenon DEF RowSets
  <2> QED BY <1>1, <2>2, Zenon DEF RowType
<1>5. PanicType'
  BY Zenon DEF QuotaImport, PanicType
<1>6. QuotaType'
  BY <1>1, Zenon DEF QuotaType, QuotaPC
<1>7. TypeOK'
  BY <1>1, <1>3, <1>4, <1>5, <1>6, TypesNext, Stays, Zenon
<1>8. LockedInv'
  BY <1>1, Zenon DEF LockedInv
<1>9. \A x \in qfile : x = e
  BY <1>0, Zenon DEF LockedInv
<1>10. inMap' = inMap /\ closed' = closed /\ opc' = opc
  BY <1>1, Zenon DEF fileVars
<1>11. ASSUME NEW x \in Engines PROVE EngineInv(x)'
  <2>1. Kept(x)'
    BY <1>1, <1>4, Use, Zenon DEF Kept
  <2>2. OwnerInv(x)'
    BY <1>1, <1>3, <1>4, <1>10, Use, Zenon DEF OwnerInv, AfterFlush, Empty
  <2>3. Empty(x)
    BY <1>1, Use, Zenon DEF QuotaInv
  <2>4. QuotaInv(x)'
    BY <1>1, <1>4, <1>9, <2>3, Zenon DEF QuotaInv, Empty
  <2> QED BY <2>1, <2>2, <2>4, Zenon DEF EngineInv
<1> QED BY <1>7, <1>8, <1>11, Zenon DEF IInv

\* ResetEngine deletes rows that were imported, and nothing else: no SST is pending.
LEMMA ResetKeeps ==
  ASSUME IInv, ResetEngine
  PROVE  IInv'
<1> USE QuotaUse
<1>0. PICK e \in qfile :
        /\ Unlock(e) /\ stored' = [stored EXCEPT ![e] = {}] /\ pend' = [pend EXCEPT ![e] = {}]
        /\ db' = [db EXCEPT ![e] = TRUE] /\ dir' = [dir EXCEPT ![e] = TRUE]
        /\ qtodo' = qtodo \ {e}
  BY Zenon DEF ResetEngine
<1>1. /\ QuotaOnly /\ UNCHANGED <<inMap, closed, ctx>> /\ UNCHANGED <<written, mem, imported>>
      /\ qpc = "rslock" /\ qpc' = "import" /\ qfile' = {} /\ UNCHANGED panicked
      /\ UNCHANGED <<qheld, large, busy, locked, quotas>>
  BY Zenon DEF ResetEngine
<1>2. e \in Engines
  BY <1>0, Zenon DEF QuotaType
<1>3. LockType' /\ state'[e] = "read" /\ \A x \in Engines \ {e} : state'[x] = state[x]
  BY <1>0, <1>2, LockOps, Zenon DEF Procs
<1>4. /\ RowType' /\ stored'[e] = {} /\ pend'[e] = {}
      /\ \A x \in Engines \ {e} : stored'[x] = stored[x] /\ pend'[x] = pend[x]
  <2>1. stored' = [stored EXCEPT ![e] = {}] /\ pend' = [pend EXCEPT ![e] = {}]
    BY <1>0, Zenon
  <2> QED BY <1>1, <1>2, <2>1 DEF RowType, RowSets
<1>5. FileType'
  <2>1. db' = [db EXCEPT ![e] = TRUE] /\ dir' = [dir EXCEPT ![e] = TRUE]
    BY <1>0, Zenon
  <2> QED BY <1>1, <2>1, Zenon DEF FileType
<1>6. QuotaType'
  BY <1>0, <1>1, Zenon DEF QuotaType, QuotaPC
<1>7. TypeOK'
  BY <1>1, <1>3, <1>4, <1>5, <1>6, TypesNext, Stays, Zenon
<1>8. LockedInv'
  BY <1>1, Zenon DEF LockedInv
<1>9. inMap' = inMap /\ closed' = closed /\ opc' = opc
  BY <1>1, Zenon
<1>10. ASSUME NEW x \in Engines PROVE EngineInv(x)'
  <2>1. Empty(x)
    BY <1>1, Use, Zenon DEF QuotaInv
  <2>2. stored[e] \subseteq imported[e]
    BY <1>0, <1>1, <1>2, Use, Zenon DEF QuotaInv
  <2>3. Kept(x)'
    BY <1>1, <1>4, <2>1, <2>2, Use, Zenon DEF Kept, Empty
  <2>4. OwnerInv(x)'
    BY <1>1, <1>3, <1>4, <1>9, Use, Zenon DEF OwnerInv, AfterFlush, Empty
  <2>5. QuotaInv(x)'
    BY <1>1, <1>4, <2>1, Zenon DEF QuotaInv, Empty
  <2> QED BY <2>3, <2>4, <2>5, Zenon DEF EngineInv
<1> QED BY <1>7, <1>8, <1>10, Zenon DEF IInv

-----------------------------------------------------------------------------

\* Every step keeps the invariant.
LEMMA NextIInv == IInv /\ [Next]_vars => IInv'
<1> SUFFICES ASSUME IInv, [Next]_vars PROVE IInv'
  BY Zenon
<1>1. CASE UNCHANGED vars
  <2>1. /\ UNCHANGED fileVars /\ UNCHANGED <<mu, state>> /\ UNCHANGED rowVars
        /\ UNCHANGED quotaVars /\ UNCHANGED panicked /\ UNCHANGED opc
    BY <1>1, Zenon DEF vars
  <2>2. QuotaOnly
    BY <1>1, Zenon DEF vars, QuotaOnly
  <2>3. LockType' /\ QuotaType' /\ PanicType'
    BY <2>1, QuotaUse, Stays, Zenon
  <2>4. LockedInv' /\ \A e \in Engines : QuotaInv(e)'
    <3>1. LockedInv'
      BY <2>1, QuotaUse, Zenon DEF LockedInv, quotaVars
    <3>2. ASSUME NEW e \in Engines PROVE QuotaInv(e)'
      BY <2>1, Use, Zenon DEF QuotaInv, Empty, rowVars, quotaVars
    <3> QED BY <3>1, <3>2, Zenon
  <2> QED BY <2>1, <2>2, <2>3, <2>4, QuotaMoves, Zenon
<1>2. ASSUME NEW e \in Engines, WriteRows(e) \/ OwnerStep(e) \/ WorkerStep(e) \/ FlushLock(e)
      PROVE  IInv'
  BY <1>2, WriteKeeps, SpillKeeps, CloseKeeps, LockKeeps, MarkKeeps, ImportKeeps, CleanupKeeps,
     WorkerKeeps, FlushKeeps, Zenon DEF OwnerStep
<1>3. ASSUME FlushStep \/ QuotaStart \/ QuotaStep PROVE IInv'
  BY <1>3, FlushKeeps, SizeKeeps, QuotaLockKeeps, RLockKeeps, FlushAllKeeps, FlushedAllKeeps,
     LoadKeeps, QuotaImportKeeps, ResetKeeps, Zenon DEF QuotaStep
<1> QED BY <1>1, <1>2, <1>3, Zenon DEF Next

\* No row written to an engine of the local backend is lost, whatever its owner, the ingest
\* goroutine, FlushEngine and the disk quota check do in whatever order, and an engine that
\* was cleaned up is in TiKV (WriteRows, FlushAllEngines, ImportEngine, ResetEngine,
\* CleanupEngine), for any number of engines and rows.
THEOREM RowsAreKept == Spec => []RowsKept
<1>1. IInv => RowsKept
  <2> SUFFICES ASSUME IInv PROVE RowsKept
    BY Zenon
  <2>1. ASSUME NEW e \in Engines
        PROVE  /\ written[e] = mem[e] \cup pend[e] \cup stored[e] \cup imported[e]
               /\ opc[e] = "done" => written[e] = imported[e]
    BY Use, Zenon DEF Kept, OwnerInv, AfterFlush
  <2> QED BY <2>1, Zenon DEF RowsKept, IInv
<1> QED BY <1>1, InitIInv, NextIInv, PTL DEF Spec
=============================================================================
