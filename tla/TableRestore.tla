---- MODULE TableRestore ----
(***************************************************************************)
(* How TiDB Lightning restores one table through the local backend, from   *)
(* populating its checkpoints to its final checksum, with process crashes, *)
(* graceful cancellation, failed imports and the disk quota.               *)
(*                                                                         *)
(* A table is a set of chunks, grouped in data engines; a shared index     *)
(* engine (Idx) holds the index entries of every chunk.  A chunk is the    *)
(* sequence of packets 1..NPackets.  A packet produces data entries in its *)
(* engine and index entries in the index engine, so each packet is tracked *)
(* on two sides, "d" and "i": in writer memory (buf), in the local engine  *)
(* directory (disk), or ingested in TiKV (rem).                            *)
(***************************************************************************)
EXTENDS Integers, Sequences, FiniteSets

CONSTANT
  Plans         \* the tables to restore and the faults to expect

VARIABLE
  plan          \* the table of this behaviour and the faults that may still come

\* engineOf: the data engine each chunk belongs to; packets: the packets of a
\* chunk; the rest bounds the process deaths, graceful cancellations, failed
\* imports and disk-quota rounds.
ASSUME RestoreAssumption ==
  \A p \in Plans :
    /\ \A c \in DOMAIN p.engineOf : c \in Nat /\ p.engineOf[c] \in Nat
    /\ p.packets \in Nat \ {0}
    /\ p.crash \in Nat /\ p.cancel \in Nat /\ p.fail \in Nat /\ p.quota \in Nat

EngineOf == plan.engineOf
Chunks == DOMAIN EngineOf
Engines == {EngineOf[c] : c \in Chunks}
NPackets == plan.packets
Idx == -1
AllEngines == Engines \cup {Idx}
Side == {"d", "i"}
Packets == 1..NPackets

\* checkpoint statuses (checkpoints.go)
MaxInvalid == 25
Loaded == 30
AllWritten == 60
Closed == 90
Imported == 120
IndexImported == 140
Checksummed == 180
Invalid(st) == st \div 10
Statuses == {Loaded, AllWritten, Closed, Imported, IndexImported, Checksummed}

VARIABLES
  db,       \* the persisted TableCheckpoint
  mem,      \* the TableCheckpoint the process loaded and advances
  diff,     \* the coalesced TableCheckpointDiff of listenCheckpointUpdates
  upd,      \* the diff that Update is writing
  tpc,      \* where restoreTable is
  est,      \* where the goroutine of each data engine is
  cst,      \* where each chunk of the running process is
  pend,     \* flushPendingChunks of each engine
  chan,     \* chunkCpChan of each engine
  buf,      \* entries in the memory of the local writers
  disk,     \* entries ingested in the local engine
  rem,      \* entries ingested in TiKV
  size,     \* File.TotalSize # 0, of each engine in memory
  meta,     \* the same, in the engine meta key on disk
  dir,      \* the engine directory exists
  skipped,  \* history: entries an import passed over, taking the engine for empty
  quota     \* "idle", or the disk-quota goroutine holds diskQuotaLock

cpVars == <<db, mem, diff, upd>>
pcVars == <<tpc, est, cst, pend, chan>>
engVars == <<buf, disk, rem, size, meta, dir, skipped>>
vars == <<cpVars, pcVars, engVars, quota, plan>>

Of(e) == {c \in Chunks : EngineOf[c] = e}
Home(s, c) == IF s = "d" THEN EngineOf[c] ELSE Idx
Engine(e) == {x \in Side \X Chunks : Home(x[1], x[2]) = e}
NoDiff == [status |-> 0, eng |-> [e \in AllEngines |-> 0],
           pos |-> [c \in Chunks |-> -1], sum |-> [c \in Chunks |-> -1]]
NoBuf == [s \in Side |-> [c \in Chunks |-> {}]]
FreshCheckpoint == [status |-> Loaded, populated |-> FALSE,
                    eng |-> [e \in AllEngines |-> Loaded],
                    pos |-> [c \in Chunks |-> 0], sum |-> [c \in Chunks |-> 0]]

Checkpoint == [status : Statuses \cup {Invalid(st) : st \in Statuses},
               populated : BOOLEAN,
               eng : [AllEngines -> Statuses \cup {Invalid(st) : st \in Statuses}],
               pos : [Chunks -> 0..NPackets], sum : [Chunks -> 0..NPackets]]
Diff == [status : {0} \cup Statuses \cup {Invalid(st) : st \in Statuses},
         eng : [AllEngines -> {0} \cup Statuses \cup {Invalid(st) : st \in Statuses}],
         pos : [Chunks -> -1..NPackets], sum : [Chunks -> -1..NPackets]]
Contents == [Side -> [Chunks -> SUBSET Packets]]

\* Every variable stays in its type: the checkpoint and its diffs keep known
\* statuses and positions, the goroutines known program counters.
TypeOK ==
  /\ db \in Checkpoint /\ mem \in Checkpoint /\ diff \in Diff /\ upd \in Diff
  /\ tpc \in {"down", "load", "open", "engines", "indexclosed", "indexsaved",
              "indexcleaned", "post", "done", "stopping"}
  /\ est \in [Engines -> {"idle", "loop", "wait", "dataclosed", "flushed",
                          "pendsaved", "closed", "imported", "saved", "done", "failed"}]
  /\ cst \in [Chunks -> {"todo", "run", "done", "failed"}]
  /\ pend \in [Engines -> Seq(Chunks)] /\ chan \in [Engines -> Seq(Chunks)]
  /\ buf \in Contents /\ disk \in Contents /\ rem \in Contents
  /\ size \in [AllEngines -> BOOLEAN] /\ meta \in [AllEngines -> BOOLEAN]
  /\ dir \in [AllEngines -> BOOLEAN]
  /\ skipped \in SUBSET (Side \X Chunks \X Packets)
  /\ quota \in {"idle", "held"}
  /\ \A f \in {"crash", "cancel", "fail", "quota"} : plan[f] \in Nat

Init ==
  /\ plan \in Plans
  /\ db = FreshCheckpoint /\ mem = FreshCheckpoint
  /\ diff = NoDiff /\ upd = NoDiff
  /\ tpc = "down"
  /\ est = [e \in Engines |-> "idle"] /\ cst = [c \in Chunks |-> "todo"]
  /\ pend = [e \in Engines |-> <<>>] /\ chan = [e \in Engines |-> <<>>]
  /\ buf = NoBuf /\ disk = NoBuf /\ rem = NoBuf
  /\ size = [e \in AllEngines |-> FALSE] /\ meta = [e \in AllEngines |-> FALSE]
  /\ dir = [e \in AllEngines |-> FALSE] /\ skipped = {}
  /\ quota = "idle"

----------------------------------------------------------------------------
(* The checkpoint saver: mergers, coalescing, Update.                      *)

\* StatusCheckpointMerger.MergeInto; Whole stands for WholeTableEngineID
Whole == 2147483647
MergeStatus(d, e, st) ==
  [d EXCEPT !.status = IF e = Whole \/ st <= MaxInvalid THEN st ELSE @,
            !.eng = IF e = Whole THEN @ ELSE [@ EXCEPT ![e] = st]]

\* mutant: the position is saved without its checksum
MutMergePosOnly(d, m, C) ==
  [d EXCEPT !.pos = [c \in Chunks |-> IF c \in C THEN m.pos[c] ELSE @[c]]]

\* ChunkCheckpointMerger.MergeInto: saveCheckpoint of the chunks C of m
MergeChunks(d, m, C) ==
  [d EXCEPT !.pos = [c \in Chunks |-> IF c \in C THEN m.pos[c] ELSE @[c]],
            !.sum = [c \in Chunks |-> IF c \in C THEN m.sum[c] ELSE @[c]]]

\* TableCheckpoint.Apply, and the UPDATEs of MySQLCheckpointsDB.Update
Apply(cp, d) ==
  [cp EXCEPT !.status = IF d.status = 0 THEN @ ELSE d.status,
             !.eng = [e \in AllEngines |-> IF d.eng[e] = 0 THEN @[e] ELSE d.eng[e]],
             !.pos = [c \in Chunks |-> IF d.pos[c] = -1 THEN @[c] ELSE d.pos[c]],
             !.sum = [c \in Chunks |-> IF d.sum[c] = -1 THEN @[c] ELSE d.sum[c]]]

\* listenCheckpointUpdates: the flusher takes the coalesced map ...
TakeCoalesced ==
  /\ upd = NoDiff /\ diff # NoDiff
  /\ upd' = diff /\ diff' = NoDiff
  /\ UNCHANGED <<db, mem, pcVars, engVars, quota, plan>>

\* ... and writes it, in one transaction
UpdateDB ==
  /\ upd # NoDiff
  /\ db' = Apply(db, upd) /\ upd' = NoDiff
  /\ UNCHANGED <<mem, diff, pcVars, engVars, quota, plan>>

----------------------------------------------------------------------------
(* The local backend, per engine: pairs <<side, chunk>> of its entries.    *)

\* addSST and batchIngestSSTs: writer memory X becomes part of the engine's
\* pebble DB, and TotalSize counts it; the engine meta is not written
Ingest(X) ==
  /\ disk' = [s \in Side |-> [c \in Chunks |->
                IF <<s, c>> \in X THEN disk[s][c] \cup buf[s][c] ELSE disk[s][c]]]
  /\ buf' = [s \in Side |-> [c \in Chunks |-> IF <<s, c>> \in X THEN {} ELSE buf[s][c]]]
  /\ size' = [e \in AllEngines |->
                size[e] \/ \E x \in X : Home(x[1], x[2]) = e /\ buf[x[1]][x[2]] # {}]

\* flushEngineWithoutLock of the engines E: ingest, then save their meta
Flush(E) ==
  /\ Ingest(UNION {Engine(e) : e \in E})
  /\ meta' = [e \in AllEngines |-> IF e \in E THEN size'[e] ELSE meta[e]]
  /\ UNCHANGED <<rem, dir, skipped>>

\* local.ImportEngine: an engine whose TotalSize is 0 is skipped as empty
Import(e) ==
  LET new(s, c) == IF <<s, c>> \in Engine(e) THEN disk[s][c] \ rem[s][c] ELSE {}
  IN /\ rem' = [s \in Side |-> [c \in Chunks |->
                  IF size[e] THEN rem[s][c] \cup new(s, c) ELSE rem[s][c]]]
     /\ skipped' = skipped \cup {x \in Side \X Chunks \X Packets :
                                   ~size[e] /\ x[3] \in new(x[1], x[2])}

\* File.Close and File.Cleanup; "reopen" when a fresh engine replaces it
RemoveEngine(e, reopen) ==
  /\ disk' = [s \in Side |-> [c \in Chunks |-> IF <<s, c>> \in Engine(e) THEN {} ELSE disk[s][c]]]
  /\ size' = [size EXCEPT ![e] = FALSE] /\ meta' = [meta EXCEPT ![e] = FALSE]
  /\ dir' = [dir EXCEPT ![e] = reopen]

\* Writer.IsSynced and flushStatus.Flushed of both writers, under buffers b
Synced(c, b) == \A s \in Side : b[s][c] = {}

\* a writer's memory table fills up and its SST is ingested in the background
FlushWriter(s, c) ==
  /\ tpc \in {"engines", "stopping"} /\ buf[s][c] # {}
  /\ Ingest({<<s, c>>})
  /\ UNCHANGED <<cpVars, pcVars, rem, meta, dir, skipped, quota, plan>>

----------------------------------------------------------------------------
(* restoreTable: start, populate, open.                                    *)

\* GetLocalStoringTables: the engines whose files verifyLocalFile wants
LocalStoring(e) ==
  /\ db.populated
  /\ MaxInvalid < db.status /\ db.status < IndexImported
  /\ MaxInvalid < db.eng[e] /\ db.eng[e] < Imported
  /\ \E c \in Of(e) : db.pos[c] > 0
VerifyLocalFile == \A e \in Engines : LocalStoring(e) => dir[e]

Load ==
  /\ tpc = "down" /\ VerifyLocalFile
  /\ db.status > MaxInvalid
  /\ mem' = db /\ tpc' = "load"
  /\ UNCHANGED <<db, diff, upd, est, cst, pend, chan, engVars, quota, plan>>

\* populateChunks and InsertEngineCheckpoints, unless the engines are known
Populate ==
  /\ tpc = "load" /\ tpc' = "open"
  /\ IF mem.populated
     THEN UNCHANGED <<db, mem>>
     ELSE /\ mem' = [FreshCheckpoint EXCEPT !.populated = TRUE]
          /\ db' = [db EXCEPT !.populated = TRUE, !.eng = mem'.eng,
                              !.pos = mem'.pos, !.sum = mem'.sum]
  /\ UNCHANGED <<diff, upd, est, cst, pend, chan, engVars, quota, plan>>

\* restoreEngines: open the index engine if some data engine is unwritten;
\* with a closed index engine only its import is left
OpenIndex ==
  /\ tpc = "open"
  /\ tpc' = IF mem.eng[Idx] < Closed THEN "engines" ELSE "indexclosed"
  /\ size' = [size EXCEPT ![Idx] = meta[Idx]]
  /\ dir' = [dir EXCEPT ![Idx] = @ \/ /\ mem.eng[Idx] < Closed
                                      /\ \E e \in Engines : mem.eng[e] < AllWritten]
  /\ UNCHANGED <<cpVars, est, cst, pend, chan, buf, disk, rem, meta, skipped, quota, plan>>

\* the goroutine of engine e starts: OpenEngine, or UnsafeCloseEngine when it
\* was written in full, or nothing when it was imported
StartEngine(e) ==
  /\ tpc = "engines" /\ est[e] = "idle"
  /\ est' = [est EXCEPT ![e] = CASE mem.eng[e] >= Imported -> "done"
                                 [] mem.eng[e] < AllWritten -> "loop"
                                 [] OTHER -> "closed"]
  /\ size' = [size EXCEPT ![e] = meta[e]]
  /\ dir' = [dir EXCEPT ![e] = @ \/ mem.eng[e] < AllWritten]
  /\ UNCHANGED <<cpVars, tpc, cst, pend, chan, buf, disk, rem, meta, skipped, quota, plan>>

----------------------------------------------------------------------------
(* restoreEngine: the chunks of one data engine.                           *)

\* length of the longest prefix of flushPendingChunks that is flushed
FlushedPrefix(e, b) ==
  CHOOSE n \in 0..Len(pend[e]) :
    /\ \A i \in 1..n : Synced(pend[e][i], b)
    /\ n = Len(pend[e]) \/ ~Synced(pend[e][n + 1], b)
Elems(q) == {q[i] : i \in DOMAIN q}

\* one turn of the loop over cp.Chunks: hand the flushed chunks to the saver
\* goroutine through chunkCpChan, then start the next unfinished chunk
SpawnChunk(e) ==
  /\ tpc = "engines" /\ est[e] = "loop"
  /\ \E c \in Of(e) :
       /\ cst[c] = "todo" /\ \A x \in Of(e) : cst[x] = "todo" => c <= x
       /\ IF mem.pos[c] >= NPackets
          THEN cst' = [cst EXCEPT ![c] = "done"] /\ UNCHANGED <<pend, chan>>
          ELSE LET n == FlushedPrefix(e, buf)
               IN /\ cst' = [cst EXCEPT ![c] = "run"]
                  /\ chan' = [chan EXCEPT ![e] = @ \o SubSeq(pend[e], 1, n)]
                  /\ pend' = [pend EXCEPT ![e] = SubSeq(@, n + 1, Len(@))]
  /\ UNCHANGED <<cpVars, tpc, est, engVars, quota, plan>>

\* the saver goroutine of restoreEngine, alive until restoreEngine returns
SavePendingChunk(e) ==
  /\ chan[e] # <<>>
  /\ diff' = MergeChunks(diff, mem, {Head(chan[e])})
  /\ chan' = [chan EXCEPT ![e] = Tail(@)]
  /\ UNCHANGED <<db, mem, upd, tpc, est, cst, pend, engVars, quota, plan>>

\* deliverLoop: write a packet to both engines under diskQuotaLock.RLock,
\* advance the chunk, and save it if both writers turn out to be synced
Deliver(c) ==
  /\ tpc \in {"engines", "stopping"} /\ cst[c] = "run" /\ quota = "idle"
  /\ mem.pos[c] < NPackets
  /\ LET p == mem.pos[c] + 1
     IN /\ mem' = [mem EXCEPT !.pos[c] = p, !.sum[c] = @ + 1]
        /\ \/ /\ buf' = [s \in Side |-> [buf[s] EXCEPT ![c] = @ \cup {p}]]
              /\ UNCHANGED <<diff, disk, size>>
           \/ /\ disk' = [s \in Side |-> [disk[s] EXCEPT ![c] = @ \cup buf[s][c] \cup {p}]]
              /\ buf' = [s \in Side |-> [buf[s] EXCEPT ![c] = {}]]
              /\ size' = [size EXCEPT ![EngineOf[c]] = TRUE, ![Idx] = TRUE]
              /\ diff' = MergeChunks(diff, mem', {c})
  /\ UNCHANGED <<db, upd, pcVars, rem, meta, dir, skipped, quota, plan>>

\* maybeSaveCheckpoint while deliverLoop waits for diskQuotaLock
SaveWhileWaiting(c) ==
  /\ tpc \in {"engines", "stopping"} /\ cst[c] = "run" /\ quota = "held"
  /\ mem.pos[c] < NPackets /\ Synced(c, buf)
  /\ diff' = MergeChunks(diff, mem, {c})
  /\ UNCHANGED <<db, mem, upd, pcVars, engVars, quota, plan>>

\* mutant: save without looking at the flush statuses
MutCloseWriters(c) ==
  /\ tpc \in {"engines", "stopping"} /\ cst[c] = "run" /\ mem.pos[c] = NPackets
  /\ cst' = [cst EXCEPT ![c] = "done"]
  /\ diff' = MergeChunks(diff, mem, {c})
  /\ UNCHANGED <<db, mem, upd, tpc, est, pend, chan, engVars, quota, plan>>

\* the chunk goroutine closes both writers: save, or wait for the flush
CloseWriters(c) ==
  /\ tpc \in {"engines", "stopping"} /\ cst[c] = "run" /\ mem.pos[c] = NPackets
  /\ cst' = [cst EXCEPT ![c] = "done"]
  /\ IF Synced(c, buf)
     THEN diff' = MergeChunks(diff, mem, {c}) /\ UNCHANGED pend
     ELSE pend' = [pend EXCEPT ![EngineOf[c]] = Append(@, c)] /\ UNCHANGED diff
  /\ UNCHANGED <<db, mem, upd, tpc, est, chan, engVars, quota, plan>>

\* the loop is over: wg.Wait
WaitChunks(e) ==
  /\ tpc = "engines" /\ est[e] = "loop" /\ \A c \in Of(e) : cst[c] # "todo"
  /\ est' = [est EXCEPT ![e] = "wait"]
  /\ UNCHANGED <<cpVars, tpc, cst, pend, chan, engVars, quota, plan>>

\* all chunks succeeded: dataEngine.Close flushes the data engine
CloseDataEngine(e) ==
  /\ tpc = "engines" /\ est[e] = "wait" /\ \A c \in Of(e) : cst[c] = "done"
  /\ Flush({e})
  /\ est' = [est EXCEPT ![e] = "dataclosed"]
  /\ UNCHANGED <<cpVars, tpc, cst, pend, chan, quota, plan>>

\* indexEngine.Flush
FlushIndexEngine(e) ==
  /\ tpc = "engines" /\ est[e] = "dataclosed"
  /\ Flush({Idx})
  /\ est' = [est EXCEPT ![e] = "flushed"]
  /\ UNCHANGED <<cpVars, tpc, cst, pend, chan, quota, plan>>

\* trySavePendingChunks, on success and on cancellation
TrySavePendingChunks(e, b) ==
  LET n == FlushedPrefix(e, b)
  IN /\ diff' = MergeChunks(diff, mem, Elems(SubSeq(pend[e], 1, n)))
     /\ pend' = [pend EXCEPT ![e] = SubSeq(@, n + 1, Len(@))]

SavePendingChunks(e) ==
  /\ tpc \in {"engines", "stopping"} /\ est[e] = "flushed"
  /\ TrySavePendingChunks(e, buf)
  /\ est' = [est EXCEPT ![e] = "pendsaved"]
  /\ UNCHANGED <<db, mem, upd, tpc, cst, chan, engVars, quota, plan>>

\* saveStatusCheckpoint(Closed); restoreEngine returns, its deferred cancel
\* ends the saver goroutine with whatever is left in chunkCpChan
SaveClosed(e) ==
  /\ tpc \in {"engines", "stopping"} /\ est[e] = "pendsaved"
  /\ diff' = MergeStatus(diff, e, Closed)
  /\ est' = [est EXCEPT ![e] = "closed"] /\ chan' = [chan EXCEPT ![e] = <<>>]
  /\ UNCHANGED <<db, mem, upd, tpc, cst, pend, engVars, quota, plan>>

----------------------------------------------------------------------------
(* importKV of a data engine, and its failure.                             *)

ImportEngine(e) ==
  /\ tpc = "engines" /\ est[e] = "closed"
  /\ Import(e)
  /\ est' = [est EXCEPT ![e] = "imported"]
  /\ UNCHANGED <<cpVars, tpc, cst, pend, chan, buf, disk, size, meta, dir, quota, plan>>

\* saveStatusCheckpoint(Imported), sent before the cleanup
SaveImported(e) ==
  /\ tpc \in {"engines", "stopping"} /\ est[e] = "imported"
  /\ diff' = MergeStatus(diff, e, Imported)
  /\ est' = [est EXCEPT ![e] = "saved"]
  /\ UNCHANGED <<db, mem, upd, tpc, cst, pend, chan, engVars, quota, plan>>

CleanupEngine(e) ==
  /\ tpc \in {"engines", "stopping"} /\ est[e] = "saved"
  /\ RemoveEngine(e, FALSE)
  /\ est' = [est EXCEPT ![e] = "done"]
  /\ UNCHANGED <<cpVars, tpc, cst, pend, chan, buf, rem, skipped, quota, plan>>

\* Import fails for good: the engine and the table become invalid, and the
\* context of the other engines is cancelled
ImportFails(e) ==
  /\ tpc = "engines" /\ est[e] = "closed" /\ plan.fail > 0
  /\ diff' = MergeStatus(diff, e, Invalid(Imported))
  /\ est' = [est EXCEPT ![e] = "failed"] /\ tpc' = "stopping"
  /\ plan' = [plan EXCEPT !.fail = @ - 1]
  /\ UNCHANGED <<db, mem, upd, cst, pend, chan, engVars, quota>>

----------------------------------------------------------------------------
(* The index engine and the end of the table.                              *)

\* mutant: the table is saved as IndexImported when the index engine closes
MutCloseIndexEarly ==
  /\ tpc = "engines" /\ \A e \in Engines : est[e] = "done"
  /\ Flush({Idx})
  /\ diff' = MergeStatus(MergeStatus(diff, Idx, Closed), Whole, IndexImported)
  /\ tpc' = "indexclosed"
  /\ UNCHANGED <<db, mem, upd, est, cst, pend, chan, quota, plan>>

\* close the index engine once every data engine is imported
CloseIndexEngine ==
  /\ tpc = "engines" /\ \A e \in Engines : est[e] = "done"
  /\ Flush({Idx})
  /\ diff' = MergeStatus(diff, Idx, Closed) /\ tpc' = "indexclosed"
  /\ UNCHANGED <<db, mem, upd, est, cst, pend, chan, quota, plan>>

ImportIndexEngine ==
  /\ tpc = "indexclosed"
  /\ IF mem.status < IndexImported /\ mem.eng[Idx] < Imported
     THEN /\ Import(Idx)
          /\ diff' = MergeStatus(diff, Idx, Imported) /\ tpc' = "indexsaved"
     ELSE tpc' = "indexcleaned" /\ UNCHANGED <<rem, skipped, diff>>
  /\ UNCHANGED <<db, mem, upd, est, cst, pend, chan, buf, disk, size, meta, dir, quota, plan>>

IndexImportFails ==
  /\ tpc = "indexclosed" /\ mem.status < IndexImported /\ mem.eng[Idx] < Imported
  /\ plan.fail > 0
  /\ diff' = MergeStatus(MergeStatus(diff, Idx, Invalid(Imported)), Whole, Invalid(IndexImported))
  /\ tpc' = "stopping" /\ plan' = [plan EXCEPT !.fail = @ - 1]
  /\ UNCHANGED <<db, mem, upd, est, cst, pend, chan, engVars, quota>>

CleanupIndexEngine ==
  /\ tpc = "indexsaved" /\ tpc' = "indexcleaned"
  /\ RemoveEngine(Idx, FALSE)
  /\ UNCHANGED <<cpVars, est, cst, pend, chan, buf, rem, skipped, quota, plan>>

SaveIndexImported ==
  /\ tpc = "indexcleaned" /\ tpc' = "post"
  /\ diff' = IF mem.status < IndexImported THEN MergeStatus(diff, Whole, IndexImported) ELSE diff
  /\ UNCHANGED <<db, mem, upd, est, cst, pend, chan, engVars, quota, plan>>

\* postProcess: the local checksum sums the chunk checkpoints, the remote one
\* covers what TiKV holds
ChecksumMatches == \A s \in Side, c \in Chunks : rem[s][c] = 1..mem.sum[c]
CompareChecksum ==
  /\ tpc = "post"
  /\ IF mem.status >= Checksummed THEN tpc' = "done" /\ UNCHANGED diff
     ELSE IF ChecksumMatches
          THEN tpc' = "done" /\ diff' = MergeStatus(diff, Whole, Checksummed)
          ELSE tpc' = "stopping" /\ diff' = MergeStatus(diff, Whole, Invalid(Checksummed))
  /\ UNCHANGED <<db, mem, upd, est, cst, pend, chan, engVars, quota, plan>>

----------------------------------------------------------------------------
(* Cancellation, crashes and the operator.                                 *)

\* a signal, or a failed chunk, cancels the context
Cancel ==
  /\ tpc \notin {"down", "done", "stopping"} /\ plan.cancel > 0
  /\ tpc' = "stopping" /\ plan' = [plan EXCEPT !.cancel = @ - 1]
  /\ UNCHANGED <<cpVars, est, cst, pend, chan, engVars, quota>>

ChunkCancelled(c) ==
  /\ tpc = "stopping" /\ cst[c] = "run"
  /\ cst' = [cst EXCEPT ![c] = "failed"]
  /\ UNCHANGED <<cpVars, tpc, est, pend, chan, engVars, quota, plan>>

\* restoreEngine sees the cancelled context between two chunks, or a later
\* call fails with it: it returns at once and saves nothing
EngineReturns(e) ==
  /\ tpc = "stopping"
  /\ \/ est[e] \in {"idle", "loop", "dataclosed", "closed"}
     \/ est[e] = "wait" /\ \A c \in Of(e) : cst[c] = "done"
  /\ est' = [est EXCEPT ![e] = "failed"] /\ chan' = [chan EXCEPT ![e] = <<>>]
  /\ UNCHANGED <<cpVars, tpc, cst, pend, engVars, quota, plan>>

\* restoreEngine waited for its chunks and one was cancelled: it flushes the
\* data engine and saves the chunks that are flushed on both sides
EngineCancelled(e) ==
  /\ tpc = "stopping" /\ est[e] \in {"loop", "wait"}
  /\ \A c \in Of(e) : cst[c] # "run"
  /\ \E c \in Of(e) : cst[c] = "failed"
  /\ Flush({e})
  /\ TrySavePendingChunks(e, buf')
  /\ est' = [est EXCEPT ![e] = "failed"] /\ chan' = [chan EXCEPT ![e] = <<>>]
  /\ UNCHANGED <<db, mem, upd, tpc, cst, quota, plan>>

\* the process is gone: only the checkpoint database, the engine directories
\* and TiKV remain
Down ==
  /\ tpc' = "down"
  /\ diff' = NoDiff /\ upd' = NoDiff
  /\ est' = [e \in Engines |-> "idle"] /\ cst' = [c \in Chunks |-> "todo"]
  /\ pend' = [e \in Engines |-> <<>>] /\ chan' = [e \in Engines |-> <<>>]
  /\ buf' = NoBuf /\ size' = [e \in AllEngines |-> FALSE]
  /\ quota' = "idle"
  /\ UNCHANGED <<db, mem, disk, rem, meta, dir, skipped>>

\* restoreEngines returned an error: waitCheckpointFinish, backend.Close, exit
EnginesReturned == \A e \in Engines : est[e] \in {"idle", "done", "failed"}
Stop ==
  /\ tpc = "stopping" /\ EnginesReturned
  /\ diff = NoDiff /\ upd = NoDiff
  /\ Down /\ UNCHANGED plan

Crash ==
  /\ tpc # "down" /\ plan.crash > 0
  /\ Down /\ plan' = [plan EXCEPT !.crash = @ - 1]

\* tidb-lightning-ctl --checkpoint-error-ignore
IgnoreErrorCheckpoint ==
  /\ tpc = "down" /\ db.status <= MaxInvalid
  /\ db' = [db EXCEPT !.status = Loaded,
                      !.eng = [e \in AllEngines |-> IF @[e] <= MaxInvalid THEN Loaded ELSE @[e]]]
  /\ UNCHANGED <<mem, diff, upd, pcVars, engVars, quota, plan>>

\* tidb-lightning-ctl --checkpoint-error-destroy: the table is dropped, its
\* engine files and its checkpoint removed
DestroyErrorCheckpoint ==
  /\ tpc = "down" /\ db.status <= MaxInvalid
  /\ db' = FreshCheckpoint
  /\ disk' = NoBuf /\ rem' = NoBuf /\ skipped' = {}
  /\ meta' = [e \in AllEngines |-> FALSE] /\ dir' = [e \in AllEngines |-> FALSE]
  /\ UNCHANGED <<mem, diff, upd, pcVars, buf, size, quota, plan>>

----------------------------------------------------------------------------
(* The disk quota: enforceDiskQuota.                                       *)

\* the engines that are open: FlushAllEngines skips the others
OpenEngines == {Idx} \cup {e \in Engines : est[e] \in {"loop", "wait"}}

QuotaLock ==
  /\ tpc = "engines" /\ quota = "idle" /\ plan.quota > 0
  /\ Flush(OpenEngines)
  /\ quota' = "held" /\ plan' = [plan EXCEPT !.quota = @ - 1]
  /\ UNCHANGED <<cpVars, pcVars>>

\* UnsafeImportAndReset of a large engine known to the backend
QuotaImport(e) ==
  /\ tpc = "engines" /\ quota = "held"
  /\ e \in {Idx} \cup {x \in Engines : est[x] \in {"loop", "wait", "dataclosed",
                                                   "flushed", "pendsaved", "closed"}}
  /\ Import(e) /\ RemoveEngine(e, TRUE)
  /\ UNCHANGED <<cpVars, pcVars, buf, quota, plan>>

QuotaUnlock ==
  /\ quota = "held" /\ quota' = "idle"
  /\ UNCHANGED <<cpVars, pcVars, engVars, plan>>

----------------------------------------------------------------------------

\* the restore has ended, or nothing but an operator can go on
Ended ==
  /\ tpc = "done" \/ (tpc = "down" /\ ~VerifyLocalFile)
  /\ UNCHANGED vars

Next ==
  \/ TakeCoalesced \/ UpdateDB
  \/ Load \/ Populate \/ OpenIndex
  \/ CloseIndexEngine \/ ImportIndexEngine \/ IndexImportFails \/ CleanupIndexEngine
  \/ SaveIndexImported \/ CompareChecksum
  \/ Cancel \/ Stop \/ Crash \/ IgnoreErrorCheckpoint \/ DestroyErrorCheckpoint
  \/ QuotaLock \/ QuotaUnlock \/ Ended
  \/ \E e \in AllEngines : QuotaImport(e)
  \/ \E s \in Side, c \in Chunks : FlushWriter(s, c)
  \/ \E c \in Chunks : Deliver(c) \/ SaveWhileWaiting(c) \/ CloseWriters(c) \/ ChunkCancelled(c)
  \/ \E e \in Engines :
       \/ StartEngine(e) \/ SpawnChunk(e) \/ SavePendingChunk(e) \/ WaitChunks(e)
       \/ CloseDataEngine(e) \/ FlushIndexEngine(e) \/ SavePendingChunks(e) \/ SaveClosed(e)
       \/ ImportEngine(e) \/ SaveImported(e) \/ CleanupEngine(e) \/ ImportFails(e)
       \/ EngineReturns(e) \/ EngineCancelled(e)

Spec == Init /\ [][Next]_vars

----------------------------------------------------------------------------

Kept(s, c) == disk[s][c] \cup rem[s][c] \cup {p \in Packets : <<s, c, p>> \in skipped}

\* A packet below the persisted position of its chunk is never read again, so
\* its data and its index entries must survive a kill -9: they are in an
\* engine directory or in TiKV (saveCheckpoint only after both writers are
\* synced; the Closed and Imported statuses only after the flushes), unless an
\* import took its engine for an empty one.
SavedIsDurable ==
  /\ TypeOK
  /\ \A c \in Chunks, s \in Side : 1..db.pos[c] \subseteq Kept(s, c)
  /\ \A c \in Chunks, s \in Side : db.eng[EngineOf[c]] >= Closed => Packets \subseteq Kept(s, c)

\* When the table's checkpoint says IndexImported, TiKV has every entry of
\* every chunk on both sides, whatever crashes, cancellations, failed and
\* repeated imports and quota rounds happened before.
RestoredIsComplete ==
  db.status >= IndexImported =>
    \A c \in Chunks, s \in Side :
      Packets \subseteq rem[s][c] \cup {p \in Packets : <<s, c, p>> \in skipped}

\* The local checksum neither loses nor doubles a packet over restarts: when
\* it is compared, every chunk checkpoint counts each of its packets once.  It
\* is stated for engines of one chunk: of several, the checkpoint of one that is
\* still in chunkCpChan is lost when restoreEngine returns.
LocalChecksumIsExact ==
  tpc = "post" /\ (\A e \in Engines : Cardinality(Of(e)) = 1) =>
    \A c \in Chunks : mem.sum[c] = NPackets

\* No import passes over an engine that holds entries TiKV does not have.
NothingSkipped == skipped = {}
====
