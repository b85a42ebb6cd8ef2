---- MODULE DeliverLoop ----
(***************************************************************************)
(* One chunk of the local backend while the disk quota check runs: the     *)
(* deliver loop (restore.deliverLoop) writes packets of rows through a data *)
(* and an index writer (local.Writer) and saves the chunk checkpoint when  *)
(* both are synced; the quota check flushes the same writers under the     *)
(* disk quota lock, so that the loop can save while it is kept waiting.    *)
(* The engines ingest SSTs in order (IngestLoop).                          *)
(***************************************************************************)
EXTENDS Integers, Sequences, FiniteSets

CONSTANTS
  W,           \* the writers of the chunk: the data and the index writer
  First,       \* the writer written first (data)
  NPackets,    \* the packets of the chunk
  MaxQuota,    \* bound on disk quota checks
  MaxOther     \* bound on SSTs other chunks add to the engines

VARIABLES
  kvSorted,    \* the writers opened with IsKVSorted: the data writer, or none
  dpc,         \* where the deliver loop is
  rd,          \* the writers IsSynced has found synced, or half of one
  offset,      \* cr.chunk.Chunk.Offset: packets delivered
  dataSynced,
  saved,       \* the offset of the last checkpoint sent to the saver
  quotaLock,   \* who holds diskQuotaLock: "none", "reader", "quota"
  qpc, quotas, \* where the quota check is, and how many there were
  fpc, fby,    \* where a flush of each writer is, and who runs it: it holds Writer.Mutex
  batch,       \* packets in the writer's memory or open SST
  batchCount,  \* Writer.batchCount is not 0
  newSST,      \* packets in the SST being handed over
  gotSeq, lastMetaSeq,  \* the number addSST returned, and its copy in the writer
  sst,         \* packets of each SST of the engine, in the order of their numbers
  finishedMetaSeq,
  others       \* SSTs other chunks added

dVars == <<dpc, rd, offset, dataSynced, saved>>
qVars == <<quotaLock, qpc, quotas>>
wVars == <<fpc, fby, batch, batchCount, newSST, gotSeq, lastMetaSeq>>
eVars == <<sst, finishedMetaSeq, others, kvSorted>>
vars == <<dVars, qVars, wVars, eVars>>

Packets == 1..NPackets
MaxSST == NPackets + MaxOther
Ingested(x) == UNION {sst[x][n] : n \in 1..finishedMetaSeq[x]}

\* The variables keep their types.
TypeOK ==
  /\ dpc \in {"lock", "write", "index", "unlock", "save"} /\ rd \in SUBSET (W \X {"count", "seq"})
  /\ offset \in 0..NPackets /\ dataSynced \in BOOLEAN /\ saved \in 0..offset
  /\ quotaLock \in {"none", "reader", "quota"}
  /\ qpc \in {"idle", "start", "flush"} /\ quotas \in 0..MaxQuota
  /\ fpc \in [W -> {"idle", "start", "add", "seq", "count"}] /\ fby \in [W -> {"none", "deliver", "quota"}]
  /\ batch \in [W -> SUBSET Packets] /\ batchCount \in [W -> BOOLEAN]
  /\ newSST \in [W -> SUBSET Packets] /\ gotSeq \in [W -> 0..MaxSST]
  /\ lastMetaSeq \in [W -> 0..MaxSST]
  /\ sst \in [W -> Seq(SUBSET Packets)] /\ \A x \in W : finishedMetaSeq[x] \in 0..Len(sst[x])
  /\ others \in 0..MaxOther

Init ==
  /\ dpc = "lock" /\ rd = {} /\ offset = 0 /\ dataSynced = TRUE /\ saved = 0
  /\ quotaLock = "none" /\ qpc = "idle" /\ quotas = 0
  /\ fpc = [x \in W |-> "idle"] /\ fby = [x \in W |-> "none"]
  /\ batch = [x \in W |-> {}] /\ batchCount = [x \in W |-> FALSE]
  /\ newSST = [x \in W |-> {}] /\ gotSeq = [x \in W |-> 0] /\ lastMetaSeq = [x \in W |-> 0]
  /\ sst = [x \in W |-> <<>>] /\ finishedMetaSeq = [x \in W |-> 0] /\ others = 0
  /\ kvSorted \in {{}, {First}}

----------------------------------------------------------------------------
(* Writer.flush and flushKVs, under Writer.Mutex.                          *)

StartFlush(x, who) ==
  /\ fpc[x] = "idle" /\ fpc' = [fpc EXCEPT ![x] = "start"] /\ fby' = [fby EXCEPT ![x] = who]

\* mutant: batchCount is reset before the SST is handed over
MutFlushStart(x) ==
  /\ fpc[x] = "start" /\ fpc' = [fpc EXCEPT ![x] = "add"]
  /\ newSST' = [newSST EXCEPT ![x] = batch[x]] /\ batch' = [batch EXCEPT ![x] = {}]
  /\ batchCount' = [batchCount EXCEPT ![x] = FALSE]
  /\ UNCHANGED <<dVars, qVars, fby, gotSeq, lastMetaSeq, eVars>>

\* a writer of sorted KVs closes its SST and forgets it, batchCount included,
\* before it hands the SST over; flushKVs resets batchCount last
FlushStart(x) ==
  /\ fpc[x] = "start"
  /\ \/ /\ ~batchCount[x] /\ fpc' = [fpc EXCEPT ![x] = "idle"] /\ fby' = [fby EXCEPT ![x] = "none"]
        /\ UNCHANGED <<batch, batchCount, newSST>>
     \/ /\ batchCount[x] /\ fpc' = [fpc EXCEPT ![x] = "add"]
        /\ newSST' = [newSST EXCEPT ![x] = batch[x]] /\ batch' = [batch EXCEPT ![x] = {}]
        /\ batchCount' = [batchCount EXCEPT ![x] = x \notin kvSorted] /\ UNCHANGED fby
  /\ UNCHANGED <<dVars, qVars, gotSeq, lastMetaSeq, eVars>>

\* File.addSST numbers and sends the SST
FlushAdd(x) ==
  /\ fpc[x] = "add" /\ fpc' = [fpc EXCEPT ![x] = "seq"]
  /\ sst' = [sst EXCEPT ![x] = Append(@, newSST[x])] /\ newSST' = [newSST EXCEPT ![x] = {}]
  /\ gotSeq' = [gotSeq EXCEPT ![x] = Len(sst[x]) + 1]
  /\ UNCHANGED <<dVars, qVars, fby, batch, batchCount, lastMetaSeq, finishedMetaSeq, others, kvSorted>>

FlushSeq(x) ==
  /\ fpc[x] = "seq" /\ lastMetaSeq' = [lastMetaSeq EXCEPT ![x] = gotSeq[x]]
  /\ fpc' = [fpc EXCEPT ![x] = "count"]
  /\ UNCHANGED <<dVars, qVars, fby, batch, batchCount, newSST, gotSeq, eVars>>

FlushEnd(x) ==
  /\ fpc[x] = "count" /\ batchCount' = [batchCount EXCEPT ![x] = FALSE]
  /\ fpc' = [fpc EXCEPT ![x] = "idle"] /\ fby' = [fby EXCEPT ![x] = "none"]
  /\ UNCHANGED <<dVars, qVars, batch, newSST, gotSeq, lastMetaSeq, eVars>>

\* the engine ingests its next SST; another chunk adds one
Ingest(x) ==
  /\ finishedMetaSeq[x] < Len(sst[x])
  /\ finishedMetaSeq' = [finishedMetaSeq EXCEPT ![x] = @ + 1]
  /\ UNCHANGED <<dVars, qVars, wVars, sst, others, kvSorted>>

OtherSST(x) ==
  /\ others < MaxOther /\ others' = others + 1
  /\ sst' = [sst EXCEPT ![x] = Append(@, {})]
  /\ UNCHANGED <<dVars, qVars, wVars, finishedMetaSeq, kvSorted>>

----------------------------------------------------------------------------
(* The deliver loop.                                                       *)

\* TryRLock: written rows are never waiting for the quota check
TryRLock ==
  /\ dpc = "lock" /\ offset < NPackets /\ quotaLock = "none"
  /\ quotaLock' = "reader" /\ dpc' = "write"
  /\ UNCHANGED <<rd, offset, dataSynced, saved, qpc, quotas, wVars, eVars>>

\* kept waiting, the loop tries to save the checkpoint instead
TryRLockFails ==
  /\ dpc = "lock" /\ offset < NPackets /\ quotaLock = "quota" /\ ~dataSynced
  /\ dpc' = "save"
  /\ UNCHANGED <<rd, offset, dataSynced, saved, qVars, wVars, eVars>>

\* AppendRows, which may flush a full batch of unsorted KVs
AppendRows(x) ==
  /\ fpc[x] = "idle" /\ batch' = [batch EXCEPT ![x] = @ \cup {offset + 1}]
  /\ batchCount' = [batchCount EXCEPT ![x] = TRUE]
  /\ \/ UNCHANGED <<fpc, fby>>
     \/ x \notin kvSorted /\ StartFlush(x, "deliver")
  /\ UNCHANGED <<newSST, gotSeq, lastMetaSeq>>

WriteFirst ==
  /\ dpc = "write" /\ AppendRows(First) /\ dpc' = "index"
  /\ UNCHANGED <<rd, offset, dataSynced, saved, qVars, eVars>>

WriteSecond ==
  /\ dpc = "index" /\ fby[First] # "deliver" /\ \E x \in W \ {First} : AppendRows(x)
  /\ dpc' = "unlock"
  /\ UNCHANGED <<rd, offset, dataSynced, saved, qVars, eVars>>

\* both writes returned: RUnlock, and the chunk's new offset
Delivered ==
  /\ dpc = "unlock" /\ \A x \in W : fby[x] # "deliver"
  /\ dpc' = "save" /\ offset' = offset + 1 /\ dataSynced' = FALSE /\ quotaLock' = "none"
  /\ UNCHANGED <<rd, saved, qpc, quotas, wVars, eVars>>

\* maybeSaveCheckpoint reads each writer without its mutex: IsSynced looks at
\* batchCount, then at lastMetaSeq
ReadCount(x) ==
  /\ dpc = "save" /\ <<x, "count">> \notin rd
  /\ x = First \/ <<First, "seq">> \in rd
  /\ IF batchCount[x] THEN dpc' = "lock" /\ rd' = {} ELSE dpc' = dpc /\ rd' = rd \cup {<<x, "count">>}
  /\ UNCHANGED <<offset, dataSynced, saved, qVars, wVars, eVars>>

ReadSeq(x) ==
  /\ dpc = "save" /\ <<x, "count">> \in rd /\ <<x, "seq">> \notin rd
  /\ IF lastMetaSeq[x] > finishedMetaSeq[x] THEN dpc' = "lock" /\ rd' = {}
     ELSE dpc' = dpc /\ rd' = rd \cup {<<x, "seq">>}
  /\ UNCHANGED <<offset, dataSynced, saved, qVars, wVars, eVars>>

SaveCheckpoint ==
  /\ dpc = "save" /\ \A x \in W : <<x, "seq">> \in rd
  /\ saved' = offset /\ dataSynced' = TRUE /\ rd' = {} /\ dpc' = "lock"
  /\ UNCHANGED <<offset, qVars, wVars, eVars>>

----------------------------------------------------------------------------
(* The disk quota check (enforceDiskQuota).                                *)

QuotaLock ==
  /\ qpc = "idle" /\ quotas < MaxQuota /\ quotaLock = "none"
  /\ quotaLock' = "quota" /\ qpc' = "start" /\ quotas' = quotas + 1
  /\ UNCHANGED <<dVars, wVars, eVars>>

\* FlushAll: flushLocalWriters of each engine
QuotaFlush ==
  /\ qpc = "start" /\ \A x \in W : fpc[x] = "idle" /\ qpc' = "flush"
  /\ fpc' = [x \in W |-> "start"] /\ fby' = [x \in W |-> "quota"]
  /\ UNCHANGED <<dVars, quotaLock, quotas, batch, batchCount, newSST, gotSeq, lastMetaSeq, eVars>>

\* ... then each engine is flushed, the large ones are imported, and the lock
\* is released
QuotaEnd ==
  /\ qpc = "flush" /\ \A x \in W : fby[x] # "quota" /\ finishedMetaSeq[x] = Len(sst[x])
  /\ qpc' = "idle" /\ quotaLock' = "none"
  /\ UNCHANGED <<dVars, quotas, wVars, eVars>>

Done == dpc = "lock" /\ offset = NPackets /\ UNCHANGED vars

Next ==
  \/ TryRLock \/ TryRLockFails \/ WriteFirst \/ WriteSecond \/ Delivered \/ SaveCheckpoint
  \/ \E x \in W : ReadCount(x) \/ ReadSeq(x) \/ Ingest(x) \/ OtherSST(x)
  \/ \E x \in W : FlushStart(x) \/ FlushAdd(x) \/ FlushSeq(x) \/ FlushEnd(x)
  \/ QuotaLock \/ QuotaFlush \/ QuotaEnd
  \/ Done
Spec == Init /\ [][Next]_vars

----------------------------------------------------------------------------
(* Properties.                                                             *)

\* A saved chunk checkpoint never runs ahead of the engines: every packet up to
\* its offset is in ingested SSTs of the engine of each unsorted writer, so a
\* restart that continues from it loses no row.  A sorted writer resets batchCount
\* before addSST has numbered the SST (Writer.flush): IsSynced may be true in
\* between, and the property does not hold of it.
SavedIsIngested == \A x \in W \ kvSorted : 1..saved \subseteq Ingested(x)

\* No packet is lost on its way: what was delivered is in the writer's batch,
\* in the SST being handed over, or in an SST of the engine.
NothingDropped ==
  TypeOK /\ \A x \in W : 1..offset \subseteq
    batch[x] \cup newSST[x] \cup UNION {sst[x][n] : n \in DOMAIN sst[x]}
====
