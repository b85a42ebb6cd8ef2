---- MODULE MCTableImport ----
(* The import of a table (TableRestore) and, in detail, the deliver loop of one    *)
(* of its chunks with the writers of the local backend (DeliverLoop).  A           *)
(* behaviour is of one component; the variables of the other do not change.        *)
EXTENDS MCTableRestore

CONSTANTS W, First, ChunkPackets, MaxQuota, MaxOther  \* DeliverLoop

VARIABLES
  part,  \* the component the behaviour is of
  kvSorted, dpc, rd, offset, dataSynced, saved, quotaLock, qpc, quotas, fpc, fby, batch,
  batchCount, newSST, gotSeq, lastMetaSeq, sst, finishedMetaSeq, others

DL == INSTANCE DeliverLoop WITH
  NPackets <- ChunkPackets

\* the variables of the other components, which stay 0
TableIdle ==
  <<kvSorted, dpc, rd, offset, dataSynced, saved, quotaLock, qpc, quotas, fpc, fby, batch,
  batchCount, newSST, gotSeq, lastMetaSeq, sst, finishedMetaSeq, others>>

RunVars == <<part,
  vars, kvSorted, dpc, rd, offset, dataSynced, saved, quotaLock, qpc, quotas, fpc, fby,
  batch, batchCount, newSST, gotSeq, lastMetaSeq, sst, finishedMetaSeq, others>>

RunInit ==
  \/ /\ part = "table" /\ Init
     /\ kvSorted = 0 /\ dpc = 0 /\ rd = 0 /\ offset = 0 /\ dataSynced = 0 /\ saved = 0
     /\ quotaLock = 0 /\ qpc = 0 /\ quotas = 0 /\ fpc = 0 /\ fby = 0 /\ batch = 0
     /\ batchCount = 0 /\ newSST = 0 /\ gotSeq = 0 /\ lastMetaSeq = 0 /\ sst = 0
     /\ finishedMetaSeq = 0 /\ others = 0
  \/ /\ part = "deliver" /\ DL!Init
     /\ Init /\ plan = CHOOSE p \in Plans : TRUE

RunNext ==
  \/ part = "table" /\ Next /\ UNCHANGED <<part, TableIdle>>
  \/ part = "deliver" /\ DL!Next /\ UNCHANGED <<part, vars>>

RunSpec == RunInit /\ [][RunNext]_RunVars

\* A saved chunk checkpoint is never ahead of the ingested SSTs, and no row handed to a
\* writer is dropped (deliverLoop, saveCheckpoint, Writer.flushKVs, IsSynced).
ChunkIsDurable == part = "deliver" => DL!SavedIsIngested /\ DL!NothingDropped
====
