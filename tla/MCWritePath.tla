---- MODULE MCWritePath ----
(* Two parts of the local backend on the way of a row into an engine: the lock of *)
(* the disk quota (DiskQuotaLock) and the ingestion of the SSTs (IngestLoop).  A  *)
(* behaviour is of one component; the variables of the other do not change.       *)
EXTENDS DiskQuotaLock, Sequences

CONSTANTS Workers, Flushes, ChanCap, Closer, w1, w2, f1, fc  \* IngestLoop

VARIABLES
  part,  \* the component the behaviour is of
  conf, nextSeq, ch, readerPc, rflush, metasTmp, pendingMetas, out, seq, finishedSeq,
  finishedMetaSeq, metaChan, workerPc, wtask, inSyncSeqs, flushQueue, replied, fpc, covers,
  ingested, cpc, ingestErr, ctxDone

\* Two compaction workers; ingests fail and a caller gives up.
Compacting == [compact |-> TRUE, threshold |-> 2, ssts |-> 4,
               impatient |-> {f1}, errors |-> TRUE, cancels |-> FALSE]
\* One worker, and callers that give up, CloseEngine's among them.
Serial == [compact |-> FALSE, threshold |-> 2, ssts |-> 2,
           impatient |-> {f1, fc}, errors |-> TRUE, cancels |-> FALSE]
\* The context of the engine is cancelled from outside.
Cancelled == [compact |-> TRUE, threshold |-> 1, ssts |-> 2,
              impatient |-> {}, errors |-> TRUE, cancels |-> TRUE]

AllConfs == {Compacting, Serial, Cancelled}
IL == INSTANCE IngestLoop WITH
  Confs <- AllConfs, rpc <- readerPc, wpc <- workerPc

\* the variables of the other components, which stay 0
LockIdle ==
  <<conf, nextSeq, ch, readerPc, rflush, metasTmp, pendingMetas, out, seq, finishedSeq,
  finishedMetaSeq, metaChan, workerPc, wtask, inSyncSeqs, flushQueue, replied, fpc, covers,
  ingested, cpc, ingestErr, ctxDone>>

RunVars == <<part,
  vars, conf, nextSeq, ch, readerPc, rflush, metasTmp, pendingMetas, out, seq, finishedSeq,
  finishedMetaSeq, metaChan, workerPc, wtask, inSyncSeqs, flushQueue, replied, fpc, covers,
  ingested, cpc, ingestErr, ctxDone>>

RunInit ==
  \/ /\ part = "lock" /\ Init
     /\ conf = 0 /\ nextSeq = 0 /\ ch = 0 /\ readerPc = 0 /\ rflush = 0 /\ metasTmp = 0
     /\ pendingMetas = 0 /\ out = 0 /\ seq = 0 /\ finishedSeq = 0 /\ finishedMetaSeq = 0
     /\ metaChan = 0 /\ workerPc = 0 /\ wtask = 0 /\ inSyncSeqs = 0 /\ flushQueue = 0
     /\ replied = 0 /\ fpc = 0 /\ covers = 0 /\ ingested = 0 /\ cpc = 0 /\ ingestErr = 0
     /\ ctxDone = 0
  \/ /\ part = "ingest" /\ IL!Init
     /\ Init

RunNext ==
  \/ part = "lock" /\ Next /\ UNCHANGED <<part, LockIdle>>
  \/ part = "ingest" /\ IL!Next /\ UNCHANGED <<part, vars>>

ingestVars == IL!vars
\* A goroutine in the middle of an operation goes on; nobody has to begin one.
RunSpec ==
  /\ RunInit /\ [][RunNext]_RunVars
  /\ \A p \in Readers : WF_vars(part = "lock" /\ rpc[p] # "out" /\ ReaderStep(p))
  /\ \A q \in Writers : WF_vars(part = "lock" /\ wpc[q] # "out" /\ WriterStep(q))
  /\ WF_ingestVars(part = "ingest" /\ IL!Reader) /\ WF_ingestVars(part = "ingest" /\ IL!Call)
  /\ \A i \in Workers : WF_ingestVars(part = "ingest" /\ IL!Worker(i))


\* A disk quota check that announced itself gets the lock; a flush request and
\* CloseEngine return, whatever fails (diskQuotaLock.Lock, FlushEngine, CloseEngine).
WritersProceed == []<>(CASE part = "lock" -> NoneWaits [] part = "ingest" -> IL!Answered)
====
