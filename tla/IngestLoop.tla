---- MODULE IngestLoop ----
(***************************************************************************)
(* The goroutines that move the SST files of one local engine (local.File) *)
(* into its pebble DB: ingestSSTLoop, which reads sstMetasChan, batches    *)
(* the files and numbers the batches; the workers that compact and ingest  *)
(* batches in any order; the flush requests that wait for them.            *)
(*                                                                         *)
(* An SST is its sequence number (File.nextSeq).  All SSTs have size 1.    *)
(***************************************************************************)
EXTENDS Integers, Sequences, FiniteSets

CONSTANTS
  Workers,     \* the compaction and ingest goroutines
  Flushes,     \* the flush requests that may be made
  ChanCap,     \* capacity of sstMetasChan
  Closer,      \* the flush request CloseEngine makes
  Confs        \* the engine configurations, and what may go wrong with each

\* compact, threshold: LocalEngineConfig; ssts: bound on the SSTs the writers
\* produce; impatient: the flush requests whose caller may give up; errors,
\* cancels: whether an ingest may fail, the context be cancelled from outside

NoTask == [seq |-> 0, metas |-> <<>>]

VARIABLES
  conf,         \* the configuration of this behaviour
  nextSeq,      \* File.nextSeq: SSTs handed over so far
  ch,           \* sstMetasChan: SST numbers and flush requests
  rpc, rflush,  \* where the reader loop is, and the flush request it handles
  metasTmp, pendingMetas,
  out,          \* batches the reader is sending to metaChan
  seq, finishedSeq, finishedMetaSeq,
  metaChan,
  wpc, wtask,   \* where each worker is, and its batch
  inSyncSeqs,   \* the heap of batches that finished too early
  flushQueue,
  replied,      \* flush requests whose channel was sent to
  fpc,          \* where each flush request is
  covers,       \* history: the SSTs that existed when it was sent
  ingested,     \* SSTs in the pebble DB
  cpc,          \* where CloseEngine is
  ingestErr,    \* whether ingestErr is set
  ctxDone       \* whether the engine context has ended

readerVars == <<rpc, rflush, metasTmp, pendingMetas, out, seq>>
workerVars == <<wpc, wtask, inSyncSeqs, finishedSeq, finishedMetaSeq, ingested>>
flushVars == <<flushQueue, replied, fpc, covers, cpc>>
vars == <<nextSeq, ch, readerVars, metaChan, workerVars, flushVars, ingestErr, ctxDone, conf>>

closed == cpc \in {"wait", "ok", "failed"}
Compact == conf.compact
Threshold == conf.threshold
SSTs == 1..conf.ssts
\* concurrency: one goroutine unless the SSTs are compacted
Concurrency == IF Compact THEN Cardinality(Workers) ELSE 1
Task == [seq : 0..(2 * conf.ssts), metas : Seq(SSTs)]
Range(q) == {q[i] : i \in DOMAIN q}

\* The variables keep their types.
TypeOK ==
  /\ nextSeq \in 0..conf.ssts /\ ch \in Seq(SSTs \cup Flushes) /\ Len(ch) <= ChanCap
  /\ rpc \in {"read", "flush", "flushsend", "done"} /\ rflush \in Flushes
  /\ metasTmp \in Seq(SSTs) /\ pendingMetas \in Seq(SSTs)
  /\ out \in Seq(Task) /\ metaChan \in Seq(Task) /\ Len(metaChan) <= Concurrency
  /\ seq \in Nat /\ finishedSeq \in 0..seq /\ finishedMetaSeq \in 0..nextSeq
  /\ wpc \in [Workers -> {"idle", "ingest", "account", "done"}] /\ wtask \in [Workers -> Task]
  /\ inSyncSeqs \subseteq [flushSeq : 1..seq, metaSeq : SSTs]
  /\ flushQueue \in Seq([seq : 0..seq, flush : Flushes])
  /\ replied \subseteq Flushes
  /\ fpc \in [Flushes -> {"idle", "sent", "ok", "error"}]
  /\ covers \in [Flushes -> SUBSET SSTs] /\ ingested \subseteq SSTs
  /\ cpc \in {"idle", "flush", "wait", "ok", "failed"}
  /\ ingestErr \in BOOLEAN /\ ctxDone \in BOOLEAN

\* the goroutines that ingestSSTLoop starts
StartedWorkers ==
  {f \in [Workers -> {"idle", "done"}] : Cardinality({w \in Workers : f[w] = "idle"}) = Concurrency}

Init ==
  /\ conf \in Confs
  /\ nextSeq = 0 /\ ch = <<>>
  /\ rpc = "read" /\ rflush = Closer /\ metasTmp = <<>> /\ pendingMetas = <<>> /\ out = <<>>
  /\ seq = 0 /\ finishedSeq = 0 /\ finishedMetaSeq = 0 /\ metaChan = <<>>
  /\ wpc \in StartedWorkers /\ wtask = [w \in Workers |-> NoTask]
  /\ inSyncSeqs = {} /\ flushQueue = <<>> /\ replied = {}
  /\ fpc = [f \in Flushes |-> "idle"] /\ covers = [f \in Flushes |-> {}]
  /\ ingested = {} /\ cpc = "idle" /\ ingestErr = FALSE /\ ctxDone = FALSE

----------------------------------------------------------------------------
(* Writers and flush requests.                                             *)

\* File.addSST, under seqLock: number the SST and send it, or, once the engine
\* context ended, possibly number it only; the caller then gets ingestErr,
\* which is nil when the context was cancelled from outside
AddSST ==
  /\ cpc = "idle" /\ nextSeq < conf.ssts /\ nextSeq' = nextSeq + 1
  /\ \/ Len(ch) < ChanCap /\ ch' = Append(ch, nextSeq + 1)
     \/ ctxDone /\ UNCHANGED ch
  /\ UNCHANGED <<readerVars, metaChan, workerVars, flushVars, ingestErr, ctxDone, conf>>

\* FlushEngine and CloseEngine: flushEngineWithoutLock sends the request
SendFlush(f) ==
  /\ fpc[f] = "idle" /\ cpc \in IF f = Closer THEN {"flush"} ELSE {"idle", "flush"}
  /\ \/ /\ Len(ch) < ChanCap /\ ch' = Append(ch, f)
        /\ fpc' = [fpc EXCEPT ![f] = "sent"] /\ covers' = [covers EXCEPT ![f] = 1..nextSeq]
     \/ ctxDone /\ fpc' = [fpc EXCEPT ![f] = "error"] /\ UNCHANGED <<ch, covers>>
  /\ UNCHANGED <<nextSeq, readerVars, metaChan, workerVars, flushQueue, replied, cpc, ingestErr,
                 ctxDone, conf>>

\* ... and waits for the answer, for the engine context, or for its caller's
FlushReturns(f) ==
  /\ fpc[f] = "sent"
  /\ \/ f \in replied /\ fpc' = [fpc EXCEPT ![f] = IF ingestErr THEN "error" ELSE "ok"]
     \/ (ctxDone \/ f \in conf.impatient) /\ fpc' = [fpc EXCEPT ![f] = "error"]
  /\ UNCHANGED <<nextSeq, ch, readerVars, metaChan, workerVars, flushQueue, replied, covers, cpc,
                 ingestErr, ctxDone, conf>>

\* CloseEngine, called when the writers are closed: its flush, then, when no
\* other flush holds the engine, closed and close(sstMetasChan); it waits for
\* the goroutines unless its flush failed
CloseEngine ==
  /\ \/ cpc = "idle" /\ cpc' = "flush"
     \/ /\ cpc = "flush" /\ fpc[Closer] \in {"ok", "error"} /\ \A f \in Flushes : fpc[f] # "sent"
        /\ cpc' = IF fpc[Closer] = "ok" THEN "wait" ELSE "failed"
     \/ /\ cpc = "wait" /\ rpc = "done" /\ \A w \in Workers : wpc[w] = "done"
        /\ cpc' = IF ingestErr THEN "failed" ELSE "ok"
  /\ UNCHANGED <<nextSeq, ch, readerVars, metaChan, workerVars, flushQueue, replied, fpc, covers,
                 ingestErr, ctxDone, conf>>

\* the context OpenEngine was given is cancelled
CtxCancelled ==
  /\ conf.cancels /\ ~ctxDone /\ ctxDone' = TRUE
  /\ UNCHANGED <<nextSeq, ch, readerVars, metaChan, workerVars, flushVars, ingestErr, conf>>

----------------------------------------------------------------------------
(* The reader.                                                             *)

\* the full batches of Threshold SSTs in s, and what remains
FullBatches(s) ==
  [i \in 1..(Len(s) \div Threshold) |-> SubSeq(s, (i - 1) * Threshold + 1, i * Threshold)]
Rest(s) == SubSeq(s, (Len(s) \div Threshold) * Threshold + 1, Len(s))
Numbered(bs) == [i \in DOMAIN bs |-> [seq |-> seq + i, metas |-> bs[i]]]

\* addMetas: without compaction the drained SSTs are one batch; with it they
\* are added to pendingMetas, and batched at the threshold
AddMetas(tmp) ==
  LET all == pendingMetas \o tmp
      bs == CASE tmp = <<>> -> <<>>
              [] tmp # <<>> /\ ~Compact -> <<tmp>>
              [] OTHER -> FullBatches(all)
  IN /\ out' = out \o Numbered(bs) /\ seq' = seq + Len(bs)
     /\ pendingMetas' = IF Compact THEN Rest(all) ELSE pendingMetas
     /\ metasTmp' = <<>>

\* readMetaLoop receives an SST: drain the channel first, then addMetas
ReadMeta ==
  /\ rpc = "read" /\ out = <<>> /\ ch # <<>> /\ Head(ch) \in SSTs /\ ch' = Tail(ch)
  /\ IF Tail(ch) # <<>>
     THEN metasTmp' = Append(metasTmp, Head(ch)) /\ UNCHANGED <<out, seq, pendingMetas>>
     ELSE AddMetas(Append(metasTmp, Head(ch)))
  /\ UNCHANGED <<nextSeq, rpc, rflush, metaChan, workerVars, flushVars, ingestErr, ctxDone, conf>>

\* readMetaLoop receives a flush request: addMetas, and once its batches are
\* sent, HandleFlush
ReadFlush ==
  /\ rpc = "read" /\ out = <<>> /\ ch # <<>> /\ Head(ch) \in Flushes /\ ch' = Tail(ch)
  /\ AddMetas(metasTmp)
  /\ rpc' = "flush" /\ rflush' = Head(ch)
  /\ UNCHANGED <<nextSeq, metaChan, workerVars, flushVars, ingestErr, ctxDone, conf>>

\* ingest what is pending and wait for it, or answer at once, or wait for the
\* last batch
HandleFlush ==
  /\ rpc = "flush" /\ out = <<>> /\ rflush' = Closer
  /\ rpc' = IF pendingMetas # <<>> THEN "flushsend" ELSE "read"
  /\ \/ /\ pendingMetas # <<>> /\ seq' = seq + 1
        /\ flushQueue' = Append(flushQueue, [seq |-> seq + 1, flush |-> rflush])
        /\ out' = <<[seq |-> seq + 1, metas |-> pendingMetas]>> /\ pendingMetas' = <<>>
        /\ UNCHANGED replied
     \/ /\ pendingMetas = <<>> /\ seq = finishedSeq /\ replied' = replied \cup {rflush}
        /\ UNCHANGED <<seq, out, pendingMetas, flushQueue>>
     \/ /\ pendingMetas = <<>> /\ seq # finishedSeq
        /\ flushQueue' = Append(flushQueue, [seq |-> seq, flush |-> rflush])
        /\ UNCHANGED <<seq, out, pendingMetas, replied>>
  /\ UNCHANGED <<nextSeq, ch, metasTmp, metaChan, workerVars, fpc, covers, cpc, ingestErr, ctxDone, conf>>

\* send the next batch to the workers; a cancelled context drops it instead,
\* and ends the loop when it was a flush request's batch
SendBatch ==
  /\ out # <<>> /\ out' = Tail(out)
  /\ \/ /\ Len(metaChan) < Concurrency /\ metaChan' = Append(metaChan, Head(out))
        /\ rpc' = IF rpc = "flushsend" THEN "read" ELSE rpc
     \/ /\ ctxDone /\ UNCHANGED metaChan
        /\ rpc' = IF rpc = "flushsend" THEN "done" ELSE rpc
  /\ UNCHANGED <<nextSeq, ch, rflush, metasTmp, pendingMetas, seq, workerVars, flushVars,
                 ingestErr, ctxDone, conf>>

\* sstMetasChan is closed and drained: ingest what is pending, then close
\* metaChan and return; a cancelled context ends the loop at once
ReaderStops ==
  /\ rpc = "read" /\ out = <<>>
  /\ \/ /\ closed /\ ch = <<>> /\ pendingMetas = <<>> /\ rpc' = "done"
        /\ UNCHANGED <<seq, out, pendingMetas>>
     \/ /\ closed /\ ch = <<>> /\ pendingMetas # <<>> /\ pendingMetas' = <<>>
        /\ seq' = seq + 1 /\ out' = <<[seq |-> seq + 1, metas |-> pendingMetas]>>
        /\ UNCHANGED rpc
     \/ ctxDone /\ rpc' = "done" /\ UNCHANGED <<seq, out, pendingMetas>>
  /\ UNCHANGED <<nextSeq, ch, rflush, metasTmp, metaChan, workerVars, flushVars, ingestErr, ctxDone, conf>>

----------------------------------------------------------------------------
(* The workers.                                                            *)

\* the worker's deferred function
AnswerOnError(err) ==
  IF err THEN /\ replied' = replied \cup {flushQueue[i].flush : i \in DOMAIN flushQueue}
              /\ flushQueue' = <<>>
  ELSE UNCHANGED <<replied, flushQueue>>

\* receive a batch, or return when metaChan is closed or the context ended
\* (answering every waiting flush when there was an error)
Take(w) ==
  /\ wpc[w] = "idle"
  /\ \/ /\ metaChan # <<>> /\ metaChan' = Tail(metaChan)
        /\ wtask' = [wtask EXCEPT ![w] = Head(metaChan)] /\ wpc' = [wpc EXCEPT ![w] = "ingest"]
        /\ UNCHANGED <<flushQueue, replied>>
     \/ /\ (rpc = "done" /\ metaChan = <<>>) \/ ctxDone
        /\ wpc' = [wpc EXCEPT ![w] = "done"] /\ AnswerOnError(ingestErr)
        /\ UNCHANGED <<metaChan, wtask>>
  /\ UNCHANGED <<nextSeq, ch, readerVars, inSyncSeqs, finishedSeq, finishedMetaSeq, ingested, fpc,
                 covers, cpc, ingestErr, ctxDone, conf>>

\* mergeSSTs and batchIngestSSTs: all SSTs of the batch, unless the engine is
\* closed already
Ingest(w) ==
  /\ wpc[w] = "ingest" /\ ~closed
  /\ ingested' = ingested \cup Range(wtask[w].metas) /\ wpc' = [wpc EXCEPT ![w] = "account"]
  /\ UNCHANGED <<nextSeq, ch, readerVars, metaChan, wtask, inSyncSeqs, finishedSeq,
                 finishedMetaSeq, flushVars, ingestErr, ctxDone, conf>>

\* ... or an error after some levels: setError, and the worker returns
IngestFails(w) ==
  /\ wpc[w] = "ingest" /\ (closed \/ conf.errors)
  /\ \E part \in SUBSET Range(wtask[w].metas) :
       /\ closed \/ Compact => part = {}
       /\ part # Range(wtask[w].metas) /\ ingested' = ingested \cup part
  /\ ingestErr' = TRUE /\ ctxDone' = TRUE
  /\ wpc' = [wpc EXCEPT ![w] = "done"] /\ AnswerOnError(TRUE)
  /\ UNCHANGED <<nextSeq, ch, readerVars, metaChan, wtask, inSyncSeqs, finishedSeq,
                 finishedMetaSeq, fpc, covers, cpc, conf>>

\* the batches that finish without a gap once those in done have
FinishedUpTo(done) ==
  CHOOSE n \in {finishedSeq} \cup done :
    finishedSeq + 1..n \subseteq done /\ n + 1 \notin done


\* under seqLock: advance finishedSeq over the batches that finished without a
\* gap, and answer the flushes that wait for them; else remember the batch
Account(w) ==
  LET this == [flushSeq |-> wtask[w].seq, metaSeq |-> wtask[w].metas[Len(wtask[w].metas)]]
      all == inSyncSeqs \cup {this}
      n == FinishedUpTo({s.flushSeq : s \in all})
      answered == {i \in DOMAIN flushQueue : flushQueue[i].seq <= n}
  IN /\ wpc[w] = "account" /\ wpc' = [wpc EXCEPT ![w] = "idle"]
     /\ wtask' = [wtask EXCEPT ![w] = NoTask]
     /\ IF this.flushSeq = finishedSeq + 1
        THEN /\ finishedSeq' = n /\ inSyncSeqs' = {s \in all : s.flushSeq > n}
             /\ finishedMetaSeq' = (CHOOSE s \in all : s.flushSeq = n).metaSeq
             /\ replied' = replied \cup {flushQueue[i].flush : i \in answered}
             /\ flushQueue' = SubSeq(flushQueue, Cardinality(answered) + 1, Len(flushQueue))
        ELSE inSyncSeqs' = all /\ UNCHANGED <<finishedSeq, finishedMetaSeq, replied, flushQueue>>
     /\ UNCHANGED <<nextSeq, ch, readerVars, metaChan, ingested, fpc, covers, cpc, ingestErr,
                    ctxDone, conf>>

Done == cpc \in {"ok", "failed"} /\ UNCHANGED vars

Reader == ReadMeta \/ ReadFlush \/ HandleFlush \/ SendBatch \/ ReaderStops
Worker(w) == Take(w) \/ Ingest(w) \/ IngestFails(w) \/ Account(w)

Next ==
  \/ AddSST \/ CloseEngine \/ CtxCancelled
  \/ \E f \in Flushes : SendFlush(f) \/ FlushReturns(f)
  \/ Reader \/ \E w \in Workers : Worker(w)
  \/ Done

\* the end of a call that has been made
Call == (cpc # "idle" /\ CloseEngine) \/ SendFlush(Closer) \/ \E f \in Flushes : FlushReturns(f)

\* every goroutine runs on; nothing obliges the writers or a caller to call,
\* an ingest to fail or a context to end
Fairness == WF_vars(Reader) /\ WF_vars(Call) /\ \A w \in Workers : WF_vars(Worker(w))

Spec == Init /\ [][Next]_vars
FairSpec == Spec /\ Fairness

----------------------------------------------------------------------------
(* Properties.                                                             *)

\* A flush that succeeded, CloseEngine's among them, covers every SST that was
\* added before it: FlushEngine "ensure the written data is saved successfully".  A context that is cancelled
\* from outside is left out here and below: addSST may then number an SST, not
\* send it and return no error.
FlushIsDurable ==
  ~conf.cancels => \A f \in Flushes : fpc[f] = "ok" => covers[f] \subseteq ingested

\* Every SST numbered up to finishedMetaSeq is in the DB, whatever the order in
\* which the workers finish: the chunk checkpoints saved when Writer.flushStatus
\* says so are never ahead of the data.
FinishedMetaSeqSound ==
  TypeOK /\ (~conf.cancels => 1..finishedMetaSeq \subseteq ingested)

\* Every flush request returns, and CloseEngine ends: no request is forgotten
\* in the queue, and no goroutine waits for ever, whatever fails.  A call is made
\* once, so that none is under way in the end.
Answered == (\A f \in Flushes : fpc[f] # "sent") /\ cpc \notin {"flush", "wait"}
CallsReturn == <>[]Answered
====
