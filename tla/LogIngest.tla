---- MODULE LogIngest ----
(***************************************************************************)
(* How log restore writes the pairs of one flush (LogClient.writeRows): a  *)
(* stable sort that keeps the last pair of a key, then rounds over the     *)
(* remaining ranges, each written to and ingested by its regions in a      *)
(* goroutine (Ingester.writeAndIngestByRange).  The Ingester was written   *)
(* after the local backend of Lightning (RangeImport) but reads its pairs  *)
(* with an iterator that knows no upper bound, counts its retries in       *)
(* another way, and keeps a region for an SST and one for its request.     *)
(***************************************************************************)
EXTENDS RegionCluster, SequencesExt

CONSTANTS
  WritePlans,         \* rows, clusters and troubles
  MaxRetry,           \* maxRetryTimes
  BatchPairs,         \* batchWriteKVPairs
  RegionMax,          \* regionMaxKeyCount, regionMaxSize
  IngestConcurrency,  \* the size of Ingester.WorkerPool
  Workers             \* goroutines of writeRows

VARIABLES
  plan,     \* rows: what is to be written, in order; cuts; strict: TiKV checks
            \* the range of an SST against its region; trouble
  pairs,    \* newKvs: sorted, one pair for each key
  pc,       \* where writeRows is
  remain,   \* remainRange
  todo,     \* the ranges of this round without a goroutine yet
  wk,       \* the goroutines
  failed,   \* one of them returned an error, or the context is done
  result    \* "none", "ok", "error" or "panic"

mainVars == <<pc, todo, result>>
vars == <<clusterVars, plan, pairs, mainVars, remain, wk, failed>>

Rg(s, e) == [start |-> s, end |-> e]
CF == {1, 2}
NoRegion == [start |-> 0, end |-> 0, ver |-> 0, leader |-> 0]

----------------------------------------------------------------------------
(* Pairs and the iterator over them.                                       *)

\* mutant: the first pair of a key is kept
MutKept(rows) == {i \in DOMAIN rows : \A j \in 1..(i - 1) : rows[j].key # rows[i].key}
Kept(rows) == {i \in DOMAIN rows : \A j \in (i + 1)..Len(rows) : rows[j].key # rows[i].key}
SortPairs(rows) ==
  LET kept == {rows[i] : i \in Kept(rows)}
  IN [n \in 1..Cardinality(kept) |-> CHOOSE p \in kept : Cardinality({q \in kept : q.key < p.key}) = n - 1]

\* the first position with no smaller key
Seek(ps, k) == Min({i \in DOMAIN ps : ps[i].key >= k} \cup {Len(ps) + 1})
\* the pairs of a range; none is a nil iterator
Produce(r) == SubSeq(pairs, Seek(pairs, r.start), Seek(pairs, r.end) - 1)
NextKey(k) == k + 1

IntersectRange(region, r) == Rg(Max({region.start, r.start}), Min({region.end, r.end}))
\* an empty end key is no bound
KeyInsideRegion(region, k) == region.start <= k /\ (region.end = KeyEnd \/ k < region.end)
InsideRegion(region, sst) == KeyInsideRegion(region, sst.start) /\ KeyInsideRegion(region, sst.end)

\* the i-th pair of a write as it is sent: the records of the first batch are used
\* again for the others, with their operation
Sent(ps, i) == [ps[i] EXCEPT !.del = ps[((i - 1) % BatchPairs) + 1].del]

\* what writeToTiKV does for a region and an inclusive range of an iterator:
\* the range of the SST, the pairs in it, and where to go on
WriteToTiKV(iter, region, r) ==
  LET rr == IntersectRange(region, r)
      first == Seek(iter, rr.start)
      stop == Seek(iter, rr.end)
      all == SelectSeq(SubSeq(iter, first, Len(iter)), LAMBDA p : p.key <= rr.end)
      n == Min({Len(all), RegionMax})
      at == IF n = RegionMax THEN first + n - 1 ELSE first + n
  IN [sst |-> [start |-> iter[first].key,
               end |-> IF stop <= Len(iter) THEN iter[stop].key ELSE NextKey(iter[Len(iter)].key)],
      pairs |-> {Sent(all, i) : i \in 1..n},
      rest |-> IF at < Len(iter) THEN {Rg(iter[at + 1].key, rr.end)} ELSE {}]

----------------------------------------------------------------------------
(* writeRows.                                                              *)

Idle == [pc |-> "idle", iter |-> <<>>, pairStart |-> 0, from |-> 0, got |-> <<>>, retry |-> 0,
         region |-> NoRegion, meta |-> NoRegion, w |-> [sst |-> Rg(0, 0), pairs |-> {}, rest |-> {}],
         writes |-> 0, cf |-> 0, errCnt |-> 0]

Init ==
  /\ plan \in WritePlans /\ ClusterInit(plan.cuts, plan.trouble)
  /\ pairs = SortPairs(plan.rows)
  /\ pc = "take" /\ todo = {} /\ wk = [w \in Workers |-> Idle] /\ failed = FALSE /\ result = "none"
  /\ remain = IF pairs = <<>> THEN {} ELSE {Rg(pairs[1].key, NextKey(pairs[Len(pairs)].key))}

\* syncdRanges.take: another round, if there is something left
Take ==
  /\ pc = "take"
  /\ IF remain = {} THEN pc' = "done" /\ result' = "ok" ELSE pc' = "round" /\ UNCHANGED result
  /\ todo' = remain /\ remain' = {}
  /\ UNCHANGED <<clusterVars, plan, pairs, wk, failed>>

\* a goroutine holds a worker of the pool, and one more while it writes and ingests
Held ==
  Cardinality({w \in Workers : wk[w].pc # "idle"})
    + Cardinality({w \in Workers : wk[w].pc \in {"write", "ingest"}})

\* ApplyOnErrorGroup, and the beginning of writeAndIngestByRange: a nil iterator
\* is used without a check
StartRange ==
  /\ pc = "round" /\ Held < IngestConcurrency
  /\ \E r \in todo, w \in Workers : \E iter \in {Produce(r)} :
       /\ \A q \in todo : r.start <= q.start
       /\ wk[w].pc = "idle" /\ \A v \in Workers : v < w => wk[v].pc # "idle"
       /\ todo' = todo \ {r}
       /\ IF iter = <<>> THEN pc' = "done" /\ result' = "panic" /\ UNCHANGED wk
          ELSE /\ wk' = [wk EXCEPT ![w] = [Idle EXCEPT !.pc = "scan", !.iter = iter,
                                             !.pairStart = iter[1].key, !.from = iter[1].key]]
               /\ UNCHANGED <<pc, result>>
  /\ UNCHANGED <<clusterVars, plan, pairs, remain, failed>>

\* eg.Wait
EndRound ==
  /\ pc = "round" /\ todo = {} /\ \A w \in Workers : wk[w].pc = "idle"
  /\ IF failed THEN pc' = "done" /\ result' = "error" ELSE pc' = "take" /\ UNCHANGED result
  /\ UNCHANGED <<clusterVars, plan, pairs, todo, remain, wk, failed>>

----------------------------------------------------------------------------
(* writeAndIngestByRange.                                                  *)

Step(w, r) == wk' = [wk EXCEPT ![w] = r]
MainOnly == UNCHANGED <<plan, pairs, mainVars>>
PairEnd(w) == wk[w].iter[Len(wk[w].iter)].key

\* another try: it only counts when no region was finished since the last one
Retry(w, from) ==
  LET me == wk[w]
      retry == IF from > me.pairStart THEN me.retry ELSE me.retry + 1
  IN /\ Step(w, IF retry = MaxRetry THEN Idle
                ELSE [me EXCEPT !.pc = "scan", !.got = <<>>, !.pairStart = from, !.from = from, !.retry = retry])
     /\ failed' = (failed \/ retry = MaxRetry)
FailedAt(w) == Max({wk[w].pairStart, Head(wk[w].got).start})
RegionFails(w) == Retry(w, FailedAt(w))

\* one page of PaginateScanRegion
Scan(w) ==
  LET me == wk[w]
      to == NextKey(PairEnd(w))
      page == ScanRegions(me.from, to)
      got == me.got \o page
  IN /\ me.pc = "scan"
     /\ \/ /\ Step(w, IF LastPage(page, to) THEN [me EXCEPT !.pc = "next", !.got = got]
                      ELSE [me EXCEPT !.got = got, !.from = page[Len(page)].end])
           /\ UNCHANGED <<trouble, failed>>
        \/ Mishap("fail") /\ Retry(w, me.pairStart)
     /\ UNCHANGED <<regions, kvs, remain>> /\ MainOnly

\* the next region, with another worker of the same pool
NextRegion(w) ==
  LET me == wk[w]
  IN /\ me.pc = "next"
     /\ me.got = <<>> \/ Held < IngestConcurrency
     /\ Step(w, IF me.got = <<>> THEN Idle
                ELSE [me EXCEPT !.pc = "write", !.region = Head(me.got), !.writes = 0])
     /\ UNCHANGED <<clusterVars, remain, failed>> /\ MainOnly

\* writeToTiKV: TiKV makes no SST of no pairs, which is taken for a missing leader
Write(w) ==
  LET me == wk[w]
  IN /\ me.pc = "write"
     /\ \E wr \in {WriteToTiKV(me.iter, me.region, Rg(me.pairStart, PairEnd(w)))} :
          \/ /\ wr.pairs # {}
             /\ Step(w, [me EXCEPT !.pc = "ingest", !.meta = me.region, !.w = wr, !.cf = 1, !.errCnt = 0])
             /\ UNCHANGED <<trouble, failed>>
          \/ wr.pairs = {} /\ RegionFails(w) /\ UNCHANGED trouble
          \/ Mishap("fail") /\ RegionFails(w)
     /\ UNCHANGED <<regions, kvs, remain>> /\ MainOnly

\* TiKV takes an SST for the region it was written for, from its leader
Fits(w) == ~plan.strict \/ InsideRegion(wk[w].region, wk[w].w.sst)
Fresh(w) == Current(wk[w].region) /\ wk[w].meta.start = wk[w].region.start /\ wk[w].meta.ver = wk[w].region.ver
Ingested(w) ==
  LET new == {p \in wk[w].w.pairs : KeyInsideRegion(wk[w].region, p.key)}
  IN kvs' = {x \in kvs : x[2] # wk[w].cf \/ \A p \in new : p.key # x[1]} \cup {<<p.key, wk[w].cf, p.del>> : p \in new}

\* an SST of the region is in TiKV; the last one completes writeAndIngestPairs
IngestOK(w) ==
  LET me == wk[w]
  IN /\ me.pc = "ingest" /\ Fresh(w) /\ Leads(me.region) /\ Fits(w) /\ Ingested(w)
     /\ IF me.cf = Max(CF)
        THEN Step(w, [me EXCEPT !.pc = "next", !.got = Tail(@)]) /\ remain' = remain \cup me.w.rest
        ELSE Step(w, [me EXCEPT !.cf = @ + 1, !.errCnt = 0]) /\ UNCHANGED remain
     /\ UNCHANGED <<regions, trouble, failed>> /\ MainOnly

\* the call fails, executed or not: try again; the last time the loop leaves with
\* the error to the next SST
IngestFails(w) ==
  LET me == wk[w]
  IN /\ me.pc = "ingest"
     /\ \/ Mishap("fail") /\ UNCHANGED kvs
        \/ Mishap("lost") /\ Fresh(w) /\ Leads(me.region) /\ Fits(w) /\ Ingested(w)
     /\ CASE me.errCnt + 1 < MaxRetry -> Step(w, [me EXCEPT !.errCnt = @ + 1]) /\ UNCHANGED failed
          [] me.errCnt + 1 = MaxRetry /\ me.cf < Max(CF) ->
               Step(w, [me EXCEPT !.cf = @ + 1, !.errCnt = 0]) /\ UNCHANGED failed
          [] OTHER -> RegionFails(w)
     /\ UNCHANGED <<regions, remain>> /\ MainOnly

\* isIngestRetryable, retryNone: keys outside the region, or an unknown error
Refused(w) ==
  /\ wk[w].pc = "ingest"
  /\ \/ ~Fits(w) /\ Fresh(w) /\ Leads(wk[w].region) /\ UNCHANGED trouble
     \/ Mishap("fail")
  /\ RegionFails(w)
  /\ UNCHANGED <<regions, kvs, remain>> /\ MainOnly

\* retryIngest: the same SST for the new leader, or the region PD knows now; this
\* is not counted
IngestAgain(w) ==
  LET me == wk[w]
  IN /\ me.pc = "ingest"
     /\ \/ ~Leads(me.region) /\ UNCHANGED trouble
           /\ \E r \in regions : r.start = me.region.start
                                   /\ Step(w, [me EXCEPT !.region.leader = r.leader])
        \/ ~Leads(me.region) /\ UNCHANGED trouble /\ Step(w, [me EXCEPT !.region = RegionAt(me.region.start)])
        \* raft: proposal dropped
        \/ Mishap("fail") /\ Step(w, [me EXCEPT !.region = RegionAt(me.region.start)])
     /\ UNCHANGED <<regions, kvs, remain, failed>> /\ MainOnly

\* retryWrite: a new SST for the region that holds the keys now
Rewrite(w, region) ==
  IF wk[w].writes + 1 = MaxRetry THEN RegionFails(w)
  ELSE Step(w, [wk[w] EXCEPT !.pc = "write", !.writes = @ + 1, !.region = region]) /\ UNCHANGED failed
EpochNotMatch(w) ==
  LET me == wk[w]
      inside == {r \in regions : InsideRegion(r, me.w.sst)}
  IN /\ me.pc = "ingest" /\ ~Fresh(w)
     /\ \/ \E r \in inside : Rewrite(w, [r EXCEPT !.leader = me.region.leader])
        \/ RegionFails(w)
     /\ UNCHANGED <<clusterVars, remain>> /\ MainOnly

\* the context of the group is done
Cancelled(w) ==
  /\ wk[w].pc # "idle"
  /\ \/ failed /\ UNCHANGED trouble
     \/ Mishap("cancel")
  /\ Step(w, Idle) /\ failed' = TRUE
  /\ UNCHANGED <<regions, kvs, remain>> /\ MainOnly

----------------------------------------------------------------------------

WriteStep ==
  \/ Take \/ StartRange \/ EndRound
  \/ \E w \in Workers :
       \/ Scan(w) \/ NextRegion(w) \/ Write(w) \/ IngestOK(w) \/ IngestFails(w) \/ Refused(w)
       \/ IngestAgain(w) \/ EpochNotMatch(w) \/ Cancelled(w)
Next ==
  \/ result = "none" /\ WriteStep
  \/ result = "none" /\ ClusterStep /\ UNCHANGED <<plan, pairs, mainVars, remain, wk, failed>>
  \/ result # "none" /\ UNCHANGED vars
Spec == Init /\ [][Next]_vars
FairSpec == Spec /\ WF_vars(result = "none" /\ WriteStep)

----------------------------------------------------------------------------
(* Properties.                                                             *)

\* the last row of every key of the flush, with its operation, is in TiKV
LastRow(k) == plan.rows[Max({i \in DOMAIN plan.rows : plan.rows[i].key = k})]
AllWritten == \A row \in ToSet(plan.rows), f \in CF : <<row.key, f, LastRow(row.key).del>> \in kvs

\* What the code is known not to keep: an SST that failed maxRetryTimes is passed
\* over when the next one succeeds; the operation of a pair behind the first batch;
\* the last pair of a region that is too large (writeRows takes the inclusive end
\* of what remains for an exclusive one).
SSTPassedOver == plan.trouble.fail + plan.trouble.lost >= MaxRetry
OperationsMixed == Len(pairs) > BatchPairs /\ \E i, j \in DOMAIN pairs : pairs[i].del # pairs[j].del
RegionFull == Len(pairs) >= RegionMax

\* writeRows succeeds only with the last pair of every key in TiKV, whatever became
\* of the regions between the scan, the write and the ingest.
RowsWritten == result = "ok" => (SSTPassedOver \/ OperationsMixed \/ RegionFull \/ AllWritten)

\* writeRows returns (or the process panics): no retry goes on for ever, and the
\* goroutines do not wait for each other's workers.
Returned == result # "none"
WriteRowsReturns == <>[]Returned
====
