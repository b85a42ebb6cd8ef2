---- MODULE RangeImport ----
(***************************************************************************)
(* How the local backend of Lightning imports one closed engine into TiKV  *)
(* (local.ImportEngine): its keys are cut into ranges, the regions are     *)
(* split at the ends of the ranges (SplitAndScatterRegionByRanges), every  *)
(* range is written to and ingested by its regions in a goroutine of its   *)
(* own (writeAndIngestByRange), and what finishedRanges does not contain   *)
(* afterwards is done again.                                               *)
(***************************************************************************)
EXTENDS RegionCluster, SequencesExt

CONSTANTS
  Plans,            \* engines, clusters and troubles
  RegionKeys,       \* regionSplitKeys
  MaxRetry,         \* maxRetryTimes
  SplitRetryTimes,
  RangeConcurrency,
  IngestConcurrency,
  Workers           \* goroutines of writeAndIngestByRanges: 1..n

VARIABLES
  ranges,    \* what ImportEngine cut the engine into
  plan,      \* keys: of the engine; props: its range properties; cuts: the
             \* regions at first; multi: supportMultiIngest; trouble
  pc,        \* where ImportEngine is
  unfinished, \* the ranges of this round
  finished,  \* File.finishedRanges
  sp,        \* local variables of SplitAndScatterRegionByRanges
  wk,        \* of each goroutine
  metErr,    \* metErr of writeAndIngestByRanges; allErr is not nil
  result,    \* "none", "ok" or "error"
  cancelled

mainVars == <<pc, unfinished, sp, metErr, result>>
vars == <<clusterVars, plan, ranges, mainVars, finished, wk, cancelled>>

Rg(s, e) == [start |-> s, end |-> e]
KeysIn(r) == {k \in plan.keys : r.start <= k /\ k < r.end}
\* the column families of a pair, which TiKV writes to an SST each
CF == {1, 2}

----------------------------------------------------------------------------
(* Ranges.                                                                 *)

\* splitRangeBySizeProps: cut before the key of the property that fills a range
Cut(acc, p) ==
  LET n == acc.n + p.keys
      e == IF acc.key = p.key THEN p.key + 1 ELSE p.key
  IN IF n >= RegionKeys THEN [out |-> Append(acc.out, Rg(acc.key, e)), key |-> e, n |-> 0]
     ELSE [acc EXCEPT !.n = n]
SplitRangeBySizeProps(full) ==
  LET acc == FoldLeft(Cut, [out |-> <<>>, key |-> full.start, n |-> 0], plan.props)
  IN IF acc.n > 0 THEN Append(acc.out, Rg(acc.key, full.end))
     ELSE [acc.out EXCEPT ![Len(acc.out)].end = full.end]

\* readAndSplitIntoRange
EngineRanges ==
  LET full == Rg(Min(plan.keys), Max(plan.keys) + 1)
  IN IF Cardinality(plan.keys) <= RegionKeys THEN <<full>> ELSE SplitRangeBySizeProps(full)

\* sortAndMergeRanges
MergeInto(out, r) ==
  IF out # <<>> /\ out[Len(out)].end >= r.start
  THEN [out EXCEPT ![Len(out)].end = Max({@, r.end})] ELSE Append(out, r)
Before(a, b) == a.start < b.start \/ (a.start = b.start /\ a.end < b.end)
SortAndMergeRanges(rs) ==
  FoldLeft(MergeInto, <<>>,
           [i \in 1..Cardinality(rs) |-> CHOOSE r \in rs : Cardinality({q \in rs : Before(q, r)}) = i - 1])

\* filterOverlapRange: what is left of each range, going along the finished ones
Skip(r, acc, fr) ==
  IF acc.stop \/ fr.start >= r.end THEN [acc EXCEPT !.stop = TRUE]
  ELSE [out |-> IF fr.start > acc.start THEN Append(acc.out, Rg(acc.start, fr.start)) ELSE acc.out,
        start |-> Max({acc.start, fr.end}), stop |-> fr.end > r.end,
        gone |-> IF fr.end > r.end THEN acc.gone ELSE acc.gone + 1]
LeftOver(a, r) == IF a.start < r.end THEN Append(a.out, Rg(a.start, r.end)) ELSE a.out
FilterOne(acc, r) ==
  LET a == FoldLeft(LAMBDA b, fr : Skip(r, b, fr),
                    [out |-> acc.out, start |-> r.start, stop |-> FALSE, gone |-> 0], acc.left)
  IN [out |-> LeftOver(a, r),
      left |-> SubSeq(acc.left, a.gone + 1, Len(acc.left))]
FilterOverlapRange(rs, done) == FoldLeft(FilterOne, [out |-> <<>>, left |-> done], rs).out

IntersectRange(region, r) == Rg(Max({region.start, r.start}), Min({region.end, r.end}))

----------------------------------------------------------------------------
(* ImportEngine.                                                           *)

NoSplit == [lo |-> 0, hi |-> 0, from |-> 0, got |-> <<>>, need |-> <<>>, retryKeys |-> {},
            todo |-> {}, tries |-> 0, again |-> 0]
Idle == [pc |-> "idle", rg |-> Rg(0, 0), again |-> 0, from |-> 0, pairStart |-> 0, got |-> <<>>,
         retry |-> 0, region |-> [start |-> 0, end |-> 0, ver |-> 0, leader |-> 0], writes |-> 0,
         keys |-> {}, fin |-> Rg(0, 0), cf |-> 0, errCnt |-> 0]

Init ==
  /\ plan \in Plans /\ ClusterInit(plan.cuts, plan.trouble)
  /\ ranges = EngineRanges
  /\ pc = "unfinished" /\ unfinished = <<>> /\ finished = {} /\ sp = NoSplit
  /\ wk = [w \in Workers |-> Idle] /\ metErr = FALSE /\ result = "none" /\ cancelled = FALSE

\* SplitAndScatterRegionByRanges begins
StartSplit(rs, n) ==
  /\ pc' = "scan"
  /\ sp' = [NoSplit EXCEPT !.lo = rs[1].start, !.hi = rs[Len(rs)].end, !.from = rs[1].start,
                           !.need = rs, !.again = n]

\* unfinishedRanges: the rest of the ranges, or the end of ImportEngine
Unfinished ==
  /\ pc = "unfinished"
  /\ \E done \in {SortAndMergeRanges(finished)} :
       finished' = ToSet(done) /\ unfinished' = FilterOverlapRange(ranges, done)
  /\ IF unfinished' = <<>> THEN pc' = "done" /\ result' = "ok" /\ UNCHANGED sp
     ELSE StartSplit(unfinished', 0) /\ UNCHANGED result
  /\ UNCHANGED <<clusterVars, plan, ranges, wk, metErr, cancelled>>

\* ImportEngine calls it again, or gives up
SplitFails ==
  IF sp.again + 1 < MaxRetry /\ ~cancelled
  THEN StartSplit(unfinished, sp.again + 1) /\ UNCHANGED result
  ELSE pc' = "done" /\ result' = "error" /\ UNCHANGED sp

\* the next attempt, between lo and hi
SplitAgain(lo, hi) ==
  IF sp.tries + 1 = SplitRetryTimes \/ cancelled THEN SplitFails
  ELSE /\ pc' = "scan" /\ UNCHANGED result
       /\ sp' = [sp EXCEPT !.tries = @ + 1, !.lo = lo, !.hi = hi, !.from = lo, !.got = <<>>]

\* one page of paginateScanRegion
SplitScan ==
  LET page == ScanRegions(sp.from, sp.hi)
  IN /\ pc = "scan"
     /\ \/ /\ ~cancelled
           /\ sp' = [sp EXCEPT !.got = @ \o page, !.from = page[Len(page)].end]
           /\ pc' = IF LastPage(page, sp.hi) THEN "keys" ELSE "scan"
           /\ UNCHANGED <<trouble, result>>
        \/ /\ IF cancelled THEN UNCHANGED trouble ELSE Mishap("fail")
           /\ SplitAgain(sp.lo, sp.hi)
     /\ UNCHANGED <<regions, kvs, plan, ranges, finished, unfinished, wk, metErr, cancelled>>

\* the region of a list, sorted by start, that sort.Search finds for a key
Sorted(got) == SortSeq(got, LAMBDA a, b : a.start < b.start)
Found(got, k) == {i \in DOMAIN got : got[i].end > k /\ \A j \in 1..(i - 1) : got[j].end <= k}
NeedSplit(got, k) == {got[i] : i \in {j \in Found(got, k) : got[j].start < k}}
NeedsSplit(got, r) ==
  \E i \in Found(got, r.start) : r.start > got[i].start \/ r.end < got[i].end

\* getSplitKeysByRanges, or the keys that failed before
CheckKeys(need) ==
  IF sp.retryKeys # {} THEN sp.retryKeys ELSE UNION {{r.start, r.end} : r \in ToSet(need)}
GetSplitKeys(got, keys) ==
  LET hit == UNION {NeedSplit(got, k) : k \in keys}
  IN {[region |-> r, keys |-> {k \in keys : r \in NeedSplit(got, k)}] : r \in hit}

\* choose the ranges that need a split, and the keys of each region.  EncodeBytes
\* appends the keys of a range to those of the ranges before, so that each is
\* looked up just behind the start of the first one and seems to need a split.
SplitKeys ==
  LET got == Sorted(sp.got)
      first == Head(sp.need)
      need == IF NeedsSplit(got, first) THEN sp.need ELSE Tail(sp.need)
      lost == Found(got, first.start) = {}
      wide == Len(unfinished) > 1 \/ Cardinality(plan.keys) > RegionKeys
      outside == sp.retryKeys # {} /\ (Min(sp.retryKeys) < got[1].start
                                        \/ Max(sp.retryKeys) >= got[Len(got)].end)
  IN /\ pc = "keys"
     /\ IF wide /\ (lost \/ (need # <<>> /\ outside)) THEN SplitFails
        ELSE /\ IF ~wide \/ need = <<>> THEN pc' = "import" /\ sp' = NoSplit
                ELSE /\ pc' = "splitting"
                     /\ sp' = [sp EXCEPT !.need = need, !.retryKeys = {}, !.got = <<>>,
                                         !.todo = GetSplitKeys(got, CheckKeys(need))]
             /\ UNCHANGED result
     /\ UNCHANGED <<clusterVars, plan, ranges, finished, unfinished, wk, metErr, cancelled>>

\* BatchSplitRegions of one region: it is split, or its keys are to be retried
SplitOne ==
  /\ pc = "splitting"
  /\ \E t \in sp.todo :
       \/ /\ Current(t.region) /\ Split(t.region, t.keys)
          /\ \/ sp' = [sp EXCEPT !.todo = @ \ {t}] /\ UNCHANGED trouble
             \/ sp' = [sp EXCEPT !.todo = @ \ {t}, !.retryKeys = @ \cup t.keys] /\ Mishap("lost")
       \/ /\ sp' = [sp EXCEPT !.todo = @ \ {t}, !.retryKeys = @ \cup t.keys]
          /\ IF Current(t.region) THEN Mishap("fail") ELSE UNCHANGED trouble
          /\ UNCHANGED regions
  /\ UNCHANGED <<kvs, plan, ranges, pc, result, finished, unfinished, wk, metErr, cancelled>>

\* all regions were tried: done, or once more between the keys that failed
SplitRound ==
  /\ pc = "splitting" /\ sp.todo = {}
  /\ IF sp.retryKeys = {} THEN pc' = "import" /\ sp' = NoSplit /\ UNCHANGED result
     ELSE SplitAgain(Min(sp.retryKeys), Max(sp.retryKeys) + 1)
  /\ UNCHANGED <<clusterVars, plan, ranges, finished, unfinished, wk, metErr, cancelled>>

----------------------------------------------------------------------------
(* writeAndIngestByRanges and its goroutines.                              *)

\* start a goroutine for the next range, unless one has met an error
StartRange ==
  /\ pc = "import" /\ unfinished # <<>> /\ ~metErr
  /\ Cardinality({w \in Workers : wk[w].pc # "idle"}) < RangeConcurrency
  /\ LET w == CHOOSE v \in Workers : wk[v].pc = "idle"
     IN wk' = [wk EXCEPT ![w] = [Idle EXCEPT !.pc = "begin", !.rg = Head(unfinished)]]
  /\ unfinished' = Tail(unfinished)
  /\ UNCHANGED <<clusterVars, plan, ranges, pc, result, sp, metErr, finished, cancelled>>

\* wg.Wait
AllDone ==
  /\ pc = "import" /\ (unfinished = <<>> \/ metErr) /\ \A w \in Workers : wk[w].pc = "idle"
  /\ IF metErr THEN pc' = "done" /\ result' = "error" ELSE pc' = "unfinished" /\ UNCHANGED result
  /\ UNCHANGED <<clusterVars, plan, ranges, unfinished, sp, metErr, finished, wk, cancelled>>

Step(w, r) == wk' = [wk EXCEPT ![w] = r]
MainOnly == UNCHANGED <<plan, ranges, pc, unfinished, sp, result, cancelled>>

\* a range without pairs is finished
NoPairs(r) == finished' = finished \cup {r}

\* writeAndIngestByRange: the first and the last key of the range, if it has any
Begin(w) ==
  LET me == wk[w] keys == KeysIn(me.rg)
  IN /\ me.pc = "begin"
     /\ IF keys = {} THEN Step(w, Idle) /\ NoPairs(me.rg)
        ELSE /\ Step(w, [me EXCEPT !.pc = "scan", !.pairStart = Min(keys), !.from = Min(keys),
                                   !.got = <<>>, !.retry = 0])
             /\ UNCHANGED finished
     /\ UNCHANGED <<clusterVars, metErr>> /\ MainOnly

\* a try of writeAndIngestByRange failed: another one from a key on, then
\* another call, and at last the error stands
Retry(w, from) ==
  LET me == wk[w]
      retry == IF from > me.pairStart THEN me.retry ELSE me.retry + 1
      next == [me EXCEPT !.pc = "scan", !.got = <<>>, !.pairStart = from, !.from = from, !.retry = retry]
      call == [Idle EXCEPT !.pc = "begin", !.rg = me.rg, !.again = me.again + 1]
  IN /\ Step(w, IF retry < MaxRetry THEN next ELSE IF call.again < MaxRetry THEN call ELSE Idle)
     /\ metErr' = (metErr \/ (retry = MaxRetry /\ call.again = MaxRetry))

Scan(w) ==
  LET me == wk[w]
      to == Max(KeysIn(me.rg)) + 1
      page == ScanRegions(me.from, to)
      got == me.got \o page
  IN /\ me.pc = "scan"
     /\ \/ /\ Step(w, IF LastPage(page, to) THEN [me EXCEPT !.pc = "next", !.got = Sorted(got)]
                      ELSE [me EXCEPT !.got = got, !.from = page[Len(page)].end])
           /\ UNCHANGED <<trouble, metErr>>
        \/ Mishap("fail") /\ Retry(w, me.pairStart)
     /\ UNCHANGED <<regions, kvs, finished>> /\ MainOnly

\* the next region of the range, once ingestConcurrency has a place: writeAndIngestPairs
NextRegion(w) ==
  LET me == wk[w]
  IN /\ me.pc = "next"
     /\ me.got = <<>> \/ Cardinality({v \in Workers : wk[v].pc \in {"write", "ingest"}}) < IngestConcurrency
     /\ Step(w, IF me.got = <<>> THEN Idle
                ELSE [me EXCEPT !.pc = "write", !.region = Head(me.got), !.writes = 0])
     /\ UNCHANGED <<clusterVars, finished, metErr>> /\ MainOnly

\* writeAndIngestPairs returned an error: go on at the region it was called for
RegionFails(w) == Retry(w, Max({wk[w].pairStart, Head(wk[w].got).start}))

\* what WriteToTiKV wrote of a range, when it stopped before the rest
\* mutant: all of it
MutWritten(r, rest) == r
Written(r, rest) == IF rest = {} THEN r ELSE Rg(r.start, Min(rest))

\* WriteToTiKV: the keys of the region and the range, as many as a region should
\* hold; a region without keys is passed over
Write(w) ==
  LET me == wk[w]
      r == IntersectRange(me.region, Rg(me.pairStart, me.rg.end))
      keys == KeysIn(r)
      some == {k \in keys : Cardinality({j \in keys : j < k}) < RegionKeys}
      rest == keys \ some
  IN /\ me.pc = "write"
     /\ \/ /\ keys = {} /\ Step(w, [me EXCEPT !.pc = "next", !.got = Tail(@)])
           /\ UNCHANGED <<trouble, metErr>>
        \/ /\ keys # {}
           /\ Step(w, [me EXCEPT !.pc = "ingest", !.keys = some, !.cf = 1, !.errCnt = 0,
                                 !.fin = Written(r, rest)])
           /\ UNCHANGED <<trouble, metErr>>
        \/ /\ Mishap("fail")
           /\ IF me.writes + 1 < MaxRetry
              THEN Step(w, [me EXCEPT !.writes = @ + 1]) /\ UNCHANGED metErr ELSE RegionFails(w)
     /\ UNCHANGED <<regions, kvs, finished>> /\ MainOnly

\* the SSTs of one request
Batch(w) == IF plan.multi THEN CF ELSE {wk[w].cf}
LastBatch(w) == plan.multi \/ wk[w].cf = Max(CF)
Ingested(w) == kvs' = kvs \cup (wk[w].keys \X Batch(w))

\* Ingest succeeds, and with its last SST the range counts as finished
IngestOK(w) ==
  LET me == wk[w]
  IN /\ me.pc = "ingest" /\ Current(me.region) /\ Leads(me.region) /\ Ingested(w)
     /\ IF LastBatch(w)
        THEN /\ finished' = finished \cup {me.fin}
             /\ Step(w, [me EXCEPT !.pc = "next", !.got = Tail(@)])
        ELSE /\ Step(w, [me EXCEPT !.cf = @ + 1, !.errCnt = 0])
             /\ UNCHANGED finished
     /\ UNCHANGED <<regions, trouble, metErr>> /\ MainOnly

\* the call fails, executed or not: try again; the last time the loop leaves with
\* the error to the next SST
IngestFails(w) ==
  LET me == wk[w]
  IN /\ me.pc = "ingest"
     /\ \/ Mishap("fail") /\ UNCHANGED kvs
        \/ Mishap("lost") /\ Current(me.region) /\ Leads(me.region) /\ Ingested(w)
     /\ CASE me.errCnt + 1 < MaxRetry -> Step(w, [me EXCEPT !.errCnt = @ + 1]) /\ UNCHANGED metErr
          [] me.errCnt + 1 = MaxRetry /\ ~LastBatch(w) ->
               Step(w, [me EXCEPT !.cf = @ + 1, !.errCnt = 0]) /\ UNCHANGED metErr
          [] OTHER -> RegionFails(w)
     /\ UNCHANGED <<regions, finished>> /\ MainOnly

\* isIngestRetryable: an error of the region nothing is known about
Refused(w) ==
  /\ wk[w].pc = "ingest" /\ Mishap("fail") /\ RegionFails(w)
  /\ UNCHANGED <<regions, kvs, finished>> /\ MainOnly

\* write again for the region as it is now known to be, or give up
Rewrite(w, region) ==
  LET me == wk[w]
  IN IF me.writes + 1 < MaxRetry
     THEN Step(w, [me EXCEPT !.pc = "write", !.writes = @ + 1, !.region = region]) /\ UNCHANGED metErr
     ELSE RegionFails(w)

NotLeader(w) ==
  LET me == wk[w]
  IN /\ me.pc = "ingest" /\ ~Leads(me.region)
     /\ \/ \E r \in regions : r.start = me.region.start /\ Rewrite(w, [me.region EXCEPT !.leader = r.leader])
        \/ Rewrite(w, RegionAt(me.region.start))
     /\ UNCHANGED <<clusterVars, finished>> /\ MainOnly

EpochNotMatch(w) ==
  LET me == wk[w]
      inside == {r \in regions : \A k \in me.keys : r.start <= k /\ k < r.end}
  IN /\ me.pc = "ingest" /\ ~Current(me.region)
     /\ \/ \E r \in inside : Rewrite(w, [r EXCEPT !.leader = me.region.leader])
        \/ RegionFails(w)
     /\ UNCHANGED <<clusterVars, finished>> /\ MainOnly

\* the context is cancelled: the goroutine returns, and its error is dropped
Cancelled(w) ==
  /\ cancelled /\ wk[w].pc # "idle" /\ Step(w, Idle)
  /\ UNCHANGED <<clusterVars, finished, metErr>> /\ MainOnly

Cancel ==
  /\ result = "none" /\ Mishap("cancel") /\ cancelled' = TRUE
  /\ UNCHANGED <<regions, kvs, plan, ranges, mainVars, finished, wk>>

----------------------------------------------------------------------------

MainStep ==
  Unfinished \/ SplitScan \/ SplitKeys \/ SplitOne \/ SplitRound \/ StartRange \/ AllDone
WorkerStep(w) ==
  \/ Begin(w) \/ Scan(w) \/ NextRegion(w) \/ Write(w) \/ IngestOK(w) \/ IngestFails(w)
  \/ Refused(w) \/ NotLeader(w) \/ EpochNotMatch(w) \/ Cancelled(w)
Next ==
  \/ MainStep \/ \E w \in Workers : WorkerStep(w)
  \/ Cancel
  \/ result = "none" /\ ClusterStep /\ UNCHANGED <<plan, ranges, mainVars, finished, wk, cancelled>>
  \/ result # "none" /\ UNCHANGED vars
Spec == Init /\ [][Next]_vars
FairSpec == Spec /\ WF_vars(MainStep \/ \E w \in Workers : WorkerStep(w))

----------------------------------------------------------------------------
(* Properties.                                                             *)

\* The variables keep their types.
TypeOK ==
  /\ regions \subseteq Region /\ kvs \subseteq KeySpace \X CF /\ trouble \in Trouble
  /\ \A r \in finished : r.start \in 0..KeyEnd /\ r.end \in 0..KeyEnd
  /\ result \in {"none", "ok", "error"} /\ {metErr, cancelled} \subseteq BOOLEAN

\* A range that counts as finished is never read again, so every pair of it is in
\* TiKV, whatever became of its regions between the scan, the write and the
\* ingest, and although a goroutine may have gone on with another region than the
\* one it was given.  Without multi-ingest an SST that failed maxRetryTimes is
\* passed over when the next one succeeds, so fewer failures are assumed there.
SSTPassedOver == ~plan.multi /\ plan.trouble.fail + plan.trouble.lost >= MaxRetry
FinishedIsIngested ==
  TypeOK /\ (SSTPassedOver \/ \A r \in finished : KeysIn(r) \X CF \subseteq kvs)

\* ImportEngine succeeds only with every pair of the engine in TiKV: the ranges
\* cover the engine, and no part of one is forgotten between two rounds.
ImportIsComplete == result = "ok" => (SSTPassedOver \/ plan.keys \X CF \subseteq kvs)

\* ImportEngine returns: no retry, and no round that finishes nothing, goes on for
\* ever.
Returned == result # "none"
ImportReturns == <>[]Returned
====
