---- MODULE FileImport ----
(***************************************************************************)
(* How BR brings backed up files into TiKV: their ranges are merged        *)
(* (MergeFileRanges), the regions are split at the ends of the ranges and  *)
(* at the prefixes the rewrite rules give (RegionSplitter.Split), and the  *)
(* files of each range are downloaded by the peers of every region they    *)
(* meet and ingested there (Client.RestoreFiles, FileImporter.Import).  In *)
(* raw mode (RunRestoreRaw) there are no rules, and only the files and the *)
(* keys of the range asked for are restored.                               *)
(*                                                                         *)
(* A key is a prefix and a suffix, prefix * Width + suffix.  Prefix 2t is  *)
(* the index of table t, 2t + 1 its records.                               *)
(***************************************************************************)
EXTENDS RegionCluster, RangeTree, SequencesExt

CONSTANTS
  FilePlans,        \* backups, clusters and troubles
  Width,            \* suffixes of a prefix
  SplitSizeBytes,   \* of MergeFileRanges; a pair has one byte
  SplitRetryTimes,
  SplitRequests,    \* splitRegionMaxRetryTime
  ScatterAttempts,
  ImportRetryTimes,
  DownloadRetryTimes,
  PoolSize          \* of the worker pool

VARIABLES
  backup,    \* files, in the order of the backup; rules; raw, and the range to
             \* restore then; rawRange: what was backed up; cuts: the regions at
             \* first; multi: the stores that support multi-ingest; trouble
  groups,    \* the files of each range that are imported together
  pc,        \* where the restore is
  ranges,    \* the sorted ranges of Split
  sp,        \* local variables of Split
  im,        \* of the Import of each group of files
  failed,    \* an Import returned an error: the context of the others is cancelled
  result     \* "none", "ok" or "error"

mainVars == <<pc, ranges, sp, result>>
vars == <<clusterVars, backup, groups, mainVars, im, failed>>

----------------------------------------------------------------------------
(* Keys and rewrite rules.                                                 *)

PrefixOf(k) == k \div Width
TableID(k) == PrefixOf(k) \div 2
IsIndex(k) == PrefixOf(k) % 2 = 0

\* the rules by old and by new prefix, as sets of at most one
MatchOldPrefix(k) == {r \in backup.rules : r.old = PrefixOf(k)}
MatchNewPrefix(k) == {r \in backup.rules : r.new = PrefixOf(k)}
\* rewriteRawKey, replacePrefix: a key without a rule stays as it is
ReplacePrefix(k) ==
  IF MatchOldPrefix(k) = {} THEN k
  ELSE (CHOOSE r \in MatchOldPrefix(k) : TRUE).new * Width + (k % Width)

\* GetRewriteRules: the records of a table, and the index if the new table has it
GetRewriteRules(old, new, hasIndex) ==
  {[old |-> 2 * old + 1, new |-> 2 * new + 1]}
    \cup (IF hasIndex THEN {[old |-> 2 * old, new |-> 2 * new]} ELSE {})

\* ValidateFileRewriteRule
ValidateFileRewriteRule(f) ==
  /\ \E s \in MatchOldPrefix(f.start), e \in MatchOldPrefix(f.end) : s.new <= e.new
  /\ TableID(f.start) = TableID(f.end)

----------------------------------------------------------------------------
(* Ranges and groups of files.                                             *)

Sorted(rs) ==
  [i \in 1..Cardinality(rs) |-> CHOOSE r \in rs : Cardinality({q \in rs : q.start < r.start}) = i - 1]

\* Client.GetFilesInRawRange: whether the range was backed up, and the files that meet it
Covering ==
  {r \in {backup.rawRange} : /\ backup.from < r.end /\ r.start < backup.to
                             /\ r.start <= backup.from /\ backup.to <= r.end}
InRange(f) == ~backup.raw \/ (f.end >= backup.from /\ backup.to > f.start)
Files == SelectSeq(backup.files, InRange)

\* MergeFileRanges: the files by start key, and what needMerge joins
FileRanges ==
  {[start |-> f.start, end |-> f.end,
    size |-> FoldLeft(LAMBDA n, g : IF g.start = f.start THEN n + Cardinality(g.keys) ELSE n, 0, Files)]
     : f \in ToSet(Files)}
NeedMerge(l, r) ==
  \/ r.size = 0
  \/ /\ l.size + r.size <= SplitSizeBytes
     /\ TableID(l.start) = TableID(r.start) /\ IsIndex(l.start) = IsIndex(r.start)
MergeInto(out, r) ==
  LET l == out[Len(out)]
  IN IF out # <<>> /\ NeedMerge(l, r)
     THEN [out EXCEPT ![Len(out)] = [start |-> l.start, end |-> r.end, size |-> l.size + r.size]]
     ELSE Append(out, r)
MergeFileRanges == FoldLeft(MergeInto, <<>>, Sorted(FileRanges))

\* SortRanges: the rewritten ranges, unless one spans two tables or two have the
\* same start
SortRanges(rs) ==
  LET new == {Rg(ReplacePrefix(r.start), ReplacePrefix(r.end)) : r \in ToSet(rs)}
  IN IF \/ \E r \in ToSet(rs) : TableID(r.start) # TableID(r.end)
        \/ Cardinality({r.start : r \in new}) < Len(rs)
     THEN {} ELSE {Sorted(new)}

\* drainFilesByRange: neighbours with the same name but for the column family
AllStores == DOMAIN backup.multi
SupportMultiIngest == \A s \in AllStores : backup.multi[s]
Drain(out, f) ==
  IF SupportMultiIngest /\ out # <<>> /\ Head(out[Len(out)]).name = f.name
  THEN [out EXCEPT ![Len(out)] = Append(@, f)] ELSE Append(out, <<f>>)
DrainFilesByRange == FoldLeft(Drain, <<>>, Files)
\* RestoreRaw imports each file by itself
RawGroups == [i \in DOMAIN Files |-> <<Files[i]>>]

----------------------------------------------------------------------------
(* The beginning of the restore, and of Split.                             *)

NoSplit == [lo |-> 0, hi |-> 0, from |-> 0, got |-> <<>>, todo |-> {}, cur |-> {}, tries |-> 0,
            requests |-> 0, err |-> FALSE, fresh |-> <<>>, all |-> <<>>, attempt |-> 0]
NoImport == [pc |-> "wait", from |-> 0, got |-> <<>>, tries |-> 0, left |-> 1, downloads |-> 0,
             metas |-> {}, leader |-> 0]

Init ==
  /\ backup \in FilePlans /\ ClusterInit(backup.cuts, backup.trouble)
  /\ pc = "begin" /\ ranges = <<>> /\ sp = NoSplit /\ failed = FALSE /\ result = "none"
  /\ groups = IF backup.raw THEN RawGroups ELSE DrainFilesByRange
  /\ im = [g \in DOMAIN groups |-> NoImport]

Return(r) == pc' = "done" /\ result' = r

\* CheckMultiIngestSupport, setSpeedLimit: a request to every store, one may fail
AskStores ==
  \/ pc' = "import" /\ UNCHANGED <<result, trouble>>
  \/ Mishap("fail") /\ Return("error")

\* RunRestoreRaw and GoValidateFileRanges refuse some restores, and one of no file
\* is done
Refused ==
  IF backup.raw THEN Covering = {} ELSE \E f \in ToSet(Files) : ~ValidateFileRewriteRule(f)
\* the keys Split scans between
Bounds(rs) ==
  LET news == {r.new * Width : r \in backup.rules}
  IN Rg(Min({rs[1].start} \cup news), Max({rs[Len(rs)].end} \cup news))

\* what to restore, and the first scan of Split
Begin ==
  /\ pc = "begin"
  /\ IF Refused \/ Files = <<>> THEN Return(IF Refused THEN "error" ELSE "ok") /\ UNCHANGED <<ranges, sp>>
     ELSE \/ \E rs \in SortRanges(MergeFileRanges) :
               /\ ranges' = rs /\ pc' = "scan" /\ UNCHANGED result
               /\ sp' = [NoSplit EXCEPT !.lo = Bounds(rs).start, !.hi = Bounds(rs).end,
                                        !.from = Bounds(rs).start]
          \/ SortRanges(MergeFileRanges) = {} /\ Return("error") /\ UNCHANGED <<ranges, sp>>
  /\ UNCHANGED <<clusterVars, backup, groups, im, failed>>

\* one page of PaginateScanRegion; an error ends Split
SplitScan ==
  LET page == ScanRegions(sp.from, sp.hi)
  IN /\ pc = "scan"
     /\ \/ /\ sp' = [sp EXCEPT !.got = @ \o page, !.from = page[Len(page)].end]
           /\ pc' = IF LastPage(page, sp.hi) THEN "keys" ELSE "scan"
           /\ UNCHANGED <<trouble, result>>
        \/ Mishap("fail") /\ Return("error") /\ UNCHANGED sp
     /\ UNCHANGED <<regions, kvs, backup, groups, ranges, im, failed>>

\* NeedSplit: the first region that has the key inside, if none before begins with it
NeedSplit(k, got) ==
  {got[i] : i \in {i \in DOMAIN got : /\ got[i].start < k /\ k < got[i].end
                                      /\ \A j \in 1..(i - 1) : got[j].start # k /\ ~(got[j].start < k /\ k < got[j].end)}}
CheckKeys == {r.new * Width : r \in backup.rules} \cup {ranges[i].end : i \in DOMAIN ranges}
GetSplitKeys(got) ==
  LET hit == UNION {NeedSplit(k, got) : k \in CheckKeys}
  IN {[region |-> r, keys |-> {k \in CheckKeys : r \in NeedSplit(k, got)}] : r \in hit}

\* errSplit of an earlier try stands when there is nothing left to split
SplitKeys ==
  /\ pc = "keys"
  /\ \E todo \in {GetSplitKeys(sp.got)} :
       IF todo = {} /\ sp.err THEN Return("error") /\ UNCHANGED sp
       ELSE pc' = "next" /\ sp' = [sp EXCEPT !.todo = todo, !.got = <<>>] /\ UNCHANGED result
  /\ UNCHANGED <<clusterVars, backup, groups, ranges, im, failed>>

\* the next region to split, in any order, or the wait for the scattering
SplitNext ==
  /\ pc = "next"
  /\ IF sp.todo = {} THEN pc' = "settle" /\ sp' = [sp EXCEPT !.fresh = sp.all, !.attempt = 0]
     ELSE \E t \in sp.todo : /\ pc' = "request"
                             /\ sp' = [sp EXCEPT !.cur = {t}, !.todo = @ \ {t}, !.requests = 0]
  /\ UNCHANGED <<clusterVars, backup, groups, ranges, im, failed, result>>

----------------------------------------------------------------------------
(* BatchSplitRegions and its requests.                                     *)

SplitFails ==
  IF sp.tries + 1 = SplitRetryTimes THEN Return("error") /\ UNCHANGED sp
  ELSE /\ pc' = "scan" /\ UNCHANGED result
       /\ sp' = [sp EXCEPT !.tries = @ + 1, !.err = TRUE, !.from = sp.lo, !.cur = {}, !.got = <<>>]
SplitDone(t) ==
  LET new == Sorted({r \in regions' : t.region.start <= r.start /\ r.end <= t.region.end})
  IN /\ pc' = "scatter" /\ UNCHANGED result
     /\ sp' = [sp EXCEPT !.cur = {}, !.err = FALSE, !.fresh = Tail(new), !.all = @ \o Tail(new),
                         !.attempt = 0]
\* another request of sendSplitRegionRequest
RequestAgain(t) ==
  IF sp.requests + 1 = SplitRequests THEN SplitFails
  ELSE sp' = [sp EXCEPT !.requests = @ + 1, !.cur = {t}] /\ UNCHANGED <<pc, result>>

SplitRequest ==
  /\ pc = "request"
  /\ \E t \in sp.cur :
       \/ /\ Current(t.region) /\ Leads(t.region) /\ Split(t.region, t.keys)
          /\ \/ SplitDone(t) /\ UNCHANGED trouble
             \/ SplitFails /\ Mishap("lost")
       \/ UNCHANGED regions /\ Mishap("fail") /\ (SplitFails \/ RequestAgain(t))
       \* the error that no key is valid is not retried
       \/ UNCHANGED <<regions, sp>> /\ Mishap("fail") /\ Return("error")
       \* the leader moved: the answer names the new one, or PD does
       \/ /\ Current(t.region) /\ ~Leads(t.region)
          /\ RequestAgain([t EXCEPT !.region.leader = RegionAt(t.region.start).leader])
          /\ UNCHANGED <<regions, trouble>>
       \/ ~Current(t.region) /\ SplitFails /\ UNCHANGED <<regions, trouble>>
  /\ UNCHANGED <<kvs, backup, groups, ranges, im, failed>>

\* a scatterBackoffer allows another request
ScatterAgain == Mishap("fail") /\ sp.attempt + 1 < ScatterAttempts /\ sp' = [sp EXCEPT !.attempt = @ + 1]
\* ScatterRegions: once PD knows the region, or it is not waited for any more, the
\* request is sent; whatever comes of it is only logged
ScatterRegions ==
  /\ pc = "scatter"
  /\ IF sp.fresh = <<>> THEN pc' = "next" /\ UNCHANGED <<sp, trouble>>
     ELSE /\ UNCHANGED pc
          /\ \/ sp' = [sp EXCEPT !.fresh = Tail(@), !.attempt = 0] /\ UNCHANGED trouble
             \/ ScatterAgain
  /\ UNCHANGED <<regions, kvs, backup, groups, ranges, result, im, failed>>

\* waitForScatterRegion: its operator ends, is unknown, or is not waited for any more
Settled == sp.fresh # <<>> /\ sp' = [sp EXCEPT !.fresh = Tail(@)] /\ UNCHANGED <<pc, result, trouble>>
\* waitForScatterRegion for every new region, until it takes too long; then the
\* files are imported
WaitScatter ==
  /\ pc = "settle"
  /\ \/ Settled
     \/ sp' = NoSplit /\ AskStores
  /\ UNCHANGED <<regions, kvs, backup, groups, ranges, im, failed>>

----------------------------------------------------------------------------
(* RestoreFiles, RestoreRaw: an Import for each group.                     *)

Active(g) == im[g].pc \notin {"wait", "end"}
Set(g, r) == im' = [im EXCEPT ![g] = r]
MainOnly == UNCHANGED <<backup, groups, mainVars>>

\* the keys of a group that regions are scanned for
StartKey(g) == Min({ReplacePrefix(groups[g][i].start) : i \in DOMAIN groups[g]})
EndKey(g) == Max({ReplacePrefix(groups[g][i].end) : i \in DOMAIN groups[g]})

StartImport(g) ==
  /\ pc = "import" /\ im[g].pc = "wait" /\ \A h \in 1..(g - 1) : im[h].pc # "wait"
  /\ Cardinality({h \in DOMAIN im : Active(h)}) < PoolSize
  /\ Set(g, [NoImport EXCEPT !.pc = "scan", !.from = StartKey(g)])
  /\ UNCHANGED <<clusterVars, failed>> /\ MainOnly

ImportEnds(g) == Set(g, [NoImport EXCEPT !.pc = "end"])
ImportFails(g) == ImportEnds(g) /\ failed' = TRUE
\* importerBackoffer: an error worth another try of the whole Import
ImportAgain(g) ==
  IF im[g].tries + 1 = ImportRetryTimes THEN ImportFails(g)
  ELSE /\ Set(g, [NoImport EXCEPT !.pc = "scan", !.from = StartKey(g), !.tries = im[g].tries + 1])
       /\ UNCHANGED failed
\* an error of a request: whether it is retryable depends on its code and message
RequestFails(g) == ImportAgain(g) \/ ImportFails(g)

ImportScan(g) ==
  LET me == im[g]
      page == ScanRegions(me.from, EndKey(g))
  IN /\ me.pc = "scan"
     /\ \/ /\ Set(g, [me EXCEPT !.got = @ \o page, !.from = page[Len(page)].end,
                                !.pc = IF LastPage(page, EndKey(g)) THEN "region" ELSE "scan"])
           /\ UNCHANGED <<trouble, failed>>
        \/ Mishap("fail") /\ RequestFails(g)
     /\ UNCHANGED <<regions, kvs>> /\ MainOnly

\* regionLoop: the next region, or the end of the Import
NextRegion(g) ==
  LET me == im[g]
  IN /\ me.pc = "region"
     /\ IF me.got = <<>> THEN ImportEnds(g)
        ELSE Set(g, [me EXCEPT !.pc = "download", !.left = 1, !.downloads = 0, !.metas = {},
                               !.leader = Head(me.got).leader])
     /\ UNCHANGED <<clusterVars, failed>> /\ MainOnly

\* GetSSTMetaFromFile: where a region and the prefix of its rule meet
SSTRange(region, prefix) ==
  Rg(Larger(region.start, prefix * Width), Smaller(region.end, (prefix + 1) * Width))
\* downloadSST: the pairs of a file a region takes, by the rule of its start key
DownloadSST(f, region) ==
  UNION {LET rg == SSTRange(region, r.new)
         IN {k \in {ReplacePrefix(o) : o \in {o \in f.keys : PrefixOf(o) = r.old}} :
               rg.start <= k /\ k < rg.end} : r \in MatchNewPrefix(region.start)}
\* downloadRawKVSST: those of the range to restore
DownloadRawKVSST(f, region) ==
  {k \in f.keys : k >= Larger(region.start, backup.from) /\ k < Smaller(region.end, backup.to)}
Taken(f, region) == IF backup.raw THEN DownloadRawKVSST(f, region) ELSE DownloadSST(f, region)

\* after a failed download: the files that remain begin with the one that failed
\* mutant: behind it
MutRemaining(me) == me.left + 1
Remaining(me) == me.left

\* once no file remains they are ingested
From(g, me, left) ==
  [me EXCEPT !.left = left, !.pc = IF left > Len(groups[g]) THEN "ingest" ELSE "download"]

\* one file of the group to every peer; a region in which it has nothing, or for
\* which there is no rule, is left to itself, with all files of the group
Download(g) ==
  LET me == im[g]
      region == Head(me.got)
      f == groups[g][me.left]
  IN /\ me.pc = "download"
     /\ \/ /\ Taken(f, region) = {}
           /\ Set(g, [me EXCEPT !.pc = "region", !.got = Tail(@)])
           /\ UNCHANGED <<trouble, failed>>
        \/ /\ Taken(f, region) # {}
           /\ Set(g, From(g, [me EXCEPT !.metas = @ \cup (Taken(f, region) \X {f.cf})], me.left + 1))
           /\ UNCHANGED <<trouble, failed>>
        \/ /\ Mishap("fail")
           /\ \/ /\ me.downloads + 1 < DownloadRetryTimes
                 /\ Set(g, From(g, [me EXCEPT !.downloads = @ + 1], Remaining(me)))
                 /\ UNCHANGED failed
              \/ me.downloads + 1 = DownloadRetryTimes /\ RequestFails(g)
              \/ ImportFails(g)
     /\ UNCHANGED <<regions, kvs>> /\ MainOnly

\* ingestSSTs at the leader: all files of the group at once
IngestOK(g) ==
  LET me == im[g]
  IN /\ me.pc = "ingest"
     /\ Current(Head(me.got)) /\ Leads([Head(me.got) EXCEPT !.leader = me.leader])
     /\ kvs' = kvs \cup me.metas
     /\ \/ Set(g, [me EXCEPT !.pc = "region", !.got = Tail(@)]) /\ UNCHANGED <<trouble, failed>>
        \/ Mishap("lost") /\ RequestFails(g)
     /\ UNCHANGED regions /\ MainOnly

\* the request fails, or TiKV refuses it (ServerIsBusy, KeyNotInRegion)
IngestFails(g) ==
  /\ im[g].pc = "ingest" /\ Mishap("fail") /\ RequestFails(g)
  /\ UNCHANGED <<regions, kvs>> /\ MainOnly

\* an epoch that does not match ends the attempt, and the file is scanned for again
EpochAgain(g) == ImportAgain(g)

CheckRegionEpoch(new, old) == new.start = old.start /\ new.ver = old.ver
\* the answer names the leader, or PD knows the region, if its epoch is the same
NotLeader(g) ==
  LET me == im[g]
      region == Head(me.got)
      now == RegionAt(region.start)
  IN /\ me.pc = "ingest" /\ ~Leads([region EXCEPT !.leader = me.leader])
     /\ \/ /\ now.start = region.start
           /\ Set(g, [me EXCEPT !.leader = now.leader]) /\ UNCHANGED failed
        \/ ~CheckRegionEpoch(now, region) /\ EpochAgain(g)
     /\ UNCHANGED clusterVars /\ MainOnly
EpochNotMatch(g) ==
  /\ im[g].pc = "ingest" /\ ~Current(Head(im[g].got)) /\ EpochAgain(g)
  /\ UNCHANGED clusterVars /\ MainOnly

\* the context of the errgroup is cancelled
Cancelled(g) ==
  /\ failed /\ Active(g) /\ ImportEnds(g)
  /\ UNCHANGED <<clusterVars, failed>> /\ MainOnly

\* eg.Wait
Wait ==
  /\ pc = "import" /\ \A g \in DOMAIN im : im[g].pc = "end"
  /\ Return(IF failed THEN "error" ELSE "ok")
  /\ UNCHANGED <<clusterVars, backup, groups, ranges, sp, im, failed>>

----------------------------------------------------------------------------

MainStep ==
  \/ Begin \/ SplitScan \/ SplitKeys \/ SplitNext \/ SplitRequest \/ ScatterRegions \/ WaitScatter
  \/ Wait
ImportStep(g) ==
  \/ StartImport(g) \/ ImportScan(g) \/ NextRegion(g) \/ Download(g) \/ IngestOK(g) \/ IngestFails(g)
  \/ NotLeader(g) \/ EpochNotMatch(g) \/ Cancelled(g)
Next ==
  \/ MainStep \/ \E g \in DOMAIN im : ImportStep(g)
  \/ result = "none" /\ ClusterStep /\ UNCHANGED <<backup, groups, mainVars, im, failed>>
  \/ result # "none" /\ UNCHANGED vars
Spec == Init /\ [][Next]_vars
FairSpec == Spec /\ WF_vars(MainStep \/ \E g \in DOMAIN im : ImportStep(g))

----------------------------------------------------------------------------
(* Properties.                                                             *)

\* the pairs of a file that the restore is to write
Wanted(f) ==
  {ReplacePrefix(k) : k \in {k \in f.keys : ~backup.raw \/ (backup.from <= k /\ k < backup.to)}} \X {f.cf}

\* A restore writes pairs of the backup only, under their new keys, and in raw
\* mode none outside of the range asked for (downloadRawKVSST cuts the files,
\* downloadSST rewrites them), whatever regions they were cut by.
OnlyWantedPairs == kvs \subseteq UNION {Wanted(f) : f \in ToSet(backup.files)}

\* A restore that succeeds has restored every key that all files of its group
\* hold, in every column family, although regions split and leaders move between
\* the scan, the downloads and the ingest, and an Import is done again from its
\* beginning.  A key that is missing from another file of the group may be
\* skipped with its region (regionLoop), and a region that was merged into one of
\* another prefix is skipped too: PD's merges are to be paused.
HeldByAll(g, k) == \A i \in DOMAIN groups[g] : \E p \in Wanted(groups[g][i]) : p[1] = k
RestoreIsComplete ==
  result = "ok" /\ trouble.merge = backup.trouble.merge =>
    \A g \in DOMAIN groups : \A f \in ToSet(groups[g]) : \A p \in Wanted(f) :
      HeldByAll(g, p[1]) => p \in kvs

\* The restore ends: retries are counted, and no Import waits for another.
Returned == result # "none"
RestoreReturns == <>[]Returned
====
