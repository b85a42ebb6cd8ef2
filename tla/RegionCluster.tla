---- MODULE RegionCluster ----
(***************************************************************************)
(* The TiKV cluster as BR and Lightning see it while they import: the key  *)
(* space cut into regions, each with an epoch version and a leader, and    *)
(* the pairs ingested so far.  Regions split, merge and change leaders     *)
(* between any two requests; PD answers with the regions of the moment.    *)
(*                                                                         *)
(* Keys are numbers; a region holds the keys start..end-1.  Two regions of *)
(* different times with the same start and version are the same region, so *)
(* region ids are left out.                                                *)
(***************************************************************************)
EXTENDS Integers, Sequences, FiniteSets, FiniteSetsExt

CONSTANTS
  KeyEnd,     \* the end of the key space
  PageLimit   \* the regions PD returns at most (128 in the code)

VARIABLES
  regions,    \* the regions
  kvs,        \* what was ingested
  trouble     \* bound: what may still go wrong

clusterVars == <<regions, kvs, trouble>>

KeySpace == 0..(KeyEnd - 1)
Stores == {1, 2}
Region == [start : KeySpace, end : 1..KeyEnd, ver : Nat, leader : Stores]
\* splits, merges, leader changes; failed requests, requests that were executed
\* although they seem to have failed; cancellations
Trouble == [split : Nat, merge : Nat, move : Nat, fail : Nat, lost : Nat, cancel : Nat]

Pieces(from, to, cuts, version, store) ==
  {[start |-> s, end |-> Min({e \in cuts \cup {to} : e > s}), ver |-> version, leader |-> store] :
     s \in cuts \cup {from}}

ClusterInit(cuts, t) ==
  regions = Pieces(0, KeyEnd, cuts, 1, 1) /\ kvs = {} /\ trouble = t

Mishap(kind) == trouble[kind] > 0 /\ trouble' = [trouble EXCEPT ![kind] = @ - 1]

----------------------------------------------------------------------------
(* What the cluster answers.                                               *)

ByStart(rs) ==
  [i \in 1..Cardinality(rs) |-> CHOOSE r \in rs : Cardinality({q \in rs : q.start < r.start}) = i - 1]
ScanRegions(from, to) ==
  LET all == ByStart({r \in regions : r.end > from /\ r.start < to})
  IN SubSeq(all, 1, Min({PageLimit, Len(all)}))
RegionAt(k) == CHOOSE r \in regions : r.start <= k /\ k < r.end

\* PaginateScanRegion stops after this page
LastPage(page, to) == Len(page) < PageLimit \/ page[Len(page)].end >= to

\* the region a request names has not changed since
Current(info) == \E r \in regions : r.start = info.start /\ r.ver = info.ver
Leads(info) == \E r \in regions : r.start = info.start /\ r.leader = info.leader

\* a batch split of a region: the version grows by the number of new regions
Split(info, cuts) ==
  regions' = (regions \ {RegionAt(info.start)}) \cup
    Pieces(info.start, info.end, cuts, info.ver + Cardinality(cuts), RegionAt(info.start).leader)

----------------------------------------------------------------------------
(* What happens to it by itself.                                           *)

RegionSplits ==
  /\ Mishap("split") /\ \E r \in regions, k \in KeySpace : r.start < k /\ k < r.end /\ Split(r, {k})
  /\ UNCHANGED kvs

Merged(a, b) ==
  [start |-> a.start, end |-> b.end, ver |-> Max({a.ver, b.ver}) + 1, leader |-> a.leader]
RegionsMerge ==
  /\ Mishap("merge")
  /\ \E a, b \in regions : a.end = b.start /\ regions' = (regions \ {a, b}) \cup {Merged(a, b)}
  /\ UNCHANGED kvs

LeaderMoves ==
  /\ Mishap("move")
  /\ \E r \in regions : regions' = (regions \ {r}) \cup {[r EXCEPT !.leader = 3 - @]}
  /\ UNCHANGED kvs

ClusterStep == RegionSplits \/ RegionsMerge \/ LeaderMoves
====
