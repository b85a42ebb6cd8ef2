---- MODULE RangeTree ----
(***************************************************************************)
(* The range tree of BR (rtree.RangeTree): the ranges backed up so far,    *)
(* ordered by their start keys.  A key is a number; 0 is the empty key,    *)
(* which as the end of a range stands for the end of the key space.  The   *)
(* B-tree is the set of its items: no two have the same start key.         *)
(***************************************************************************)
EXTENDS Integers, FiniteSets

Rg(s, e) == [start |-> s, end |-> e]
\* a comes before b, and no two ranges overlap
Precedes(a, b) == a.end # 0 /\ a.end <= b.start
Disjoint(tree) == \A a, b \in tree : a = b \/ Precedes(a, b) \/ Precedes(b, a)

Smaller(a, b) == IF a < b THEN a ELSE b
Larger(a, b) == IF a < b THEN b ELSE a

\* Range.Contains
ContainsKey(rg, key) == rg.start <= key /\ (rg.end = 0 \/ key < rg.end)

\* Range.Intersect: whether they meet, and where
Meets(rg, from, to) == (rg.end = 0 \/ from < rg.end) /\ (to = 0 \/ to > rg.start)
Intersect(rg, from, to) ==
  Rg(Larger(from, rg.start),
     IF to = 0 THEN rg.end ELSE IF rg.end = 0 THEN to ELSE Smaller(to, rg.end))

\* the last item at or before a key (DescendLessOrEqual), as a set
AtOrBefore(tree, key) ==
  {r \in tree : r.start <= key /\ \A q \in tree : q.start <= key => q.start <= r.start}

\* RangeTree.Find, as a set of at most one item
Find(tree, key) == {r \in AtOrBefore(tree, key) : ContainsKey(r, key)}

\* where the ascent of getOverlaps and of GetIncompleteRange begins
AscendFrom(tree, key) ==
  IF Find(tree, key) = {} THEN key ELSE (CHOOSE r \in Find(tree, key) : TRUE).start

MutGetOverlaps(tree, rg) ==
  {over \in tree : over.start >= rg.start /\ (rg.end = 0 \/ over.start < rg.end)}
GetOverlaps(tree, rg) ==
  LET from == AscendFrom(tree, rg.start)
  IN {over \in tree : over.start >= from /\ (rg.end = 0 \/ over.start < rg.end)}

\* Update: what overlaps is deleted, what has the same start replaced
Update(tree, rg) ==
  {r \in tree \ GetOverlaps(tree, rg) : r.start # rg.start} \cup {rg}

\* GetIncompleteRange: the items the ascent visits, the end key it remembers
\* when it comes to start key k, and the gaps it finds
Visited(tree, from, to) ==
  LET above == {r \in tree : r.start >= AscendFrom(tree, from)}
  IN {r \in above : \A q \in above : q.start < r.start => to = 0 \/ q.end < to}
LastEndKey(seen, from, k) ==
  LET before == {r \in seen : r.start < k}
  IN IF before = {} THEN from
     ELSE (CHOOSE r \in before : \A q \in before : q.start <= r.start).end
MutGapBefore(seen, from, to) ==
  {Intersect(Rg(from, to), LastEndKey(seen, from, r.start), r.start) :
     r \in {r \in seen : /\ LastEndKey(seen, from, r.start) + 1 < r.start
                         /\ Meets(Rg(from, to), LastEndKey(seen, from, r.start), r.start)}}
GapBefore(seen, from, to) ==
  {Intersect(Rg(from, to), LastEndKey(seen, from, r.start), r.start) :
     r \in {r \in seen : /\ LastEndKey(seen, from, r.start) < r.start
                         /\ Meets(Rg(from, to), LastEndKey(seen, from, r.start), r.start)}}
\* after the last item, of which every start key is smaller than top
GapAfter(seen, from, to, top) ==
  LET last == LastEndKey(seen, from, top)
  IN {Intersect(Rg(from, to), g.start, g.end) :
        g \in {g \in {Rg(last, to)} : /\ last # to /\ last # 0 /\ (to = 0 \/ last < to)
                                      /\ Meets(Rg(from, to), last, to)}}
GetIncompleteRange(tree, from, to, top) ==
  IF from # 0 /\ from = to THEN {}
  ELSE LET seen == Visited(tree, from, to)
       IN GapBefore(seen, from, to) \cup GapAfter(seen, from, to, top)
====
