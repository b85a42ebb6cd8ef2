---- MODULE MCRegionPlans ----
(* Small backups, engines and flushes, and clusters for them: the plans of          *)
(* FileImport, RangeImport and LogIngest.                                           *)
EXTENDS FileImport

\* what happens to the cluster: splits, merges, moved leaders, failed and lost requests
T(s, m, v, f, l) == [split |-> s, merge |-> m, move |-> v, fail |-> f, lost |-> l, cancel |-> 0]

-----------------------------------------------------------------------------
(* Backups, for FileImport.                                                *)

F(n, c, s, e, k) == [name |-> n, cf |-> c, start |-> s, end |-> e, keys |-> k]
All == [s \in Stores |-> TRUE]
Some == [s \in Stores |-> s = 1]
ToNew == GetRewriteRules(0, 1, TRUE)
Backup(fs, rs, c, mi, t) ==
  [files |-> fs, rules |-> rs, raw |-> FALSE, from |-> 0, to |-> 0, rawRange |-> Rg(0, 0),
   cuts |-> c, multi |-> mi, trouble |-> t]
Raw(fs, a, b, c, t) ==
  [files |-> fs, rules |-> {}, raw |-> TRUE, from |-> a, to |-> b, rawRange |-> Rg(1, 8),
   cuts |-> c, multi |-> All, trouble |-> t]

\* both column families of one range of records
Pair == <<F("a", 1, 3, 5, {3, 4}), F("a", 2, 3, 5, {3, 4})>>
\* long values in one of the keys only
Sparse == <<F("a", 1, 3, 5, {4}), F("a", 2, 3, 5, {3, 4})>>
\* an index and two ranges of records
Three == <<F("b", 2, 0, 2, {0, 1}), F("c", 2, 3, 4, {3}), F("d", 2, 4, 5, {4})>>
RawFiles == <<F("a", 1, 1, 3, {1, 2}), F("b", 1, 3, 5, {3, 4})>>

MCFilePlans == {
  Backup(Pair, ToNew, {}, All, T(1, 0, 1, 0, 0)), Backup(Pair, ToNew, {9}, All, T(0, 0, 1, 1, 1)),
  Backup(Pair, ToNew, {9}, All, T(0, 0, 0, 3, 0)), Backup(Pair, ToNew, {7}, Some, T(1, 0, 0, 1, 0)),
  Backup(Pair, ToNew, {9}, All, T(1, 1, 0, 0, 0)), Backup(Pair, ToNew, {}, All, T(0, 0, 0, 1, 1)),
  Backup(Sparse, ToNew, {9, 10}, All, T(1, 0, 0, 1, 0)),
  Backup(Three, ToNew, {7}, All, T(1, 0, 0, 0, 0)), Backup(Three, ToNew, {}, All, T(0, 0, 1, 1, 0)),
  Backup(Three, GetRewriteRules(0, 1, FALSE), {}, All, T(0, 0, 0, 0, 0)),
  Raw(RawFiles, 2, 4, {3}, T(0, 0, 1, 1, 0)), Raw(RawFiles, 1, 5, {}, T(1, 0, 0, 0, 1)),
  Raw(RawFiles, 0, 4, {}, T(0, 0, 0, 0, 0)), Raw(SubSeq(RawFiles, 1, 1), 4, 5, {}, T(0, 0, 0, 0, 0)),
  \* raw keys that look like those of two tables
  Raw(<<F("c", 1, 4, 7, {5, 6})>>, 5, 7, {}, T(0, 0, 0, 0, 0))}

-----------------------------------------------------------------------------
(* Engines, for RangeImport.                                               *)

Engine(k, p, c, mi, t) == [keys |-> k, props |-> p, cuts |-> c, multi |-> mi, trouble |-> t]
\* a property for each key, or one for all of them
Fine == [i \in 1..3 |-> [key |-> i, keys |-> 1]]
Coarse == <<[key |-> 3, keys |-> 3]>>

MCEnginePlans == {
  \* two ranges
  Engine({1, 2, 3}, Fine, {2}, TRUE, T(1, 1, 0, 0, 0)),
  Engine({1, 2, 3}, Fine, {2}, TRUE, T(0, 1, 1, 0, 0)),
  Engine({1, 2, 3}, Fine, {}, TRUE, T(1, 0, 1, 0, 0)),
  Engine({1, 2, 3}, Fine, {2}, TRUE, T(0, 0, 1, 1, 1)),
  Engine({1, 2, 3}, Fine, {2}, TRUE, [T(1, 0, 0, 0, 0) EXCEPT !.cancel = 1]),
  Engine({1, 2, 3}, Fine, {2}, TRUE, T(0, 0, 0, 4, 0)),
  Engine({1, 2, 3}, Fine, {2}, FALSE, T(1, 0, 0, 1, 0)),
  \* one range, of more keys than a region should hold
  Engine({1, 3}, Coarse, {2, 3}, TRUE, T(1, 0, 0, 0, 0)),
  Engine({1, 2, 3}, Coarse, {}, TRUE, T(1, 1, 1, 0, 0)),
  \* one small range, which is not split
  Engine({1, 2}, Coarse, {2}, TRUE, T(1, 0, 1, 2, 0)),
  Engine({1, 2}, Coarse, {2}, FALSE, [T(0, 1, 0, 1, 0) EXCEPT !.cancel = 1]),
  Engine({1, 2}, Coarse, {2}, FALSE, T(0, 0, 0, 3, 0))}

-----------------------------------------------------------------------------
(* Flushes of rows, for LogIngest.                                         *)

Put(k) == [key |-> k, del |-> FALSE]
Del(k) == [key |-> k, del |-> TRUE]
Flush(rs, c, s, t) == [rows |-> rs, cuts |-> c, strict |-> s, trouble |-> t]

Change == <<Put(1), Put(3), Del(1)>>
Two == <<Put(5), Put(1), Put(3)>>
MCWritePlans == {
  Flush(<<>>, {}, TRUE, T(0, 0, 0, 0, 0)),
  Flush(Change, {}, TRUE, T(1, 0, 1, 1, 0)), Flush(Change, {4}, TRUE, T(0, 1, 1, 0, 1)),
  Flush(Change, {}, TRUE, T(0, 0, 0, 2, 1)), Flush(Change, {}, TRUE, T(1, 1, 0, 0, 0)),
  Flush(Change, {}, FALSE, [T(1, 0, 1, 0, 0) EXCEPT !.cancel = 1]),
  \* two regions: the second holds one pair, more than one, and one at its start
  Flush(Two, {4}, FALSE, T(0, 0, 1, 1, 0)), Flush(Two, {5}, FALSE, T(1, 0, 0, 0, 0)),
  Flush(Two, {2}, FALSE, T(0, 0, 0, 1, 0)), Flush(Two, {4}, TRUE, T(0, 1, 0, 0, 0)),
  \* a region without a pair between them
  Flush(<<Put(1), Put(6)>>, {2, 4}, FALSE, T(0, 1, 0, 0, 0)),
  \* more pairs than a region may hold, in two regions
  Flush([i \in 1..13 |-> Put(i - 1)], {7}, FALSE, T(0, 0, 0, 2, 0))}
====
