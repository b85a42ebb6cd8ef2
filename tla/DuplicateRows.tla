---- MODULE DuplicateRows ----
(***************************************************************************)
(* The duplicate detection of the local backend: the manager that asks     *)
(* the regions of a table's rows, or of one of its indexes, for the pairs  *)
(* written more than once, and fetches the rows an index's duplicates      *)
(* point to; the duplicates of an index in the local store likewise.       *)
(***************************************************************************)
EXTENDS RegionCluster, SequencesExt

CONSTANTS
  RowStart,          \* the keys below are the index's, from here on the rows'
  Handle,            \* index key -> the key of its row
  RegionConcurrency, MaxRetryTimes, MaxGetRequestKeyCount,
  Plans              \* [mode, dups, cuts, down, trouble]: mode "rows", "index" or "local";
                     \* dups the duplicate keys; down the stores that never answer

VARIABLES
  plan,
  at,          \* "scan", "send", "retry", "recv", "over"; "iter", "again" of the local index
  todo,        \* regions
  idx,         \* the regions asked, or the entries read
  waiting,     \* watingRegions, the streams not read
  unfinished,  \* unfinishedRegions
  handles,     \* indexHandles, or handles
  tryTimes,
  db,          \* the rows stored
  result,      \* "none", "nil", "error", "panic"
  shrunk       \* a region came back smaller than the range that was asked of it

managerVars == <<plan, at, todo, idx, waiting, unfinished, handles, tryTimes, db, result, shrunk>>
vars == <<clusterVars, managerVars>>

\* the request of the mode: buildTableRequest or buildIndexRequest
ReqStart == IF plan.mode = "rows" THEN RowStart ELSE 0
ReqEnd == IF plan.mode = "rows" THEN KeyEnd ELSE RowStart

Init ==
  /\ plan \in Plans
  /\ ClusterInit(plan.cuts, plan.trouble)
  /\ at = (IF plan.mode = "local" THEN "iter" ELSE "scan")
  /\ todo = <<>> /\ idx = 0 /\ waiting = <<>> /\ unfinished = <<>> /\ handles = {} /\ tryTimes = 0
  /\ db = {} /\ result = "none" /\ shrunk = FALSE

Answers(info) == Current(info) /\ Leads(info) /\ info.leader \notin plan.down
Return(r) == at' = "over" /\ result' = r

----------------------------------------------------------------------------
(* getValues: the rows of some handles.                                    *)

\* the regions asked: the ones with handles, except the last, which has no end key and no
\* handle is below
Asked(hs) == {r \in regions : r.end # KeyEnd /\ \E h \in hs : r.start <= h /\ h < r.end}
\* the batch of a region is added to the ones before it
Batch(hs, r) == {h \in hs : h < r.end}
\* a batch get fails of a key outside of the region; failing: the start of a region that
\* fails for once, or -1
GetValuesFromRegion(hs, r, failing) ==
  Answers(r) /\ r.start # failing /\ \A h \in Batch(hs, r) : r.start <= h
GetValues(hs, failing) ==
  LET fetched == {r \in Asked(hs) : GetValuesFromRegion(hs, r, failing)} IN
  [stored |-> UNION {Batch(hs, r) : r \in fetched}, retry |-> UNION {Batch(hs, r) : r \in Asked(hs) \ fetched}]
\* the rows are stored, the handles to try again go on; all of them when the scan fails
FetchValues(hs, Then(_)) ==
  \/ \E got \in {GetValues(hs, -1)} : db' = db \cup got.stored /\ Then(got.retry) /\ UNCHANGED trouble
  \/ /\ Mishap("fail")
     /\ \/ \E r \in regions : \E got \in {GetValues(hs, r.start)} : db' = db \cup got.stored /\ Then(got.retry)
        \/ UNCHANGED db /\ Then(hs)

----------------------------------------------------------------------------
(* sendRequestToTiKV.                                                      *)

Scan ==
  /\ at = "scan"
  /\ \/ todo' = ScanRegions(ReqStart, ReqEnd) /\ at' = "send" /\ UNCHANGED <<trouble, result>>
     \/ Mishap("fail") /\ Return("error") /\ UNCHANGED todo
  /\ UNCHANGED <<regions, kvs, plan, idx, waiting, unfinished, handles, tryTimes, db, shrunk>>

\* GetRegionByID: the right part of a region that was split keeps its id
RegionByID(info) == RegionAt(info.end - 1)
\* the region is asked again, in the range it has now; or as it was, when PD fails
AskAgain(info) ==
  \/ /\ unfinished' = Append(unfinished, RegionByID(info))
     /\ shrunk' = (shrunk \/ RegionByID(info).start # info.start)
  \/ unfinished' = Append(unfinished, info) /\ UNCHANGED shrunk

\* mutant: the regions above the limit are left out
MutAboveLimit == unfinished
AboveLimit == unfinished \o SubSeq(todo, idx + 1, Len(todo))
\* mutant: rounds in which all failed are not counted
MutCount == tryTimes
\* all failed: one more try
Count == IF Len(unfinished) = Len(todo) THEN tryTimes + 1 ELSE tryTimes

\* getDuplicateStream: a stream to the leader the region had
OpensStream(info) == info.leader \notin plan.down
\* the top of the loop, and getDuplicateStream for the next region
Send ==
  /\ at = "send"
  /\ \/ todo = <<>> /\ Return("nil") /\ UNCHANGED <<idx, waiting, unfinished, shrunk, trouble>>
     \/ todo # <<>> /\ tryTimes > MaxRetryTimes /\ Return("error") /\ UNCHANGED <<idx, waiting, unfinished, shrunk, trouble>>
     \/ /\ todo # <<>> /\ tryTimes <= MaxRetryTimes /\ UNCHANGED result
        /\ \/ idx = Len(todo) /\ at' = "retry" /\ UNCHANGED <<idx, waiting, unfinished, shrunk, trouble>>
           \/ /\ idx < Len(todo) /\ Len(waiting) > RegionConcurrency
              /\ unfinished' = AboveLimit /\ at' = "retry" /\ UNCHANGED <<idx, waiting, shrunk, trouble>>
           \/ /\ idx < Len(todo) /\ Len(waiting) <= RegionConcurrency
              /\ idx' = idx + 1 /\ UNCHANGED at
              /\ \/ OpensStream(todo[idx + 1]) /\ waiting' = Append(waiting, todo[idx + 1])
                    /\ UNCHANGED <<unfinished, shrunk, trouble>>
                 \/ ~OpensStream(todo[idx + 1]) /\ AskAgain(todo[idx + 1]) /\ UNCHANGED <<waiting, trouble>>
                 \/ Mishap("fail") /\ AskAgain(todo[idx + 1]) /\ UNCHANGED waiting
  /\ UNCHANGED <<regions, kvs, plan, todo, handles, tryTimes, db>>

\* the handles whose rows were not fetched in the round before
RetryHandles ==
  /\ at = "retry" /\ at' = "recv"
  /\ IF handles = {} THEN UNCHANGED <<db, handles, trouble>>
     ELSE FetchValues(handles, LAMBDA rest : handles' = rest)
  /\ UNCHANGED <<regions, kvs, plan, todo, idx, waiting, unfinished, tryTimes, result, shrunk>>

\* the duplicates in the part of the request a region was asked for
Pairs(info) == {k \in plan.dups : k \in Max({info.start, ReqStart}) .. (Min({info.end, ReqEnd}) - 1)}
\* storeDuplicateData: rows are stored, the rows of index keys fetched
Store(info) ==
  IF plan.mode = "rows" \/ Pairs(info) = {}
  THEN db' = db \cup Pairs(info) /\ UNCHANGED <<handles, trouble>>
  ELSE FetchValues({Handle[k] : k \in Pairs(info)}, LAMBDA rest : handles' = handles \cup rest)

\* the answer of the next stream
Recv ==
  /\ at = "recv" /\ waiting # <<>>
  /\ waiting' = Tail(waiting)
  /\ \E info \in {Head(waiting)} :
       \/ Answers(info) /\ Store(info) /\ UNCHANGED <<at, unfinished, result, shrunk>>
       \* an error of the stream, or a key error
       \/ Mishap("fail") /\ AskAgain(info) /\ UNCHANGED <<at, db, handles, result>>
       \* a region error: the range is scanned again
       \/ /\ ~(Current(info) /\ Leads(info))
          /\ unfinished' = unfinished \o ScanRegions(info.start, info.end)
          /\ UNCHANGED <<at, db, handles, result, shrunk, trouble>>
       \* the store cannot be written
       \/ Answers(info) /\ Mishap("fail") /\ Return("error") /\ UNCHANGED <<db, handles, unfinished, shrunk>>
  /\ UNCHANGED <<regions, kvs, plan, todo, idx, tryTimes>>
\* the end of a round
NextRound ==
  /\ at = "recv" /\ waiting = <<>>
  /\ tryTimes' = Count
  /\ todo' = unfinished /\ unfinished' = <<>> /\ idx' = 0 /\ at' = "send"
  /\ UNCHANGED <<regions, kvs, trouble, plan, waiting, handles, db, result, shrunk>>

----------------------------------------------------------------------------
(* CollectDuplicateRowsFromLocalIndex.                                     *)

Entries == SetToSortSeq(plan.dups, <)
\* the entries of the index, whose rows are fetched when there are many, and at the end
LocalEntry ==
  /\ at = "iter" /\ idx < Len(Entries) /\ idx' = idx + 1
  /\ \E hs \in {handles \cup {Handle[Entries[idx + 1]]}} :
       IF Cardinality(hs) > MaxGetRequestKeyCount THEN FetchValues(hs, LAMBDA rest : handles' = rest)
       ELSE handles' = hs /\ UNCHANGED <<db, trouble>>
  /\ UNCHANGED <<regions, kvs, plan, at, todo, waiting, unfinished, tryTimes, result, shrunk>>
LocalEnd ==
  /\ at = "iter" /\ idx = Len(Entries)
  /\ IF handles = {} THEN Return("nil") /\ UNCHANGED <<db, handles, trouble>>
     ELSE FetchValues(handles, LAMBDA rest : /\ handles' = rest
                                             /\ at' = (IF rest = {} THEN "over" ELSE "again")
                                             /\ result' = (IF rest = {} THEN "nil" ELSE result))
  /\ UNCHANGED <<regions, kvs, plan, todo, idx, waiting, unfinished, tryTimes, shrunk>>
\* the retries go on when no handle is left, and getValues takes the first of none
LocalAgain ==
  /\ at = "again"
  /\ \/ tryTimes = MaxRetryTimes /\ Return("error") /\ UNCHANGED <<tryTimes, db, handles, trouble>>
     \/ tryTimes < MaxRetryTimes /\ handles = {} /\ Return("panic") /\ UNCHANGED <<tryTimes, db, handles, trouble>>
     \/ /\ tryTimes < MaxRetryTimes /\ handles # {} /\ tryTimes' = tryTimes + 1
        /\ FetchValues(handles, LAMBDA rest : handles' = rest) /\ UNCHANGED <<at, result>>
  /\ UNCHANGED <<regions, kvs, plan, todo, idx, waiting, unfinished, shrunk>>

Manager == Scan \/ Send \/ RetryHandles \/ Recv \/ NextRound \/ LocalEntry \/ LocalEnd \/ LocalAgain
Cluster == result = "none" /\ (RegionSplits \/ LeaderMoves) /\ UNCHANGED managerVars
Next == Manager \/ Cluster
FairSpec == Init /\ [][Next]_vars /\ WF_vars(Manager)

----------------------------------------------------------------------------
Wanted == IF plan.mode = "rows" THEN plan.dups ELSE {Handle[k] : k \in plan.dups}

\* Collecting without an error misses no duplicate row, however the regions split and
\* move and the streams fail, but for three cases: the region of a failed stream had
\* been split, a row of an index entry was in the last region, or its fetch failed in
\* the last round.
DuplicatesCollected ==
  result = "nil" =>
    \A row \in Wanted \ db :
      shrunk \/ (plan.mode # "rows" /\ (row >= Max(plan.cuts) \/ row \in handles))

\* The collection ends: attempts in which every region fails are counted, and the retries
\* of the local index bounded, so that a store that never answers makes it fail.
Returned == result # "none"
CollectReturns == <>[]Returned

\* Collecting without an error has stored every duplicate row ("We will store the
\* duplicate keys which may be repeated with other keys in local data source").
AllDuplicatesStored == result = "nil" => Wanted \subseteq db
====
