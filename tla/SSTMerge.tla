---- MODULE SSTMerge ----
(***************************************************************************)
(* The rows of one local.Writer on their way into SSTs: the write batch    *)
(* with its "already sorted" flag (appendRowsUnsorted, flushKVs), and the  *)
(* compaction of several SSTs into one (dbSSTIngester.mergeSSTs over a     *)
(* heap of iterators).  Keys are numbers; 0 is the zero value of a slot of *)
(* the preallocated batch.                                                 *)
(***************************************************************************)
EXTENDS Integers, Sequences, FiniteSets, SequencesExt

CONSTANTS
  Keys,         \* the keys of the rows
  MaxRows,      \* bound on the rows appended
  MaxAppend,    \* bound on the rows of one AppendRows
  Prealloc,     \* length of the preallocated writeBatch
  Limits,       \* the values memtableSizeLimit may have, in rows
  MergeWidth    \* SSTs compacted together (CompactThreshold)

VARIABLES
  limit,        \* memtableSizeLimit
  writeBatch, batchCount, isWriteBatchSorted,
  appended,     \* history: the keys appended, in order
  ssts,         \* the SSTs written, each a sequence of keys
  pc,           \* where mergeSSTs is
  iters,        \* the unread keys of each SST being merged
  key, lastKey, out,
  merged        \* the compacted SSTs

batchVars == <<limit, writeBatch, batchCount, isWriteBatchSorted, appended>>
mergeVars == <<pc, iters, key, lastKey, out, merged>>
vars == <<batchVars, ssts, mergeVars>>

Ascending(s) == \A i \in 1..(Len(s) - 1) : s[i] <= s[i + 1]
Batch == SubSeq(writeBatch, 1, batchCount)
Count(s, k) == Cardinality({i \in DOMAIN s : s[i] = k})

\* The variables keep their types.
TypeOK ==
  /\ writeBatch \in Seq(Keys \cup {0}) /\ batchCount \in 0..Len(writeBatch)
  /\ isWriteBatchSorted \in BOOLEAN /\ Len(appended) <= MaxRows
  /\ ssts \in Seq(Seq(Keys)) /\ pc \in {"idle", "open", "loop"} /\ iters \in Seq(Seq(Keys))
  /\ key \in Keys \cup {0} /\ lastKey \in Keys \cup {0} /\ out \in Seq(Keys)
  /\ merged \in Seq(Seq(Keys))

Init ==
  /\ limit \in Limits
  /\ writeBatch = [i \in 1..Prealloc |-> 0] /\ batchCount = 0 /\ isWriteBatchSorted = TRUE
  /\ appended = <<>> /\ ssts = <<>>
  /\ pc = "idle" /\ iters = <<>> /\ key = 0 /\ lastKey = 0 /\ out = <<>> /\ merged = <<>>

----------------------------------------------------------------------------
(* The write batch.                                                        *)

\* flushKVs of a batch: sort it unless it is known to be sorted, write the SST
FlushKVs(batch, sorted) ==
  ssts' = Append(ssts, IF sorted THEN batch ELSE SortSeq(batch, <))

\* the key the first appended key is compared with
PreviousKey == IF writeBatch = <<>> THEN 0 ELSE writeBatch[Len(writeBatch)]

\* appendRowsUnsorted: fill the batch, track its order, flush it when it is full
AppendRows(kvs) ==
  LET n == Len(kvs)
      sorted == isWriteBatchSorted /\ Ascending(<<PreviousKey>> \o kvs)
      filled == [i \in 1..(IF batchCount + n > Len(writeBatch) THEN batchCount + n ELSE Len(writeBatch)) |->
                   IF i \in batchCount + 1..batchCount + n THEN kvs[i - batchCount] ELSE writeBatch[i]]
  IN /\ Len(appended) + n <= MaxRows /\ appended' = appended \o kvs
     /\ IF batchCount + n > limit
        THEN /\ FlushKVs(SubSeq(filled, 1, batchCount + n), sorted)
             /\ isWriteBatchSorted' = TRUE /\ batchCount' = 0
             /\ writeBatch' = IF sorted THEN filled
                ELSE SortSeq(SubSeq(filled, 1, batchCount + n), <)
                     \o SubSeq(filled, batchCount + n + 1, Len(filled))
        ELSE /\ writeBatch' = filled /\ batchCount' = batchCount + n
             /\ isWriteBatchSorted' = sorted /\ UNCHANGED ssts
     /\ UNCHANGED <<limit, mergeVars>>

----------------------------------------------------------------------------
(* mergeSSTs.                                                              *)


\* sstIterHeap.Next: the smallest head of the iterators, and what is unread then
Smallest == {i \in DOMAIN iters : iters[i] # <<>> /\
               \A j \in DOMAIN iters : iters[j] # <<>> => iters[i][1] <= iters[j][1]}
NextKey(i) == key' = iters[i][1] /\ iters' = [iters EXCEPT ![i] = Tail(@)]

\* take the SSTs of a batch and write their smallest key first
StartMerge ==
  /\ pc = "idle" /\ Len(ssts) >= MergeWidth
  /\ pc' = "open" /\ iters' = SubSeq(ssts, 1, MergeWidth)
  /\ ssts' = SubSeq(ssts, MergeWidth + 1, Len(ssts))
  /\ key' = 0 /\ lastKey' = 0 /\ out' = <<>>
  /\ UNCHANGED <<batchVars, merged>>

OpenIters ==
  /\ pc = "open" /\ \E i \in Smallest : NextKey(i)
  /\ pc' = "loop" /\ UNCHANGED <<batchVars, ssts, lastKey, out, merged>>

\* one round of the loop: a key equal to the last one is skipped (the loop
\* continues with the same key), another is written and the next one fetched
MergeStep ==
  /\ pc = "loop"
  /\ \/ key = lastKey /\ UNCHANGED mergeVars
     \/ /\ key # lastKey /\ out' = Append(out, key) /\ lastKey' = key
        /\ \/ /\ \E i \in Smallest : NextKey(i)
              /\ UNCHANGED <<pc, merged>>
           \/ /\ Smallest = {} /\ key' = 0 /\ pc' = "idle"
              /\ merged' = Append(merged, Append(out, key)) /\ UNCHANGED iters
  /\ UNCHANGED <<batchVars, ssts>>

Batches == UNION {[1..n -> Keys] : n \in 1..MaxAppend}
Next == (\E kvs \in Batches : AppendRows(kvs)) \/ StartMerge \/ OpenIters \/ MergeStep
Spec == Init /\ [][Next]_vars
FairSpec == Spec /\ WF_vars(OpenIters) /\ WF_vars(MergeStep)

----------------------------------------------------------------------------
(* Properties.                                                             *)

\* Every SST is in key order, compacted or not, when each AppendRows fills a
\* batch: between two of one batch, the flag is computed from the wrong slot.
SSTsSorted == limit = 0 => \A s \in Range(ssts) \cup Range(merged) : Ascending(s)

\* No row is lost or doubled between the batch, the SSTs and a compaction.
RowsKept ==
  TypeOK /\ \A k \in Keys : Count(appended, k) =
    Count(Batch \o FlattenSeq(ssts) \o FlattenSeq(merged), k)
    + IF pc = "idle" THEN 0 ELSE Count(FlattenSeq(iters) \o <<key>> \o out, k)

\* A compaction ends as long as no key is written twice; on a key that it has just
\* written mergeSSTs goes round its loop without fetching another, for ever.
MergeRuns == pc = "loop" /\ IsInjective(appended)
DistinctMergeEnds == MergeRuns ~> ~MergeRuns
====
