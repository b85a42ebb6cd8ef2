---- MODULE DiskQuotaLock ----
(***************************************************************************)
(* restore.diskQuotaLock, one action per atomic operation: the lock the    *)
(* chunk writers try to share (TryRLock) and the disk quota check takes    *)
(* alone.                                                                  *)
(***************************************************************************)
EXTENDS Integers, FiniteSets

CONSTANTS
  Readers,      \* the deliver loops
  Writers,      \* the disk quota checks
  MaxReaders    \* diskQuotaMaxReaders

ASSUME LockAssumption ==
  /\ IsFiniteSet(Readers) /\ MaxReaders \in Nat /\ Cardinality(Readers) < MaxReaders

VARIABLES
  w,            \* the mutex w: the set of its holders
  readerCount, readerWait,
  rpc, rr,      \* where each reader is, and the count it loaded
  wpc, wr       \* where each writer is, and the readers it counted

vars == <<w, readerCount, readerWait, rpc, rr, wpc, wr>>

ReaderPC == {"out", "cas", "in", "depart", "signal"}
WriterPC == {"out", "announce", "count", "wait", "in", "release"}

\* The variables keep their types.
TypeOK ==
  /\ w \in SUBSET Writers
  /\ readerCount \in -MaxReaders..MaxReaders /\ readerWait \in -MaxReaders..MaxReaders
  /\ rpc \in [Readers -> ReaderPC] /\ rr \in [Readers -> Int]
  /\ wpc \in [Writers -> WriterPC] /\ wr \in [Writers -> Int]

Init ==
  /\ w = {} /\ readerCount = 0 /\ readerWait = 0
  /\ rpc = [p \in Readers |-> "out"] /\ rr = [p \in Readers |-> 0]
  /\ wpc = [p \in Writers |-> "out"] /\ wr = [p \in Writers |-> 0]

----------------------------------------------------------------------------
(* TryRLock and RUnlock.                                                   *)

\* load readerCount; a pending writer makes TryRLock return false, and the
\* deliver loop tries again
TryLoad(p) ==
  /\ rpc[p] = "out" /\ readerCount >= 0
  /\ rpc' = [rpc EXCEPT ![p] = "cas"] /\ rr' = [rr EXCEPT ![p] = readerCount]
  /\ UNCHANGED <<w, readerCount, readerWait, wpc, wr>>

TryFails(p) == rpc[p] = "out" /\ readerCount < 0 /\ UNCHANGED vars

\* the CAS succeeds, or the count is loaded again
TryCAS(p) ==
  /\ rpc[p] = "cas"
  /\ \/ /\ readerCount = rr[p] /\ readerCount' = rr[p] + 1
        /\ rpc' = [rpc EXCEPT ![p] = "in"]
     \/ /\ readerCount # rr[p] /\ UNCHANGED readerCount
        /\ rpc' = [rpc EXCEPT ![p] = "out"]
  /\ UNCHANGED <<w, readerWait, rr, wpc, wr>>

\* RUnlock: a pending writer counts on the reader's departure
RUnlock(p) ==
  /\ rpc[p] = "in" /\ readerCount' = readerCount - 1
  /\ rpc' = [rpc EXCEPT ![p] = IF readerCount - 1 < 0 THEN "depart" ELSE "out"]
  /\ UNCHANGED <<w, readerWait, rr, wpc, wr>>

Depart(p) ==
  /\ rpc[p] = "depart" /\ readerWait' = readerWait - 1
  /\ rpc' = [rpc EXCEPT ![p] = IF readerWait - 1 = 0 THEN "signal" ELSE "out"]
  /\ UNCHANGED <<w, readerCount, rr, wpc, wr>>

\* the last reader unblocks the writer: writerSem is unbuffered
Signal(p, q) ==
  /\ rpc[p] = "signal" /\ wpc[q] = "wait"
  /\ rpc' = [rpc EXCEPT ![p] = "out"] /\ wpc' = [wpc EXCEPT ![q] = "in"]
  /\ UNCHANGED <<w, readerCount, readerWait, rr, wr>>

----------------------------------------------------------------------------
(* Lock and Unlock.                                                        *)

LockW(q) ==
  /\ wpc[q] = "out" /\ w = {} /\ w' = {q} /\ wpc' = [wpc EXCEPT ![q] = "announce"]
  /\ UNCHANGED <<readerCount, readerWait, rpc, rr, wr>>

\* mutant: the active readers are not waited for
MutAnnounce(q) ==
  /\ wpc[q] = "announce" /\ readerCount' = readerCount - MaxReaders
  /\ wr' = [wr EXCEPT ![q] = readerCount] /\ wpc' = [wpc EXCEPT ![q] = "in"]
  /\ UNCHANGED <<w, readerWait, rpc, rr>>

\* announce to readers there is a pending writer
Announce(q) ==
  /\ wpc[q] = "announce" /\ readerCount' = readerCount - MaxReaders
  /\ wr' = [wr EXCEPT ![q] = readerCount]
  /\ wpc' = [wpc EXCEPT ![q] = IF readerCount = 0 THEN "in" ELSE "count"]
  /\ UNCHANGED <<w, readerWait, rpc, rr>>

\* mutant: readerWait is stored, not added to: departures before it are lost
MutCountReaders(q) ==
  /\ wpc[q] = "count" /\ readerWait' = wr[q] /\ wpc' = [wpc EXCEPT ![q] = "wait"]
  /\ UNCHANGED <<w, readerCount, rpc, rr, wr>>

\* wait for active readers, unless they have departed meanwhile
CountReaders(q) ==
  /\ wpc[q] = "count" /\ readerWait' = readerWait + wr[q]
  /\ wpc' = [wpc EXCEPT ![q] = IF readerWait + wr[q] = 0 THEN "in" ELSE "wait"]
  /\ UNCHANGED <<w, readerCount, rpc, rr, wr>>

\* mutant: the announcement is not withdrawn
MutUnlock(q) ==
  /\ wpc[q] = "in" /\ wpc' = [wpc EXCEPT ![q] = "release"]
  /\ UNCHANGED <<w, readerCount, readerWait, rpc, rr, wr>>

Unlock(q) ==
  /\ wpc[q] = "in" /\ readerCount' = readerCount + MaxReaders
  /\ wpc' = [wpc EXCEPT ![q] = "release"]
  /\ UNCHANGED <<w, readerWait, rpc, rr, wr>>

UnlockW(q) ==
  /\ wpc[q] = "release" /\ w' = {} /\ wpc' = [wpc EXCEPT ![q] = "out"]
  /\ UNCHANGED <<readerCount, readerWait, rpc, rr, wr>>

ReaderStep(p) ==
  \/ TryLoad(p) \/ TryFails(p) \/ TryCAS(p) \/ RUnlock(p) \/ Depart(p)
  \/ \E q \in Writers : Signal(p, q)
WriterStep(q) == LockW(q) \/ Announce(q) \/ CountReaders(q) \/ Unlock(q) \/ UnlockW(q)
Next == (\E p \in Readers : ReaderStep(p)) \/ (\E q \in Writers : WriterStep(q))

Spec == Init /\ [][Next]_vars

\* a goroutine in the middle of an operation, or holding the lock, goes on
Fairness ==
  /\ \A p \in Readers : WF_vars(rpc[p] # "out" /\ ReaderStep(p))
  /\ \A q \in Writers : WF_vars(wpc[q] # "out" /\ WriterStep(q))
FairSpec == Spec /\ Fairness

----------------------------------------------------------------------------
(* Properties.                                                             *)

\* The disk quota check never holds the lock together with a writer of rows, or
\* with another check.
MutualExclusion ==
  \A q \in Writers : wpc[q] = "in" =>
    /\ \A p \in Readers : rpc[p] # "in"
    /\ \A q2 \in Writers \ {q} : wpc[q2] # "in"

\* The counters are restored: when no writer is about, readerWait is zero and
\* readerCount is the number of readers that hold the lock, however Lock and
\* RUnlock interleaved before.  The counters never leave the range of an Int32
\* that diskQuotaMaxReaders allows for.
CountersRestored ==
  /\ TypeOK
  /\ w = {} => readerWait = 0 /\ readerCount = Cardinality({p \in Readers : rpc[p] = "in"})

\* A check that announced itself gets the lock: no departure is lost between
\* the announcement and the wait.  Only one check at a time, the one that holds
\* the mutex w, is on its way, and it can only get there.
NoneWaits == \A q \in Writers : wpc[q] \notin {"announce", "count", "wait"}
WriterGetsLock == []<>NoneWaits

----------------------------------------------------------------------------
(* The inductive invariant: what the counters mean while a writer announces *)
(* itself, counts, waits and holds the lock.                               *)

In == {p \in Readers : rpc[p] = "in"}
Departing == {p \in Readers : rpc[p] = "depart"}
Signalling == {p \in Readers : rpc[p] = "signal"}
Active == Cardinality(In) + Cardinality(Departing)
Announced == \E q \in Writers : wpc[q] \in {"count", "wait", "in"}

\* The holder of w is the one writer that is not out.
WOwner == \A q \in Writers : (wpc[q] # "out" => w = {q}) /\ (q \in w => wpc[q] # "out")

\* What readerWait and the readers on their way out are, in each phase of the
\* writer: "count" has not yet added the readers it saw, "wait" is owed one
\* departure by each active reader, and the last one signals it once.
WaitInv ==
  /\ ~Announced => readerWait = 0 /\ Departing = {} /\ Signalling = {}
  /\ \A q \in Writers :
       /\ wpc[q] = "count" => /\ wr[q] > 0 /\ Active <= wr[q] /\ readerWait = Active - wr[q]
                             /\ wr[q] <= Cardinality(Readers) /\ Signalling = {}
       /\ wpc[q] = "wait" => \/ Signalling = {} /\ readerWait = Active /\ Active > 0
                             \/ /\ readerWait = 0 /\ Active = 0
                                /\ \E p \in Readers : Signalling = {p}
       /\ wpc[q] = "in" => readerWait = 0 /\ Active = 0 /\ Signalling = {}

LockInv ==
  /\ TypeOK /\ WOwner /\ WaitInv
  /\ readerCount = Cardinality(In) - (IF Announced THEN MaxReaders ELSE 0)
  /\ \A p \in Readers : rpc[p] = "cas" => rr[p] >= 0
====
