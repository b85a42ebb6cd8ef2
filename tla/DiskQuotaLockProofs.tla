---- MODULE DiskQuotaLockProofs ----
(***************************************************************************)
(* MutualExclusion and CountersRestored of DiskQuotaLock, for any finite   *)
(* number of readers below diskQuotaMaxReaders and any number of writers.  *)
(***************************************************************************)
EXTENDS DiskQuotaLock, FiniteSetTheorems, TLAPS

\* The set of readers in a phase is finite, has at most all readers, and is
\* empty exactly when it has cardinality zero.
LEMMA PhaseCard ==
  ASSUME NEW S \in SUBSET Readers
  PROVE  /\ IsFiniteSet(S) /\ Cardinality(S) \in Nat
         /\ Cardinality(S) <= Cardinality(Readers) /\ Cardinality(Readers) \in Nat
         /\ Cardinality(S) = 0 <=> S = {}
<1>1. IsFiniteSet(Readers) BY LockAssumption
<1>2. IsFiniteSet(S) /\ Cardinality(S) <= Cardinality(Readers) BY <1>1, FS_Subset
<1>3. Cardinality(S) \in Nat /\ Cardinality(Readers) \in Nat BY <1>1, <1>2, FS_CardinalityType
<1>4. Cardinality(S) = 0 <=> S = {} BY <1>2, FS_EmptySet
<1> QED BY <1>1, <1>2, <1>3, <1>4

\* Two disjoint sets of readers have together at most all readers: the readers
\* that hold the lock and those that are leaving are counted once.
LEMMA DisjointCard ==
  ASSUME NEW S \in SUBSET Readers, NEW T \in SUBSET Readers, S \cap T = {}
  PROVE  Cardinality(S) + Cardinality(T) <= Cardinality(Readers)
<1>1. IsFiniteSet(S) /\ IsFiniteSet(T) BY PhaseCard
<1>2. Cardinality(S \cup T) = Cardinality(S) + Cardinality(T) - Cardinality(S \cap T)
  BY <1>1, FS_Union
<1>3. Cardinality(S \cap T) = 0 BY FS_EmptySet
<1>4. S \cup T \in SUBSET Readers OBVIOUS
<1>5. Cardinality(S \cup T) <= Cardinality(Readers) BY <1>4, PhaseCard
<1>6. Cardinality(S) \in Nat /\ Cardinality(T) \in Nat BY PhaseCard
<1> QED BY <1>2, <1>3, <1>5, <1>6

\* A reader that enters or leaves a phase changes its size by one.
LEMMA PhaseAdd ==
  ASSUME NEW S \in SUBSET Readers, NEW p \in Readers
  PROVE  /\ p \notin S => Cardinality(S \cup {p}) = Cardinality(S) + 1
         /\ p \in S => Cardinality(S \ {p}) = Cardinality(S) - 1
<1>1. IsFiniteSet(S) BY PhaseCard
<1>2. p \notin S => Cardinality(S \cup {p}) = Cardinality(S) + 1 BY <1>1, FS_AddElement
<1>3. p \in S => Cardinality(S \ {p}) = Cardinality(S) - 1 BY <1>1, FS_RemoveElement
<1> QED BY <1>2, <1>3

\* The counters start at zero with everyone outside (newDiskQuotaLock).
LEMMA LockInit == Init => LockInv
<1> SUFFICES ASSUME Init PROVE LockInv OBVIOUS
<1> USE DEF Init
<1>1. In = {} /\ Departing = {} /\ Signalling = {} BY DEF In, Departing, Signalling
<1>2. Cardinality({}) = 0 BY FS_EmptySet
<1>3. ~Announced BY DEF Announced
<1>4. TypeOK BY LockAssumption DEF TypeOK, ReaderPC, WriterPC
<1>5. WOwner BY DEF WOwner
<1>6. WaitInv BY <1>1, <1>3 DEF WaitInv
<1>7. readerCount = Cardinality(In) - (IF Announced THEN MaxReaders ELSE 0)
  BY <1>1, <1>2, <1>3
<1> QED BY <1>4, <1>5, <1>6, <1>7 DEF LockInv

\* What is known of the sizes in every state: the phases are disjoint sets of
\* readers.
LEMMA Sizes ==
  /\ In \in SUBSET Readers /\ Departing \in SUBSET Readers /\ Signalling \in SUBSET Readers
  /\ Cardinality(In) \in Nat /\ Cardinality(Departing) \in Nat
  /\ (Cardinality(In) = 0 <=> In = {}) /\ (Cardinality(Departing) = 0 <=> Departing = {})
  /\ Active \in Nat /\ Active <= Cardinality(Readers) /\ Cardinality(Readers) \in Nat
  /\ Cardinality(In) <= Cardinality(Readers)
  /\ MaxReaders \in Nat /\ Cardinality(Readers) < MaxReaders
<1>1. In \in SUBSET Readers /\ Departing \in SUBSET Readers /\ Signalling \in SUBSET Readers
  BY DEF In, Departing, Signalling
<1>2. In \cap Departing = {} BY DEF In, Departing
<1>3. Cardinality(In) + Cardinality(Departing) <= Cardinality(Readers)
  BY <1>1, <1>2, DisjointCard
<1>4. /\ Cardinality(In) \in Nat /\ Cardinality(Departing) \in Nat /\ Cardinality(Readers) \in Nat
      /\ (Cardinality(In) = 0 <=> In = {}) /\ (Cardinality(Departing) = 0 <=> Departing = {})
  BY <1>1, PhaseCard
<1> QED BY <1>1, <1>3, <1>4, LockAssumption DEF Active

\* One writer at a time is announced, so the phase of that writer is the phase
\* of the lock.
LEMMA OneWriter ==
  ASSUME LockInv, NEW q \in Writers, wpc[q] # "out"
  PROVE  \A q2 \in Writers : q2 # q => wpc[q2] = "out"
BY DEF LockInv, WOwner

\* The steps of a reader keep the invariant (TryRLock, RUnlock).
LEMMA ReaderKeeps ==
  ASSUME LockInv, NEW p \in Readers, ReaderStep(p)
  PROVE  LockInv'
<1> USE LockInv DEF LockInv
<1>0. /\ readerCount \in Int /\ readerWait \in Int /\ MaxReaders \in Nat
      /\ rpc \in [Readers -> ReaderPC] /\ rr \in [Readers -> Int]
      /\ wpc \in [Writers -> WriterPC] /\ wr \in [Writers -> Int] /\ w \in SUBSET Writers
  BY LockAssumption DEF TypeOK
<1>1. CASE TryLoad(p)
  <2> USE <1>1 DEF TryLoad
  <2>1. In' = In /\ Departing' = Departing /\ Signalling' = Signalling
    BY <1>0 DEF In, Departing, Signalling
  <2>2. Announced' = Announced BY DEF Announced
  <2>3. Active' = Active BY <2>1 DEF Active
  <2>4. TypeOK' BY <1>0 DEF TypeOK, ReaderPC
  <2>5. WOwner' BY DEF WOwner
  <2>6. WaitInv' BY <2>1, <2>2, <2>3 DEF WaitInv
  <2>7. \A x \in Readers : rpc'[x] = "cas" => rr'[x] >= 0 BY <1>0
  <2>8. readerCount' = Cardinality(In') - (IF Announced' THEN MaxReaders ELSE 0)
    BY <2>1, <2>2
  <2> QED BY <2>4, <2>5, <2>6, <2>7, <2>8
<1>2. CASE TryFails(p)
  <2> USE <1>2 DEF TryFails, vars
  <2>1. In' = In /\ Departing' = Departing /\ Signalling' = Signalling
    BY DEF In, Departing, Signalling
  <2>2. Announced' = Announced /\ Active' = Active BY <2>1 DEF Announced, Active
  <2> QED BY <2>1, <2>2 DEF TypeOK, WOwner, WaitInv
<1>3. CASE TryCAS(p) /\ readerCount = rr[p]
  <2> USE <1>3 DEF TryCAS
  <2>1. In' = In \cup {p} /\ p \notin In /\ Departing' = Departing /\ Signalling' = Signalling
    BY <1>0 DEF In, Departing, Signalling
  <2>2. readerCount >= 0 OBVIOUS
  <2>3. ~Announced
    <3>1. Cardinality(In) - MaxReaders < 0 BY Sizes
    <3>2. Announced => readerCount = Cardinality(In) - MaxReaders OBVIOUS
    <3>3. Cardinality(In) \in Nat /\ MaxReaders \in Nat BY Sizes
    <3> QED BY <1>0, <2>2, <3>1, <3>2, <3>3
  <2>4. Announced' = Announced BY DEF Announced
  <2>5. Cardinality(In') = Cardinality(In) + 1 BY <2>1, PhaseAdd, Sizes
  <2>6. readerCount' = Cardinality(In') - (IF Announced' THEN MaxReaders ELSE 0)
    BY <2>3, <2>4, <2>5, Sizes
  <2>7. Cardinality(In') \in 0..MaxReaders
    <3>1. In' \in SUBSET Readers BY <2>1, Sizes
    <3> QED BY <3>1, PhaseCard, Sizes
  <2>8. TypeOK' BY <1>0, <2>3, <2>4, <2>6, <2>7 DEF TypeOK, ReaderPC
  <2>9. WOwner' BY DEF WOwner
  <2>10. WaitInv'
    <3>1. \A q \in Writers : wpc'[q] \notin {"count", "wait", "in"} BY <2>3 DEF Announced
    <3>2. ~Announced' => readerWait' = 0 /\ Departing' = {} /\ Signalling' = {}
      BY <2>1, <2>3 DEF WaitInv
    <3> QED BY <3>1, <3>2 DEF WaitInv
  <2>11. \A x \in Readers : rpc'[x] = "cas" => rr'[x] >= 0 BY <1>0
  <2> QED BY <2>6, <2>8, <2>9, <2>10, <2>11
<1>4. CASE TryCAS(p) /\ readerCount # rr[p]
  <2> USE <1>4 DEF TryCAS
  <2>1. In' = In /\ Departing' = Departing /\ Signalling' = Signalling
    BY <1>0 DEF In, Departing, Signalling
  <2>2. Announced' = Announced BY DEF Announced
  <2>3. Active' = Active BY <2>1 DEF Active
  <2>4. TypeOK' BY <1>0 DEF TypeOK, ReaderPC
  <2>5. WOwner' BY DEF WOwner
  <2>6. WaitInv' BY <2>1, <2>2, <2>3 DEF WaitInv
  <2>7. \A x \in Readers : rpc'[x] = "cas" => rr'[x] >= 0 BY <1>0
  <2>8. readerCount' = Cardinality(In') - (IF Announced' THEN MaxReaders ELSE 0)
    BY <2>1, <2>2
  <2> QED BY <2>4, <2>5, <2>6, <2>7, <2>8
<1>5. CASE RUnlock(p) /\ ~Announced
  <2> USE <1>5 DEF RUnlock
  <2>0. p \in In BY DEF In
  <2>1. readerCount = Cardinality(In) /\ Cardinality(In) > 0 BY <2>0, Sizes
  <2>2. rpc' = [rpc EXCEPT ![p] = "out"]
    <3>1. ~(readerCount - 1 < 0) BY <2>1, Sizes
    <3> QED BY <3>1, Zenon
  <2>3. In' = In \ {p} /\ Departing' = Departing /\ Signalling' = Signalling
    BY <1>0, <2>2 DEF In, Departing, Signalling
  <2>4. Cardinality(In') = Cardinality(In) - 1 BY <2>0, <2>3, PhaseAdd, Sizes
  <2>5. Announced' = Announced BY DEF Announced
  <2>6. readerCount' = Cardinality(In') - (IF Announced' THEN MaxReaders ELSE 0)
    BY <2>1, <2>4, <2>5, Sizes
  <2>7. TypeOK' BY <1>0, <2>1, <2>2, Sizes DEF TypeOK, ReaderPC
  <2>8. WOwner' BY DEF WOwner
  <2>9. WaitInv'
    <3>1. \A q \in Writers : wpc'[q] \notin {"count", "wait", "in"} BY DEF Announced
    <3>2. ~Announced' => readerWait' = 0 /\ Departing' = {} /\ Signalling' = {}
      BY <2>3 DEF WaitInv
    <3> QED BY <3>1, <3>2 DEF WaitInv
  <2>10. \A x \in Readers : rpc'[x] = "cas" => rr'[x] >= 0 BY <1>0, <2>2
  <2> QED BY <2>6, <2>7, <2>8, <2>9, <2>10
<1>6. CASE RUnlock(p) /\ Announced
  <2> USE <1>6 DEF RUnlock
  <2>0. p \in In BY DEF In
  <2>1. readerCount = Cardinality(In) - MaxReaders /\ Cardinality(In) > 0 BY <2>0, Sizes
  <2>2. rpc' = [rpc EXCEPT ![p] = "depart"]
    <3>1. readerCount - 1 < 0 BY <2>1, Sizes
    <3> QED BY <3>1, Zenon
  <2>3. /\ In' = In \ {p} /\ Departing' = Departing \cup {p} /\ Signalling' = Signalling
        /\ p \notin Departing
    BY <1>0, <2>2 DEF In, Departing, Signalling
  <2>4. Cardinality(In') = Cardinality(In) - 1 BY <2>0, <2>3, PhaseAdd, Sizes
  <2>5. Cardinality(Departing') = Cardinality(Departing) + 1 BY <2>3, PhaseAdd, Sizes
  <2>6. Active' = Active BY <2>4, <2>5, Sizes DEF Active
  <2>7. Announced' = Announced BY DEF Announced
  <2>8. readerCount' = Cardinality(In') - (IF Announced' THEN MaxReaders ELSE 0)
    BY <2>1, <2>4, <2>7, Sizes
  <2>9. TypeOK' BY <1>0, <2>1, <2>2, Sizes DEF TypeOK, ReaderPC
  <2>10. WOwner' BY DEF WOwner
  <2>11. WaitInv' BY <2>3, <2>6, <2>7 DEF WaitInv
  <2>12. \A x \in Readers : rpc'[x] = "cas" => rr'[x] >= 0 BY <1>0, <2>2
  <2> QED BY <2>8, <2>9, <2>10, <2>11, <2>12
<1>7. CASE Depart(p)
  <2> USE <1>7 DEF Depart
  <2>0. p \in Departing /\ Active > 0
    <3>1. p \in Departing BY DEF Departing
    <3> QED BY <3>1, Sizes DEF Active
  <2>1. Announced BY <2>0 DEF WaitInv
  <2>2. PICK q \in Writers : wpc[q] \in {"count", "wait", "in"} BY <2>1 DEF Announced
  <2>3. \A q2 \in Writers : q2 # q => wpc[q2] = "out" BY <2>2, OneWriter
  <2>4. /\ In' = In /\ Departing' = Departing \ {p}
    BY <1>0 DEF In, Departing
  <2>5. Active' = Active - 1
    <3>1. Cardinality(Departing') = Cardinality(Departing) - 1 BY <2>0, <2>4, PhaseAdd, Sizes
    <3> QED BY <2>4, <3>1, Sizes DEF Active
  <2>6. Announced' /\ wpc' = wpc /\ wr' = wr BY <2>1 DEF Announced
  <2>7. readerCount' = Cardinality(In') - (IF Announced' THEN MaxReaders ELSE 0)
    BY <2>1, <2>4, <2>6
  <2>8. wpc[q] # "in" BY <2>0, Sizes DEF WaitInv
  <2>9. Signalling = {}
    <3>1. CASE wpc[q] = "count" BY <3>1 DEF WaitInv
    <3>2. CASE wpc[q] = "wait" BY <2>0, <3>2, Sizes DEF WaitInv
    <3> QED BY <2>2, <2>8, <3>1, <3>2
  <2>10. WOwner' BY DEF WOwner
  <2>11. \A x \in Readers : rpc'[x] = "cas" => rr'[x] >= 0 BY <1>0
  <2>12. CASE wpc[q] = "count"
    <3>1. /\ wr[q] > 0 /\ Active <= wr[q] /\ readerWait = Active - wr[q]
          /\ wr[q] <= Cardinality(Readers)
      BY <2>12 DEF WaitInv
    <3>2. readerWait - 1 # 0 /\ wr[q] \in Int BY <1>0, <3>1, Sizes
    <3>3. rpc' = [rpc EXCEPT ![p] = "out"] BY <3>2
    <3>4. Signalling' = {} BY <1>0, <2>9, <3>3 DEF Signalling
    <3>5. TypeOK' BY <1>0, <3>1, <3>2, <3>3, <2>0, Sizes DEF TypeOK, ReaderPC
    <3>6. /\ Active' <= wr'[q] /\ readerWait' = Active' - wr'[q]
      BY <2>5, <2>6, <3>1, <3>2, Sizes
    <3>7. WaitInv' BY <2>3, <2>6, <2>12, <3>1, <3>4, <3>6 DEF WaitInv
    <3> QED BY <2>7, <2>10, <2>11, <3>5, <3>7
  <2>13. CASE wpc[q] = "wait"
    <3>1. readerWait = Active BY <2>0, <2>13, Sizes DEF WaitInv
    <3>2. readerWait' = Active' BY <2>5, <3>1
    <3>3. TypeOK' BY <1>0, <2>0, <3>1, Sizes DEF TypeOK, ReaderPC
    <3>4. CASE Active = 1
      <4>1. rpc' = [rpc EXCEPT ![p] = "signal"]
        <5>1. readerWait - 1 = 0 BY <3>1, <3>4
        <5> QED BY <5>1, Zenon
      <4>2. Signalling' = {p} BY <1>0, <2>9, <4>1 DEF Signalling
      <4>3. readerWait' = 0 /\ Active' = 0
        <5>1. readerWait' = 0 BY <3>1, <3>4
        <5> QED BY <3>2, <5>1, Zenon
      <4>4. WaitInv' BY <2>3, <2>6, <2>13, <4>2, <4>3 DEF WaitInv
      <4> QED BY <2>7, <2>10, <2>11, <3>3, <4>4
    <3>5. CASE Active # 1
      <4>1. rpc' = [rpc EXCEPT ![p] = "out"]
        <5>1. readerWait - 1 # 0 BY <3>1, <3>5, Sizes
        <5> QED BY <5>1, Zenon
      <4>2. Signalling' = {} BY <1>0, <2>9, <4>1 DEF Signalling
      <4>3. Active' > 0 BY <2>0, <2>5, <3>5, Sizes
      <4>4. WaitInv' BY <2>3, <2>6, <2>13, <3>2, <4>2, <4>3 DEF WaitInv
      <4> QED BY <2>7, <2>10, <2>11, <3>3, <4>4
    <3> QED BY <3>4, <3>5
  <2> QED BY <2>2, <2>8, <2>12, <2>13
<1>8. ASSUME NEW q \in Writers, Signal(p, q) PROVE LockInv'
  <2> USE <1>8 DEF Signal
  <2>0. p \in Signalling BY DEF Signalling
  <2>1. \A q2 \in Writers : q2 # q => wpc[q2] = "out" BY OneWriter
  <2>2. readerWait = 0 /\ Active = 0 /\ Signalling = {p} BY <2>0 DEF WaitInv
  <2>3. In' = In /\ Departing' = Departing /\ Signalling' = {}
    BY <1>0, <2>2 DEF In, Departing, Signalling
  <2>4. Active' = 0 BY <2>2, <2>3 DEF Active
  <2>5. Announced /\ Announced' BY <1>0 DEF Announced
  <2>6. TypeOK' BY <1>0 DEF TypeOK, ReaderPC, WriterPC
  <2>7. WOwner' BY <1>0 DEF WOwner
  <2>8. WaitInv' BY <1>0, <2>1, <2>2, <2>3, <2>4, <2>5 DEF WaitInv
  <2>9. readerCount' = Cardinality(In') - (IF Announced' THEN MaxReaders ELSE 0)
    BY <2>3, <2>5
  <2>10. \A x \in Readers : rpc'[x] = "cas" => rr'[x] >= 0 BY <1>0
  <2> QED BY <2>6, <2>7, <2>8, <2>9, <2>10
<1> QED BY <1>1, <1>2, <1>3, <1>4, <1>5, <1>6, <1>7, <1>8 DEF ReaderStep

\* The steps of a writer keep the invariant (Lock, Unlock).
LEMMA WriterKeeps ==
  ASSUME LockInv, NEW q \in Writers, WriterStep(q)
  PROVE  LockInv'
<1> USE LockInv DEF LockInv
<1>0. /\ readerCount \in Int /\ readerWait \in Int /\ MaxReaders \in Nat
      /\ rpc \in [Readers -> ReaderPC] /\ rr \in [Readers -> Int]
      /\ wpc \in [Writers -> WriterPC] /\ wr \in [Writers -> Int] /\ w \in SUBSET Writers
  BY LockAssumption DEF TypeOK
<1>1. rpc' = rpc /\ rr' = rr /\ wpc' \in [Writers -> WriterPC] /\ wr' \in [Writers -> Int]
      /\ \A q2 \in Writers : q2 # q => wpc'[q2] = wpc[q2] /\ wr'[q2] = wr[q2]
  BY <1>0 DEF WriterStep, LockW, Announce, CountReaders, Unlock, UnlockW, WriterPC
<1>2. In' = In /\ Departing' = Departing /\ Signalling' = Signalling /\ Active' = Active
  BY <1>1 DEF In, Departing, Signalling, Active
<1>3. \A x \in Readers : rpc'[x] = "cas" => rr'[x] >= 0 BY <1>1
<1>4. CASE LockW(q)
  <2> USE <1>4 DEF LockW
  <2>1. \A q2 \in Writers : wpc[q2] = "out" BY DEF WOwner
  <2>2. ~Announced /\ ~Announced' BY <1>0, <1>1, <2>1 DEF Announced
  <2>3. TypeOK' BY <1>0, <1>1 DEF TypeOK
  <2>4. WOwner' BY <1>0, <2>1 DEF WOwner
  <2>5. WaitInv' BY <1>0, <1>1, <1>2, <2>2 DEF WaitInv, Announced
  <2>6. readerCount' = Cardinality(In') - (IF Announced' THEN MaxReaders ELSE 0)
    BY <1>2, <2>2
  <2> QED BY <1>3, <2>3, <2>4, <2>5, <2>6
<1>5. CASE Announce(q)
  <2> USE <1>5 DEF Announce
  <2>1. \A q2 \in Writers : q2 # q => wpc[q2] = "out" BY OneWriter
  <2>2. ~Announced BY <2>1 DEF Announced
  <2>3. readerWait = 0 /\ Departing = {} /\ Signalling = {} BY <2>2 DEF WaitInv
  <2>4. readerCount = Active /\ Active = Cardinality(In)
    BY <2>2, <2>3, Sizes DEF Active
  <2>5. Announced' BY <1>0, <1>1 DEF Announced
  <2>6. readerCount' = Cardinality(In') - (IF Announced' THEN MaxReaders ELSE 0)
    BY <1>2, <2>4, <2>5
  <2>7. TypeOK' BY <1>0, <1>1, <2>4, Sizes DEF TypeOK
  <2>8. WOwner' BY <1>0, <2>1 DEF WOwner
  <2>9. CASE readerCount = 0
    <3>1. wpc'[q] = "in" BY <1>0, <2>9
    <3>2. WaitInv' BY <1>1, <1>2, <2>1, <2>3, <2>4, <2>5, <2>9, <3>1 DEF WaitInv
    <3> QED BY <1>3, <2>6, <2>7, <2>8, <3>2
  <2>10. CASE readerCount # 0
    <3>1. wpc'[q] = "count" /\ wr'[q] = Active BY <1>0, <2>4, <2>10
    <3>2. Active > 0 /\ Active <= Cardinality(Readers) BY <2>4, <2>10, Sizes
    <3>3. readerWait' = Active' - wr'[q] BY <1>2, <2>3, <3>1, Sizes
    <3>4. Active' <= wr'[q] BY <1>2, <3>1, Sizes
    <3>5. WaitInv' BY <1>1, <1>2, <2>1, <2>3, <2>5, <3>1, <3>2, <3>3, <3>4 DEF WaitInv
    <3> QED BY <1>3, <2>6, <2>7, <2>8, <3>5
  <2> QED BY <2>9, <2>10
<1>6. CASE CountReaders(q)
  <2> USE <1>6 DEF CountReaders
  <2>1. \A q2 \in Writers : q2 # q => wpc[q2] = "out" BY OneWriter
  <2>2. /\ wr[q] > 0 /\ Active <= wr[q] /\ readerWait = Active - wr[q]
        /\ wr[q] <= Cardinality(Readers) /\ Signalling = {}
    BY DEF WaitInv
  <2>3. readerWait' = Active /\ readerWait + wr[q] = Active BY <1>0, <2>2, Sizes
  <2>4. Announced /\ Announced' BY <1>0, <1>1 DEF Announced
  <2>5. readerCount' = Cardinality(In') - (IF Announced' THEN MaxReaders ELSE 0)
    BY <1>2, <2>4
  <2>6. TypeOK' BY <1>0, <1>1, <2>3, Sizes DEF TypeOK
  <2>7. WOwner' BY <1>0, <2>1 DEF WOwner
  <2>8. CASE Active = 0
    <3>1. wpc'[q] = "in" BY <1>0, <2>3, <2>8
    <3>2. WaitInv' BY <1>1, <1>2, <2>1, <2>2, <2>3, <2>4, <2>8, <3>1 DEF WaitInv
    <3> QED BY <1>3, <2>5, <2>6, <2>7, <3>2
  <2>9. CASE Active # 0
    <3>1. wpc'[q] = "wait" /\ Active > 0 BY <1>0, <2>3, <2>9, Sizes
    <3>2. WaitInv' BY <1>1, <1>2, <2>1, <2>2, <2>3, <2>4, <3>1 DEF WaitInv
    <3> QED BY <1>3, <2>5, <2>6, <2>7, <3>2
  <2> QED BY <2>8, <2>9
<1>7. CASE Unlock(q)
  <2> USE <1>7 DEF Unlock
  <2>1. \A q2 \in Writers : q2 # q => wpc[q2] = "out" BY OneWriter
  <2>2. readerWait = 0 /\ Active = 0 /\ Signalling = {} BY DEF WaitInv
  <2>3. Departing = {} /\ Cardinality(In) = 0 BY <2>2, Sizes DEF Active
  <2>4. wpc'[q] = "release" BY <1>0
  <2>5. Announced /\ ~Announced' BY <1>1, <2>1, <2>4 DEF Announced
  <2>6. readerCount' = Cardinality(In') - (IF Announced' THEN MaxReaders ELSE 0)
    BY <1>0, <1>2, <2>3, <2>5
  <2>7. TypeOK' BY <1>0, <1>1, <2>3, <2>5 DEF TypeOK
  <2>8. WOwner' BY <1>0, <2>1, <2>4 DEF WOwner
  <2>9. WaitInv' BY <1>1, <1>2, <2>1, <2>2, <2>3, <2>4 DEF WaitInv
  <2> QED BY <1>3, <2>6, <2>7, <2>8, <2>9
<1>8. CASE UnlockW(q)
  <2> USE <1>8 DEF UnlockW
  <2>1. \A q2 \in Writers : q2 # q => wpc[q2] = "out" BY OneWriter
  <2>2. \A q2 \in Writers : wpc'[q2] = "out" BY <1>0, <1>1, <2>1
  <2>3. ~Announced BY <2>1 DEF Announced
  <2>4. ~Announced' BY <2>2 DEF Announced
  <2>5. TypeOK' BY <1>0, <1>1 DEF TypeOK
  <2>6. WOwner' BY <2>2 DEF WOwner
  <2>7. WaitInv' BY <1>2, <2>2, <2>3 DEF WaitInv
  <2>8. readerCount' = Cardinality(In') - (IF Announced' THEN MaxReaders ELSE 0)
    BY <1>2, <2>3, <2>4
  <2> QED BY <1>3, <2>5, <2>6, <2>7, <2>8
<1> QED BY <1>4, <1>5, <1>6, <1>7, <1>8 DEF WriterStep

\* Every step of the lock keeps the invariant.
LEMMA LockNext == LockInv /\ [Next]_vars => LockInv'
<1> SUFFICES ASSUME LockInv, [Next]_vars PROVE LockInv' OBVIOUS
<1>1. ASSUME NEW p \in Readers, ReaderStep(p) PROVE LockInv' BY <1>1, ReaderKeeps
<1>2. ASSUME NEW q \in Writers, WriterStep(q) PROVE LockInv' BY <1>2, WriterKeeps
<1>3. CASE UNCHANGED vars
  <2>1. In' = In /\ Departing' = Departing /\ Signalling' = Signalling
    BY <1>3 DEF vars, In, Departing, Signalling
  <2>2. Announced' = Announced /\ Active' = Active BY <1>3, <2>1 DEF vars, Announced, Active
  <2> QED BY <1>3, <2>1, <2>2 DEF vars, LockInv, TypeOK, WOwner, WaitInv
<1> QED BY <1>1, <1>2, <1>3 DEF Next

\* The disk quota check holds the lock alone: never together with a writer of
\* rows or with another check, for any number of goroutines (diskQuotaLock).
THEOREM LockExcludes == Spec => []MutualExclusion
<1>1. LockInv => MutualExclusion
  <2> SUFFICES ASSUME LockInv, NEW q \in Writers, wpc[q] = "in"
      PROVE  /\ \A p \in Readers : rpc[p] # "in"
             /\ \A q2 \in Writers \ {q} : wpc[q2] # "in"
    BY DEF MutualExclusion
  <2>1. Active = 0 BY DEF LockInv, WaitInv
  <2>2. In = {} BY <2>1, Sizes DEF Active
  <2>3. \A p \in Readers : rpc[p] # "in" BY <2>2 DEF In
  <2>4. \A q2 \in Writers \ {q} : wpc[q2] # "in" BY OneWriter
  <2> QED BY <2>3, <2>4
<1> QED BY <1>1, LockInit, LockNext, PTL DEF Spec

\* When no check holds or awaits the lock, readerWait is zero and readerCount
\* counts the readers: Lock, Unlock and RUnlock leave nothing behind
\* (diskQuotaLock), however they interleave.
THEOREM LockRestores == Spec => []CountersRestored
<1>1. LockInv => CountersRestored
  <2> SUFFICES ASSUME LockInv, w = {}
      PROVE  readerWait = 0 /\ readerCount = Cardinality({p \in Readers : rpc[p] = "in"})
    BY DEF CountersRestored, LockInv
  <2>1. \A q \in Writers : wpc[q] = "out" BY DEF LockInv, WOwner
  <2>2. ~Announced BY <2>1 DEF Announced
  <2> QED BY <2>2, Sizes DEF LockInv, WaitInv, In
<1> QED BY <1>1, LockInit, LockNext, PTL DEF Spec

\* The counters stay within diskQuotaMaxReaders, so an Int32 holds them.
THEOREM LockTypes == Spec => []TypeOK
<1>1. LockInv => TypeOK BY DEF LockInv
<1> QED BY <1>1, LockInit, LockNext, PTL DEF Spec
====
