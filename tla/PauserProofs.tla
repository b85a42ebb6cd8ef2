---------------------------- MODULE PauserProofs ----------------------------
(***************************************************************************)
(* The spin lock of a Pauser excludes, for every set of goroutines, and a  *)
(* Pauser is a Gate: the refinement mapping is Closed and Held of Pauser.  *)
(***************************************************************************)
EXTENDS Pauser, TLAPS

\* A goroutine that goes to l leaves the others where they are.
LEMMA Moved ==
  ASSUME gpc \in [Goroutines -> Places], NEW p \in Goroutines, NEW l \in Places, Goto(p, l)
  PROVE  /\ gpc' \in [Goroutines -> Places] /\ gpc'[p] = l
         /\ \A q \in Goroutines \ {p} : gpc'[q] = gpc[q]
BY DEF Goto

\* Nobody is in the lock at the start.
LEMMA InitSpinLock == PauserInit => SpinLockInv
BY DEF PauserInit, SpinLockInv, Owner, Places

\* Call, and a load at the head of a loop, happen outside the lock.
LEMMA OutsideKeeps ==
  ASSUME SpinLockInv, NEW p \in Goroutines, Call(p) \/ Load(p) \/ Close(p) \/ Woken(p) \/ Done(p)
  PROVE  SpinLockInv' /\ Closed' = Closed /\ Held' = Held
<1> USE DEF SpinLockInv
<1>1. PICK l \in Places \ {"take", "run", "add", "store", "delete", "restore"} :
        Goto(p, l) /\ (l = "cancelCAS" => old'[p] # "locked")
  <2>1. gpc = [gpc EXCEPT ![p] = gpc[p]]
    OBVIOUS
  <2> QED BY <2>1 DEF Call, Load, Close, Woken, Done, Goto, Places
<1>2. gpc[p] \notin {"take", "run", "add", "store", "delete", "restore"}
  BY DEF Call, Load, Close, Woken, Done
<1>3. /\ gpc' \in [Goroutines -> Places] /\ gpc'[p] = l
      /\ \A q \in Goroutines \ {p} : gpc'[q] = gpc[q]
  BY <1>1, Moved
<1>4. /\ state' = state /\ waiters' = waiters
      /\ old' \in [Goroutines -> {"running", "paused", "locked"}]
      /\ taken' \in [Goroutines -> SUBSET Goroutines]
      /\ \A q \in Goroutines \ {p} : old'[q] = old[q] /\ taken'[q] = taken[q]
  BY DEF Call, Load, Close, Woken, Done
<1>5. \A q \in Goroutines : Owner(q)' <=> Owner(q)
  BY <1>1, <1>2, <1>3 DEF Owner
<1>6. SpinLockInv'
  BY <1>1, <1>3, <1>4, <1>5
<1>7. Closed' = Closed
  BY <1>1, <1>2, <1>3, <1>4 DEF Closed
<1>8. {q \in Goroutines : gpc'[q] = "run"} = {q \in Goroutines : gpc[q] = "run"}
  BY <1>1, <1>2, <1>3
<1>9. Held' = Held
  BY <1>2, <1>4, <1>8 DEF Held
<1> QED BY <1>6, <1>7, <1>9

\* A swap is won by a goroutine that finds the word unlocked, so that nobody else has the
\* lock; the gate closes when Pause wins, and stays as it is otherwise.
LEMMA SwapKeeps ==
  ASSUME SpinLockInv, NEW p \in Goroutines, CompareAndSwap(p)
  PROVE  SpinLockInv' /\ [TheGate!GateNext]_<<Closed, Held>>
<1> USE DEF SpinLockInv
<1>1. PICK l \in Places : Goto(p, l)
  BY DEF CompareAndSwap, Swap, Places
<1>2. /\ gpc' \in [Goroutines -> Places] /\ gpc'[p] = l
      /\ \A q \in Goroutines \ {p} : gpc'[q] = gpc[q]
  BY <1>1, Moved
<1>3. /\ waiters' = waiters /\ old' = old /\ taken' = taken
      /\ gpc[p] \in {"pauseCAS", "resumeCAS", "waitCAS", "cancelCAS"} /\ gpc'[p] # "run"
  BY <1>2 DEF CompareAndSwap, Swap, Goto
<1>4. {q \in Goroutines : gpc'[q] = "run"} = {q \in Goroutines : gpc[q] = "run"}
  BY <1>2, <1>3
<1>5. Held' = Held
  BY <1>3, <1>4 DEF Held
<1>6. CASE state' = state /\ gpc'[p] \in {"pause", "resume", "wait", "cancel"}
  <2>1. \A q \in Goroutines : Owner(q)' <=> Owner(q)
    BY <1>2, <1>3, <1>6 DEF Owner
  <2>2. SpinLockInv'
    BY <1>2, <1>3, <1>6, <2>1
  <2>3. Closed' = Closed
    BY <1>2, <1>3, <1>6 DEF Closed
  <2> QED BY <1>5, <2>2, <2>3
<1>7. CASE gpc[p] = "pauseCAS" /\ state = "running" /\ state' = "paused" /\ gpc'[p] = "idle"
  <2>1. \A q \in Goroutines : ~Owner(q) /\ ~Owner(q)'
    BY <1>2, <1>7 DEF Owner
  <2>2. SpinLockInv'
    BY <1>2, <1>3, <1>7, <2>1 DEF Owner
  <2>3. Closed' = TRUE
    BY <1>7 DEF Closed
  <2>4. TheGate!Pause
    BY <1>5, <2>3 DEF TheGate!Pause
  <2> QED BY <2>2, <2>4 DEF TheGate!GateNext
<1>8. CASE /\ state' = "locked" /\ state \in {"running", "paused"}
           /\ gpc'[p] \in {"take", "add", "delete"}
           /\ gpc'[p] = "delete" => gpc[p] = "cancelCAS" /\ state = old[p]
           /\ gpc'[p] # "delete" => state = "paused"
  <2>1. \A q \in Goroutines : ~Owner(q) /\ (Owner(q)' <=> q = p)
    BY <1>2, <1>8 DEF Owner
  <2>2. SpinLockInv'
    BY <1>2, <1>3, <1>8, <2>1 DEF Owner
  <2>3. \A q \in Goroutines \ {p} : gpc'[q] \notin {"delete", "restore"}
    BY <2>1 DEF Owner
  <2>4. Closed' = Closed
    BY <1>3, <1>8, <2>3 DEF Closed
  <2> QED BY <1>5, <2>2, <2>4
<1> QED
  <2>1. gpc'[p] = l /\ (\A k \in Places : Goto(p, k) => gpc'[p] = k)
    BY <1>2, Moved
  <2> QED BY <1>6, <1>7, <1>8, <2>1 DEF CompareAndSwap, Swap, Places

\* The goroutine that has the lock, and nobody else, changes the map and the word.
LEMMA InsideKeeps ==
  ASSUME SpinLockInv, NEW p \in Goroutines,
         Take(p) \/ Run(p) \/ Add(p) \/ Store(p) \/ Delete(p) \/ Restore(p)
  PROVE  SpinLockInv' /\ [TheGate!GateNext]_<<Closed, Held>>
<1> USE DEF SpinLockInv
<1>1. PICK l \in {"run", "close", "store", "blocked", "restore", "idle"} : Goto(p, l)
  BY DEF Take, Run, Add, Store, Delete, Restore
<1>2. /\ gpc' \in [Goroutines -> Places] /\ gpc'[p] = l
      /\ \A q \in Goroutines \ {p} : gpc'[q] = gpc[q]
  BY <1>1, Moved DEF Places
<1>3. Owner(p) /\ state = "locked" /\ \A q \in Goroutines \ {p} : ~Owner(q) /\ ~Owner(q)'
  BY <1>2 DEF Owner, Take, Run, Add, Store, Delete, Restore
<1>4. SpinLockInv'
  BY <1>2, <1>3 DEF Owner, Take, Run, Add, Store, Delete, Restore, Goto
<1>5. CASE Take(p)
  <2>1. /\ {q \in Goroutines : gpc[q] = "run"} = {} /\ {q \in Goroutines : gpc'[q] = "run"} = {p}
        /\ taken'[p] = waiters /\ waiters' = {}
    BY <1>2, <1>3, <1>5 DEF Owner, Take, Goto
  <2>2. Held' = Held
    BY <2>1 DEF Held
  <2>3. Closed' = Closed
    BY <1>2, <1>3, <1>5 DEF Closed, Owner, Take, Goto
  <2> QED BY <1>4, <2>2, <2>3
<1>6. CASE Run(p)
  <2>1. {q \in Goroutines : gpc'[q] = "run"} = {} /\ waiters' = {}
    BY <1>2, <1>3, <1>6 DEF Owner, Run, Goto
  <2>2. Held' = {}
    BY <2>1 DEF Held
  <2>3. Closed' = FALSE
    BY <1>6 DEF Closed, Run
  <2> QED BY <1>4, <2>2, <2>3 DEF TheGate!GateNext, TheGate!Resume
<1>7. CASE Add(p)
  <2>1. {q \in Goroutines : gpc[q] = "run"} = {} /\ {q \in Goroutines : gpc'[q] = "run"} = {}
    BY <1>2, <1>3, <1>7 DEF Owner, Add, Goto
  <2>2. Held' = Held \cup {p}
    BY <1>7, <2>1 DEF Held, Add
  <2>3. Closed /\ Closed' = Closed
    BY <1>2, <1>3, <1>7 DEF Closed, Owner, Add, Goto
  <2> QED BY <1>4, <2>2, <2>3 DEF TheGate!GateNext, TheGate!Hold
<1>8. CASE Store(p)
  <2>1. {q \in Goroutines : gpc[q] = "run"} = {} /\ {q \in Goroutines : gpc'[q] = "run"} = {}
    BY <1>2, <1>3, <1>8 DEF Owner, Store, Goto
  <2>2. Held' = Held
    BY <1>8, <2>1 DEF Held, Store
  <2>3. Closed' = Closed
    BY <1>2, <1>3, <1>8 DEF Closed, Owner, Store, Goto
  <2> QED BY <1>4, <2>2, <2>3
<1>9. CASE Delete(p)
  <2>1. {q \in Goroutines : gpc[q] = "run"} = {} /\ {q \in Goroutines : gpc'[q] = "run"} = {}
    BY <1>2, <1>3, <1>9 DEF Owner, Delete, Goto
  <2>2. Held' = Held \ {p}
    BY <1>9, <2>1 DEF Held, Delete
  <2>3. Closed' = Closed
    BY <1>2, <1>3, <1>9 DEF Closed, Owner, Delete, Goto
  <2> QED BY <1>4, <2>2, <2>3 DEF TheGate!GateNext, TheGate!GiveUp
<1>10. CASE Restore(p)
  <2>1. {q \in Goroutines : gpc[q] = "run"} = {} /\ {q \in Goroutines : gpc'[q] = "run"} = {}
    BY <1>2, <1>3, <1>10 DEF Owner, Restore, Goto
  <2>2. Held' = Held
    BY <1>10, <2>1 DEF Held, Restore
  <2>3. Closed' = Closed
    BY <1>2, <1>3, <1>10 DEF Closed, Owner, Restore, Goto
  <2> QED BY <1>4, <2>2, <2>3
<1> QED BY <1>5, <1>6, <1>7, <1>8, <1>9, <1>10

\* Every step keeps the lock and is a step of the gate or a stutter.
LEMMA StepKeeps ==
  SpinLockInv /\ [PauserNext]_pauserVars
    => SpinLockInv' /\ [TheGate!GateNext]_<<Closed, Held>>
<1> SUFFICES ASSUME SpinLockInv, [PauserNext]_pauserVars
             PROVE  SpinLockInv' /\ [TheGate!GateNext]_<<Closed, Held>>
  OBVIOUS
<1>1. CASE PauserNext
  BY <1>1, OutsideKeeps, SwapKeeps, InsideKeeps DEF PauserNext, PauserStep
<1>2. CASE UNCHANGED pauserVars
  <2>1. SpinLockInv'
    BY <1>2 DEF pauserVars, SpinLockInv, Owner
  <2>2. Closed' = Closed /\ Held' = Held
    BY <1>2 DEF pauserVars, Closed, Held
  <2> QED BY <2>1, <2>2
<1> QED BY <1>1, <1>2

\* The word of the pauser is a lock: at most one goroutine is between its swap and its
\* store, whatever the others load meanwhile, and the map is only changed by that one
\* (Pause, Resume, Wait, cancel).
THEOREM SpinLockExcludes == PauserSpec => []SpinLockInv
BY InitSpinLock, StepKeeps, PTL DEF PauserSpec

\* The pauser implements the gate: whatever pauses, resumes, waits and cancels
\* interleave, and however many goroutines call, a waiter gets into the map only while the
\* gate is closed and nobody is held when it opens (Pause, Resume, Wait, cancel).
THEOREM PauserIsAGate == PauserSpec => IsAGate
<1>1. PauserInit => TheGate!GateInit
  BY DEF PauserInit, TheGate!GateInit, Closed, Held
<1> QED BY <1>1, InitSpinLock, StepKeeps, PTL
           DEF PauserSpec, IsAGate, TheGate!GateSpec, TheGate!gateVars
=============================================================================
