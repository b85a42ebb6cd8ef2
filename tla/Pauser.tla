---- MODULE Pauser ----
(***************************************************************************)
(* common.Pauser: one word that says whether the pauser runs or is paused, *)
(* and is the spin lock of the map of waiters at the same time.  Every     *)
(* atomic load, compare-and-swap and store is a step; the map is changed   *)
(* in steps of its own, as its lock is what has to be shown.               *)
(***************************************************************************)
EXTENDS Integers, FiniteSets

CONSTANTS
  Goroutines,
  Calls          \* bound: the calls each of them makes

VARIABLES
  state,    \* "running", "paused" or "locked"
  waiters,  \* the goroutines whose channel is in the map
  closed,   \* whose channel is closed
  gpc,      \* where each goroutine is
  old,      \* the state it has to put back
  taken,    \* allWaiters of Resume
  calls

pauserVars == <<state, waiters, closed, gpc, old, taken, calls>>

PauserInit ==
  /\ state = "running" /\ waiters = {} /\ closed = {}
  /\ gpc = [p \in Goroutines |-> "idle"] /\ old = [p \in Goroutines |-> "running"]
  /\ taken = [p \in Goroutines |-> {}] /\ calls = [p \in Goroutines |-> Calls]

Goto(p, l) == gpc' = [gpc EXCEPT ![p] = l]

Call(p) ==
  /\ gpc[p] = "idle" /\ calls[p] > 0 /\ calls' = [calls EXCEPT ![p] = @ - 1]
  /\ \E op \in {"pause", "resume", "wait"} : Goto(p, op)
  /\ closed' = closed \ {p}
  /\ UNCHANGED <<state, waiters, old, taken>>

\* the load at the head of each loop: nothing to do, or try the swap
Load(p) ==
  /\ \/ gpc[p] = "pause" /\ Goto(p, IF state = "paused" THEN "idle" ELSE "pauseCAS")
     \/ gpc[p] = "resume" /\ Goto(p, IF state = "running" THEN "idle" ELSE "resumeCAS")
     \/ gpc[p] = "wait" /\ Goto(p, IF state = "running" THEN "idle" ELSE "waitCAS")
     \/ gpc[p] = "cancel" /\ Goto(p, IF state = "locked" THEN "cancel" ELSE "cancelCAS")
  /\ old' = IF gpc[p] = "cancel" THEN [old EXCEPT ![p] = state] ELSE old
  /\ UNCHANGED <<state, waiters, closed, taken, calls>>

Swap(p, at, from, to, won, lost) ==
  /\ gpc[p] = at
  /\ IF state = from THEN state' = to /\ Goto(p, won) ELSE UNCHANGED state /\ Goto(p, lost)
\* mutant: the lock is taken whatever the state is
MutCompareAndSwap(p) ==
  /\ \/ Swap(p, "pauseCAS", "running", "paused", "idle", "pause")
     \/ Swap(p, "resumeCAS", "paused", "locked", "take", "resume")
     \/ Swap(p, "waitCAS", state, "locked", "add", "wait")
     \/ Swap(p, "cancelCAS", old[p], "locked", "delete", "cancel")
  /\ UNCHANGED <<waiters, closed, old, taken, calls>>
CompareAndSwap(p) ==
  /\ \/ Swap(p, "pauseCAS", "running", "paused", "idle", "pause")
     \/ Swap(p, "resumeCAS", "paused", "locked", "take", "resume")
     \/ Swap(p, "waitCAS", "paused", "locked", "add", "wait")
     \/ Swap(p, "cancelCAS", old[p], "locked", "delete", "cancel")
  /\ UNCHANGED <<waiters, closed, old, taken, calls>>

\* Resume has the lock
Take(p) ==
  /\ gpc[p] = "take" /\ taken' = [taken EXCEPT ![p] = waiters] /\ waiters' = {} /\ Goto(p, "run")
  /\ UNCHANGED <<state, closed, old, calls>>
Run(p) ==
  /\ gpc[p] = "run" /\ state' = "running" /\ Goto(p, "close")
  /\ UNCHANGED <<waiters, closed, old, taken, calls>>
\* mutant: one waiter is told
MutClose(p) ==
  /\ gpc[p] = "close"
  /\ IF taken[p] = {} THEN Goto(p, "idle") /\ UNCHANGED <<closed, taken>>
     ELSE \E w \in taken[p] : closed' = closed \cup {w} /\ taken' = [taken EXCEPT ![p] = {}] /\ UNCHANGED gpc
  /\ UNCHANGED <<state, waiters, old, calls>>
\* the channels are closed one by one, without the lock
Close(p) ==
  /\ gpc[p] = "close"
  /\ IF taken[p] = {} THEN Goto(p, "idle") /\ UNCHANGED <<closed, taken>>
     ELSE \E w \in taken[p] : closed' = closed \cup {w} /\ taken' = [taken EXCEPT ![p] = @ \ {w}] /\ UNCHANGED gpc
  /\ UNCHANGED <<state, waiters, old, calls>>

\* Wait has the lock
Add(p) ==
  /\ gpc[p] = "add" /\ waiters' = waiters \cup {p} /\ Goto(p, "store")
  /\ UNCHANGED <<state, closed, old, taken, calls>>
Store(p) ==
  /\ gpc[p] = "store" /\ state' = "paused" /\ Goto(p, "blocked")
  /\ UNCHANGED <<waiters, closed, old, taken, calls>>
\* the channel is closed
Woken(p) ==
  /\ gpc[p] = "blocked" /\ p \in closed /\ Goto(p, "idle")
  /\ UNCHANGED <<state, waiters, closed, old, taken, calls>>
\* the context of the caller is done
Done(p) ==
  /\ gpc[p] = "blocked" /\ Goto(p, "cancel")
  /\ UNCHANGED <<state, waiters, closed, old, taken, calls>>

\* cancel has the lock
Delete(p) ==
  /\ gpc[p] = "delete" /\ waiters' = waiters \ {p} /\ Goto(p, "restore")
  /\ UNCHANGED <<state, closed, old, taken, calls>>
Restore(p) ==
  /\ gpc[p] = "restore" /\ state' = old[p] /\ Goto(p, "idle")
  /\ UNCHANGED <<waiters, closed, old, taken, calls>>

PauserStep(p) ==
  \/ Load(p) \/ CompareAndSwap(p) \/ Take(p) \/ Run(p) \/ Close(p) \/ Add(p) \/ Store(p) \/ Woken(p)
  \/ Delete(p) \/ Restore(p)
PauserNext == \E p \in Goroutines : Call(p) \/ PauserStep(p) \/ Done(p)
PauserSpec == PauserInit /\ [][PauserNext]_pauserVars
PauserFairSpec == PauserSpec /\ \A p \in Goroutines : WF_pauserVars(PauserStep(p))

----------------------------------------------------------------------------
(* Properties.                                                             *)

\* The spin lock, which IsAGate rests on: the word is "locked" while a goroutine is between
\* its swap and the store that unlocks, there is at most one such goroutine, what it puts
\* back is not "locked", and the map is empty once Resume has taken the waiters.
Places == {"idle", "pause", "pauseCAS", "resume", "resumeCAS", "take", "run", "close",
           "wait", "waitCAS", "add", "store", "blocked", "cancel", "cancelCAS", "delete", "restore"}
Owner(p) == gpc[p] \in {"take", "run", "add", "store", "delete", "restore"}
SpinLockInv ==
  /\ state \in {"running", "paused", "locked"} /\ gpc \in [Goroutines -> Places]
  /\ old \in [Goroutines -> {"running", "paused", "locked"}]
  /\ taken \in [Goroutines -> SUBSET Goroutines] /\ waiters \subseteq Goroutines
  /\ \A p \in Goroutines : Owner(p) => state = "locked"
  /\ \A p, q \in Goroutines : Owner(p) /\ Owner(q) => p = q
  /\ \A p \in Goroutines : gpc[p] \in {"cancelCAS", "delete", "restore"} => old[p] # "locked"
  /\ \A p \in Goroutines : gpc[p] = "run" => waiters = {}

\* the gate is closed while the pauser is paused, and while it is locked by anyone
\* but a cancel that found it running
Closed ==
  \/ state = "paused"
  \/ state = "locked" /\ ~\E p \in Goroutines : gpc[p] \in {"delete", "restore"} /\ old[p] = "running"
\* the waiters of the map, and those Resume took out before it let them go
Held == waiters \cup UNION {taken[p] : p \in {q \in Goroutines : gpc[q] = "run"}}
TheGate == INSTANCE Gate WITH paused <- Closed, held <- Held

\* The pauser is a gate: however pauses, resumes, waits and cancels interleave, a
\* waiter gets into the map only while it is paused, and nobody is left in it
\* when it runs again.
IsAGate == TheGate!GateSpec

\* Calls of Pause and Resume return, and so does a Wait that a Resume has taken out
\* of the map: no spin loop waits for itself, and no waiter is forgotten.
Settled == \A p \in Goroutines : gpc[p] = "idle" \/ (gpc[p] = "blocked" /\ p \in waiters)
CallsReturn == <>[]Settled
====
