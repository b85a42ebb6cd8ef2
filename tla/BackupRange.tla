---- MODULE BackupRange ----
(***************************************************************************)
(* How BR backs up one key range (Client.BackupRange).  pushBackup asks    *)
(* every store for the regions it leads and puts the answers into a range  *)
(* tree; fineGrainedBackup looks for the gaps and asks the leader at the   *)
(* start of each of them again, round after round, until none is left.     *)
(* The ranges of the tree, in order, are what goes to the backup meta.     *)
(*                                                                         *)
(* A store answers for the regions it leads when the request arrives, in   *)
(* any order: with the part of the region in the range, or with an error   *)
(* when the region has changed.  Goroutines and streams that pushBackup    *)
(* abandons on an early return write to channels nobody reads; they end    *)
(* with it here.                                                           *)
(***************************************************************************)
EXTENDS RegionCluster, RangeTree

CONSTANTS
  BackupPlans,  \* the range, the stores that are up, the regions and troubles
  RetryTimes,   \* backupRetryTimes
  MaxSleeps,    \* backupFineGrainedMaxBackoff, in sleeps
  Cap           \* the capacity of the channels of fineGrainedBackup

VARIABLES
  req,     \* from, to: the range; up: the stores in state Up
  stage,   \* where BackupRange is
  tree,    \* results
  snd,     \* SendBackup for each store; later, of each fine-grained worker
  respCh, errCh,
  todo,    \* the incomplete ranges of this round no worker has taken
  sleep,   \* max.ms is not 0
  sleeps,  \* what bo has slept
  outcome  \* "none", "ok" or "error"

\* the ranges and the cuts between the first regions lie in the key space
ASSUME BackupAssumption ==
  /\ KeyEnd \in Nat \ {0}
  /\ \A p \in BackupPlans :
       /\ p.from \in KeySpace /\ p.to \in KeySpace /\ (p.to = 0 \/ p.from < p.to)
       /\ p.cuts \subseteq 1..(KeyEnd - 1)
\* no range begins at the empty key
FromAKey == \A p \in BackupPlans : p.from # 0

chans == <<respCh, errCh>>
round == <<todo, sleep, sleeps>>
backupVars == <<req, stage, tree, snd, chans, round, outcome>>
vars == <<clusterVars, backupVars>>

Idle == [at |-> "idle", store |-> 0, from |-> 0, to |-> 0, left |-> {}, retry |-> 0, progress |-> FALSE]
Asks(store, rg) ==
  [Idle EXCEPT !.at = "call", !.store = store, !.from = rg.start, !.to = rg.end]
AllIdle == [p \in Stores |-> Idle]

BackupInit(p) ==
  /\ req = [from |-> p.from, to |-> p.to, up |-> p.up]
  /\ stage = "start" /\ outcome = "none"
  /\ tree = {} /\ snd = AllIdle
  /\ respCh = <<>> /\ errCh = <<>> /\ todo = {} /\ sleep = FALSE /\ sleeps = 0
Init == \E p \in BackupPlans : ClusterInit(p.cuts, p.trouble) /\ BackupInit(p)

Finish(r) ==
  stage' = "done" /\ outcome' = r /\ snd' = AllIdle /\ respCh' = <<>> /\ errCh' = <<>>

----------------------------------------------------------------------------
(* TiKV.                                                                   *)

Upto(e) == IF e = 0 THEN KeyEnd ELSE e
\* the part of a region in a request, with the empty key at the end of all
Part(r, from, to) ==
  LET e == Min({r.end, Upto(to)}) IN Rg(Max({r.start, from}), IF e = KeyEnd THEN 0 ELSE e)
Led(store, from, to) ==
  {r \in regions : r.leader = store /\ r.end > from /\ r.start < Upto(to)}

----------------------------------------------------------------------------
(* SendBackup.                                                             *)

Pushing == stage = "push"
Cannot(p, err) ==
  /\ errCh' = Append(errCh, err) /\ snd' = [snd EXCEPT ![p].at = "done"]
  /\ UNCHANGED <<respCh, sleep>>
\* respCh is full: the goroutine waits
Room == Len(respCh) < (IF Pushing THEN Cardinality(Stores) ELSE Cap)
\* a fine-grained worker comes back for the next range
WorkerBack(p, ms) ==
  snd' = [snd EXCEPT ![p] = [Idle EXCEPT !.at = "take"]] /\ sleep' = (sleep \/ ms)

\* the request is sent
Call(p) ==
  /\ snd[p].at = "call" /\ snd[p].retry < RetryTimes
  /\ snd' = [snd EXCEPT ![p].at = "recv", ![p].left = Led(snd[p].store, snd[p].from, snd[p].to)]
  /\ UNCHANGED <<clusterVars, chans, sleep>>

\* it ends without an error: after an EOF, or with all retries used up
Returns(p) ==
  /\ \/ snd[p].at = "recv" /\ snd[p].left = {}
     \/ snd[p].at = "call" /\ snd[p].retry >= RetryTimes
  /\ IF Pushing THEN snd' = [snd EXCEPT ![p].at = "done"] /\ UNCHANGED sleep
     ELSE WorkerBack(p, ~snd[p].progress)
  /\ UNCHANGED <<clusterVars, chans>>

\* the request or the stream fails: Unavailable, and the connection is reset
Retries(p) ==
  /\ snd[p].at \in {"call", "recv"} /\ snd[p].retry < RetryTimes /\ Mishap("fail")
  /\ snd' = [snd EXCEPT ![p].at = "call", ![p].left = {}, ![p].retry = @ + 1]
  /\ UNCHANGED <<regions, kvs, chans, sleep>>
\* or the reset fails, or another error: ErrFailedToConnect
Breaks(p) ==
  /\ snd[p].at \in {"call", "recv"} /\ snd[p].retry < RetryTimes /\ Mishap("fail")
  /\ \/ Cannot(p, "error")
     \/ IF Pushing THEN Cannot(p, "connect") ELSE WorkerBack(p, TRUE) /\ UNCHANGED chans
  /\ UNCHANGED <<regions, kvs>>

\* the region is as it was: it is backed up
Good(p, r) ==
  /\ Current(r) /\ Leads(r) /\ Room
  /\ respCh' = Append(respCh, [kind |-> "ok", rg |-> Part(r, snd[p].from, snd[p].to)])
  /\ UNCHANGED <<clusterVars, errCh, sleep>>
\* a region error; a lock, or a storage error that may be retried, of which a
\* lock about to expire needs no sleep
Ignored(p, r) ==
  /\ \/ ~(Current(r) /\ Leads(r)) /\ UNCHANGED trouble /\ sleep' = (sleep \/ ~Pushing)
     \/ Mishap("fail") /\ sleep' \in {sleep, sleep \/ ~Pushing}
  /\ IF Pushing THEN Room /\ respCh' = Append(respCh, [kind |-> "ignore"]) ELSE UNCHANGED respCh
  /\ UNCHANGED <<regions, kvs, errCh>>
Response(p) ==
  /\ snd[p].at = "recv"
  /\ \E r \in snd[p].left :
       /\ Good(p, r) \/ Ignored(p, r)
       /\ snd' = [snd EXCEPT ![p].left = @ \ {r}, ![p].progress = TRUE]
\* a cluster id or an unknown error
BadResponse(p) ==
  /\ snd[p].at = "recv" /\ snd[p].left # {} /\ Mishap("fail")
  /\ IF Pushing
     THEN /\ Room /\ respCh' = Append(respCh, [kind |-> "bad"]) /\ UNCHANGED <<errCh, sleep>>
          /\ \E r \in snd[p].left : snd' = [snd EXCEPT ![p].left = @ \ {r}]
     ELSE Cannot(p, "error")
  /\ UNCHANGED <<regions, kvs>>

SendBackup(p) ==
  /\ Call(p) \/ Returns(p) \/ Retries(p) \/ Breaks(p) \/ Response(p) \/ BadResponse(p)
  /\ UNCHANGED <<req, stage, tree, todo, sleeps, outcome>>

----------------------------------------------------------------------------
(* pushBackup.                                                             *)

ToFine ==
  stage' = "fine" /\ snd' = AllIdle /\ respCh' = <<>> /\ errCh' = <<>> /\ UNCHANGED outcome

\* every store that is up gets a goroutine
Push ==
  /\ stage = "start" /\ stage' = "push"
  /\ snd' = [s \in Stores |-> IF s \in req.up THEN Asks(s, Rg(req.from, req.to))
                              ELSE [Idle EXCEPT !.at = "done"]]
  /\ UNCHANGED <<clusterVars, req, tree, chans, round, outcome>>
\* no client for a store: pushBackup returns
PushStops ==
  /\ stage = "start" /\ req.up # {} /\ Mishap("fail") /\ ToFine
  /\ UNCHANGED <<regions, kvs, req, tree, round>>
\* no list of stores
NoStores ==
  /\ stage = "start" /\ Mishap("fail") /\ Finish("error")
  /\ UNCHANGED <<regions, kvs, req, tree, round>>

PushReceive ==
  /\ Pushing /\ respCh # <<>>
  /\ CASE Head(respCh).kind = "ok" ->
            /\ tree' = Update(tree, Head(respCh).rg)
            /\ respCh' = Tail(respCh) /\ UNCHANGED <<stage, snd, errCh, outcome>>
       [] Head(respCh).kind = "ignore" ->
            respCh' = Tail(respCh) /\ UNCHANGED <<stage, snd, errCh, tree, outcome>>
       [] Head(respCh).kind = "bad" -> Finish("error") /\ UNCHANGED tree
  /\ UNCHANGED <<clusterVars, req, round>>
PushError ==
  /\ Pushing /\ errCh # <<>>
  /\ IF Head(errCh) = "connect" THEN ToFine ELSE Finish("error")
  /\ UNCHANGED <<clusterVars, req, tree, round>>
\* respCh is closed: an error still in errCh may be overlooked
PushEnds ==
  /\ Pushing /\ respCh = <<>> /\ \A s \in Stores : snd[s].at = "done"
  /\ ToFine /\ UNCHANGED <<clusterVars, req, tree, round>>

----------------------------------------------------------------------------
(* fineGrainedBackup.                                                      *)

Incomplete == GetIncompleteRange(tree, req.from, req.to, KeyEnd + 1)
Complete ==
  /\ stage = "fine" /\ Incomplete = {}
  /\ stage' = "send" /\ UNCHANGED <<clusterVars, req, tree, snd, chans, round, outcome>>
Round ==
  /\ stage = "fine" /\ Incomplete # {}
  /\ stage' = "round" /\ todo' = Incomplete /\ sleep' = FALSE
  /\ snd' = [p \in Stores |-> [Idle EXCEPT !.at = "take"]]
  /\ UNCHANGED <<clusterVars, req, tree, chans, sleeps, outcome>>

\* handleFineGrained, as far as the call of SendBackup
Take(p) ==
  /\ stage = "round" /\ snd[p].at = "take" /\ todo # {}
  /\ LET rg == CHOOSE x \in todo : \A y \in todo : x.start <= y.start
     IN /\ todo' = todo \ {rg}
        /\ \/ /\ snd' = [snd EXCEPT ![p] = Asks(RegionAt(rg.start).leader, rg)]
              /\ UNCHANGED <<trouble, chans, sleep>>
           \/ Mishap("fail") /\ Cannot(p, "error")
           \/ Mishap("fail") /\ WorkerBack(p, TRUE) /\ UNCHANGED chans
  /\ UNCHANGED <<regions, kvs, req, stage, tree, sleeps, outcome>>
NoMore(p) ==
  /\ stage = "round" /\ snd[p].at = "take" /\ todo = {}
  /\ snd' = [snd EXCEPT ![p].at = "done"]
  /\ UNCHANGED <<clusterVars, req, stage, tree, chans, round, outcome>>

FineReceive ==
  /\ stage = "round" /\ respCh # <<>>
  /\ tree' = Update(tree, Head(respCh).rg) /\ respCh' = Tail(respCh)
  /\ UNCHANGED <<clusterVars, req, stage, snd, errCh, round, outcome>>
FineError ==
  /\ stage = "round" /\ errCh # <<>> /\ Finish("error")
  /\ UNCHANGED <<clusterVars, req, tree, round>>
\* respCh is closed; sleep if a worker asked for it, as long as bo allows
FineEnds ==
  /\ stage = "round" /\ respCh = <<>> /\ todo = {} /\ \A p \in Stores : snd[p].at = "done"
  /\ IF sleep /\ sleeps = MaxSleeps THEN Finish("error") /\ UNCHANGED sleeps
     ELSE ToFine /\ sleeps' = sleeps + (IF sleep THEN 1 ELSE 0)
  /\ UNCHANGED <<clusterVars, req, tree, todo, sleep>>

\* the files go to the meta writer, which may fail
SendFiles ==
  /\ stage = "send"
  /\ \/ Finish("ok") /\ UNCHANGED trouble
     \/ Mishap("fail") /\ Finish("error")
  /\ UNCHANGED <<regions, kvs, req, tree, round>>

Main ==
  \/ Push \/ PushStops \/ NoStores \/ PushReceive \/ PushError \/ PushEnds
  \/ Complete \/ Round \/ FineReceive \/ FineError \/ FineEnds \/ SendFiles
Worker(p) == SendBackup(p) \/ Take(p) \/ NoMore(p)
Moves == stage # "done" /\ ClusterStep /\ UNCHANGED backupVars
Stopped == stage = "done" /\ UNCHANGED vars

Next == Main \/ (\E p \in Stores : Worker(p)) \/ Moves \/ Stopped

\* goroutines run on, and a stream that is not closed is answered or fails
Fair == WF_vars(Main) /\ \A p \in Stores : WF_vars(Worker(p))
Spec == Init /\ [][Next]_vars
FairSpec == Spec /\ Fair

----------------------------------------------------------------------------
(* Properties.                                                             *)

\* The ranges in the tree never overlap, in whatever order the answers of
\* stores that saw different regions arrive (RangeTree.Update).
TreeDisjoint == Disjoint(tree)

Promise == INSTANCE RangeBackup
  WITH from <- req.from, to <- req.to, Keys <- KeySpace,
       files <- IF outcome = "ok" THEN tree ELSE {}

\* BackupRange implements RangeBackup: it succeeds only when the files it hands
\* to the meta writer cover every key of the range once and no other key
\* (pushBackup, fineGrainedBackup, GetIncompleteRange).
BacksUpRange == Promise!Spec

\* What the comment on pushBackup says: "The regions managed by this store can
\* be retried at fine-grained backup then."  A successful backup covers its
\* whole range, wherever that begins.
RetriedAtFineGrained ==
  outcome = "ok" =>
    \A k \in KeySpace : ContainsKey(Rg(req.from, req.to), k) => \E r \in tree : ContainsKey(r, k)

\* BackupRange returns: no lost connection, error or change of a region leaves
\* it waiting for a channel (pushBackup, fineGrainedBackup).
Returned == outcome # "none"
BackupReturns == <>[]Returned
====
