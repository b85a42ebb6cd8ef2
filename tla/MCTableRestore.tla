---- MODULE MCTableRestore ----
(* Instances of TableRestore: how the chunks are spread over data engines  *)
(* and which faults to expect.                                             *)
EXTENDS TableRestore, TLC

\* Two data engines of one chunk, and a crash.
TwoEngines == [engineOf |-> (1 :> 0) @@ (2 :> 1), packets |-> 1,
               crash |-> 1, cancel |-> 0, fail |-> 0, quota |-> 0]
\* One engine of one chunk, and every fault.
EveryFault == [engineOf |-> (1 :> 0), packets |-> 2,
               crash |-> 1, cancel |-> 1, fail |-> 1, quota |-> 1]
\* Two chunks of one engine, a crash and a cancellation.
TwoChunks == [engineOf |-> (1 :> 0) @@ (2 :> 0), packets |-> 1,
              crash |-> 1, cancel |-> 1, fail |-> 0, quota |-> 0]
\* The smallest table, and a crash.
OneCrash == [engineOf |-> (1 :> 0), packets |-> 1,
             crash |-> 1, cancel |-> 0, fail |-> 0, quota |-> 0]

AllPlans == {TwoEngines, EveryFault, TwoChunks}
OnePlan == {OneCrash}
====
