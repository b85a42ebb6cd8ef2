---- MODULE MCChecksumManager ----
EXTENDS ChecksumManager
MCLayout == <<[ids |-> {10}, indices |-> <<TRUE, FALSE>>], [ids |-> {20, 21}, indices |-> <<>>]>>
Plan(v4, level, atLast, faults) ==
  [v4 |-> v4, level |-> level, analyze |-> "optional", atLast |-> atLast, life |-> 2, slots |-> 1, conc |-> 10, faults |-> faults]
MCPlans ==
  {[Plan(TRUE, "required", FALSE, 2) EXCEPT !.slots = 2], Plan(FALSE, "required", FALSE, 1), Plan(TRUE, "off", FALSE, 1),
   [Plan(FALSE, "optional", FALSE, 1) EXCEPT !.slots = 2, !.analyze = "required"],
   [Plan(FALSE, "optional", FALSE, 0) EXCEPT !.slots = 2, !.life = 9],
   [Plan(TRUE, "required", TRUE, 0) EXCEPT !.slots = 2]}
AtLastPlans == {Plan(TRUE, "required", TRUE, 1)}
====
