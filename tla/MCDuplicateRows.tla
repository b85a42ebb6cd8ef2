---- MODULE MCDuplicateRows ----
EXTENDS DuplicateRows, TLC

\* index entries 0 and 1 of the rows 3 and 5, 2 of row 6
MCHandle == (0 :> 3) @@ (1 :> 5) @@ (2 :> 6)
T(split, move, fail) == [split |-> split, merge |-> 0, move |-> move, fail |-> fail, lost |-> 0, cancel |-> 0]
Plan(mode, dups, cuts, down, t) == [mode |-> mode, dups |-> dups, cuts |-> cuts, down |-> down, trouble |-> t]
Faults == {T(1, 0, 1), T(0, 1, 1), T(1, 1, 0), T(0, 0, 2)}
MCPlans ==
  {Plan("rows", {3, 5, 6}, cuts, {}, t) : cuts \in {{5}, {4, 6}, {4, 5, 6}}, t \in Faults}
  \cup {Plan(m, dups, cuts, {}, t) : m \in {"index", "local"}, dups \in {{0, 1}, {0, 1, 2}}, cuts \in {{3, 6}, {1, 5}}, t \in Faults}
  \cup {Plan("index", {0, 1}, {1, 5}, {}, T(0, 0, 3))}
  \cup {Plan(m, {0, 1}, {3, 6}, {1}, T(0, 1, 0)) : m \in {"index", "local"}}
  \cup {Plan("rows", {3, 5, 6}, {4, 6}, {1}, T(0, 1, 0))}
\* nothing goes wrong
QuietPlans == {Plan("local", {0, 1, 2}, {3, 6}, {}, T(0, 0, 0))}
====
