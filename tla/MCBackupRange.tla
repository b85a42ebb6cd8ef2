---- MODULE MCBackupRange ----
EXTENDS BackupRange
T(s, m, v, f) == [split |-> s, merge |-> m, move |-> v, fail |-> f, lost |-> 0, cancel |-> 0]
P(f, t, u, c, tr) == [from |-> f, to |-> t, up |-> u, cuts |-> c, trouble |-> tr]
MCBackupPlans ==
  {P(1, 3, {1, 2}, {2}, T(0, 0, 2, 1)), P(1, 0, {1, 2}, {2}, T(0, 1, 2, 0)),
   P(1, 0, {2}, {2}, T(1, 0, 1, 1)), P(1, 3, {1}, {}, T(0, 0, 0, 2))}
\* a raw backup from the first key
RawPlans == {P(0, 0, {1, 2}, {}, T(0, 0, 0, 1))}
====
