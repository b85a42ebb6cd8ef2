---- MODULE RangeBackup ----
(***************************************************************************)
(* What backing up one key range promises (Client.BackupRange): it fails,  *)
(* or the ranges of the files it hands over cover each key of the range    *)
(* exactly once and nothing else.                                          *)
(***************************************************************************)
EXTENDS RangeTree

CONSTANTS
  Keys       \* the key space
VARIABLES
  from, to,  \* the range
  files,     \* the ranges of the files handed over
  outcome    \* "none", "ok" or "error"

Asked == Rg(from, to)
Init == files = {} /\ outcome = "none"

Covers ==
  \A k \in Keys :
    Cardinality({r \in files' : ContainsKey(r, k)}) = IF ContainsKey(Asked, k) THEN 1 ELSE 0
Succeeds == outcome = "none" /\ outcome' = "ok" /\ Covers
Fails == outcome = "none" /\ outcome' = "error" /\ UNCHANGED files

Next == (Succeeds \/ Fails) /\ UNCHANGED <<from, to>>
Spec == Init /\ [][Next]_<<from, to, files, outcome>>
====
