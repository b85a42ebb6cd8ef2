---- MODULE Gate ----
(***************************************************************************)
(* What a Pauser promises: a gate that is open or closed.  Who arrives     *)
(* while it is closed is held until it is opened at least once, or gives   *)
(* up; nobody is held at an open gate.                                     *)
(***************************************************************************)
CONSTANT Goroutines
VARIABLES paused, held

gateVars == <<paused, held>>

GateInit == paused = FALSE /\ held = {}
Pause == paused' = TRUE /\ UNCHANGED held
Resume == paused' = FALSE /\ held' = {}
Hold(p) == paused /\ held' = held \cup {p} /\ UNCHANGED paused
GiveUp(p) == held' = held \ {p} /\ UNCHANGED paused

GateNext == Pause \/ Resume \/ \E p \in Goroutines : Hold(p) \/ GiveUp(p)
GateSpec == GateInit /\ [][GateNext]_gateVars
====
