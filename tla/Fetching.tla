------------------------------ MODULE Fetching ------------------------------
(***************************************************************************)
(* What a build counts on of the server: everything it wanted has been     *)
(* read by the time it starts to write, and only tables it was about to    *)
(* describe were sampled; or it stops and writes nothing.                  *)
(***************************************************************************)
CONSTANT Objects

VARIABLES phase, wanted, read, todo, sampled, written

vars == <<phase, wanted, read, todo, sampled, written>>

Init == phase = "planning" /\ wanted = {} /\ read = {} /\ todo = {} /\ sampled = {} /\ written = FALSE

Plan ==
  /\ phase = "planning" /\ phase' = "fetching"
  /\ wanted' \in SUBSET Objects
  /\ UNCHANGED <<read, todo, sampled, written>>

Fetch ==
  /\ phase = "fetching" /\ phase' = "splitting" /\ read' = wanted
  /\ UNCHANGED <<wanted, todo, sampled, written>>

Split ==
  /\ phase = "splitting" /\ phase' = "sampling"
  /\ todo' \in SUBSET Objects
  /\ UNCHANGED <<wanted, read, sampled, written>>

Sample ==
  /\ phase = "sampling" /\ phase' \in {"sampling", "writing"}
  /\ sampled' \in SUBSET todo /\ sampled \subseteq sampled'
  /\ UNCHANGED <<wanted, read, todo, written>>

Write ==
  /\ phase = "writing" /\ phase' = "over" /\ written' = TRUE
  /\ UNCHANGED <<wanted, read, todo, sampled>>

Stop ==
  /\ phase # "over" /\ phase' = "over"
  /\ UNCHANGED <<wanted, read, todo, sampled, written>>

Spec == Init /\ [][Plan \/ Fetch \/ Split \/ Sample \/ Write \/ Stop]_vars
=============================================================================
