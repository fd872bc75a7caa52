---------------------------- MODULE Describing -----------------------------
(***************************************************************************)
(* What a build counts on when it buys sentences: of the objects it asks   *)
(* about, every one comes back either with a sentence or on the list of    *)
(* those without, and none of the others comes back at all.                *)
(***************************************************************************)
CONSTANT Asked  \* the keys of the objects a sentence is wanted for

VARIABLES described, missing, over

Init == described = {} /\ missing = {} /\ over = FALSE

Answer ==
  /\ ~over /\ over' = TRUE
  /\ \E silent \in SUBSET Asked : missing' = silent /\ described' = Asked \ silent

Spec == Init /\ [][Answer]_<<described, missing, over>>
=============================================================================
