------------------------------ MODULE MCBuild ------------------------------
(* Instances of Build small enough to enumerate.                            *)
EXTENDS BuildInv, TLC

One == {1}
Two == {1, 2}

\* A table beside a procedure: the two tiers, both kinds of detail file.
TableAndProcedure == (1 :> {"table"}) @@ (2 :> {"procedure"})
SynonymAndFunction == (1 :> {"synonym"}) @@ (2 :> {"function"})
JustTable == (1 :> {"table"})
JustView  == (1 :> {"view"})

Narrowed == [force |-> FALSE, narrow |-> TRUE,  dry |-> FALSE]
Forced   == [force |-> TRUE,  narrow |-> FALSE, dry |-> FALSE]
DryRun   == [force |-> FALSE, narrow |-> FALSE, dry |-> TRUE]
\* From the moment a build has read what it needs, and while it consults only
\* its own files, a change to the database is the same as one made before its
\* next read or after its end: only the latter are explored.
ChangesMatter == pc \in {"idle", "columns", "indexes", "modules", "store"} \/ db' = db

AnyOptions == {Narrowed, Forced, DryRun}
FullOnly  == {Full}
FullOrNarrowed == {Full, Narrowed}
UnforcedOptions == {Narrowed}
=============================================================================
