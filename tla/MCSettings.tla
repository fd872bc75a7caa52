----------------------------- MODULE MCSettings -----------------------------
(* Instances of Settings small enough to enumerate.                         *)
EXTENDS Settings, TLC

CONSTANTS old, new   \* passwords

\* A connection with a password, and a backend that needs no key.
TypedOf == ("main" :> {old, new}) @@ ("local" :> {})

Alike == Permutations(Procs) \cup Permutations({old, new})

\* A process that may use the file runs alone.
FileAlone == (\E p \in Procs : proc[p].plain) => Cardinality({p \in Procs : proc[p].pc # "idle"}) = 1
=============================================================================
