------------------------------ MODULE Indexing ------------------------------
(***************************************************************************)
(* What an index promises to whoever reads it: it is a function of the     *)
(* database.  What it says of an object is settled by the object alone,    *)
(* from the end of the build that covered it until somebody touches it -   *)
(* whatever other builds do meanwhile, and whatever was cached, narrowed,  *)
(* forced or interrupted before.  Only its sentence may be owed.           *)
(***************************************************************************)
CONSTANTS
  Keys,         \* the names of the objects
  None,         \* no object of that name
  Unknown,      \* what the index says where it promises nothing
  Image(_),     \* what the index is to say of an object
  Sentence(_)   \* and the sentence it is to have

VARIABLES
  db,           \* the objects
  index,        \* what the index says of each
  sentence,     \* and the sentence it has
  owed          \* the names some build had no sentence for

vars == <<db, index, sentence, owed>>

Init ==
  /\ db = [k \in Keys |-> None]
  /\ index = [k \in Keys |-> Unknown] /\ sentence = [k \in Keys |-> Unknown]
  /\ owed = {}

\* The object is created, changed or dropped: what was said of it is void.
Change(k) ==
  /\ \A j \in Keys \ {k} : db'[j] = db[j]
  /\ index' = [index EXCEPT ![k] = Unknown]
  /\ sentence' = [sentence EXCEPT ![k] = Unknown]
  /\ UNCHANGED owed

\* The model had no sentence for some of them.
Owe(silent) ==
  /\ owed' = owed \cup silent
  /\ sentence' = [k \in Keys |-> IF k \in silent THEN Unknown ELSE sentence[k]]
  /\ UNCHANGED <<db, index>>

\* A build ends.
Publish(covered) ==
  /\ index' = [k \in Keys |-> IF k \in covered THEN Image(db[k]) ELSE index[k]]
  /\ sentence' = [k \in Keys |-> IF k \in covered \ owed THEN Sentence(db[k]) ELSE sentence[k]]
  /\ UNCHANGED <<db, owed>>

Next ==
  \/ \E k \in Keys : Change(k)
  \/ \E names \in SUBSET Keys : Owe(names) \/ Publish(names)

Spec == Init /\ [][Next]_vars
=============================================================================
