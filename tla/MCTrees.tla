------------------------------- MODULE MCTrees -------------------------------
(* Instances of Trees small enough to enumerate.                            *)
EXTENDS Trees, TLC

\* A remote was registered and cloned, before it held an index, or nothing was.
OneRemote == RemoteRoots

\* Nothing was built here before, or one of the databases by an earlier dbmap.
OneOlder == {[l \in Local |-> None]} \cup {[l \in Local |-> [NoRows EXCEPT ![d] = 1]] : d \in Databases}

\* Two databases are what a roster needs; among the teams one, with one database,
\* is enough for its clone to be behind.
PublishedOne == Cardinality({<<r, d>> \in Remotes \X Databases : Rows(published[r])[d] # 0}) <= 1

\* Hand edits come between commands, which read the registry once, when they
\* start, and one row, or the file, is broken at a time, while nothing is built.
EditedBetween ==
  \/ registry'.whole = registry.whole /\ registry'.broken = registry.broken
  \/ \E p \in Procs : cmd[p].what = "edit" /\ cmd'[p] = NoCommand
  \/ \A p \in Procs : cmd[p] = NoCommand
OneBroken ==
  /\ Cardinality(registry.broken) <= IF registry.whole THEN 1 ELSE 0
  /\ (registry.whole /\ registry.broken = {}) \/ \A p \in Procs : build[p].at = "none"

\* What an earlier dbmap built is put beside roots without a remote.
OlderApart == (\E l \in Local : older[l] # None) => \A r \in registry.roots : r.remote = None

Symmetric == Permutations(Procs) \cup Permutations(Remotes) \cup Permutations(Databases) \cup Permutations(Names)
=============================================================================
