-------------------------------- MODULE Roster --------------------------------
(***************************************************************************)
(* Index trees on one machine and the roster at the root of each           *)
(* (internal/render/roster.go): a row per database, with its build stamp.  *)
(* A build that has written a database's own files merges that row into    *)
(* the roster, which it reads, truncates and writes; builds of different   *)
(* databases may do so at once.                                            *)
(***************************************************************************)
EXTENDS Naturals

CONSTANTS
  Procs,      \* processes, each running one command at a time
  Local,      \* directories people build into
  Databases,
  None,
  Undated,    \* the stamp of a row without a readable one
  Older,      \* what rosters an earlier dbmap, of fewer kinds, may have left
  MaxNow      \* bound on the clock

VARIABLES
  now,
  tree,      \* per directory: the rows of databases.tsv, None where there is none
  narrow,    \* directories whose roster has the columns of an earlier dbmap
  build,     \* per process: what its build has still to do to a roster
  \* history, for the properties only
  older,     \* per directory: the roster an earlier dbmap left
  stamped,   \* per directory: when a build last said it had indexed a database
  clashed    \* directories where two builds met at the roster, or one died at it

rosters == <<now, tree, narrow, build, older, stamped, clashed>>

\* A roster tells of each database when it was built; 0 where it has no row.
Stamps == 0 .. MaxNow
Rosters == [Databases -> Stamps]
NoRows == [d \in Databases |-> 0]
Rows(roster) == IF roster = None THEN NoRows ELSE roster

\* In a roster merged from an older one rows may have lost their stamp.
Files == [Databases -> Stamps \cup {Undated}]

ASSUME ClockAssumption == MaxNow \in Nat \ {0}
ASSUME UndatedAssumption == Undated \notin Nat
ASSUME NoRosterAssumption == None \notin [Databases -> Nat \cup {Undated}]
ASSUME OlderAssumption == Older \subseteq [Local -> Rosters \cup {None}]

NoBuild == [at |-> "none", dir |-> None, of |-> None, rows |-> NoRows]

RosterInit ==
  /\ now = 1 /\ older \in Older /\ tree = older /\ narrow = {l \in Local : older[l] # None}
  /\ build = [p \in Procs |-> NoBuild]
  /\ stamped = [l \in Local |-> NoRows] /\ clashed = {}

Tick ==
  /\ now < MaxNow /\ now' = now + 1
  /\ UNCHANGED <<tree, narrow, build, older, stamped, clashed>>

\* The row is stamped, the rows on disk are read, and all others kept. A row
\* with fewer columns is filled up at its end, which puts its stamp under the
\* heading of a count, and leaves none under its own. Mutant: the roster made
\* from this build's row alone.
Padded(l, d) == IF l \in narrow /\ Rows(tree[l])[d] # 0 THEN Undated ELSE Rows(tree[l])[d]
MergedAlone(l, d) == [NoRows EXCEPT ![d] = now]
Merged(l, d) == [e \in Databases |-> IF e = d THEN now ELSE Padded(l, e)]

Read(p, l, d) ==
  /\ build[p].at = "none"
  /\ build' = [build EXCEPT ![p] = [at |-> "read", dir |-> l, of |-> d, rows |-> Merged(l, d)]]
  /\ UNCHANGED <<now, tree, narrow, older, stamped, clashed>>

Meets(p) == \E q \in Procs \ {p} : build[q].at # "none" /\ build[q].dir = build[p].dir
Clashed(p) == clashed \cup IF Meets(p) THEN {build[p].dir} ELSE {}

\* Opened to be written: the file is empty until the rows are in it.
Truncate(p) ==
  /\ build[p].at = "read"
  /\ tree' = [tree EXCEPT ![build[p].dir] = NoRows] /\ narrow' = narrow \ {build[p].dir}
  /\ build' = [build EXCEPT ![p].at = "cut"]
  /\ clashed' = Clashed(p)
  /\ UNCHANGED <<now, older, stamped>>

\* The rows are written from the start of the file. What another build wrote
\* there since the truncation is overwritten as far as these rows reach; of what
\* lies beyond, any row may be whole and read back.
Write(p) ==
  LET l == build[p].dir
      mine == build[p].rows
  IN /\ build[p].at = "cut"
     /\ \E left \in [Databases -> {TRUE, FALSE}] :
          tree' = [tree EXCEPT ![l] =
            [d \in Databases |-> IF Rows(tree[l])[d] # 0 /\ left[d] THEN tree[l][d] ELSE mine[d]]]
     /\ stamped' = [stamped EXCEPT ![l][build[p].of] = mine[build[p].of]]
     /\ clashed' = Clashed(p)
     /\ build' = [build EXCEPT ![p] = NoBuild]
     /\ UNCHANGED <<now, narrow, older>>

\* Killed, or the disk refuses: a roster cut and not written stays empty.
BuildDies(p) ==
  /\ build[p].at # "none"
  /\ build' = [build EXCEPT ![p] = NoBuild]
  /\ clashed' = IF build[p].at = "cut" THEN clashed \cup {build[p].dir} ELSE clashed
  /\ UNCHANGED <<now, tree, narrow, older, stamped>>

RosterStep(p) == (\E l \in Local, d \in Databases : Read(p, l, d)) \/ Truncate(p) \/ Write(p) \/ BuildDies(p)

-----------------------------------------------------------------------------
Builds ==
  {b \in [at: {"read", "cut"}, dir: Local, of: Databases, rows: Files] : b.rows[b.of] \in Stamps \ {0}}
RosterTypeOK ==
  /\ now \in Stamps \ {0} /\ tree \in [Local -> Files \cup {None}] /\ narrow \subseteq Local
  /\ build \in [Procs -> Builds \cup {NoBuild}]
  /\ older \in [Local -> Rosters \cup {None}] /\ stamped \in [Local -> Rosters] /\ clashed \subseteq Local

\* What the row of a database comes to: the stamp of its last build, or what an
\* earlier dbmap left, as long as that is read under its own columns.
Row(l, d, readable) ==
  LET left == Rows(older[l])[d]
  IN IF stamped[l][d] # 0 THEN stamped[l][d] ELSE IF left = 0 \/ readable THEN left ELSE Undated

\* Nobody has the roster open to write; while one has, it may be empty.
Settled(l) == \A p \in Procs : build[p].dir = l => build[p].at # "cut"

\* "Leaving every other row exactly as it was", and "a file written before a
\* kind was added still merges rather than being dropped": where no two builds
\* met at the roster and none died at it, it has the row of every database built
\* into the tree, with the stamp of its last build, whoever built what in which
\* order; of one only an earlier dbmap built it has the row, and its stamp as
\* long as nothing was built beside it.
RowsStay ==
  \A l \in Local \ clashed : Settled(l) =>
    \A d \in Databases : Rows(tree[l])[d] = Row(l, d, l \in narrow)
=============================================================================
