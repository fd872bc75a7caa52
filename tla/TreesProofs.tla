----------------------------- MODULE TreesProofs -----------------------------
(* What holds of the rosters, the registry and the clones, for any number of *)
(* processes, directories, databases and remotes.                            *)
EXTENDS Trees, WellFoundedInduction, TLAPS

-----------------------------------------------------------------------------
(* The roster.                                                              *)

\* What an empty or an absent roster says is a roster.
LEMMA RowsType ==
  ASSUME NEW roster \in Rosters \cup {None}
  PROVE  Rows(roster) \in Rosters
BY ClockAssumption DEF Rows, NoRows, Rosters, Stamps

LEMMA FilesType ==
  ASSUME NEW roster \in Files \cup {None}
  PROVE  Rows(roster) \in Files
BY ClockAssumption DEF Rows, NoRows, Files, Stamps

LEMMA RostersAreFiles == Rosters \subseteq Files
BY DEF Rosters, Files

LEMMA RowsOf ==
  ASSUME NEW roster \in Files
  PROVE  Rows(roster) = roster
BY NoRosterAssumption DEF Rows, Files, Stamps

\* Which builds are where, as far as a directory no two of them met in goes: at
\* most one has truncated its roster, and whoever is to write there has the rows
\* of every other database, as far as they can be read. A roster of an earlier
\* dbmap has no row of this one's.
At(p, l, at) == build[p].dir = l /\ build[p].at = at
Knows(p, l) == \A d \in Databases \ {build[p].of} : build[p].rows[d] = Row(l, d, FALSE)
Tells(l) == \A d \in Databases : Rows(tree[l])[d] = Row(l, d, l \in narrow)
RosterInv ==
  \A l \in Local \ clashed :
    /\ l \in narrow => stamped[l] = NoRows
    /\ \A p \in Procs : At(p, l, "cut") =>
         /\ tree[l] = NoRows /\ l \notin narrow /\ Knows(p, l)
         /\ \A q \in Procs : At(q, l, "cut") => q = p
    /\ (\A p \in Procs : ~At(p, l, "cut")) =>
         Tells(l) /\ \A p \in Procs : At(p, l, "read") => Knows(p, l)

LEMMA RosterInitial ==
  RosterInit => RosterTypeOK /\ RosterInv
<1> SUFFICES ASSUME RosterInit PROVE RosterTypeOK /\ RosterInv
  OBVIOUS
<1>1. NoRows \in Rosters
  BY ClockAssumption DEF NoRows, Rosters, Stamps
<1>2. older \in [Local -> Rosters \cup {None}]
  BY OlderAssumption DEF RosterInit
<1>3. tree \in [Local -> Files \cup {None}]
  BY <1>2, RostersAreFiles DEF RosterInit
<1>4. RosterTypeOK
  BY <1>1, <1>2, <1>3, ClockAssumption DEF RosterInit, RosterTypeOK, Stamps
<1>5. \A p \in Procs, l \in Local : ~At(p, l, "cut") /\ ~At(p, l, "read")
  BY DEF RosterInit, At, NoBuild
<1>6. ASSUME NEW l \in Local, NEW d \in Databases PROVE Rows(tree[l])[d] = Row(l, d, l \in narrow)
  <2>1. stamped[l][d] = 0 /\ tree[l] = older[l]
    BY DEF RosterInit, NoRows
  <2>2. l \in narrow \/ older[l] = None
    BY DEF RosterInit
  <2>3. older[l] = None => Rows(older[l])[d] = 0
    BY DEF Rows, NoRows
  <2> QED
    BY <2>1, <2>2, <2>3 DEF Row
<1>7. RosterInv
  BY <1>5, <1>6 DEF RosterInv, Tells, RosterInit
<1> QED
  BY <1>4, <1>7

\* A roster merged is a roster, with a stamp for the database built.
LEMMA MergedType ==
  ASSUME RosterTypeOK, NEW l \in Local, NEW d \in Databases
  PROVE  Merged(l, d) \in Files /\ Merged(l, d)[d] \in Stamps \ {0}
<1>1. Rows(tree[l]) \in Files
  BY FilesType DEF RosterTypeOK
<1>2. \A e \in Databases : Padded(l, e) \in Stamps \cup {Undated}
  BY <1>1 DEF Padded, Files
<1>3. now \in Stamps \ {0}
  BY DEF RosterTypeOK
<1> QED
  BY <1>2, <1>3 DEF Merged, Files

\* And it has the others' rows.
LEMMA MergedKnows ==
  ASSUME NEW l \in Local, NEW d \in Databases, NEW e \in Databases \ {d},
         Tells(l), l \in narrow => stamped[l] = NoRows
  PROVE  Merged(l, d)[e] = Row(l, e, FALSE)
<1>1. Merged(l, d)[e] = Padded(l, e)
  BY DEF Merged
<1>2. CASE l \in narrow
  <2>1. stamped[l][e] = 0
    BY <1>2 DEF NoRows
  <2>2. Row(l, e, FALSE) = IF Rows(older[l])[e] = 0 THEN Rows(older[l])[e] ELSE Undated
    BY <2>1 DEF Row
  <2>3. Rows(tree[l])[e] = Rows(older[l])[e]
    BY <1>2, <2>1 DEF Tells, Row
  <2>4. Padded(l, e) = IF Rows(tree[l])[e] # 0 THEN Undated ELSE Rows(tree[l])[e]
    BY <1>2 DEF Padded
  <2> QED
    BY <1>1, <2>2, <2>3, <2>4
<1>3. CASE l \notin narrow
  <2>1. Rows(tree[l])[e] = Row(l, e, FALSE)
    BY <1>3 DEF Tells, Row
  <2> QED
    BY <1>1, <1>3, <2>1 DEF Padded
<1> QED
  BY <1>2, <1>3

\* What a build at the roster is.
LEMMA BuildType ==
  ASSUME RosterTypeOK, NEW p \in Procs, build[p].at # "none"
  PROVE  /\ build[p] \in Builds /\ build[p].dir \in Local /\ build[p].of \in Databases /\ build[p].rows \in Files
         /\ build[p].rows[build[p].of] \in Stamps \ {0}
<1>1. build[p] \in Builds
  BY DEF RosterTypeOK, NoBuild
<1> QED
  BY <1>1 DEF Builds

LEMMA RosterTypes ==
  ASSUME RosterTypeOK, NEW p \in Procs, RosterStep(p)
  PROVE  RosterTypeOK'
<1> USE DEF RosterTypeOK
<1>1. ASSUME NEW l \in Local, NEW d \in Databases, Read(p, l, d) PROVE RosterTypeOK'
  <2> DEFINE b == [at |-> "read", dir |-> l, of |-> d, rows |-> Merged(l, d)]
  <2>1. b \in Builds
    BY MergedType DEF Builds
  <2>2. build' \in [Procs -> Builds \cup {NoBuild}]
    BY <1>1, <2>1 DEF Read
  <2> QED
    BY <1>1, <2>2 DEF Read
<1>2. CASE Truncate(p)
  <2>1. NoRows \in Files
    BY ClockAssumption DEF NoRows, Files, Stamps
  <2>2. build[p] \in Builds /\ build[p].dir \in Local
    BY <1>2, BuildType DEF Truncate
  <2>3. [build[p] EXCEPT !.at = "cut"] \in Builds
    BY <2>2 DEF Builds
  <2>4. build' \in [Procs -> Builds \cup {NoBuild}]
    BY <1>2, <2>3 DEF Truncate
  <2>5. clashed' \subseteq Local /\ narrow' \subseteq Local
    BY <1>2, <2>2 DEF Truncate, Clashed
  <2>6. tree' \in [Local -> Files \cup {None}]
    BY <1>2, <2>1 DEF Truncate
  <2> QED
    BY <1>2, <2>4, <2>5, <2>6 DEF Truncate
<1>3. CASE Write(p)
  <2> DEFINE l == build[p].dir  mine == build[p].rows
  <2>1. l \in Local /\ mine \in Files /\ mine[build[p].of] \in Stamps
    BY <1>3, BuildType DEF Write
  <2>2. PICK stays \in [Databases -> {TRUE, FALSE}] :
          tree' = [tree EXCEPT ![l] =
            [d \in Databases |-> IF Rows(tree[l])[d] # 0 /\ stays[d] THEN tree[l][d] ELSE mine[d]]]
    BY <1>3 DEF Write
  <2>3. \A d \in Databases : Rows(tree[l])[d] # 0 => tree[l][d] \in Stamps \cup {Undated}
    BY <2>1 DEF Rows, NoRows, Files
  <2>4. [d \in Databases |-> IF Rows(tree[l])[d] # 0 /\ stays[d] THEN tree[l][d] ELSE mine[d]] \in Files
    BY <2>1, <2>3 DEF Files
  <2>5. tree' \in [Local -> Files \cup {None}]
    BY <2>2, <2>4
  <2>6. stamped' \in [Local -> Rosters]
    <3>1. [stamped[l] EXCEPT ![build[p].of] = mine[build[p].of]] \in Rosters
      BY <2>1 DEF Rosters
    <3> QED
      BY <1>3, <3>1 DEF Write
  <2>7. clashed' \subseteq Local /\ now' \in Stamps \ {0} /\ narrow' \subseteq Local /\ older' \in [Local -> Rosters \cup {None}]
    BY <1>3, <2>1 DEF Write, Clashed
  <2>8. build' \in [Procs -> Builds \cup {NoBuild}]
    BY <1>3 DEF Write
  <2> QED
    BY <2>5, <2>6, <2>7, <2>8
<1>4. CASE BuildDies(p)
  <2>1. build[p].dir \in Local
    BY <1>4, BuildType DEF BuildDies
  <2> QED
    BY <1>4, <2>1 DEF BuildDies
<1> QED
  BY <1>1, <1>2, <1>3, <1>4 DEF RosterStep

\* Where nobody else is at the roster of a directory, nobody meets there.
LEMMA MeetingClashes ==
  ASSUME NEW p \in Procs, NEW q \in Procs \ {p}, build[q].at # "none", build[q].dir = build[p].dir
  PROVE  build[p].dir \in Clashed(p)
BY DEF Clashed, Meets

LEMMA RosterKept ==
  ASSUME RosterTypeOK, RosterInv, NEW p \in Procs, RosterStep(p)
  PROVE  RosterInv'
<1> DEFINE Inv(l) ==
      /\ l \in narrow => stamped[l] = NoRows
      /\ \A r \in Procs : At(r, l, "cut") =>
           /\ tree[l] = NoRows /\ l \notin narrow /\ Knows(r, l)
           /\ \A q \in Procs : At(q, l, "cut") => q = r
      /\ (\A r \in Procs : ~At(r, l, "cut")) =>
           Tells(l) /\ \A r \in Procs : At(r, l, "read") => Knows(r, l)
<1> SUFFICES ASSUME NEW l \in Local, l \notin clashed' PROVE Inv(l)'
  BY DEF RosterInv
<1>0. build \in [Procs -> Builds \cup {NoBuild}]
  BY DEF RosterTypeOK
<1>1. l \notin clashed
  BY DEF RosterStep, Read, Truncate, Write, BuildDies, Clashed
<1>2. Inv(l)
  BY <1>1 DEF RosterInv
<1>3. older' = older
  BY DEF RosterStep, Read, Truncate, Write, BuildDies
<1>4. ASSUME NEW k \in Local, NEW d \in Databases, Read(p, k, d) PROVE Inv(l)'
  <2>1. tree' = tree /\ stamped' = stamped /\ narrow' = narrow
    BY <1>4 DEF Read
  <2>2. \A r \in Procs : At(r, l, "cut")' <=> At(r, l, "cut")
    BY <1>0, <1>4 DEF Read, At
  <2>3. \A r \in Procs \ {p} : build'[r] = build[r]
    BY <1>0, <1>4 DEF Read
  <2>4. \A r \in Procs : At(r, l, "cut") => r # p
    BY <1>4 DEF Read, At
  <2>5. Tells(l)' <=> Tells(l)
    BY <1>3, <2>1 DEF Tells, Row
  <2>6. ASSUME \A r \in Procs : ~At(r, l, "cut"), At(p, l, "read")' PROVE Knows(p, l)'
    <3>1. k = l /\ build'[p].of = d /\ build'[p].rows = Merged(l, d)
      BY <1>0, <1>4, <2>6 DEF Read, At
    <3>2. \A e \in Databases \ {d} : Merged(l, d)[e] = Row(l, e, FALSE)
      BY <1>2, <2>6, <3>1, MergedKnows
    <3> QED
      BY <1>3, <2>1, <3>1, <3>2 DEF Knows, Row
  <2>7. \A r \in Procs \ {p} : Knows(r, l)' <=> Knows(r, l)
    BY <1>3, <2>1, <2>3 DEF Knows, Row
  <2>8. \A r \in Procs \ {p} : At(r, l, "read")' <=> At(r, l, "read")
    BY <2>3 DEF At
  <2> QED
    BY <1>2, <2>1, <2>2, <2>4, <2>5, <2>6, <2>7, <2>8
<1>5. CASE Truncate(p)
  <2>1. build[p] \in Builds
    BY <1>5, BuildType DEF Truncate
  <2>2. \A r \in Procs \ {p} : build'[r] = build[r]
    BY <1>0, <1>5 DEF Truncate
  <2>3. stamped' = stamped /\ build'[p].of = build[p].of /\ build'[p].rows = build[p].rows /\ build'[p].dir = build[p].dir
    BY <1>0, <1>5 DEF Truncate
  <2>4. \A r \in Procs : Knows(r, l)' <=> Knows(r, l)
    BY <1>3, <2>2, <2>3 DEF Knows, Row
  <2>5. CASE build[p].dir # l
    <3>1. tree'[l] = tree[l] /\ (l \in narrow' <=> l \in narrow)
      BY <1>5, <2>5 DEF Truncate, RosterTypeOK
    <3>2. \A r \in Procs : (At(r, l, "cut")' <=> At(r, l, "cut")) /\ (At(r, l, "read")' <=> At(r, l, "read"))
      BY <2>2, <2>3, <2>5 DEF At
    <3>3. Tells(l)' <=> Tells(l)
      BY <1>3, <2>3, <3>1 DEF Tells, Row
    <3> QED
      BY <1>2, <2>3, <2>4, <3>1, <3>2, <3>3
  <2>6. CASE build[p].dir = l
    <3>1. \A r \in Procs \ {p} : ~(build[r].at # "none" /\ build[r].dir = l)
      BY <1>5, <2>6, MeetingClashes DEF Truncate
    <3>2. \A r \in Procs : ~At(r, l, "cut")
      BY <1>5, <3>1 DEF Truncate, At
    <3>3. Knows(p, l)
      BY <1>2, <1>5, <2>6, <3>2 DEF Truncate, At
    <3>4. tree'[l] = NoRows /\ l \notin narrow'
      BY <1>5, <2>6 DEF Truncate, RosterTypeOK
    <3>5. \A r \in Procs \ {p} : ~At(r, l, "cut")'
      BY <2>2, <3>2 DEF At
    <3>6. At(p, l, "cut")'
      BY <1>0, <1>5, <2>3, <2>6 DEF Truncate, At
    <3> QED
      BY <2>4, <3>3, <3>4, <3>5, <3>6
  <2> QED
    BY <2>5, <2>6
<1>6. CASE Write(p)
  <2>1. build[p] \in Builds /\ build[p].of \in Databases /\ build[p].rows \in Files /\ build[p].rows[build[p].of] \in Stamps \ {0}
    BY <1>6, BuildType DEF Write
  <2>2. \A r \in Procs \ {p} : build'[r] = build[r]
    BY <1>0, <1>6 DEF Write
  <2>3. build'[p] = NoBuild /\ narrow' = narrow
    BY <1>0, <1>6 DEF Write
  <2>4. CASE build[p].dir # l
    <3>1. tree'[l] = tree[l] /\ stamped'[l] = stamped[l]
      BY <1>6, <2>4 DEF Write, RosterTypeOK
    <3>2. \A r \in Procs : (At(r, l, "cut")' <=> At(r, l, "cut")) /\ (At(r, l, "read")' <=> At(r, l, "read"))
      BY <2>2, <2>3, <2>4 DEF At, NoBuild
    <3>3. (\A r \in Procs \ {p} : Knows(r, l)' <=> Knows(r, l)) /\ (Tells(l)' <=> Tells(l))
      BY <1>3, <2>2, <2>3, <3>1 DEF Knows, Tells, Row
    <3>4. \A r \in Procs : At(r, l, "cut") \/ At(r, l, "read") => r # p
      BY <2>4 DEF At
    <3> QED
      BY <1>2, <2>3, <3>1, <3>2, <3>3, <3>4
  <2>5. CASE build[p].dir = l
    <3>1. \A r \in Procs \ {p} : ~(build[r].at # "none" /\ build[r].dir = l)
      BY <1>6, <2>5, MeetingClashes DEF Write
    <3>2. \A r \in Procs : ~At(r, l, "cut")' /\ ~At(r, l, "read")'
      BY <2>2, <2>3, <3>1 DEF At, NoBuild
    <3>3. tree[l] = NoRows /\ l \notin narrow /\ Knows(p, l)
      BY <1>2, <1>6, <2>5 DEF Write, At
    <3>4. Rows(tree[l]) = NoRows
      BY <3>3 DEF Rows
    <3>5. tree'[l] = [d \in Databases |-> build[p].rows[d]]
      <4>1. PICK stays \in [Databases -> {TRUE, FALSE}] :
              tree' = [tree EXCEPT ![l] =
                [d \in Databases |-> IF Rows(tree[l])[d] # 0 /\ stays[d] THEN tree[l][d] ELSE build[p].rows[d]]]
        BY <1>6, <2>5 DEF Write
      <4>2. \A d \in Databases : Rows(tree[l])[d] = 0
        BY <3>4 DEF NoRows
      <4>3. tree'[l] = [d \in Databases |-> IF Rows(tree[l])[d] # 0 /\ stays[d] THEN tree[l][d] ELSE build[p].rows[d]]
        BY <4>1 DEF RosterTypeOK
      <4> QED
        BY <4>2, <4>3
    <3>6. tree'[l] = build[p].rows
      BY <2>1, <3>5 DEF Files
    <3>7. Rows(tree[l])' = build[p].rows
      <4>1. Rows(build[p].rows) = build[p].rows
        BY <2>1, RowsOf
      <4> QED
        BY <3>6, <4>1 DEF Rows
    <3>8. stamped'[l] = [stamped[l] EXCEPT ![build[p].of] = build[p].rows[build[p].of]] /\ stamped[l] \in Rosters
      BY <1>6, <2>5 DEF Write, RosterTypeOK
    <3>9. ASSUME NEW d \in Databases PROVE build[p].rows[d] = Row(l, d, FALSE)'
      <4>1. CASE d = build[p].of
        BY <2>1, <3>8, <4>1 DEF Row, Rosters
      <4>2. CASE d # build[p].of
        BY <1>3, <3>3, <3>8, <4>2 DEF Knows, Row, Rosters
      <4> QED
        BY <4>1, <4>2
    <3>10. Tells(l)'
      BY <2>3, <3>3, <3>7, <3>9 DEF Tells, Row
    <3> QED
      BY <2>3, <3>2, <3>3, <3>10
  <2> QED
    BY <2>4, <2>5
<1>7. CASE BuildDies(p)
  <2>1. build[p] \in Builds
    BY <1>7, BuildType DEF BuildDies
  <2>2. tree' = tree /\ stamped' = stamped /\ narrow' = narrow /\ build'[p] = NoBuild /\ \A r \in Procs \ {p} : build'[r] = build[r]
    BY <1>0, <1>7 DEF BuildDies
  <2>3. ~At(p, l, "cut")
    BY <1>7 DEF BuildDies, At
  <2>4. \A r \in Procs : At(r, l, "cut")' <=> At(r, l, "cut")
    BY <2>2, <2>3 DEF At, NoBuild
  <2>5. \A r \in Procs : At(r, l, "read")' => At(r, l, "read") /\ r # p
    BY <2>2 DEF At, NoBuild
  <2>6. (\A r \in Procs \ {p} : Knows(r, l)' <=> Knows(r, l)) /\ (Tells(l)' <=> Tells(l))
    BY <1>3, <2>2 DEF Knows, Tells, Row
  <2> QED
    BY <1>2, <2>2, <2>3, <2>4, <2>5, <2>6
<1> QED
  BY <1>4, <1>5, <1>6, <1>7 DEF RosterStep

-----------------------------------------------------------------------------
(* Types.                                                                   *)

LEMMA RemoteRootFacts ==
  ASSUME NEW r \in RemoteRoots
  PROVE  r \in Roots /\ r.name \in Names /\ r.path = r.name /\ r.remote \in Remotes /\ r # None /\ r.remote # None
BY NoneAssumption DEF RemoteRoots, Roots, Root

\* A root with a remote is cloned under its name.
LEMMA RemoteIsRemote ==
  ASSUME NEW r \in Roots, r.remote # None
  PROVE  r \in RemoteRoots
BY DEF RemoteRoots, Roots, Root

LEMMA RootNames ==
  ASSUME NEW r \in Roots
  PROVE  r.name \in Names
BY DEF RemoteRoots, Roots, Root

LEMMA SyncType ==
  ASSUME TypeOK, NEW p \in Procs, Running(p)
  PROVE  cmd[p] \in Syncs
<1>1. cmd[p] \in Edits \cup Syncs \cup {NoCommand}
  BY DEF TypeOK
<1>2. \A c \in Edits : c.what = "edit"
  BY DEF Edits
<1>3. NoCommand.what = "none"
  BY DEF NoCommand
<1> QED
  BY <1>1, <1>2, <1>3 DEF Running, Syncing, Orphan

LEMMA EditType ==
  ASSUME TypeOK, NEW p \in Procs, cmd[p].what = "edit"
  PROVE  cmd[p] \in Edits /\ cmd[p].file \in Registries /\ cmd[p].change \in Changes
BY DEF TypeOK, Syncs, NoCommand, Edits

\* What an edit writes is a registry.
LEMMA EditedType ==
  ASSUME NEW file \in Registries, NEW c \in Changes
  PROVE  Edited(file, c) \in Registries
<1>1. Without(file, About(c)) \subseteq Roots
  BY DEF Without, Registries
<1>2. (c.do = "add" => c.root \in Roots) /\ (c.do = "remind" => c.hours \in Hours \cup {None})
  BY DEF Changes
<1> QED
  BY <1>1, <1>2 DEF Edited, Registries

\* While a root is pulled it is one with a remote, and its checkout one or none.
LEMMA PullType ==
  ASSUME TypeOK, NEW p \in Procs, NEW at \in {"pull", "reset", "remove", "clone", "cloning"}, Pulling(p, at)
  PROVE  cmd[p] \in Syncs /\ Current(p) \in RemoteRoots /\ Current(p).path \in Names /\ Here(p) \in Checkouts \cup {None}
<1>1. cmd[p] \in Syncs
  BY SyncType DEF Pulling
<1>2. Current(p) \in RemoteRoots
  BY <1>1 DEF TypeOK, Pulling, Running, Current, Syncs
<1>3. Current(p).path \in Names
  BY <1>2, RemoteRootFacts
<1> QED
  BY <1>1, <1>2, <1>3 DEF TypeOK, Here

\* A step of a sync that leaves a checkout or none, and goes on or ends, keeps
\* the types.
LEMMA PullTypes ==
  ASSUME TypeOK, NEW p \in Procs, Apart,
         clones' \in [Names -> Checkouts \cup {None}],
         NEW c \in Syncs \cup {NoCommand}, cmd' = [cmd EXCEPT ![p] = c],
         (c.what = "sync" /\ c.at # "next") \/ c.what = "git" => c.root # None
  PROVE  TypeOK'
<1>1. RosterTypeOK'
  BY DEF TypeOK, Apart, rosters, RosterTypeOK
<1>2. cmd' \in [Procs -> Edits \cup Syncs \cup {NoCommand}]
  BY DEF TypeOK
<1>3. \A q \in Procs : ((Syncing(q) /\ cmd[q].at # "next") \/ Orphan(q) => Current(q) # None)'
  BY DEF TypeOK, Syncing, Orphan, Current
<1> QED
  BY <1>1, <1>2, <1>3 DEF TypeOK, Apart

LEMMA Goings ==
  ASSUME NEW c \in Syncs, NEW at \in {"next", "pull", "reset", "remove", "clone", "cloning"}
  PROVE  /\ [c EXCEPT !.at = at] \in Syncs
         /\ [c EXCEPT !.at = at].at = at
         /\ [c EXCEPT !.at = at].root = c.root
         /\ [c EXCEPT !.at = at].what = c.what
BY DEF Syncs

\* What a kill leaves of a checkout is one, or none.
LEMMA WrecksType ==
  ASSUME TypeOK, NEW c \in Checkouts, NEW at, NEW c2 \in Wrecks(at, c)
  PROVE  c2 \in Checkouts \cup {None}
<1>1. published[c.origin] \in Rosters \cup {None} /\ c.fetched \subseteq Rosters \cup {None}
  BY DEF TypeOK, Checkouts
<1>2. ASSUME NEW states \in SUBSET {"whole", "partial", "locked", "torn"}, NEW kept \in SUBSET (Rosters \cup {None})
      PROVE  Left(c, states, kept) \subseteq Checkouts
  <2>1. ASSUME NEW e \in Left(c, states, kept) PROVE e \in Checkouts
    <3>1. PICK w \in states \X kept : e = [c EXCEPT !.state = w[1], !.rows = w[2]]
      BY DEF Left
    <3> QED
      BY <3>1 DEF Checkouts
  <2> QED
    BY <2>1
<1>3. Left(c, {"partial", "torn"}, {None}) \subseteq Checkouts /\ Left(c, {"locked"}, {None, published[c.origin]}) \subseteq Checkouts
  BY <1>1, <1>2
<1>4. c.state \in {"whole", "partial", "locked", "torn"} /\ c.rows \in Rosters \cup {None}
  BY DEF Checkouts
<1>5. Left(c, IF c.state = "torn" THEN {"torn"} ELSE {"partial", "torn", c.state} \ {"whole"}, {None, c.rows}) \subseteq Checkouts
  BY <1>2, <1>4
<1>6. Left(c, {"partial", "locked"}, c.fetched \cup {c.rows}) \subseteq Checkouts
  BY <1>1, <1>2, <1>4
<1> QED
  BY <1>3, <1>5, <1>6, Zenon DEF Wrecks

LEMMA StepTypes ==
  ASSUME TypeOK, NEW p \in Procs, Step(p)
  PROVE  TypeOK'
<1>1. ASSUME NEW c \in Changes, StartEdit(p, c) PROVE TypeOK'
  <2>1. RosterTypeOK'
    BY <1>1 DEF TypeOK, StartEdit, rosters, RosterTypeOK
  <2>2. Edit(c) \in Edits
    BY DEF Edit, Edits, TypeOK
  <2>3. cmd' \in [Procs -> Edits \cup Syncs \cup {NoCommand}]
    BY <1>1, <2>2 DEF StartEdit, TypeOK
  <2>4. \A q \in Procs : ((Syncing(q) /\ cmd[q].at # "next") \/ Orphan(q) => Current(q) # None)'
    BY <1>1, <2>2 DEF StartEdit, TypeOK, Syncing, Orphan, Current, Edits
  <2>5. left' \in 0 .. MaxCommands
    BY <1>1, CommandsAssumption DEF StartEdit, Given, TypeOK
  <2> QED
    BY <1>1, <2>1, <2>3, <2>4, <2>5 DEF StartEdit, TypeOK
<1>2. CASE Save(p)
  <2>1. RosterTypeOK'
    BY <1>2 DEF TypeOK, Save, rosters, RosterTypeOK
  <2>2. cmd[p] \in Edits /\ cmd[p].file \in Registries /\ cmd[p].change \in Changes
    BY <1>2, EditType DEF Save
  <2>3. Edited(cmd[p].file, cmd[p].change) \in Registries
    BY <2>2, EditedType
  <2>7. spoiled' \subseteq Names
    <3>1. \A r \in cmd[p].file.broken : r.name \in Names
      BY <2>2, RootNames DEF Registries
    <3> QED
      BY <1>2, <3>1 DEF Save, TypeOK
  <2>4. asked' \in [Names -> Roots \cup {None}]
    <3> DEFINE c == cmd[p].change
    <3>1. c \in Changes /\ asked \in [Names -> Roots \cup {None}]
      BY <2>2 DEF TypeOK
    <3>2. CASE c.do = "add"
      <4>1. c.root \in Roots
        BY <3>1, <3>2 DEF Changes
      <4> QED
        BY <1>2, <3>1, <3>2, <4>1 DEF Save
    <3>3. CASE c.do # "add"
      BY <1>2, <3>1, <3>3 DEF Save, Changes
    <3> QED
      BY <3>2, <3>3
  <2>5. cmd' \in [Procs -> Edits \cup Syncs \cup {NoCommand}]
    BY <1>2 DEF Save, TypeOK
  <2>6. \A q \in Procs : ((Syncing(q) /\ cmd[q].at # "next") \/ Orphan(q) => Current(q) # None)'
    BY <1>2 DEF Save, TypeOK, Syncing, Orphan, Current, NoCommand
  <2> QED
    BY <1>2, <2>1, <2>3, <2>4, <2>5, <2>6, <2>7 DEF Save, TypeOK
<1>3. ASSUME NEW wanted \in SUBSET Names, StartSync(p, wanted) PROVE TypeOK'
  <2>1. RosterTypeOK'
    BY <1>3 DEF TypeOK, StartSync, rosters, RosterTypeOK
  <2>2. Published(wanted) \subseteq RemoteRoots
    BY RemoteIsRemote DEF Published, TypeOK, Registries
  <2>3. Sync(Published(wanted)) \in Syncs
    BY <2>2 DEF Sync, Syncs, TypeOK
  <2>4. cmd' \in [Procs -> Edits \cup Syncs \cup {NoCommand}]
    BY <1>3, <2>3 DEF StartSync, TypeOK
  <2>5. \A q \in Procs : ((Syncing(q) /\ cmd[q].at # "next") \/ Orphan(q) => Current(q) # None)'
    BY <1>3 DEF StartSync, TypeOK, Syncing, Orphan, Current, Sync
  <2>6. left' \in 0 .. MaxCommands
    BY <1>3, CommandsAssumption DEF StartSync, Given, TypeOK
  <2>7. crossed' \subseteq Procs
    BY <1>3 DEF StartSync, TypeOK
  <2> QED
    BY <1>3, <2>1, <2>4, <2>5, <2>6, <2>7 DEF StartSync, TypeOK
<1>4. CASE Turn(p)
  <2>1. cmd[p] \in Syncs /\ cmd[p].todo \subseteq RemoteRoots
    BY <1>4, SyncType DEF Turn, Running, Syncs
  <2>2. PICK r \in cmd[p].todo : cmd' = [cmd EXCEPT ![p].todo = @ \ {r}, ![p].root = r, ![p].at = "pull"]
    BY <1>4 DEF Turn
  <2>3. cmd' = [cmd EXCEPT ![p] = [cmd[p] EXCEPT !.todo = @ \ {r}, !.root = r, !.at = "pull"]]
    BY <2>2 DEF TypeOK
  <2>4. [cmd[p] EXCEPT !.todo = @ \ {r}, !.root = r, !.at = "pull"] \in Syncs
    BY <2>1 DEF Syncs
  <2>5. [cmd[p] EXCEPT !.todo = @ \ {r}, !.root = r, !.at = "pull"].root # None
    BY <2>1, RemoteRootFacts DEF Syncs
  <2> QED
    BY <1>4, <2>3, <2>4, <2>5, PullTypes DEF Turn, TypeOK
<1>7. ASSUME Fails(p), Apart, clones' \in [Names -> Checkouts \cup {None}] PROVE TypeOK'
  <2>1. ~(NoCommand.what = "sync") /\ ~(NoCommand.what = "git")
    BY DEF NoCommand
  <2> QED
    BY <1>7, <2>1, PullTypes DEF Fails
<1>5. ASSUME NEW at \in {"pull", "reset", "remove", "clone", "cloning"}, Pulling(p, at),
             NEW to \in {"next", "pull", "reset", "remove", "clone", "cloning"}, Goes(p, to), Apart,
             clones' = clones \/ \E c \in Checkouts \cup {None} : Leaves(p, c)
      PROVE  TypeOK'
  <2>1. cmd[p] \in Syncs /\ Current(p) \in RemoteRoots /\ Current(p).path \in Names
    BY <1>5, PullType
  <2>2. clones' \in [Names -> Checkouts \cup {None}]
    BY <1>5 DEF Leaves, TypeOK
  <2>3. CASE Syncing(p)
    <3>1. cmd' = [cmd EXCEPT ![p] = [cmd[p] EXCEPT !.at = to]]
      BY <1>5, <2>3 DEF Goes, TypeOK
    <3>2. [cmd[p] EXCEPT !.at = to] \in Syncs /\ [cmd[p] EXCEPT !.at = to].root # None
      BY <2>1, Goings, RemoteRootFacts DEF Current
    <3> QED
      BY <1>5, <2>2, <3>1, <3>2, PullTypes
  <2>4. CASE ~Syncing(p)
    BY <1>5, <1>7, <2>2, <2>4 DEF Goes
  <2> QED
    BY <2>3, <2>4
<1>6. ASSUME NEW at \in {"pull", "reset", "remove", "clone", "cloning"}, Pulling(p, at), Pulled(p), Apart,
             clones' = clones \/ \E c \in Checkouts : Leaves(p, c)
      PROVE  TypeOK'
  <2>1. cmd[p] \in Syncs /\ Current(p) \in RemoteRoots /\ Current(p).path \in Names
    BY <1>6, PullType
  <2> DEFINE after == [cmd[p] EXCEPT !.at = "next", !.pulled = @ \cup {Current(p)}]
  <2>2. clones' \in [Names -> Checkouts \cup {None}]
    BY <1>6 DEF Leaves, TypeOK
  <2>3. CASE Syncing(p)
    <3>1. cmd' = [cmd EXCEPT ![p] = after]
      BY <1>6, <2>3 DEF Pulled, TypeOK
    <3>2. after \in Syncs /\ after.at = "next" /\ after.what = "sync"
      BY <2>1, <2>3 DEF Syncs, Syncing
    <3> QED
      BY <1>6, <2>2, <3>1, <3>2, PullTypes
  <2>4. CASE ~Syncing(p)
    BY <1>6, <1>7, <2>2, <2>4 DEF Pulled
  <2> QED
    BY <2>3, <2>4
<1>8. CASE Fetch(p)
  <2>1. Here(p) \in Checkouts /\ Current(p).remote \in Remotes
    BY <1>8, PullType, RemoteRootFacts DEF Fetch
  <2>2. published[Here(p).origin] \in Rosters \cup {None}
    BY <2>1 DEF TypeOK, Checkouts
  <2>3. [Here(p) EXCEPT !.fetched = {published[Here(p).origin]}] \in Checkouts
    BY <2>1, <2>2 DEF Checkouts
  <2> QED
    BY <1>5, <1>8, <2>3 DEF Fetch
<1>9. CASE FetchFails(p)
  BY <1>5, <1>9 DEF FetchFails
<1>10. CASE Reset(p)
  <2>1. Here(p) \in Checkouts
    BY <1>10, PullType DEF Reset, Resets
  <2>2. PICK rows \in Here(p).fetched : Leaves(p, [Here(p) EXCEPT !.state = "whole", !.rows = rows])
    BY <1>10 DEF Reset
  <2>3. [Here(p) EXCEPT !.state = "whole", !.rows = rows] \in Checkouts
    BY <2>1 DEF Checkouts
  <2> QED
    BY <1>6, <1>10, <2>2, <2>3 DEF Reset
<1>11. CASE ResetFails(p)
  BY <1>7, <1>11 DEF ResetFails, TypeOK
<1>12. CASE RemoveCheckout(p)
  BY <1>5, <1>12 DEF RemoveCheckout
<1>13. CASE StartClone(p)
  <2>1. PICK at \in {"pull", "clone"} : Pulling(p, at)
    BY <1>13 DEF StartClone, Pulling, Running
  <2>2. Current(p).remote \in Remotes
    BY <2>1, PullType, RemoteRootFacts
  <2>3. Checkout("partial", Current(p).remote, None) \in Checkouts
    BY <2>2 DEF Checkout, Checkouts
  <2> QED
    BY <1>5, <1>13, <2>1, <2>3 DEF StartClone
<1>14. CASE Clone(p)
  <2>1. Current(p).remote \in Remotes
    BY <1>14, PullType, RemoteRootFacts DEF Clone
  <2>2. Checkout("whole", Current(p).remote, published[Current(p).remote]) \in Checkouts
    BY <2>1 DEF Checkout, Checkouts, TypeOK
  <2> QED
    BY <1>6, <1>14, <2>2 DEF Clone
<1>15. CASE CloneFails(p)
  <2>1. clones' \in [Names -> Checkouts \cup {None}]
    BY <1>15 DEF CloneFails, Leaves, TypeOK
  <2> QED
    BY <1>7, <1>15, <2>1 DEF CloneFails
<1>16. CASE Finish(p)
  BY <1>7, <1>16 DEF Finish, TypeOK
<1>17. CASE Die(p)
  <2>1. clones' \in [Names -> Checkouts \cup {None}]
    <3>1. CASE Running(p) /\ cmd[p].at # "next" /\ Here(p) # None
      <4>1. cmd[p] \in Syncs
        BY <3>1, SyncType
      <4>2. PICK at \in {"pull", "reset", "remove", "clone", "cloning"} : cmd[p].at = at
        BY <3>1, <4>1 DEF Syncs
      <4>3. Here(p) \in Checkouts /\ Current(p).path \in Names
        BY <3>1, <4>2, PullType DEF Pulling
      <4>4. PICK c \in Wrecks(cmd[p].at, Here(p)) : Leaves(p, c)
        BY <1>17, <3>1 DEF Die
      <4> QED
        BY <4>3, <4>4, WrecksType DEF Leaves, TypeOK
    <3>2. CASE ~(Running(p) /\ cmd[p].at # "next" /\ Here(p) # None)
      BY <1>17, <3>2 DEF Die, TypeOK
    <3> QED
      BY <3>1, <3>2
  <2> QED
    BY <1>7, <1>17, <2>1 DEF Die
<1>19. CASE FetchStray(p) \/ ResetStray(p)
  <2>1. CASE FetchStray(p)
    BY <1>5, <2>1 DEF FetchStray
  <2>2. CASE ResetStray(p)
    BY <1>6, <2>2 DEF ResetStray
  <2> QED
    BY <1>19, <2>1, <2>2
<1>20. CASE DieAlone(p)
  <2>1. cmd[p] \in Syncs /\ Current(p) # None
    BY <1>20, SyncType DEF DieAlone, Running, TypeOK
  <2>2. cmd' = [cmd EXCEPT ![p] = [cmd[p] EXCEPT !.what = "git"]]
    BY <1>20 DEF DieAlone, TypeOK
  <2>3. [cmd[p] EXCEPT !.what = "git"] \in Syncs /\ [cmd[p] EXCEPT !.what = "git"].root # None
    BY <2>1 DEF Syncs, Current
  <2> QED
    BY <1>20, <2>2, <2>3, PullTypes DEF DieAlone, TypeOK
<1>18. \A wanted \in {Names} \cup {{n} : n \in Names} : wanted \in SUBSET Names
  OBVIOUS
<1> QED
  BY <1>1, <1>2, <1>3, <1>4, <1>8, <1>9, <1>10, <1>11, <1>12, <1>13, <1>14, <1>15, <1>16, <1>17, <1>18, <1>19, <1>20 DEF Step

LEMMA TreesTyped ==
  Init => TypeOK
<1> SUFFICES ASSUME Init PROVE TypeOK
  OBVIOUS
<1>1. RosterTypeOK
  BY RosterInitial DEF Init
<1>2. PICK root \in Installed \cup {None} :
       /\ registry = [whole |-> TRUE, roots |-> {root} \ {None}, broken |-> {}, remind |-> None]
       /\ clones = [n \in Names |-> IF root # None /\ n = root.path THEN Checkout("whole", root.remote, None) ELSE None]
       /\ asked = [n \in Names |-> IF root # None /\ n = root.name THEN root ELSE None]
  BY DEF Init, TreesInit
<1>3. root = None \/ root \in Roots
  BY InstalledAssumption
<1>4. ASSUME NEW n \in Names, root # None, n = root.path PROVE Checkout("whole", root.remote, None) \in Checkouts
  <2>1. root.remote \in Remotes
    BY <1>3, <1>4, PlacesAssumption DEF Roots, RemoteRoots, Root
  <2> QED
    BY <2>1 DEF Checkout, Checkouts
<1>5. clones \in [Names -> Checkouts \cup {None}]
  BY <1>2, <1>4
<1>6. registry \in Registries /\ asked \in [Names -> Roots \cup {None}]
  BY <1>2, <1>3 DEF Registries
<1>7. \A p \in Procs : ~Syncing(p) /\ ~Orphan(p)
  BY DEF Init, TreesInit, Syncing, Orphan, NoCommand
<1>8. cmd \in [Procs -> Edits \cup Syncs \cup {NoCommand}] /\ published \in [Remotes -> Rosters \cup {None}]
  BY DEF Init, TreesInit
<1>9. left \in 0 .. MaxCommands /\ crossed \subseteq Procs /\ spoiled \subseteq Names
  BY CommandsAssumption, SMT DEF Init, TreesInit
<1>10. raced \in BOOLEAN
  BY Zenon DEF Init, TreesInit
<1> QED
  BY <1>1, <1>5, <1>6, <1>7, <1>8, <1>9, <1>10 DEF TypeOK

LEMMA TypesKept ==
  ASSUME TypeOK, [Next]_vars
  PROVE  TypeOK'
<1>1. CASE UNCHANGED vars
  BY <1>1 DEF TypeOK, RosterTypeOK, vars, plugin, rosters, Syncing, Orphan, Current
<1>2. CASE Time
  <2>1. RosterTypeOK'
    BY <1>2, ClockAssumption DEF Time, Tick, TypeOK, RosterTypeOK, Stamps
  <2> QED
    BY <1>2, <2>1 DEF Time, plugin, TypeOK, Syncing, Orphan, Current
<1>3. CASE HandEdit
  <2>1. registry' \in Registries
    <3>1. registry \in Registries
      BY DEF TypeOK
    <3>2. [registry EXCEPT !.whole = ~@] \in Registries
      BY <3>1 DEF Registries
    <3>3. ASSUME NEW r \in registry.roots PROVE [registry EXCEPT !.roots = @ \ {r}, !.broken = @ \cup {r}] \in Registries
      BY <3>1 DEF Registries
    <3>4. ASSUME NEW r \in registry.broken PROVE [registry EXCEPT !.roots = @ \cup {r}, !.broken = @ \ {r}] \in Registries
      BY <3>1 DEF Registries
    <3> QED
      BY <1>3, <3>2, <3>3, <3>4 DEF HandEdit
  <2> QED
    BY <1>3, <2>1 DEF HandEdit, TypeOK, RosterTypeOK, rosters, Syncing, Orphan, Current
<1>4. ASSUME NEW r \in Remotes, NEW d \in Databases, Publish(r, d) PROVE TypeOK'
  <2>1. Rows(published[r]) \in Rosters /\ now \in Stamps
    BY RowsType DEF TypeOK, RosterTypeOK
  <2>2. [Rows(published[r]) EXCEPT ![d] = now] \in Rosters
    BY <2>1 DEF Rosters
  <2>3. published' \in [Remotes -> Rosters \cup {None}]
    BY <1>4, <2>2 DEF Publish, TypeOK
  <2> QED
    BY <1>4, <2>3 DEF Publish, TypeOK, RosterTypeOK, rosters, Syncing, Orphan, Current
<1>5. ASSUME NEW p \in Procs, Build(p) PROVE TypeOK'
  <2>1. RosterTypeOK'
    BY <1>5, RosterTypes DEF Build, TypeOK
  <2>2. left' \in 0 .. MaxCommands
    BY <1>5, CommandsAssumption DEF Build, Given, TypeOK
  <2> QED
    BY <1>5, <2>1, <2>2 DEF Build, TypeOK, Syncing, Orphan, Current
<1> QED
  BY <1>1, <1>2, <1>3, <1>4, <1>5, StepTypes DEF Next

\* Every variable keeps its shape, and a sync that is at a root knows which.
THEOREM TypesHold == Spec => []TypeOK
BY TreesTyped, TypesKept, PTL DEF Spec

-----------------------------------------------------------------------------
(* The roster, among commands.                                              *)

\* Only a build and the clock change what a roster has to do with.
LEMMA RostersAlone ==
  ASSUME NEW p \in Procs, Step(p)
  PROVE  UNCHANGED rosters
BY DEF Step, StartEdit, Save, StartSync, Turn, Fetch, FetchFails, FetchStray, Reset, ResetFails, ResetStray,
       RemoveCheckout, StartClone, Clone, CloneFails, Finish, Die, DieAlone, Apart

LEMMA RowsKept ==
  ASSUME TypeOK, RosterInv, [Next]_vars
  PROVE  RosterInv'
<1>1. CASE UNCHANGED <<tree, narrow, build, older, stamped, clashed>>
  BY <1>1 DEF RosterInv, At, Knows, Tells, Row
<1>2. CASE \E p \in Procs : Build(p)
  BY <1>2, RosterKept DEF Build, TypeOK
<1>3. CASE \E p \in Procs : Step(p)
  BY <1>1, <1>3, RostersAlone DEF rosters
<1>4. CASE UNCHANGED vars \/ Time \/ HandEdit \/ \E r \in Remotes, d \in Databases : Publish(r, d)
  BY <1>1, <1>4 DEF vars, rosters, Time, Tick, HandEdit, Publish
<1> QED
  BY <1>2, <1>3, <1>4 DEF Next

LEMMA RosterInvGives ==
  ASSUME RosterInv
  PROVE  RowsStay
BY DEF RosterInv, RowsStay, At, Tells, Settled

\* A roster no two builds met at, and none died at, has the row of every
\* database built into its tree, with the stamp of its last build, and of every
\* one an earlier dbmap left there, whose stamp the first build beside it loses.
THEOREM RowsStayHolds == Spec => []RowsStay
<1>1. Init => RosterInv
  BY RosterInitial DEF Init
<1>2. Spec => []RosterInv
  BY <1>1, TypesHold, RowsKept, PTL DEF Spec
<1> QED
  BY <1>2, RosterInvGives, PTL

-----------------------------------------------------------------------------
(* The registry.                                                            *)

\* As long as no edit was saved beside another, the registry agrees with what
\* was asked, and an edit still to be saved read the rows that are in it, whether
\* a hand has broken or mended one since.
Held(file) == file.roots \cup file.broken
Parted(file) == file.roots \cap file.broken = {}
Of(n, roots) == {r \in roots : r.name = n}
Agrees == \A n \in Names : Of(n, Held(registry)) = IF n \in spoiled THEN {} ELSE {asked[n]} \ {None}
Fresh(p) == cmd[p].what = "edit" => Held(cmd[p].file) = Held(registry) /\ Parted(cmd[p].file)
RegistryInv == ~raced => Parted(registry) /\ Agrees /\ \A p \in Procs : Fresh(p)

LEMMA RegistryInitial ==
  Init => RegistryInv
<1> SUFFICES ASSUME Init PROVE Parted(registry) /\ Agrees /\ \A p \in Procs : Fresh(p)
  BY DEF RegistryInv
<1>1. PICK root \in Installed \cup {None} :
       /\ registry = [whole |-> TRUE, roots |-> {root} \ {None}, broken |-> {}, remind |-> None]
       /\ asked = [n \in Names |-> IF root # None /\ n = root.name THEN root ELSE None]
  BY DEF Init, TreesInit
<1>2. Held(registry) = {root} \ {None} /\ Parted(registry) /\ spoiled = {}
  BY <1>1 DEF Held, Parted, Init, TreesInit
<1>3. Agrees
  BY <1>1, <1>2 DEF Agrees, Of
<1>4. \A p \in Procs : Fresh(p)
  BY DEF Init, TreesInit, Fresh, NoCommand
<1> QED
  BY <1>2, <1>3, <1>4

\* What an edit makes of the roots of one name.
LEMMA EditedRoots ==
  ASSUME NEW file \in Registries, NEW c \in Changes, NEW n \in Names
  PROVE  /\ Edited(file, c).broken = {}
         /\ Of(n, Edited(file, c).roots) =
              IF n = About(c) THEN IF c.do = "add" THEN {c.root} ELSE {} ELSE Of(n, file.roots)
<1>1. Edited(file, c).broken = {}
  BY DEF Edited
<1>2. Edited(file, c).roots = Without(file, About(c)) \cup IF c.do = "add" THEN {c.root} ELSE {}
  BY DEF Edited
<1>3. c.do = "add" => About(c) = c.root.name
  BY DEF About
<1> QED
  BY <1>1, <1>2, <1>3 DEF Without, Of

\* What else a command does leaves the roots and the edits under way as they are.
LEMMA RegistryAlone ==
  ASSUME TypeOK, RegistryInv, NEW p \in Procs,
         registry' = registry, asked' = asked, spoiled' = spoiled, raced' = raced,
         cmd' = cmd \/ \E c \in Syncs \cup {NoCommand} : cmd' = [cmd EXCEPT ![p] = c]
  PROVE  RegistryInv'
<1>1. \A c \in Syncs \cup {NoCommand} : c.what # "edit"
  BY DEF Syncs, NoCommand
<1>2. \A q \in Procs : Fresh(q) => Fresh(q)'
  BY <1>1 DEF Fresh, TypeOK
<1> QED
  BY <1>2 DEF RegistryInv, Agrees

LEMMA SyncSteps ==
  ASSUME TypeOK, NEW p \in Procs, Step(p)
  PROVE  \/ \E c \in Changes : StartEdit(p, c)
         \/ Save(p)
         \/ /\ UNCHANGED <<registry, asked, spoiled, raced>>
            /\ \E c \in Syncs \cup {NoCommand} : cmd' = [cmd EXCEPT ![p] = c]
<1>1. TypeOK'
  BY StepTypes
<1>2. ASSUME NEW wanted \in SUBSET Names, StartSync(p, wanted)
      PROVE  \E c \in Syncs \cup {NoCommand} : cmd' = [cmd EXCEPT ![p] = c]
  <2>1. Published(wanted) \subseteq RemoteRoots
    BY RemoteIsRemote DEF Published, TypeOK, Registries
  <2>2. Sync(Published(wanted)) \in Syncs
    BY <2>1 DEF Sync, Syncs, TypeOK
  <2> QED
    BY <1>2, <2>2 DEF StartSync
<1>3. ASSUME Running(p)', \A q \in Procs \ {p} : cmd'[q] = cmd[q]
      PROVE  \E c \in Syncs \cup {NoCommand} : cmd' = [cmd EXCEPT ![p] = c]
  <2>0. (\A c \in Edits : c.what = "edit") /\ NoCommand.what = "none" /\ cmd'[p].what \in {"sync", "git"}
    BY <1>3 DEF Edits, NoCommand, Running, Syncing, Orphan
  <2>1. cmd'[p] \in Syncs
    BY <1>1, <2>0 DEF TypeOK
  <2>2. cmd' = [cmd EXCEPT ![p] = cmd'[p]]
    BY <1>1, <1>3 DEF TypeOK
  <2> QED
    BY <2>1, <2>2
<1>4. ASSUME Fails(p) PROVE \E c \in Syncs \cup {NoCommand} : cmd' = [cmd EXCEPT ![p] = c]
  BY <1>4 DEF Fails
<1>5. ASSUME Running(p),
             \/ Turn(p) \/ DieAlone(p)
             \/ \E to \in {"next", "pull", "reset", "remove", "clone", "cloning"} : Goes(p, to)
             \/ Pulled(p)
      PROVE  \E c \in Syncs \cup {NoCommand} : cmd' = [cmd EXCEPT ![p] = c]
  <2>1. cmd[p] \in Syncs /\ cmd \in [Procs -> Edits \cup Syncs \cup {NoCommand}]
    BY <1>5, SyncType DEF TypeOK
  <2>2. CASE Fails(p)
    BY <1>4, <2>2
  <2>3. CASE ~Fails(p)
    <3>1. \A q \in Procs \ {p} : cmd'[q] = cmd[q]
      BY <1>5, <2>1, <2>3 DEF Turn, DieAlone, Goes, Pulled
    <3>2. Running(p)'
      <4>1. CASE Turn(p)
        BY <2>1, <4>1 DEF Turn, Running, Syncing, Syncs
      <4>2. ASSUME NEW to \in {"next", "pull", "reset", "remove", "clone", "cloning"}, Goes(p, to) PROVE Running(p)'
        BY <2>1, <2>3, <4>2 DEF Goes, Running, Syncing, Syncs
      <4>3. CASE Pulled(p)
        BY <2>1, <2>3, <4>3 DEF Pulled, Running, Syncing, Syncs
      <4>4. CASE DieAlone(p)
        BY <2>1, <4>4 DEF DieAlone, Running, Orphan, Syncs
      <4> QED
        BY <1>5, <4>1, <4>2, <4>3, <4>4
    <3> QED
      BY <1>3, <3>1, <3>2
  <2> QED
    BY <2>2, <2>3
<1>6. \A wanted \in {Names} \cup {{n} : n \in Names} : wanted \in SUBSET Names
  OBVIOUS
<1> QED
  <2>1. CASE \E wanted \in {Names} \cup {{n} : n \in Names} : StartSync(p, wanted)
    BY <1>2, <1>6, <2>1 DEF StartSync
  <2>2. CASE \/ Turn(p) \/ Fetch(p) \/ FetchFails(p) \/ FetchStray(p) \/ Reset(p) \/ ResetStray(p)
             \/ RemoveCheckout(p) \/ StartClone(p) \/ Clone(p) \/ DieAlone(p)
    <3>1. Running(p) /\ Apart
      BY <2>2 DEF Turn, Fetch, FetchFails, FetchStray, Reset, ResetStray, RemoveCheckout, StartClone, Clone, DieAlone,
                  Pulling, Running
    <3> QED
      BY <1>5, <2>2, <3>1 DEF Fetch, FetchFails, FetchStray, Reset, ResetStray, RemoveCheckout, StartClone, Clone, Apart
  <2>3. CASE ResetFails(p) \/ CloneFails(p) \/ Finish(p) \/ Die(p)
    BY <1>4, <2>3 DEF ResetFails, CloneFails, Finish, Die, Apart
  <2> QED
    BY <2>1, <2>2, <2>3 DEF Step

\* An edit saved alone changes what it is about, and drops the broken rows it
\* read.
LEMMA SavedAgrees ==
  ASSUME TypeOK, RegistryInv, NEW p \in Procs, Save(p), ~raced', NEW n \in Names
  PROVE  Of(n, Held(registry)') = IF n \in spoiled' THEN {} ELSE {asked'[n]} \ {None}
<1> DEFINE c == cmd[p].change  file == cmd[p].file
<1>1. ~raced
  BY Zenon DEF Save
<1>2. Parted(registry) /\ Agrees /\ Fresh(p)
  BY <1>1 DEF RegistryInv
<1>3. c \in Changes /\ file \in Registries
  BY EditType DEF Save
<1>4. Held(file) = Held(registry) /\ Parted(file)
  BY <1>2 DEF Save, Fresh
<1>5. Held(registry)' = Edited(file, c).roots
  <2>1. registry' = Edited(file, c) /\ Edited(file, c).broken = {}
    BY DEF Save, Edited
  <2> QED
    BY <2>1 DEF Held
<1>6. Of(n, Held(registry)') = IF n = About(c) THEN IF c.do = "add" THEN {c.root} ELSE {} ELSE Of(n, file.roots)
  <2> HIDE DEF c, file
  <2>1. Of(n, Edited(file, c).roots) = IF n = About(c) THEN IF c.do = "add" THEN {c.root} ELSE {} ELSE Of(n, file.roots)
    BY <1>3, EditedRoots, Zenon
  <2> QED
    BY <1>5, <2>1, Zenon
<1>7. spoiled' = (spoiled \cup {r.name : r \in file.broken}) \ {About(c)}
  BY DEF Save
<1>8. asked \in [Names -> Roots \cup {None}]
  BY DEF TypeOK
<1>9. asked'[n] = IF n = About(c) THEN IF c.do = "add" THEN c.root ELSE None ELSE asked[n]
  <2>1. asked' = CASE c.do = "add" -> [asked EXCEPT ![c.root.name] = c.root]
                   [] c.do = "remove" -> [asked EXCEPT ![c.name] = None]
                   [] OTHER -> asked
    BY DEF Save
  <2>2. CASE c.do = "add"
    BY <1>8, <2>1, <2>2 DEF About
  <2>3. CASE c.do = "remove"
    BY <1>8, <2>1, <2>3 DEF About
  <2>4. CASE c.do = "remind"
    <3>1. About(c) = None /\ n # None
      BY <2>4, NoneAssumption DEF About
    <3> QED
      BY <2>1, <2>4, <3>1
  <2> QED
    BY <1>3, <2>2, <2>3, <2>4 DEF Changes
<1>10. c.do = "add" => c.root # None
  BY <1>3, NoneAssumption DEF Changes
<1>11. CASE n = About(c)
  BY <1>6, <1>7, <1>9, <1>10, <1>11
<1>12. CASE n # About(c)
  <2>1. Of(n, Held(file)) = IF n \in spoiled THEN {} ELSE {asked[n]} \ {None}
    BY <1>2, <1>4 DEF Agrees
  <2>2. Of(n, file.roots) \cup Of(n, file.broken) = Of(n, Held(file)) /\ Of(n, file.roots) \cap Of(n, file.broken) = {}
    BY <1>4 DEF Of, Held, Parted
  <2>3. n \in spoiled' <=> n \in spoiled \/ Of(n, file.broken) # {}
    BY <1>7, <1>12 DEF Of
  <2> QED
    BY <1>6, <1>9, <1>12, <2>1, <2>2, <2>3
<1> QED
  BY <1>11, <1>12

\* A hand breaks and mends rows; it drops none.
LEMMA HandsKeep ==
  ASSUME TypeOK, HandEdit
  PROVE  Held(registry)' = Held(registry) /\ (Parted(registry) => Parted(registry)')
<1>1. registry \in Registries
  BY DEF TypeOK
<1>2. CASE registry' = [registry EXCEPT !.whole = ~@]
  BY <1>1, <1>2 DEF Held, Parted, Registries
<1>3. ASSUME NEW r \in registry.roots, registry' = [registry EXCEPT !.roots = @ \ {r}, !.broken = @ \cup {r}]
      PROVE  Held(registry)' = Held(registry) /\ (Parted(registry) => Parted(registry)')
  BY <1>1, <1>3 DEF Held, Parted, Registries
<1>4. ASSUME NEW r \in registry.broken, registry' = [registry EXCEPT !.roots = @ \cup {r}, !.broken = @ \ {r}]
      PROVE  Held(registry)' = Held(registry) /\ (Parted(registry) => Parted(registry)')
  BY <1>1, <1>4 DEF Held, Parted, Registries
<1> QED
  BY <1>2, <1>3, <1>4 DEF HandEdit

LEMMA RegistryKept ==
  ASSUME TypeOK, RegistryInv, [Next]_vars
  PROVE  RegistryInv'
<1>1. ASSUME NEW p \in Procs, NEW c \in Changes, StartEdit(p, c) PROVE RegistryInv'
  <2>1. cmd'[p].file = registry /\ \A q \in Procs \ {p} : cmd'[q] = cmd[q]
    BY <1>1 DEF StartEdit, Edit, TypeOK
  <2>2. ASSUME Parted(registry), NEW q \in Procs, Fresh(q) PROVE Fresh(q)'
    BY <1>1, <2>1, <2>2 DEF StartEdit, Fresh, Held, Parted
  <2> QED
    BY <1>1, <2>2 DEF StartEdit, RegistryInv, Agrees, Held, Parted
<1>2. ASSUME NEW p \in Procs, Save(p) PROVE RegistryInv'
  <2> SUFFICES ASSUME ~raced' PROVE Parted(registry)' /\ Agrees' /\ \A q \in Procs : Fresh(q)'
    BY DEF RegistryInv
  <2>1. \A q \in Procs \ {p} : cmd[q].what # "edit"
    BY <1>2, Zenon DEF Save
  <2>2. \A q \in Procs : Fresh(q)'
    BY <1>2, <2>1 DEF Save, TypeOK, NoCommand, Fresh
  <2>3. Agrees'
    BY <1>2, SavedAgrees DEF Agrees
  <2>4. Parted(registry)'
    BY <1>2 DEF Save, Edited, Parted
  <2> QED
    BY <2>2, <2>3, <2>4
<1>3. CASE \E p \in Procs : Step(p)
  BY <1>1, <1>2, <1>3, SyncSteps, RegistryAlone
<1>4. CASE HandEdit
  <2>1. UNCHANGED <<asked, spoiled, raced, cmd>>
    BY <1>4 DEF HandEdit
  <2>2. Held(registry)' = Held(registry) /\ (Parted(registry) => Parted(registry)')
    BY <1>4, HandsKeep
  <2>3. \A q \in Procs : Fresh(q) => Fresh(q)'
    BY <2>1, <2>2 DEF Fresh, Held, Parted
  <2>4. Agrees => Agrees'
    BY <2>1, <2>2 DEF Agrees
  <2> QED
    BY <2>1, <2>2, <2>3, <2>4 DEF RegistryInv
<1>5. CASE UNCHANGED <<registry, asked, spoiled, raced, cmd>>
  BY <1>5 DEF RegistryInv, Agrees, Fresh, Held, Parted
<1> QED
  BY <1>3, <1>4, <1>5 DEF Next, vars, plugin, Time, Publish, Build

LEMMA RegistryInvGives ==
  ASSUME RegistryInv
  PROVE  NothingDropped
BY DEF RegistryInv, Agrees, NothingDropped, Of, Held

\* As long as no two commands edited it at once, the registry holds what the
\* last command about each name left there, once, but for a row that a hand had
\* broken when a command about another name read it: that one it has no more.
THEOREM NothingDroppedHolds == Spec => []NothingDropped
<1>1. Spec => []RegistryInv
  BY RegistryInitial, TypesHold, RegistryKept, PTL DEF Spec
<1> QED
  BY <1>1, RegistryInvGives, PTL

-----------------------------------------------------------------------------
(* Syncs.                                                                   *)

\* No name is registered twice, none is pulled twice by one sync, and none is
\* pulled while it is still to do.
Distinct(roots) == \A r \in roots, t \in roots : r.name = t.name => r = t
NoneOf(roots, others) == \A r \in roots, t \in others : r.name # t.name
SyncNames(p) == Syncing(p) =>
  /\ Distinct(cmd[p].todo) /\ NoneOf(cmd[p].todo, cmd[p].pulled)
  /\ cmd[p].at # "next" => NoneOf({Current(p)}, cmd[p].todo \cup cmd[p].pulled)
EditNames(p) == cmd[p].what = "edit" => Distinct(Held(cmd[p].file))
NamesInv == Distinct(Held(registry)) /\ \A p \in Procs : EditNames(p) /\ SyncNames(p)

LEMMA NamesInitial ==
  Init => NamesInv
BY DEF Init, TreesInit, NamesInv, Distinct, Held, EditNames, SyncNames, Syncing, NoCommand

LEMMA OthersStay ==
  ASSUME TypeOK, NEW p \in Procs, Step(p), NEW q \in Procs \ {p}
  PROVE  cmd'[q] = cmd[q]
BY DEF TypeOK, Step, StartEdit, Save, StartSync, Turn, Fetch, FetchFails, FetchStray, Reset, ResetFails, ResetStray,
       RemoveCheckout, StartClone, Clone, CloneFails, Finish, Die, DieAlone, Goes, Pulled, Fails

\* A sync that goes on keeps what it has to do and what it started from.
LEMMA Going ==
  ASSUME TypeOK, NEW p \in Procs, Syncing(p), NEW to \in {"next", "pull", "reset", "remove", "clone", "cloning"}, Goes(p, to)
  PROVE  /\ Syncing(p)' /\ cmd'[p].at = to /\ cmd'[p].todo = cmd[p].todo /\ cmd'[p].root = cmd[p].root
         /\ cmd'[p].pulled = cmd[p].pulled /\ cmd'[p].since = cmd[p].since
<1>1. cmd[p] \in Syncs
  BY SyncType DEF Running
<1>2. cmd'[p] = [cmd[p] EXCEPT !.at = to]
  BY DEF Goes, TypeOK
<1> QED
  BY <1>1, <1>2 DEF Syncs, Syncing

LEMMA GotOne ==
  ASSUME TypeOK, NEW p \in Procs, Syncing(p), Pulled(p)
  PROVE  /\ Syncing(p)' /\ cmd'[p].at = "next" /\ cmd'[p].todo = cmd[p].todo
         /\ cmd'[p].pulled = cmd[p].pulled \cup {Current(p)} /\ cmd'[p].since = cmd[p].since
<1>1. cmd[p] \in Syncs
  BY SyncType DEF Running
<1>2. cmd'[p] = [cmd[p] EXCEPT !.at = "next", !.pulled = @ \cup {Current(p)}]
  BY DEF Pulled, TypeOK
<1> QED
  BY <1>1, <1>2 DEF Syncs, Syncing

LEMMA Turning ==
  ASSUME TypeOK, NEW p \in Procs, Turn(p)
  PROVE  /\ Syncing(p)' /\ cmd'[p].at = "pull" /\ cmd'[p].root \in cmd[p].todo
         /\ cmd'[p].todo = cmd[p].todo \ {cmd'[p].root}
         /\ cmd'[p].pulled = cmd[p].pulled /\ cmd'[p].since = cmd[p].since
<1>1. cmd[p] \in Syncs
  BY SyncType DEF Turn, Running
<1>2. PICK r \in cmd[p].todo : cmd' = [cmd EXCEPT ![p].todo = @ \ {r}, ![p].root = r, ![p].at = "pull"]
  BY DEF Turn
<1>3. cmd'[p] = [cmd[p] EXCEPT !.todo = @ \ {r}, !.root = r, !.at = "pull"]
  BY <1>2 DEF TypeOK
<1>4. Syncing(p) /\ r \in cmd[p].todo
  BY DEF Turn
<1>5. cmd'[p].root = r /\ cmd'[p].todo = cmd[p].todo \ {r}
  BY <1>1, <1>3 DEF Syncs
<1>6. cmd'[p].what = "sync" /\ cmd'[p].at = "pull" /\ cmd'[p].pulled = cmd[p].pulled /\ cmd'[p].since = cmd[p].since
  BY <1>1, <1>3, <1>4 DEF Syncs, Syncing
<1> QED
  BY <1>4, <1>5, <1>6 DEF Syncing

\* What a sync under way may do next, and what it leaves alone.
LEMMA SyncGoes ==
  ASSUME TypeOK, NEW p \in Procs, Syncing(p), Step(p)
  PROVE  /\ Apart
         /\ \/ ~Syncing(p)'
            \/ Turn(p) \/ Reset(p) \/ ResetStray(p) \/ Clone(p)
            \/ \E at, to \in {"pull", "reset", "remove", "clone", "cloning"} :
                 /\ Pulling(p, at) /\ Goes(p, to)
                 /\ to = "reset" => Fetch(p) \/ FetchStray(p)
                 /\ clones' = clones \/ \E c \in Checkouts \cup {None} : Leaves(p, c)
<1>1. cmd[p] # NoCommand /\ cmd[p].what # "edit"
  BY DEF Syncing, NoCommand
<1>2. ASSUME Fails(p) PROVE ~Syncing(p)'
  BY <1>2 DEF Fails, TypeOK, Syncing, NoCommand
<1>3. CASE Fetch(p)
  <2>1. Here(p) \in Checkouts /\ Current(p).remote \in Remotes
    BY <1>3, PullType, RemoteRootFacts DEF Fetch
  <2>2. [Here(p) EXCEPT !.fetched = {published[Here(p).origin]}] \in Checkouts
    BY <2>1 DEF Checkouts, TypeOK
  <2> QED
    BY <1>3, <2>2 DEF Fetch
<1>4. CASE StartClone(p)
  <2>1. PICK at \in {"pull", "clone"} : Pulling(p, at)
    BY <1>4 DEF StartClone, Pulling, Running
  <2>2. Current(p).remote \in Remotes
    BY <2>1, PullType, RemoteRootFacts
  <2>3. Checkout("partial", Current(p).remote, None) \in Checkouts
    BY <2>2 DEF Checkout, Checkouts
  <2> QED
    BY <1>4, <2>1, <2>3 DEF StartClone
<1>5. CASE FetchFails(p) \/ FetchStray(p) \/ RemoveCheckout(p)
  BY <1>5 DEF FetchFails, FetchStray, RemoveCheckout
<1>6. CASE ResetFails(p) \/ CloneFails(p) \/ Finish(p) \/ Die(p)
  BY <1>2, <1>6 DEF ResetFails, CloneFails, Finish, Die
<1>7. CASE Turn(p) \/ Reset(p) \/ ResetStray(p) \/ Clone(p)
  BY <1>7 DEF Turn, Reset, ResetStray, Clone
<1>8. CASE DieAlone(p)
  <2>1. cmd[p] \in Syncs
    BY SyncType DEF Running
  <2>2. cmd'[p].what = "git"
    BY <1>8, <2>1 DEF DieAlone, TypeOK, Syncs
  <2> QED
    BY <1>8, <2>2 DEF DieAlone, Syncing
<1> QED
  BY <1>1, <1>3, <1>4, <1>5, <1>6, <1>7, <1>8 DEF Step, StartEdit, Save, StartSync, Idle

\* A process that runs no git touches no clone.
LEMMA ClonesAlone ==
  ASSUME NEW p \in Procs, Step(p), ~Running(p)
  PROVE  clones' = clones
BY DEF Step, StartEdit, Save, StartSync, Turn, Fetch, FetchFails, FetchStray, Reset, ResetFails, ResetStray,
       RemoveCheckout, StartClone, Clone, CloneFails, Finish, Die, DieAlone, Pulling, Running

\* What may happen beside syncs; the git a sync left behind ends.
LEMMA NotSyncing ==
  ASSUME TypeOK, NEW p \in Procs, Step(p), ~Syncing(p)
  PROVE  \/ \E c \in Changes : StartEdit(p, c)
         \/ Save(p)
         \/ \E wanted \in SUBSET Names : StartSync(p, wanted)
         \/ Fails(p) /\ Apart
BY DEF Step, Turn, Fetch, FetchFails, FetchStray, Reset, ResetFails, ResetStray, RemoveCheckout, StartClone, Clone,
       CloneFails, Finish, Die, DieAlone, Goes, Pulled

\* An edit keeps the names apart.
LEMMA EditedNames ==
  ASSUME NEW file \in Registries, NEW c \in Changes, Distinct(Held(file))
  PROVE  Distinct(Held(Edited(file, c)))
<1>1. Held(Edited(file, c)) = Without(file, About(c)) \cup IF c.do = "add" THEN {c.root} ELSE {}
  BY DEF Edited, Held
<1>2. Distinct(Without(file, About(c))) /\ \A r \in Without(file, About(c)) : r.name # About(c)
  BY DEF Without, Distinct, Held
<1>3. c.do = "add" => About(c) = c.root.name
  BY DEF About
<1> QED
  BY <1>1, <1>2, <1>3 DEF Distinct

LEMMA NamesKept ==
  ASSUME TypeOK, NamesInv, [Next]_vars
  PROVE  NamesInv'
<1>1. ASSUME NEW p \in Procs, Step(p) PROVE NamesInv'
  <2>1. \A q \in Procs \ {p} : cmd'[q] = cmd[q]
    BY <1>1, OthersStay
  <2>2. \A q \in Procs \ {p} : EditNames(q)' /\ SyncNames(q)'
    BY <2>1 DEF NamesInv, EditNames, SyncNames, Syncing, Current
  <2> SUFFICES Distinct(Held(registry))' /\ EditNames(p)' /\ SyncNames(p)'
    BY <2>2 DEF NamesInv
  <2>3. ASSUME NEW c \in Changes, StartEdit(p, c) PROVE Distinct(Held(registry))' /\ EditNames(p)' /\ SyncNames(p)'
    <3>1. cmd'[p].what = "edit" /\ cmd'[p].file = registry /\ registry' = registry
      BY <2>3 DEF StartEdit, Edit, TypeOK
    <3> QED
      BY <3>1 DEF NamesInv, EditNames, SyncNames, Syncing, Held
  <2>4. CASE Save(p)
    <3>2. cmd[p].file \in Registries /\ cmd[p].change \in Changes /\ Distinct(Held(cmd[p].file))
      BY <2>4, EditType DEF NamesInv, EditNames, Save
    <3>3. Distinct(Held(registry))'
      BY <2>4, <3>2, EditedNames DEF Save, Held
    <3>4. cmd'[p] = NoCommand
      BY <2>4 DEF Save, TypeOK
    <3> QED
      BY <3>3, <3>4 DEF EditNames, SyncNames, Syncing, NoCommand
  <2>5. ASSUME NEW wanted \in SUBSET Names, StartSync(p, wanted) PROVE Distinct(Held(registry))' /\ EditNames(p)' /\ SyncNames(p)'
    <3>1. cmd'[p] = Sync(Published(wanted)) /\ registry' = registry
      BY <2>5 DEF StartSync, TypeOK
    <3>2. Distinct(Published(wanted))
      BY DEF NamesInv, Distinct, Held, Published
    <3> QED
      BY <3>1, <3>2 DEF NamesInv, EditNames, SyncNames, Syncing, Sync, NoneOf, Held
  <2>6. CASE Syncing(p)
    <3>1. registry' = registry
      BY <1>1, <2>6, SyncGoes DEF Apart
    <3>2. SyncNames(p)
      BY DEF NamesInv
    <3>3. CASE ~Syncing(p)'
      <4>1. cmd[p] # NoCommand /\ cmd[p].what # "edit"
        BY <2>6 DEF Syncing, NoCommand
      <4>2. PICK c \in Syncs \cup {NoCommand} : cmd' = [cmd EXCEPT ![p] = c]
        BY <1>1, <4>1, SyncSteps DEF StartEdit, Save, Idle
      <4>3. cmd'[p].what # "edit"
        BY <4>2 DEF TypeOK, Syncs, NoCommand
      <4> QED
        BY <3>1, <3>3, <4>3 DEF NamesInv, SyncNames, EditNames, Held
    <3>4. ASSUME Syncing(p)' PROVE EditNames(p)'
      BY <3>4 DEF EditNames, Syncing
    <3>5. CASE Turn(p)
      <4>1. SyncNames(p)'
        BY <2>6, <3>2, <3>5, Turning DEF SyncNames, Distinct, NoneOf, Current
      <4> QED
        BY <3>1, <3>4, <3>5, <4>1, Turning DEF NamesInv, Held
    <3>6. ASSUME Pulled(p), cmd[p].at # "next" PROVE Distinct(Held(registry))' /\ EditNames(p)' /\ SyncNames(p)'
      <4>1. SyncNames(p)'
        BY <2>6, <3>2, <3>6, GotOne DEF SyncNames, Distinct, NoneOf, Current
      <4> QED
        BY <2>6, <3>1, <3>4, <3>6, <4>1, GotOne DEF NamesInv, Held
    <3>7. ASSUME NEW at \in {"pull", "reset", "remove", "clone", "cloning"},
                 NEW to \in {"pull", "reset", "remove", "clone", "cloning"}, Pulling(p, at), Goes(p, to)
          PROVE  Distinct(Held(registry))' /\ EditNames(p)' /\ SyncNames(p)'
      <4>1. SyncNames(p)'
        BY <2>6, <3>2, <3>7, Going DEF SyncNames, Distinct, NoneOf, Current, Pulling
      <4> QED
        BY <2>6, <3>1, <3>4, <3>7, <4>1, Going DEF NamesInv, Held
    <3>8. CASE Reset(p) \/ ResetStray(p) \/ Clone(p)
      BY <3>6, <3>8 DEF Reset, ResetStray, Clone, Pulling
    <3> QED
      BY <1>1, <2>6, <3>3, <3>5, <3>7, <3>8, SyncGoes
  <2>7. CASE ~Syncing(p)
    <3>1. \/ \E c \in Changes : StartEdit(p, c)
          \/ Save(p)
          \/ \E wanted \in SUBSET Names : StartSync(p, wanted)
          \/ Fails(p) /\ Apart
      BY <1>1, <2>7, NotSyncing
    <3>2. CASE Fails(p) /\ Apart
      BY <3>2 DEF Fails, Apart, TypeOK, NamesInv, EditNames, SyncNames, Syncing, NoCommand, Held
    <3> QED
      BY <2>3, <2>4, <2>5, <3>1, <3>2
  <2> QED
    BY <2>6, <2>7
<1>2. CASE UNCHANGED vars \/ Time \/ HandEdit \/ \E r \in Remotes, d \in Databases : Publish(r, d)
  <2>1. Held(registry)' = Held(registry)
    BY <1>2, HandsKeep DEF vars, plugin, Time, Publish, Held
  <2>2. cmd' = cmd
    BY <1>2 DEF vars, plugin, Time, HandEdit, Publish
  <2> QED
    BY <2>1, <2>2 DEF NamesInv, EditNames, SyncNames, Syncing, Current, Held
<1>3. CASE \E p \in Procs : Build(p)
  BY <1>3 DEF Build, NamesInv, EditNames, SyncNames, Syncing, Current, Held
<1> QED
  BY <1>1, <1>2, <1>3 DEF Next

\* Of two syncs under way each knows of the other, and so does a sync of the git
\* another left behind.
Alone == \A p \in Procs, q \in Procs : Running(p) /\ Running(q) /\ p # q => p \in crossed

LEMMA AloneKept ==
  ASSUME TypeOK, Alone, [Next]_vars
  PROVE  Alone'
<1>1. ASSUME NEW p \in Procs, Step(p) PROVE Alone'
  <2>1. \A q \in Procs \ {p} : Running(q)' <=> Running(q)
    BY <1>1, OthersStay DEF Running, Syncing, Orphan
  <2>2. ASSUME crossed' = crossed, Running(p)' => Running(p) PROVE Alone'
    BY <2>1, <2>2 DEF Alone
  <2>3. CASE Syncing(p)
    BY <1>1, <2>2, <2>3, SyncGoes DEF Apart, Running
  <2>4. CASE ~Syncing(p)
    <3>1. ASSUME NEW wanted \in SUBSET Names, StartSync(p, wanted) PROVE Alone'
      <4>1. CASE \E q \in Procs : Running(q)
        BY <2>1, <3>1, <4>1 DEF StartSync, Alone
      <4>2. CASE ~\E q \in Procs : Running(q)
        BY <2>1, <4>2 DEF Alone
      <4> QED
        BY <4>1, <4>2
    <3>2. ASSUME NEW c \in Changes, StartEdit(p, c) PROVE ~Running(p)' /\ crossed' = crossed
      BY <3>2 DEF StartEdit, Edit, Running, Syncing, Orphan, TypeOK
    <3>3. ASSUME Save(p) PROVE ~Running(p)' /\ crossed' = crossed
      BY <3>3 DEF Save, NoCommand, Running, Syncing, Orphan, TypeOK
    <3>4. ASSUME Fails(p), Apart PROVE ~Running(p)' /\ crossed' = crossed
      BY <3>4 DEF Fails, Apart, NoCommand, Running, Syncing, Orphan, TypeOK
    <3> QED
      BY <1>1, <2>2, <2>4, <3>1, <3>2, <3>3, <3>4, NotSyncing
  <2> QED
    BY <2>3, <2>4
<1>2. CASE UNCHANGED <<cmd, crossed>>
  BY <1>2 DEF Alone, Running, Syncing, Orphan
<1> QED
  BY <1>1, <1>2 DEF Next, vars, plugin, Time, HandEdit, Publish, Build

\* What a remote has published is of the past, and no older than what any sync
\* under way saw of it.
Past(r) == published[r] # None => \A d \in Databases : published[r][d] <= now
Seen(p) == Syncing(p) => \A r \in Remotes : NoOlder(published[r], cmd[p].since[r])
PublishedInv == \A r \in Remotes : Past(r) /\ \A p \in Procs : Seen(p)

LEMMA NoOlderItself ==
  ASSUME NEW roster \in Rosters \cup {None}
  PROVE  NoOlder(roster, roster)
BY ClockAssumption DEF NoOlder, Rosters, Stamps

\* A team's next build makes its remote's roster no older.
LEMMA PublishNewer ==
  ASSUME TypeOK, NEW r \in Remotes, Past(r), NEW d \in Databases, NEW than \in Rosters \cup {None}, NoOlder(published[r], than)
  PROVE  /\ [Rows(published[r]) EXCEPT ![d] = now] \in Rosters
         /\ NoOlder([Rows(published[r]) EXCEPT ![d] = now], than)
         /\ \A e \in Databases : [Rows(published[r]) EXCEPT ![d] = now][e] <= now
<1>1. Rows(published[r]) \in Rosters /\ now \in Stamps /\ published[r] \in Rosters \cup {None}
  BY RowsType DEF TypeOK, RosterTypeOK
<1>2. \A e \in Databases : Rows(published[r])[e] <= now
  BY <1>1 DEF Past, Rows, NoRows, Stamps
<1>3. [Rows(published[r]) EXCEPT ![d] = now] \in Rosters
  BY <1>1 DEF Rosters
<1>4. ASSUME than # None, NEW e \in Databases PROVE [Rows(published[r]) EXCEPT ![d] = now][e] >= than[e]
  <2>1. published[r] # None /\ published[r][e] >= than[e] /\ Rows(published[r]) = published[r]
    BY <1>4 DEF NoOlder, Rows
  <2>2. published[r][e] \in Nat /\ than[e] \in Nat /\ now \in Nat /\ published[r][e] <= now
    BY <1>1, <1>2, <1>4, <2>1, ClockAssumption DEF Rosters, Stamps
  <2> QED
    BY <1>1, <2>1, <2>2 DEF Rosters
<1>5. [Rows(published[r]) EXCEPT ![d] = now] # None
  BY <1>3, NoRosterAssumption, ClockAssumption DEF Rosters, Stamps
<1>6. \A e \in Databases : [Rows(published[r]) EXCEPT ![d] = now][e] <= now
  BY <1>1, <1>2 DEF Rosters, Stamps
<1> QED
  BY <1>3, <1>4, <1>5, <1>6 DEF NoOlder

LEMMA PublishedInitial ==
  Init => PublishedInv
BY DEF Init, TreesInit, PublishedInv, Past, Seen, Syncing, NoCommand

LEMMA PublishedKept ==
  ASSUME TypeOK, PublishedInv, [Next]_vars
  PROVE  PublishedInv'
<1>1. ASSUME NEW p \in Procs, Step(p) PROVE PublishedInv'
  <2>1. published' = published /\ now' = now
    BY <1>1, RostersAlone, Zenon DEF rosters, Step, StartEdit, Save, StartSync, Turn, Fetch, FetchFails, FetchStray,
       Reset, ResetFails, ResetStray, RemoveCheckout, StartClone, Clone, CloneFails, Finish, Die, DieAlone, Apart
  <2>2. \A q \in Procs \ {p} : Seen(q) => Seen(q)'
    BY <1>1, <2>1, OthersStay DEF Seen, Syncing
  <2>3. CASE Syncing(p)
    <3>1. ASSUME Syncing(p)' PROVE cmd'[p].since = cmd[p].since
      <4>1. CASE Turn(p)
        BY <4>1, Turning
      <4>2. CASE Reset(p) \/ ResetStray(p) \/ Clone(p)
        BY <2>3, <4>2, GotOne DEF Reset, ResetStray, Clone
      <4>3. CASE \E to \in {"pull", "reset", "remove", "clone", "cloning"} : Goes(p, to)
        BY <2>3, <4>3, Going
      <4> QED
        BY <1>1, <2>3, <3>1, <4>1, <4>2, <4>3, SyncGoes
    <3> QED
      BY <2>1, <2>2, <2>3, <3>1 DEF PublishedInv, Past, Seen
  <2>4. CASE ~Syncing(p)
    <3>1. ASSUME NEW wanted \in SUBSET Names, StartSync(p, wanted) PROVE Seen(p)'
      <4>1. cmd'[p].since = published
        BY <3>1 DEF StartSync, Sync, TypeOK
      <4>2. \A r \in Remotes : NoOlder(published[r], published[r])
        BY NoOlderItself DEF TypeOK
      <4> QED
        BY <2>1, <4>1, <4>2 DEF Seen
    <3>2. ASSUME NEW c \in Changes, StartEdit(p, c) PROVE Seen(p)'
      BY <3>2 DEF StartEdit, Edit, Syncing, TypeOK, Seen
    <3>3. ASSUME Save(p) \/ Fails(p) PROVE Seen(p)'
      <4>1. cmd'[p] = NoCommand
        BY <3>3 DEF Save, Fails, TypeOK
      <4> QED
        BY <4>1 DEF NoCommand, Syncing, Seen
    <3>4. Seen(p)'
      BY <1>1, <2>4, <3>1, <3>2, <3>3, NotSyncing
    <3> QED
      BY <2>1, <2>2, <3>4 DEF PublishedInv, Past
  <2> QED
    BY <2>3, <2>4
<1>2. ASSUME NEW r \in Remotes, NEW d \in Databases, Publish(r, d) PROVE PublishedInv'
  <2>1. published' = [published EXCEPT ![r] = [Rows(published[r]) EXCEPT ![d] = now]] /\ cmd' = cmd /\ now' = now
    BY <1>2 DEF Publish, rosters
  <2>2. Past(r)'
    <3>1. NoOlder(published[r], None) /\ Past(r)
      BY DEF PublishedInv, NoOlder
    <3>2. \A e \in Databases : [Rows(published[r]) EXCEPT ![d] = now][e] <= now
      BY <3>1, PublishNewer
    <3>3. published'[r] = [Rows(published[r]) EXCEPT ![d] = now]
      BY <2>1 DEF TypeOK
    <3> QED
      BY <2>1, <3>2, <3>3 DEF Past
  <2>3. \A t \in Remotes \ {r} : Past(t)'
    BY <2>1 DEF PublishedInv, Past, TypeOK
  <2>4. ASSUME NEW p \in Procs, Syncing(p), NEW t \in Remotes PROVE NoOlder(published'[t], cmd[p].since[t])
    <3>1. cmd[p].since[t] \in Rosters \cup {None} /\ NoOlder(published[t], cmd[p].since[t]) /\ Past(t)
      BY <2>4, SyncType DEF Running, Syncs, PublishedInv, Seen
    <3> QED
      BY <2>1, <3>1, PublishNewer DEF TypeOK
  <2> QED
    BY <2>1, <2>2, <2>3, <2>4 DEF PublishedInv, Seen, Syncing
<1>3. CASE Time
  <2>1. published' = published /\ cmd' = cmd /\ now' = now + 1 /\ now \in Nat
    BY <1>3, ClockAssumption DEF Time, plugin, Tick, TypeOK, RosterTypeOK, Stamps
  <2>2. \A r \in Remotes : Past(r)'
    BY <2>1, ClockAssumption DEF PublishedInv, Past, TypeOK, Rosters, Stamps
  <2> QED
    BY <2>1, <2>2 DEF PublishedInv, Seen, Syncing
<1>4. CASE UNCHANGED <<now, published, cmd>>
  BY <1>4 DEF PublishedInv, Past, Seen, Syncing
<1>5. ASSUME NEW p \in Procs, Build(p) PROVE UNCHANGED <<now, published, cmd>>
  BY <1>5 DEF Build, RosterStep, Read, Truncate, Write, BuildDies
<1>6. CASE UNCHANGED vars \/ HandEdit
  BY <1>4, <1>6 DEF vars, plugin, rosters, HandEdit
<1> QED
  BY <1>1, <1>2, <1>3, <1>4, <1>5, <1>6 DEF Next

\* What a sync nobody crossed has pulled is whole and new, unless git took the
\* repository around it for the checkout; and so is what it has fetched and not
\* reset to.
New(c, since) == c # None /\ c.state = "whole" /\ NoOlder(c.rows, since[c.origin])
SyncedNew(p) == Syncing(p) /\ p \notin crossed =>
  /\ \A r \in cmd[p].pulled : Strays(clones[r.path]) \/ New(clones[r.path], cmd[p].since)
  /\ cmd[p].at = "reset" /\ Here(p) # None /\ Here(p).state # "torn" =>
       \A rows \in Here(p).fetched : NoOlder(rows, cmd[p].since[Here(p).origin])
SyncInv == NamesInv /\ Alone /\ PublishedInv /\ \A p \in Procs : SyncedNew(p)

\* The checkout a sync is at is none it has pulled.
LEMMA ElsewherePulled ==
  ASSUME TypeOK, NamesInv, NEW p \in Procs, Syncing(p), cmd[p].at # "next", NEW r \in cmd[p].pulled, NEW c, Leaves(p, c)
  PROVE  clones'[r.path] = clones[r.path]
<1>1. cmd[p] \in Syncs /\ Current(p) \in RemoteRoots
  BY SyncType DEF Running, TypeOK, Current, Syncs
<1>2. r \in RemoteRoots /\ r.name # Current(p).name
  BY <1>1 DEF Syncs, NamesInv, SyncNames, NoneOf
<1>3. r.path # Current(p).path
  BY <1>1, <1>2, RemoteRootFacts
<1> QED
  BY <1>3 DEF Leaves, TypeOK

\* A step of a sync nobody crosses.
LEMMA SyncStepNew ==
  ASSUME TypeOK, SyncInv, NEW p \in Procs, Step(p), Syncing(p)
  PROVE  SyncedNew(p)'
<1> SUFFICES ASSUME Syncing(p)', p \notin crossed' PROVE SyncedNew(p)'
  BY DEF SyncedNew
<1>1. Apart /\ SyncedNew(p) /\ p \notin crossed
  BY SyncGoes DEF SyncInv, Apart
<1>2. cmd[p] \in Syncs /\ \A r \in cmd[p].pulled : Strays(clones[r.path]) \/ New(clones[r.path], cmd[p].since)
  BY <1>1, SyncType DEF Running, SyncedNew
<1>3. CASE Turn(p)
  BY <1>2, <1>3, Turning DEF SyncedNew, Turn
<1>4. ASSUME NEW c, Leaves(p, c), Pulled(p), cmd[p].at # "next", New(c, cmd[p].since) PROVE SyncedNew(p)'
  <2>1. /\ cmd'[p].at = "next" /\ cmd'[p].since = cmd[p].since
        /\ cmd'[p].pulled = cmd[p].pulled \cup {Current(p)}
    BY <1>4, GotOne
  <2>2. \A r \in cmd[p].pulled : clones'[r.path] = clones[r.path]
    BY <1>4, ElsewherePulled DEF SyncInv
  <2>3. Current(p) \in RemoteRoots
    BY <1>2, <1>4 DEF TypeOK, Current, Syncs
  <2>4. clones'[Current(p).path] = c
    BY <1>4, <2>3, RemoteRootFacts DEF Leaves, TypeOK
  <2> QED
    BY <1>2, <1>4, <2>1, <2>2, <2>4 DEF SyncedNew
<1>5. CASE Reset(p)
  <2>1. PICK rows \in Here(p).fetched : Leaves(p, [Here(p) EXCEPT !.state = "whole", !.rows = rows])
    BY <1>5 DEF Reset
  <2>2. cmd[p].at = "reset" /\ Here(p) # None /\ Here(p).state # "torn" /\ Here(p) \in Checkouts /\ Pulled(p)
    BY <1>5, PullType DEF Reset, Resets, Pulling
  <2>3. NoOlder(rows, cmd[p].since[Here(p).origin])
    BY <1>1, <2>1, <2>2 DEF SyncedNew
  <2> DEFINE c == [Here(p) EXCEPT !.state = "whole", !.rows = rows]
  <2>4. c \in Checkouts /\ c.state = "whole" /\ c.rows = rows /\ c.origin = Here(p).origin
    BY <2>1, <2>2 DEF Checkouts
  <2>5. New(c, cmd[p].since)
    BY <2>3, <2>4, NoneAssumption DEF New
  <2> QED
    BY <1>4, <2>1, <2>2, <2>5
<1>8. CASE ResetStray(p)
  <2>1. /\ cmd'[p].at = "next" /\ cmd'[p].since = cmd[p].since
        /\ cmd'[p].pulled = cmd[p].pulled \cup {Current(p)}
    BY <1>8, GotOne DEF ResetStray
  <2>2. clones' = clones /\ Strays(clones[Current(p).path])
    BY <1>8 DEF ResetStray, Here
  <2> QED
    BY <1>2, <2>1, <2>2 DEF SyncedNew, Strays
<1>6. CASE Clone(p)
  <2>1. Current(p).remote \in Remotes /\ cmd[p].at # "next" /\ Pulled(p)
    BY <1>6, PullType, RemoteRootFacts DEF Clone, Pulling
  <2> DEFINE c == Checkout("whole", Current(p).remote, published[Current(p).remote])
  <2>2. c \in Checkouts /\ c.state = "whole" /\ c.rows = published[Current(p).remote] /\ c.origin = Current(p).remote
    BY <2>1 DEF Checkout, Checkouts, TypeOK
  <2>3. NoOlder(published[Current(p).remote], cmd[p].since[Current(p).remote])
    BY <2>1 DEF SyncInv, PublishedInv, Seen
  <2>4. New(c, cmd[p].since)
    BY <2>2, <2>3, NoneAssumption DEF New
  <2> QED
    BY <1>4, <1>6, <2>1, <2>4 DEF Clone
<1>7. ASSUME NEW at \in {"pull", "reset", "remove", "clone", "cloning"}, NEW to \in {"pull", "reset", "remove", "clone", "cloning"},
             Pulling(p, at), Goes(p, to), to = "reset" => Fetch(p) \/ FetchStray(p),
             clones' = clones \/ \E c \in Checkouts \cup {None} : Leaves(p, c)
      PROVE  SyncedNew(p)'
  <2>1. /\ cmd'[p].at = to /\ cmd'[p].root = cmd[p].root
        /\ cmd'[p].pulled = cmd[p].pulled /\ cmd'[p].since = cmd[p].since
    BY <1>7, Going
  <2>2. \A r \in cmd[p].pulled : clones'[r.path] = clones[r.path]
    BY <1>7, ElsewherePulled DEF SyncInv, Pulling
  <2>3. ASSUME Fetch(p), NEW rows \in Here(p)'.fetched PROVE NoOlder(rows, cmd[p].since[Here(p)'.origin])
    <3>1. Here(p) \in Checkouts /\ Current(p).path \in Names
      BY <1>7, <2>3, PullType DEF Fetch
    <3>2. Here(p)' = [Here(p) EXCEPT !.fetched = {published[Here(p).origin]}]
      BY <2>1, <2>3, <3>1 DEF Fetch, Leaves, Here, Current, TypeOK
    <3>3. Here(p)'.fetched = {published[Here(p).origin]} /\ Here(p)'.origin = Here(p).origin /\ Here(p).origin \in Remotes
      BY <3>1, <3>2 DEF Checkouts
    <3> QED
      BY <2>3, <3>3 DEF SyncInv, PublishedInv, Seen
  <2>4. ASSUME FetchStray(p) PROVE Here(p)'.state = "torn"
    BY <2>1, <2>4 DEF FetchStray, Strays, Here, Current
  <2>5. to = "reset" => Here(p)'.state = "torn" \/ \A rows \in Here(p)'.fetched : NoOlder(rows, cmd[p].since[Here(p)'.origin])
    BY <1>7, <2>3, <2>4
  <2>6. \A r \in cmd[p].pulled : Strays(clones'[r.path]) \/ New(clones'[r.path], cmd[p].since)
    BY <1>2, <2>2
  <2> QED
    BY <2>1, <2>5, <2>6 DEF SyncedNew, Strays
<1> QED
  BY <1>3, <1>5, <1>6, <1>7, <1>8, SyncGoes

LEMMA SyncKept ==
  ASSUME TypeOK, SyncInv, [Next]_vars
  PROVE  SyncInv'
<1>1. NamesInv' /\ Alone' /\ PublishedInv'
  BY NamesKept, AloneKept, PublishedKept DEF SyncInv
<1>2. ASSUME NEW p \in Procs, Step(p), NEW q \in Procs PROVE SyncedNew(q)'
  <2>1. CASE q = p /\ Syncing(p)
    BY <1>2, <2>1, SyncStepNew
  <2>2. CASE q = p /\ ~Syncing(p)
    <3>1. ASSUME NEW wanted \in SUBSET Names, StartSync(p, wanted) PROVE SyncedNew(p)'
      <4>1. cmd'[p] = Sync(Published(wanted))
        BY <3>1 DEF StartSync, TypeOK
      <4> QED
        BY <4>1 DEF Sync, SyncedNew
    <3>2. ASSUME NEW c \in Changes, StartEdit(p, c) PROVE ~Syncing(p)'
      BY <3>2 DEF StartEdit, Edit, Syncing, TypeOK
    <3>3. ASSUME Save(p) \/ Fails(p) PROVE ~Syncing(p)'
      <4>1. cmd'[p] = NoCommand
        BY <3>3 DEF Save, Fails, TypeOK
      <4> QED
        BY <4>1 DEF NoCommand, Syncing
    <3>4. ~Syncing(p)' => SyncedNew(p)'
      BY DEF SyncedNew
    <3> QED
      BY <1>2, <2>2, <3>1, <3>2, <3>3, <3>4, NotSyncing
  <2>3. CASE q # p
    <3>1. cmd'[q] = cmd[q]
      BY <1>2, <2>3, OthersStay
    <3> SUFFICES ASSUME Syncing(q), q \notin crossed' PROVE SyncedNew(q)'
      BY <3>1 DEF SyncedNew, Syncing
    <3>2. q \notin crossed
      <4>1. CASE Syncing(p)
        BY <1>2, <4>1, SyncGoes DEF Apart
      <4>2. ASSUME NEW wanted \in SUBSET Names, StartSync(p, wanted) PROVE q \notin crossed
        BY <2>3, <4>2 DEF StartSync
      <4>3. ASSUME \/ \E c \in Changes : StartEdit(p, c)
                   \/ Save(p)
                   \/ Apart
            PROVE  q \notin crossed
        BY <4>3 DEF StartEdit, Save, Apart
      <4> QED
        BY <1>2, <4>1, <4>2, <4>3, NotSyncing
    <3>3. ~Running(p)
      BY <2>3, <3>2 DEF SyncInv, Alone, Running
    <3>4. clones' = clones
      BY <1>2, <3>3, ClonesAlone
    <3> QED
      BY <3>1, <3>2, <3>4 DEF SyncInv, SyncedNew, Here, Current, Strays
  <2> QED
    BY <2>1, <2>2, <2>3
<1>3. (\E p \in Procs : Step(p)) \/ UNCHANGED <<clones, cmd, crossed>>
  BY DEF Next, vars, plugin, Time, HandEdit, Publish, Build
<1>4. \A p \in Procs : SyncedNew(p)'
  <2>1. CASE \E p \in Procs : Step(p)
    BY <1>2, <2>1
  <2>2. CASE UNCHANGED <<clones, cmd, crossed>>
    BY <2>2 DEF SyncInv, SyncedNew, Syncing, Here, Current, Strays
  <2> QED
    BY <1>3, <2>1, <2>2
<1> QED
  BY <1>1, <1>4 DEF SyncInv

LEMMA SyncInitial ==
  Init => SyncInv
<1> SUFFICES ASSUME Init PROVE SyncInv
  OBVIOUS
<1>1. ASSUME NEW p \in Procs PROVE ~Running(p)
  <2>1. cmd[p] = NoCommand
    BY DEF Init, TreesInit
  <2> QED
    BY <2>1 DEF Running, Syncing, Orphan, NoCommand
<1> QED
  BY <1>1, NamesInitial, PublishedInitial DEF SyncInv, Alone, SyncedNew, Running

LEMMA SyncInvGives ==
  ASSUME SyncInv
  PROVE  PulledIsPublished
BY DEF SyncInv, SyncedNew, New, PulledIsPublished

\* What a sync that ran alone says it has pulled is there, whole and no older
\* than what the repository it was cloned from had published when it began, even
\* where earlier syncs died or failed: but for a directory that a kill left
\* without a repository inside somebody else's, which git updates in its place.
THEOREM PulledIsPublishedHolds == Spec => []PulledIsPublished
<1>1. Spec => []SyncInv
  BY SyncInitial, TypesHold, SyncKept, PTL DEF Spec
<1> QED
  BY <1>1, SyncInvGives, PTL

-----------------------------------------------------------------------------
(* Reminders.                                                               *)

\* Of some numbers one is the least.
LEMMA LeastOf ==
  ASSUME NEW T \in SUBSET Nat, T # {}
  PROVE  \E t \in T : \A u \in T : t <= u
<1> DEFINE R == OpToRel(<, Nat)
<1>1. PICK t \in T : \A u \in T : <<u, t>> \notin R
  <2> HIDE DEF R
  <2> IsWellFoundedOn(R, Nat)
    BY NatLessThanWellFounded DEF R
  <2> QED BY WFMin
<1>2. ASSUME NEW u \in T PROVE t <= u
  <2>1. <<u, t>> \notin R /\ u \in Nat /\ t \in Nat
    BY <1>1
  <2>2. ~(u < t)
    BY <2>1 DEF OpToRel
  <2> HIDE DEF R
  <2> QED BY <2>1, <2>2
<1> QED BY <1>2

\* Where a tree may be, and what its roster is there.
Places == Names \cup Local

LEMMA ReadablePlaces ==
  ASSUME TypeOK
  PROVE  Repo \in Places /\ \A r \in registry.roots : r.path \in Places
<1>1. \A r \in Roots : r.path \in Places
  BY DEF Roots, RemoteRoots, Root, Places
<1>2. registry.roots \subseteq Roots
  BY DEF TypeOK, Registries
<1> QED BY <1>1, <1>2, PlacesAssumption DEF Places

LEMMA RosterThere ==
  ASSUME TypeOK, NEW l \in Places, IsTree(l)
  PROVE  RosterAt(l) \in Files
<1>1. CASE l \in Local
  BY <1>1 DEF TypeOK, RosterTypeOK, RosterAt, IsTree
<1>2. CASE l \notin Local
  <2>1. l \in Names /\ clones[l] # None /\ RosterAt(l) = clones[l].rows
    BY <1>2 DEF Places, RosterAt, IsTree
  <2>2. clones[l] \in Checkouts
    BY <2>1 DEF TypeOK
  <2>3. RosterAt(l) \in Rosters
    BY <2>1, <2>2 DEF Checkouts, IsTree
  <2> QED BY <2>3, RostersAreFiles
<1> QED BY <1>1, <1>2

\* What is known of a database is when it was built.
LEMMA KnownSince ==
  ASSUME TypeOK, NEW l \in Places, NEW d \in Known(l)
  PROVE  d \in Databases /\ IsTree(l) /\ RosterAt(l)[d] \in Nat
<1>1. d \in Databases /\ IsTree(l) /\ RosterAt(l)[d] # Undated
  BY DEF Known
<1>2. RosterAt(l)[d] \in Stamps \cup {Undated}
  BY <1>1, RosterThere DEF Files
<1> QED BY <1>1, <1>2, ClockAssumption DEF Stamps

\* A tree that says when any database was built has one built before all others.
LEMMA OldestOf ==
  ASSUME TypeOK, NEW l \in Places, Known(l) # {}
  PROVE  /\ Oldest(l) \in Known(l)
         /\ \A e \in Known(l) : RosterAt(l)[Oldest(l)] <= RosterAt(l)[e]
<1> DEFINE T == {RosterAt(l)[d] : d \in Known(l)}
<1>1. T \in SUBSET Nat /\ T # {}
  BY KnownSince
<1>2. PICK t \in T : \A u \in T : t <= u
  <2> HIDE DEF T
  <2> QED BY <1>1, LeastOf
<1>3. \E d \in Known(l) : \A e \in Known(l) : RosterAt(l)[d] <= RosterAt(l)[e]
  BY <1>2
<1> QED BY <1>3 DEF Oldest

\* No database of a tree is older than the tree.
LEMMA AgeOf ==
  ASSUME TypeOK, NEW l \in Places, Known(l) # {}
  PROVE  Age(l) \in Int /\ \A d \in Known(l) : now - RosterAt(l)[d] <= Age(l)
<1>1. now \in Nat
  BY ClockAssumption DEF Stamps, TypeOK, RosterTypeOK
<1>2. \A d \in Known(l) : RosterAt(l)[d] \in Nat
  BY KnownSince
<1>3. Oldest(l) \in Known(l) /\ \A d \in Known(l) : RosterAt(l)[Oldest(l)] <= RosterAt(l)[d]
  BY OldestOf
<1> QED BY <1>1, <1>2, <1>3 DEF Age

\* Where no edits met, the roots in the registry are those asked for last, but
\* for the rows a hand has broken and what was dropped with them.
LEMMA WantedRoots ==
  ASSUME TypeOK, RegistryInv, ~raced
  PROVE  {asked[n] : n \in Names \ spoiled} \ ({None} \cup registry.broken) = registry.roots
<1>1. Parted(registry) /\ Agrees
  BY DEF RegistryInv
<1>2. \A r \in registry.roots : r.name \in Names
  BY RootNames DEF TypeOK, Registries
<1>3. ASSUME NEW r \in registry.roots
      PROVE  r \in {asked[n] : n \in Names \ spoiled} \ ({None} \cup registry.broken)
  <2>1. r \in Of(r.name, Held(registry))
    BY DEF Of, Held
  <2>2. r.name \notin spoiled /\ r = asked[r.name] /\ r # None
    BY <1>1, <1>2, <2>1 DEF Agrees
  <2>3. r \notin registry.broken
    BY <1>1 DEF Parted
  <2> QED BY <1>2, <2>2, <2>3
<1>4. ASSUME NEW n \in Names \ spoiled, asked[n] \notin {None} \cup registry.broken
      PROVE  asked[n] \in registry.roots
  <2>1. asked[n] \in Of(n, Held(registry))
    BY <1>1, <1>4 DEF Agrees
  <2> QED BY <1>4, <2>1 DEF Of, Held
<1> QED BY <1>3, <1>4

LEMMA RemindersTrue ==
  ASSUME TypeOK, RowsStay, RegistryInv
  PROVE  RemindsTruly
<1> DEFINE wanted == {asked[n] : n \in Names \ spoiled} \ ({None} \cup registry.broken)
           missing == {r.path : r \in {w \in wanted : w.remote # None /\ ~IsTree(w.path)}}
           sound == {path \in {Repo} \cup {r.path : r \in wanted} : path \in Local => path \notin clashed /\ Settled(path)}
           since(t) == IF t[1] \in Local THEN Row(t[1], t[2], t[1] \in narrow) ELSE Rows(RosterAt(t[1]))[t[2]]
           dated == {t \in sound \X Databases : since(t) \notin {0, Undated}}
           aged == {t \in Trees : Known(t) # {}}
           worst == {t \in aged : \A u \in aged : Age(u) <= Age(t)}
<1> SUFFICES ASSUME ~raced, registry.whole, registry.remind # None, NEW m \in Messages
    PROVE  CASE m.says = "nothing" -> missing = {} /\ \A t \in dated : now - since(t) < registry.remind
             [] m.says = "unfetched" -> m.path \in missing
             [] m.says = "old" -> m.path \in sound =>
                  LET t == <<m.path, m.of>>
                  IN t \in dated /\ now - since(t) >= registry.remind /\ \A u \in dated : since(t) <= since(u)
  BY DEF RemindsTruly
<1>1. wanted = registry.roots
  BY WantedRoots
<1>2. /\ missing # {} => m \in [says: {"unfetched"}, path: missing]
      /\ missing = {} =>
           \/ m = Silence /\ (aged = {} \/ \E t \in worst : Age(t) < registry.remind)
           \/ /\ ~\E t \in worst : Age(t) < registry.remind
              /\ \E t \in worst : m = [says |-> "old", path |-> t, of |-> Oldest(t)]
  <2>1. missing = {r.path : r \in {q \in registry.roots : q.remote # None /\ ~IsTree(q.path)}}
    BY <1>1
  <2> HIDE DEF missing, wanted
  <2> QED BY <2>1 DEF Messages
<1>3. Trees \subseteq Places /\ sound \subseteq Places /\ registry.remind \in Int /\ now \in Int
  <2>1. Trees = Found \cup {r.path : r \in registry.roots}
    BY Zenon DEF Trees
  <2>2. Found \subseteq {Repo}
    BY DEF Found
  <2>3. Trees \subseteq Places /\ sound \subseteq Places
    BY <1>1, <2>1, <2>2, ReadablePlaces
  <2>4. registry.remind \in Nat
    BY HoursAssumption DEF TypeOK, Registries
  <2>5. now \in Nat
    BY ClockAssumption DEF TypeOK, RosterTypeOK, Stamps
  <2> HIDE DEF wanted, missing, sound, dated, aged, worst
  <2> QED BY <2>3, <2>4, <2>5
\* What a sound tree should tell of a database is what its roster does.
<1>4. ASSUME NEW l \in sound, NEW d \in Databases PROVE since(<<l, d>>) = Rows(RosterAt(l))[d]
  <2>1. CASE l \in Local
    <3>1. l \in Local \ clashed /\ Settled(l)
      BY <2>1
    <3>2. Rows(tree[l])[d] = Row(l, d, l \in narrow)
      BY <3>1 DEF RowsStay
    <3> QED BY <2>1, <3>2 DEF RosterAt
  <2>2. CASE l \notin Local
    BY <2>2
  <2> QED BY <2>1, <2>2
<1>5. \A l \in aged : l \in Places /\ Known(l) # {}
  BY <1>3
<1>6. ASSUME NEW t \in dated
      PROVE  t[1] \in aged /\ t[2] \in Known(t[1]) /\ since(t) = RosterAt(t[1])[t[2]] /\ since(t) \in Nat
  <2>1. t[1] \in sound /\ t[2] \in Databases /\ t = <<t[1], t[2]>> /\ since(t) \notin {0, Undated}
    OBVIOUS
  <2>2. since(t) = Rows(RosterAt(t[1]))[t[2]]
    BY <1>4, <2>1
  <2> HIDE DEF since, dated
  <2>3. IsTree(t[1]) /\ since(t) = RosterAt(t[1])[t[2]]
    <3>1. RosterAt(t[1]) # None
      BY <2>1, <2>2 DEF Rows, NoRows
    <3> QED BY <2>2, <3>1 DEF IsTree, Rows
  <2>4. t[2] \in Known(t[1])
    BY <2>1, <2>3 DEF Known
  <2>5. t[1] \in Trees
    <3>1. t[1] = Repo \/ t[1] \in {r.path : r \in registry.roots}
      BY <1>1, <2>1
    <3> QED BY <2>3, <3>1 DEF Trees, Found
  <2>6. since(t) \in Nat
    BY <1>3, <2>1, <2>3, <2>4, KnownSince
  <2> QED BY <2>3, <2>4, <2>5, <2>6
<1>7. ASSUME NEW l \in aged, NEW d \in Known(l), l \in sound
      PROVE  <<l, d>> \in dated /\ since(<<l, d>>) = RosterAt(l)[d]
  <2>1. d \in Databases /\ IsTree(l) /\ RosterAt(l)[d] \notin {0, Undated}
    BY DEF Known
  <2>2. since(<<l, d>>) = Rows(RosterAt(l))[d]
    BY <1>4, <1>7, <2>1
  <2>3. Rows(RosterAt(l)) = RosterAt(l)
    BY <2>1 DEF IsTree, Rows
  <2> HIDE DEF since
  <2> QED BY <1>7, <2>1, <2>2, <2>3
<1>8. \A l \in aged : Age(l) \in Int /\ \A d \in Known(l) : now - RosterAt(l)[d] <= Age(l)
  BY <1>5, AgeOf
<1> HIDE DEF wanted, missing, sound, since, dated, aged, worst
<1>9. CASE missing # {}
  BY <1>2, <1>9
<1>10. CASE missing = {} /\ m = Silence
  <2>1. m.says = "nothing"
    BY <1>10 DEF Silence
  <2>2. aged = {} \/ \E t \in worst : Age(t) < registry.remind
    BY <1>2, <1>10 DEF Silence
  <2>3. ASSUME NEW t \in dated PROVE now - since(t) < registry.remind
    <3>1. t[1] \in aged /\ since(t) \in Nat /\ now - since(t) <= Age(t[1])
      BY <1>6, <1>8
    <3>2. PICK u \in worst : Age(u) < registry.remind
      BY <2>2, <3>1
    <3>3. u \in aged /\ Age(t[1]) <= Age(u)
      BY <3>1 DEF worst
    <3> QED BY <1>3, <1>8, <3>1, <3>2, <3>3
  <2> QED BY <1>10, <2>1, <2>3
<1>11. CASE missing = {} /\ m # Silence
  <2>1. PICK t \in worst : m = [says |-> "old", path |-> t, of |-> Oldest(t)]
    BY <1>2, <1>11
  <2>2. t \in aged /\ \A u \in aged : Age(u) <= Age(t)
    BY DEF worst
  <2>3. ~(Age(t) < registry.remind)
    BY <1>2, <1>11
  <2>4. Oldest(t) \in Known(t)
    BY <1>5, <2>2, OldestOf
  <2> SUFFICES ASSUME t \in sound
      PROVE  LET x == <<t, Oldest(t)>>
             IN x \in dated /\ now - since(x) >= registry.remind /\ \A u \in dated : since(x) <= since(u)
    BY <2>1
  <2>5. <<t, Oldest(t)>> \in dated /\ since(<<t, Oldest(t)>>) = RosterAt(t)[Oldest(t)]
    BY <1>7, <2>2, <2>4
  <2>6. since(<<t, Oldest(t)>>) \in Nat /\ Age(t) = now - since(<<t, Oldest(t)>>)
    BY <1>6, <2>5 DEF Age
  <2>7. now - since(<<t, Oldest(t)>>) >= registry.remind
    BY <1>3, <2>3, <2>6
  <2>8. ASSUME NEW u \in dated PROVE since(<<t, Oldest(t)>>) <= since(u)
    <3>1. u[1] \in aged /\ now - since(u) <= Age(u[1]) /\ since(u) \in Nat
      BY <1>6, <1>8
    <3>2. Age(u[1]) <= Age(t)
      BY <2>2, <3>1
    <3> QED BY <1>3, <1>8, <2>2, <2>6, <3>1, <3>2
  <2> QED BY <2>5, <2>7, <2>8
<1> QED BY <1>9, <1>10, <1>11

\* Where no two edits met, a reminder that says nothing means that every remote
\* registered has an index here and that no database was last built longer ago
\* than was asked, as the builds, the hands and the remotes left it, not as a
\* roster or the registry happens to say; and the database it names is the one
\* built longest ago. Rosters two builds met at, or one is writing, are left out.
THEOREM RemindsTrulyHolds == Spec => []RemindsTruly
<1>1. Init => RosterInv
  BY RosterInitial DEF Init
<1>2. Spec => []RosterInv
  BY <1>1, TypesHold, RowsKept, PTL DEF Spec
<1>3. Spec => []RegistryInv
  BY RegistryInitial, TypesHold, RegistryKept, PTL DEF Spec
<1>4. TypeOK /\ RosterInv /\ RegistryInv => RemindsTruly
  BY RosterInvGives, RemindersTrue
<1> QED
  BY <1>2, <1>3, <1>4, TypesHold, PTL
=============================================================================
