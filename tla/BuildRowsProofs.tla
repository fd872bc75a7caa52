-------------------------- MODULE BuildRowsProofs --------------------------
(***************************************************************************)
(* What a build publishes is what the database holds: RowsCurrent, and the *)
(* rows a build leaves alone, OtherRowsStay.                               *)
(***************************************************************************)
EXTENDS BuildSignalProofs, BuildBookProofs

\* A row that says of an object what the database says.
Current(row, o) ==
  /\ row # None /\ row.modified = o.modified
  /\ row.fingerprint \in Fingerprints(o)
  /\ o.kind = "table" => row.rows = o.rows

LEMMA RowsCurrentIsCurrent ==
  RowsCurrent <=> \A k \in published :
    /\ db[k] = None => \A c \in Kinds : catalogs[c][k] = None
    /\ db[k] # None => Current(catalogs[db[k].kind][k], db[k])
BY DEF RowsCurrent, Current

LEMMA ListingFingerprint ==
  ASSUME NEW o, NEW s, NEW b PROVE Fingerprint(Listing(o), s, b) = Fingerprint(o, s, b)
BY DEF Fingerprint, Listing

\* The row of an entry nobody touched is current.
LEMMA EntryRowCurrent ==
  ASSUME SignalInv, Writing, NEW k \in selected, k \in untouched
  PROVE  db[k] # None /\ objects[k].kind = db[k].kind /\ Current(EntryRow(k), db[k])
<1> USE DEF SignalInv
<1>1. k \in Keys /\ objects[k] # None /\ structures[k] \in Structures
  BY DEF TypeOK, PlannedOK, Listed, Assembled
<1>2. db[k] # None /\ db[k] \in Object /\ objects[k] = Listing(db[k])
  BY <1>1, UntouchedListing
<1>3. structures[k] = StructureOf(db[k]) /\ EntryBody(k) \in Readings(db[k])
  BY <1>1, <1>2 DEF ReadsAttested, Attested, Whole
<1>4. EntryRow(k) # None
  BY <1>1, EntryTypes, NoneAssumption
<1>5. EntryFingerprint(k) \in Fingerprints(db[k])
  BY <1>2, <1>3, ListingFingerprint DEF EntryFingerprint, Fingerprints
<1>6. /\ objects[k].kind = db[k].kind /\ objects[k].modified = db[k].modified
      /\ objects[k].rows = db[k].rows
  BY <1>2 DEF Listing
<1> QED BY <1>2, <1>4, <1>5, <1>6 DEF EntryRow, Current

-----------------------------------------------------------------------------
(* The rows of what is published.                                           *)

LEMMA PublishedCurrent ==
  ASSUME RowsCurrent, NEW k \in published
  PROVE  /\ db[k] = None => \A c \in Kinds : catalogs[c][k] = None
         /\ db[k] # None => Current(catalogs[db[k].kind][k], db[k])
BY RowsCurrentIsCurrent

\* A merge gives the rows of its selection, and none to what was found gone: all
\* of them, or where its write is cut short those of the names still published.
LEMMA MergeRows == ASSUME RowsInv, Merge \/ TornMerge PROVE RowsCurrent'
<1> USE DEF RowsInv
<1>1. Shape
  BY BooksOf
<1>2. /\ pc = "merge" /\ db' = db /\ published' \subseteq published
      /\ \A d \in Kinds, k \in published' : catalogs'[d][k] \in {catalogs[d][k], MergedRows(d)[k]}
  BY <1>1, MergeStep, TornPublished DEF database
<1> SUFFICES ASSUME NEW k \in published'
             PROVE  /\ db[k] = None => \A d \in Kinds : catalogs'[d][k] = None
                    /\ db[k] # None => Current(catalogs'[db[k].kind][k], db[k])
  BY <1>2 DEF RowsCurrent, Current, Fingerprints, Readings
<1>3. k \in Keys /\ k \in untouched /\ k \in published
  BY <1>2, PublishedListing
<1>4. CASE db[k] = None
  <2>1. ASSUME NEW d \in Kinds PROVE catalogs[d][k] = None /\ MergedRows(d)[k] = None
    BY <1>2, <1>3, <1>4, PublishedListing, PublishedCurrent DEF MergedRows
  <2> QED BY <1>2, <1>4, <2>1
<1>5. CASE db[k] # None
  <2>1. db[k].kind \in Kinds /\ k \notin Dropped
    BY <1>2, <1>5, PublishedListing DEF Object
  <2>2. k \in selected => Current(EntryRow(k), db[k])
    BY <1>2, <1>3, EntryRowCurrent DEF Writing
  <2>3. MergedRows(db[k].kind)[k] \in {EntryRow(k), catalogs[db[k].kind][k]}
        /\ (k \notin selected => MergedRows(db[k].kind)[k] = catalogs[db[k].kind][k])
    BY <1>3, <2>1 DEF MergedRows
  <2> QED BY <1>2, <1>5, <2>1, <2>2, <2>3, PublishedCurrent
<1> QED BY <1>4, <1>5

\* A finished build publishes what it covered and nobody touched.
LEMMA RemoveRows == ASSUME RowsInv, Remove PROVE RowsCurrent'
<1> USE DEF RowsInv
<1>1. /\ pc = "remove" /\ UNCHANGED <<db, catalogs>>
      /\ published' = published \cup (Covered \cap untouched)
  BY DEF Remove, database
<1>2. ASSUME NEW k \in published'
      PROVE  /\ db[k] = None => \A c \in Kinds : catalogs[c][k] = None
             /\ db[k] # None => Current(catalogs[db[k].kind][k], db[k])
  <2>1. CASE k \in published
    BY <2>1, PublishedCurrent
  <2>2. CASE k \in selected \cap untouched
    BY <1>1, <2>2, EntryRowCurrent, SelectedRow DEF Writing
  <2>3. CASE k \in untouched /\ k \in Keys /\ objects[k] = None /\ ~opts.force
    <3>1. db[k] = None
      BY <2>3, UntouchedListing DEF BookInv
    <3>2. \A c \in Kinds : catalogs[c][k] = None
      <4>1. CASE state[k] = None
        BY <1>1, <2>3, <4>1 DEF BookInv, NoRowsUnknown
      <4>2. CASE state[k] # None
        BY <1>1, <2>3, <4>2 DEF BookInv, RowsWritten, Dropped
      <4> QED BY <4>1, <4>2
    <3> QED BY <3>1, <3>2
  <2> QED BY <1>1, <1>2, <2>1, <2>2, <2>3 DEF Covered
<1> QED BY <1>1, <1>2 DEF RowsCurrent, Current, Fingerprints, Readings

LEMMA NextRows == ASSUME RowsInv, Coarse = FALSE, [Next]_vars PROVE RowsInv'
<1>1. SignalInv' /\ BookInv'
  BY NextSignal, NextBooks DEF RowsInv
<1>3. CASE ~Merge /\ ~TornMerge /\ ~Remove
  <2>1. catalogs' = catalogs /\ \A k \in published' : k \in published /\ db'[k] = db[k]
    BY <1>3, CatalogsStay, PublishedStays, BooksOf DEF RowsInv
  <2> QED BY <1>1, <2>1 DEF RowsInv, RowsCurrent, Fingerprints, Readings
<1> QED BY <1>1, <1>3, MergeRows, RemoveRows DEF RowsInv

LEMMA InitRows == Init => RowsInv
<1>1. Init => RowsCurrent
  BY DEF Init, RowsCurrent
<1> QED BY <1>1, InitSignal, InitBooks DEF RowsInv

\* Whatever a finished build covered and nobody has touched since is in the tree
\* as the database has it, and a name it found dropped has no row: through every
\* later build, however narrowed, forced or stopped, until the object is touched. A
\* catalog whose write is cut short loses the rows from the cut on, and the names of
\* those rows are no longer claimed; of every other name the claim stands.
THEOREM RowsCurrentHolds ==
  ASSUME Coarse = FALSE
  PROVE  Spec => []RowsCurrent
<1>1. Init => RowsInv
  BY InitRows
<1>2. RowsInv /\ [Next]_vars => RowsInv'
  BY NextRows
<1>3. RowsInv => RowsCurrent
  BY DEF RowsInv
<1> QED BY <1>1, <1>2, <1>3, PTL DEF Spec

-----------------------------------------------------------------------------
(* The rows a build leaves alone.                                           *)

\* In every catalog, a step changes only rows of names the build selected or
\* found dropped - unless a write is cut short, which loses the rows behind it.
THEOREM OtherRowsStayHolds ==
  ASSUME "torn" \notin Faults
  PROVE  Spec => OtherRowsStay
<1> DEFINE Stays == \A c \in Kinds, k \in Keys :
                      catalogs'[c][k] # catalogs[c][k] => k \in selected \cup Dropped
<1>1. ASSUME Shape, [Next]_vars PROVE [Stays]_catalogs
  <2>1. CASE Merge
    <3>1. Catalogs[merged + 1] \in Kinds
      BY <1>1, <2>1, CatalogsAreKinds DEF Merge, Shape, TypeOK, FetchedOK, Assembled
    <3>2. ASSUME NEW c \in Kinds, NEW k \in Keys, catalogs'[c][k] # catalogs[c][k]
          PROVE  k \in selected \cup Dropped
      <4>1. catalogs' = [catalogs EXCEPT ![Catalogs[merged + 1]] = MergedRows(Catalogs[merged + 1])]
        BY <2>1 DEF Merge
      <4>2. MergedRows(c)[k] # catalogs[c][k]
        BY <1>1, <3>1, <3>2, <4>1 DEF Shape, TypeOK, TreeOK
      <4> QED BY <4>2 DEF MergedRows
    <3> QED BY <3>2
  <2>2. CASE UNCHANGED catalogs
    BY <2>2
  <2>3. Merge \/ UNCHANGED catalogs
    BY <1>1
       DEF Next, Database, Deploy, Drop, Grow, Touch, Manifest, Progress, Plan, Lookup, ReadColumns,
           ReadIndexes, ReadModules, Store, Describe, WriteColumns, WriteBodies, Remove, Failures,
           Stop, TornMerge, StopInColumns, StopInBodies, StopInRemove, vars, tree
  <2> QED BY <2>1, <2>2, <2>3
<1>2. Init => Shape
  BY InitShape
<1>3. Shape /\ [Next]_vars => Shape'
  BY NextShape
<1> QED BY <1>1, <1>2, <1>3, PTL DEF Spec, OtherRowsStay

-----------------------------------------------------------------------------
(* The files of what is published, if no body is too long for the cache and *)
(* nothing has an empty text.                                               *)

LEMMA HashType ==
  ASSUME NEW o \in Object
  PROVE  Hash(o) \in Hashes /\ BodyOf(o) \in Bodies /\ StructureOf(o) \in Structures
BY ReadingTypes, ListingFingerprint, FingerprintType DEF Hash

\* The entry of an object nobody touched hashes to what the object does.
LEMMA WholeEntry ==
  ASSUME SignalInv, Writing, Overlong = {}, NEW k \in selected, k \in untouched
  PROVE  /\ db[k] # None /\ db[k] \in Object /\ objects[k] = Listing(db[k])
         /\ objects[k].kind = db[k].kind
         /\ structures[k] = StructureOf(db[k]) /\ EntryBody(k) = BodyOf(db[k])
         /\ EntryFingerprint(k) = Hash(db[k])
<1> USE DEF SignalInv
<1>1. k \in Keys /\ objects[k] # None
  BY DEF TypeOK, PlannedOK, Listed
<1>2. db[k] # None /\ db[k] \in Object /\ objects[k] = Listing(db[k])
  BY <1>1, UntouchedListing
<1>3. structures[k] = StructureOf(db[k]) /\ EntryBody(k) \in Readings(db[k])
  BY <1>1, <1>2 DEF ReadsAttested, Attested, Whole
<1>4. EntryBody(k) = BodyOf(db[k])
  BY <1>3 DEF Readings, Trim
<1> QED BY <1>2, <1>3, <1>4, ListingFingerprint DEF Hash, EntryFingerprint, Listing

\* So its files are written, and hold what it holds.
LEMMA WholeFiles ==
  ASSUME SignalInv, Writing, Overlong = {}, "" \notin Texts, NEW k \in selected, k \in untouched
  PROVE  /\ db[k].kind \in Detailed => /\ WritesColumns(k)
                                       /\ ColumnsFile(k) = [fingerprint |-> Hash(db[k]),
                                                            content |-> StructureOf(db[k])]
         /\ HasBody(db[k]) => /\ WritesBody(k)
                              /\ BodyFile(k) = [fingerprint |-> Hash(db[k]), content |-> BodyOf(db[k])]
<1>1. db[k].content.text # ""
  <2>1. db[k].content \in UNION {Content(c) : c \in Kinds}
    BY WholeEntry DEF Object
  <2>2. PICK c \in Kinds : db[k].content \in Content(c)
    BY <2>1
  <2> QED BY <2>2 DEF Content
<1>2. StructureOf(db[k]).columns # "" /\ (HasBody(db[k]) => BodyOf(db[k]).text # "")
  BY <1>1 DEF StructureOf, BodyOf
<1> QED
  BY <1>2, WholeEntry DEF WritesColumns, ColumnsFile, WritesBody, BodyFile, HasBody

FilesOf(k) ==
  /\ HasBody(db[k]) =>
       bodyFiles[k] = [fingerprint |-> Hash(db[k]), content |-> BodyOf(db[k])]
  /\ db[k].kind \in Detailed =>
       columnFiles[k] = [fingerprint |-> Hash(db[k]), content |-> StructureOf(db[k])]

LEMMA FilesStandIs == FilesStand <=> \A k \in published : db[k] # None => FilesOf(k)
BY DEF FilesStand, FilesOf

\* What a step may leave of the files of a name that is published after it: what
\* they were, or what the build was to write there.
LEMMA FilesStep ==
  ASSUME Shape, [Next]_vars, NEW k \in Keys, k \notin Dropped, k \in published',
         columnFiles'[k] # columnFiles[k] \/ bodyFiles'[k] # bodyFiles[k]
  PROVE  /\ pc \in {"columnFiles", "bodyFiles"}
         /\ columnFiles'[k] # columnFiles[k] => WritesColumns(k) /\ columnFiles'[k] = ColumnsFile(k)
         /\ bodyFiles'[k] # bodyFiles[k] => WritesBody(k) /\ bodyFiles'[k] = BodyFile(k)
<1>1. CASE WriteColumns \/ WriteBodies
  BY <1>1 DEF WriteColumns, WriteBodies
<1>2. CASE StopInColumns
  <2>0. PICK last \in Keys : \E end \in Ends(columnFiles, last) :
          columnFiles' = PartOf(columnFiles,
            [j \in Keys |-> IF WritesColumns(j) THEN ColumnsFile(j) ELSE None], last, end)
    BY <1>2 DEF StopInColumns
  <2>1. PICK end \in Ends(columnFiles, last) :
          columnFiles' = PartOf(columnFiles,
            [j \in Keys |-> IF WritesColumns(j) THEN ColumnsFile(j) ELSE None], last, end)
    BY <2>0
  <2>2. /\ pc = "columnFiles" /\ bodyFiles' = bodyFiles
        /\ columnFiles'[k] = Torn => columnFiles[k] = Torn
    BY <1>2 DEF StopInColumns
  <2>3. end = columnFiles[last] \/ end = Torn
    BY DEF Ends
  <2> QED BY <2>1, <2>2, <2>3 DEF PartOf
<1>3. CASE StopInBodies
  <2>0. PICK last \in Keys : \E end \in Ends(bodyFiles, last) :
          bodyFiles' = PartOf(bodyFiles,
            [j \in Keys |-> IF WritesBody(j) THEN BodyFile(j) ELSE None], last, end)
    BY <1>3 DEF StopInBodies
  <2>1. PICK end \in Ends(bodyFiles, last) :
          bodyFiles' = PartOf(bodyFiles,
            [j \in Keys |-> IF WritesBody(j) THEN BodyFile(j) ELSE None], last, end)
    BY <2>0
  <2>2. /\ pc = "bodyFiles" /\ columnFiles' = columnFiles
        /\ bodyFiles'[k] = Torn => bodyFiles[k] = Torn
    BY <1>3 DEF StopInBodies
  <2>3. end = bodyFiles[last] \/ end = Torn
    BY DEF Ends
  <2> QED BY <2>1, <2>2, <2>3 DEF PartOf
<1>4. CASE Remove \/ StopInRemove
  BY <1>4 DEF Remove, StopInRemove
<1>5. CASE UNCHANGED <<columnFiles, bodyFiles>>
  BY <1>5
<1>6. \/ WriteColumns \/ WriteBodies \/ StopInColumns \/ StopInBodies \/ Remove \/ StopInRemove
      \/ UNCHANGED <<columnFiles, bodyFiles>>
  BY DEF Next, Database, Deploy, Drop, Grow, Touch, Manifest, Progress, Plan, Lookup, ReadColumns,
         ReadIndexes, ReadModules, Store, Describe, Merge, Failures, Stop, TornMerge, vars, tree
<1> QED BY <1>1, <1>2, <1>3, <1>4, <1>5, <1>6

LEMMA NextFiles ==
  ASSUME RowsInv, FilesStand, Overlong = {}, "" \notin Texts, [Next]_vars
  PROVE  FilesStand'
<1> USE DEF RowsInv
<1>1. Shape
  BY BooksOf
<1> SUFFICES ASSUME NEW k \in published', db'[k] # None PROVE FilesOf(k)'
  BY DEF FilesStand, FilesOf
<1>2. CASE k \in published /\ db'[k] = db[k]
  <2>1. FilesOf(k) /\ k \in Keys
    BY <1>1, <1>2, FilesStandIs DEF Shape, TypeOK, HistoryOK
  <2>2. CASE UNCHANGED <<columnFiles[k], bodyFiles[k]>>
    BY <1>2, <2>1, <2>2 DEF FilesOf
  <2>3. CASE columnFiles'[k] # columnFiles[k] \/ bodyFiles'[k] # bodyFiles[k]
    <3>1. pc # "idle"
      BY <2>3 DEF Next, Database, Deploy, Drop, Grow, Touch, Manifest, Progress, Plan, Lookup,
         ReadColumns, ReadIndexes, ReadModules, Store, Describe, Merge, WriteColumns, WriteBodies,
         Remove, Failures, Stop, TornMerge, StopInColumns, StopInBodies, StopInRemove, vars, tree
    <3>2. k \in untouched /\ k \notin Dropped
      BY <1>2, <3>1, PublishedListing
    <3>3. /\ pc \in {"columnFiles", "bodyFiles"}
          /\ columnFiles'[k] # columnFiles[k] => WritesColumns(k) /\ columnFiles'[k] = ColumnsFile(k)
          /\ bodyFiles'[k] # bodyFiles[k] => WritesBody(k) /\ bodyFiles'[k] = BodyFile(k)
      BY <1>1, <2>1, <2>3, <3>2, FilesStep
    <3>4. k \in selected
      BY <2>3, <3>3 DEF WritesColumns, WritesBody
    <3>5. /\ db[k].kind \in Detailed => ColumnsFile(k) = [fingerprint |-> Hash(db[k]),
                                                         content |-> StructureOf(db[k])]
          /\ HasBody(db[k]) => BodyFile(k) = [fingerprint |-> Hash(db[k]), content |-> BodyOf(db[k])]
      BY <3>2, <3>3, <3>4, WholeFiles DEF Writing
    <3> QED BY <1>2, <2>1, <3>3, <3>5 DEF FilesOf
  <2> QED BY <2>2, <2>3
<1>3. CASE ~(k \in published /\ db'[k] = db[k])
  <2>1. Remove
    BY <1>1, <1>3, PublishedStays
  <2>2. /\ pc = "remove" /\ UNCHANGED db /\ published' = published \cup (Covered \cap untouched)
        /\ columnFiles' = [j \in Keys |-> IF j \in Dropped THEN None ELSE columnFiles[j]]
        /\ bodyFiles' = [j \in Keys |-> IF j \in Dropped THEN None ELSE bodyFiles[j]]
    BY <2>1 DEF Remove, database
  <2>3. k \in Covered /\ k \in untouched /\ db[k] # None
    BY <1>3, <2>2
  <2>4. k \in Keys /\ objects[k] # None
    BY <2>3, UntouchedListing DEF BookInv
  <2>5. k \in selected /\ k \notin Dropped
    BY <2>3, <2>4 DEF Covered, Dropped
  <2>6. /\ WritesColumns(k) => columnFiles[k] = ColumnsFile(k)
        /\ WritesBody(k) => bodyFiles[k] = BodyFile(k)
    BY <2>2, <2>4 DEF BookInv, FilesWritten
  <2>7. FilesOf(k)
    BY <2>2, <2>3, <2>5, <2>6, WholeFiles DEF FilesOf, Writing
  <2> QED BY <2>2, <2>4, <2>5, <2>7 DEF FilesOf
<1> QED BY <1>2, <1>3

LEMMA FilesStandCurrent ==
  ASSUME RowsInv, FilesStand, Overlong = {} PROVE FilesCurrent
<1> SUFFICES ASSUME NEW k \in published, db[k] # None
             PROVE  /\ HasBody(db[k]) =>
                         /\ bodyFiles[k] \notin {None, Torn}
                         /\ bodyFiles[k].fingerprint = catalogs[db[k].kind][k].fingerprint
                         /\ bodyFiles[k].content \in Readings(db[k])
                    /\ db[k].kind \in Detailed =>
                         /\ columnFiles[k] \notin {None, Torn}
                         /\ columnFiles[k].fingerprint = catalogs[db[k].kind][k].fingerprint
                         /\ columnFiles[k].content = StructureOf(db[k])
  BY DEF FilesCurrent
<1>1. db[k] \in Object /\ FilesOf(k)
  BY FilesStandIs DEF RowsInv, BookInv, TypeOK, DatabaseOK, HistoryOK, Optional
<1>2. Readings(db[k]) = {BodyOf(db[k])}
  BY DEF Readings, Trim
<1>3. catalogs[db[k].kind][k].fingerprint = Hash(db[k])
  BY <1>2, PublishedCurrent DEF RowsInv, Current, Fingerprints, Hash
<1>4. /\ [fingerprint |-> Hash(db[k]), content |-> BodyOf(db[k])] \in BodyFiles
      /\ [fingerprint |-> Hash(db[k]), content |-> StructureOf(db[k])] \in ColumnFiles
  BY <1>1, HashType DEF BodyFiles, ColumnFiles
<1> QED BY <1>1, <1>2, <1>3, <1>4, NoneAssumption, TornAssumption DEF FilesOf

\* The files of an object a finished build covered, and nobody has touched since,
\* hold the content its row's fingerprint was taken of, which is the content the
\* database has: at every moment of every later build, and however one dies - unless
\* it dies within the write of that very row or file, which is then no longer claimed.
\* (A body longer than the cache keeps is written again as the cache kept it; an
\* object without columns or text keeps the file of the time it had some.)
THEOREM FilesCurrentHolds ==
  ASSUME Coarse = FALSE, Overlong = {}, "" \notin Texts
  PROVE  Spec => []FilesCurrent
<1>1. Init => RowsInv /\ FilesStand
  <2>1. Init => FilesStand
    BY DEF Init, FilesStand
  <2> QED BY <2>1, InitRows
<1>2. RowsInv /\ FilesStand /\ [Next]_vars => RowsInv' /\ FilesStand'
  BY NextRows, NextFiles
<1>3. RowsInv /\ FilesStand => FilesCurrent
  BY FilesStandCurrent
<1> QED BY <1>1, <1>2, <1>3, PTL DEF Spec

-----------------------------------------------------------------------------
(* What is asked about, and what is fetched, again.                         *)

\* The state a build read for a published name is the row of its object: where no
\* name ever changes kind, no other catalog has one.
LEMMA PublishedState ==
  ASSUME RowsInv, OneKindEach, Reading, ~opts.force, NEW k \in published, db[k] # None
  PROVE  state[k] = catalogs[db[k].kind][k] /\ Current(state[k], db[k])
<1> USE DEF RowsInv
<1>1. k \in Keys /\ db[k] \in Object /\ db[k].kind \in Kinds /\ db[k].kind \in KindsOf[k]
  BY PublishedListing DEF Reading, Object, BookInv, KindsKept
<1>2. Current(catalogs[db[k].kind][k], db[k])
  BY PublishedCurrent
<1>3. state[k] = ReadState[k]
  BY DEF BookInv, StateRead
<1>4. PICK c \in Kinds : catalogs[c][k] # None /\ ReadState[k] = catalogs[c][k]
  BY <1>1, <1>2, StateOfRow DEF Current
<1>5. c = db[k].kind
  BY <1>1, <1>4 DEF BookInv, KindsKept, OneKindEach
<1> QED BY <1>2, <1>3, <1>4, <1>5

\* The model is asked again only about what was touched or reported: not about an
\* object a finished build covered and nobody has touched since, however later builds
\* were narrowed or killed, with a signal on the engine or without one. (A write cut
\* short loses rows or a file, and the model may be asked again about their objects:
\* about those alone.)
THEOREM RebuildCostsNothingHolds ==
  ASSUME Coarse = FALSE, Overlong = {}, \A k \in Keys : \A a, b \in KindsOf[k] : a = b
  PROVE  Spec => []RebuildCostsNothing
<1>1. Init => RowsInv /\ Told
  BY InitRows, InitUncut
<1>2. RowsInv /\ Told /\ [Next]_vars => RowsInv' /\ Told'
  BY NextRows, NextTold DEF RowsInv
<1>3. RowsInv /\ Told => RebuildCostsNothing
  <2> SUFFICES ASSUME RowsInv, Told, pc = "describe", ~opts.force,
                      NEW k \in Todo, k \in published, k \notin reported
               PROVE  FALSE
    BY DEF RebuildCostsNothing
  <2>1. k \in selected /\ objects[k].kind \in Describable /\ k \in untouched
    BY PublishedListing DEF Todo, RowsInv
  <2>2. /\ db[k] # None /\ objects[k].kind = db[k].kind
        /\ EntryFingerprint(k) = Hash(db[k]) /\ EntryBody(k) = BodyOf(db[k])
    BY <2>1, WholeEntry DEF RowsInv, Writing
  <2>3. state[k] = catalogs[db[k].kind][k] /\ Current(state[k], db[k])
    BY <2>2, PublishedState DEF Reading, OneKindEach
  <2>4. state[k].fingerprint = Hash(db[k])
    BY <2>3 DEF Current, Fingerprints, Readings, Trim, Hash
  <2>5. state[k].description # None
    BY <2>1, <2>2, <2>3 DEF Told, HasSentence
  <2> QED BY <2>2, <2>3, <2>4, <2>5 DEF Todo, Unchanged, Current
<1> QED BY <1>1, <1>2, <1>3, PTL DEF Spec

\* Nor is it asked about an object that was touched, when what came of it hashes
\* to what its row says: redeployed as it was, its line endings rewritten, or rows
\* added past the depth of the sample - if the row has a sentence to keep.
THEOREM AsksOnlyAboutChangesHolds ==
  ASSUME Coarse = FALSE, Overlong = {}
  PROVE  Spec => []AsksOnlyAboutChanges
<1>1. Init => RowsInv /\ BodiesUncut
  BY InitRows, InitUncut
<1>2. RowsInv /\ BodiesUncut /\ [Next]_vars => RowsInv' /\ BodiesUncut'
  BY NextRows, NextUncut DEF RowsInv
<1>3. RowsInv /\ BodiesUncut => AsksOnlyAboutChanges
  <2> SUFFICES ASSUME RowsInv, BodiesUncut, pc = "describe", NEW k \in Todo, k \in untouched,
                      state[k] # None, state[k].description # None,
                      LooksAlike(state[k].fingerprint, db[k])
               PROVE  FALSE
    BY DEF AsksOnlyAboutChanges
  <2> DEFINE f == state[k].fingerprint
  <2>1. k \in selected /\ objects[k].kind \in Describable /\ k \in Keys
    BY SelectedListed DEF Todo, RowsInv, BookInv
  <2>2. /\ db[k] \in Object /\ objects[k].kind = db[k].kind /\ EntryFingerprint(k) = Hash(db[k])
    BY <2>1, WholeEntry DEF RowsInv, Writing
  <2>3. f # Hash(db[k])
    BY <2>2 DEF Todo, Unchanged
  <2>4. f # Torn /\ (f.of = "body" => f = [of |-> "body", triggers |-> 0, depth |-> 0,
                                          text |-> [text |-> f.text.text, cut |-> FALSE]])
    BY <2>1 DEF BodiesUncut, Uncut
  <2>5. f \in Hashes
    BY <2>1, <2>4 DEF RowsInv, BookInv, TypeOK, PlannedOK, Optional, RowsOfFile
  <2>6. CASE db[k].kind = "table"
    <3>1. /\ f.of = "structure" /\ f.text = StructureOf(db[k]) /\ f.triggers = db[k].triggers
          /\ f.depth = IF db[k].rows < SampleRows THEN db[k].rows ELSE SampleRows
      BY <2>6 DEF LooksAlike
    <3>2. f.depth \in 0 .. SampleRows /\ db[k].rows \in Int /\ SampleRows \in Nat
      BY <2>2, <2>5, CountsAssumption, SampleRowsAssumption DEF Hashes, Object
    <3>3. f.depth = SampleDepth(db[k].rows)
      BY <3>1, <3>2 DEF SampleDepth
    <3>4. Hash(db[k]) = [of |-> "structure", text |-> StructureOf(db[k]),
                         triggers |-> db[k].triggers, depth |-> SampleDepth(db[k].rows)]
      BY <2>6 DEF Hash, Fingerprint
    <3>5. f = [of |-> f.of, text |-> f.text, triggers |-> f.triggers, depth |-> f.depth]
      BY <2>5 DEF Hashes
    <3> QED BY <2>3, <3>1, <3>3, <3>4, <3>5
  <2>7. CASE db[k].kind # "table"
    <3>1. f.of = "body" /\ f.text.text = BodyOf(db[k]).text
      BY <2>7 DEF LooksAlike
    <3>2. db[k].kind \in Modules
      BY <2>1, <2>2, <2>7 DEF Describable, Modules, Kinds
    <3>3. Normalize(BodyOf(db[k])) = [text |-> BodyOf(db[k]).text, cut |-> FALSE]
      BY DEF Normalize, BodyOf, EmptyBody
    <3>4. Hash(db[k]) = [of |-> "body", text |-> [text |-> BodyOf(db[k]).text, cut |-> FALSE],
                         triggers |-> 0, depth |-> 0]
      BY <2>7, <3>2, <3>3 DEF Hash, Fingerprint
    <3> QED BY <2>3, <2>4, <3>1, <3>4
  <2> QED BY <2>6, <2>7
<1> QED BY <1>1, <1>2, <1>3, PTL DEF Spec

-----------------------------------------------------------------------------
(* The cache, where every object can be cached and no write to it fails.    *)

\* On an engine with a modify signal, an object has one, and only the database
\* changes it.
LEMMA SignalsMoved ==
  ASSUME Shape, AllCached, Stock, Database
  PROVE  /\ \A k \in Keys : db'[k] # None => db'[k].modified # NoSignal
         /\ \A k \in untouched' : k \in untouched /\ db'[k] = db[k]
         /\ \A k \in published' : k \in published /\ db'[k] = db[k]
         /\ UNCHANGED <<cache, build>>
<1>1. PICK k \in Keys : Deploy(k) \/ Drop(k) \/ Grow(k)
  BY DEF Database
<1>2. PICK o : Touch(k, o) /\ (o # None => o.modified # NoSignal)
  <2>1. CASE Deploy(k)
    <3>1. PICK signal \in Signals : \E o : Touch(k, o) /\ o.modified = signal
      BY <2>1 DEF Deploy
    <3>2. signal # NoSignal
      BY <3>1 DEF Signals, Shape, TypeOK, DatabaseOK, AllCached
    <3> QED BY <3>1, <3>2
  <2>2. CASE Drop(k)
    BY <2>2 DEF Drop
  <2>3. CASE Grow(k)
    <3>1. PICK r \in Rows, t \in Triggers : Touch(k, [db[k] EXCEPT !.rows = r, !.triggers = t])
      BY <2>3 DEF Grow
    <3>2. db[k] # None /\ db[k] \in Object
      BY <2>3 DEF Grow, Shape, TypeOK, DatabaseOK, Optional
    <3>3. [db[k] EXCEPT !.rows = r, !.triggers = t].modified = db[k].modified
      BY <3>2 DEF Object
    <3> QED BY <1>1, <3>1, <3>2, <3>3 DEF Stock
  <2> QED BY <1>1, <2>1, <2>2, <2>3
<1>3. /\ db' = [db EXCEPT ![k] = o] /\ db \in [Keys -> Optional(Object)]
      /\ untouched' = untouched \ {k} /\ published' = published \ {k}
      /\ untouched \subseteq Keys /\ published \subseteq Keys /\ UNCHANGED <<cache, build>>
  BY <1>2 DEF Touch, Shape, TypeOK, DatabaseOK, HistoryOK
<1> QED BY <1>2, <1>3 DEF Stock

\* A step that leaves the database and the cache alone, and selects no more.
LEMMA QuietStock ==
  ASSUME Stock, UNCHANGED <<db, cache>>, published' \subseteq published, ~Fetching',
         Writing' => Writing /\ selected' = selected /\ untouched' = untouched
  PROVE  Stock'
BY DEF Stock, Stocked, Kept, cache, Fetching, Writing

LEMMA DatabaseStock == ASSUME RowsInv, AllCached, Stock, Database PROVE Stock'
<1>1. /\ \A k \in Keys : db'[k] # None => db'[k].modified # NoSignal
      /\ \A k \in untouched' : k \in untouched /\ db'[k] = db[k]
      /\ \A k \in published' : k \in published /\ db'[k] = db[k]
      /\ UNCHANGED <<cachedStructures, cachedModules, pc, objects, selected, missing, definitions>>
  BY SignalsMoved, BooksOf DEF RowsInv, cache, build, planned, fetched
<1>2. Fetching' = Fetching /\ Writing' = Writing
  BY <1>1 DEF Fetching, Writing
<1> QED BY <1>1, <1>2 DEF Stock, Stocked, Kept

LEMMA LookupStock == ASSUME RowsInv, Stock, Lookup PROVE Stock'
<1> DEFINE hits == {k \in selected : Cached(k)}
<1>1. /\ missing' = selected \ hits /\ pc' = IF selected = hits THEN "describe" ELSE "columns"
      /\ UNCHANGED <<db, cachedStructures, cachedModules, selected, untouched, published>>
  BY DEF Lookup, database, cache, planned, history
<1>2. ASSUME NEW k \in hits, k \in untouched PROVE Stocked(k)
  <2>1. db[k] # None /\ objects[k].modified = db[k].modified /\ objects[k].kind = db[k].kind
    <3>1. objects[k] # None
      BY <1>2, SelectedListed DEF RowsInv, BookInv
    <3>2. db[k] # None /\ objects[k] = Listing(db[k])
      BY <1>2, <3>1, UntouchedListing DEF RowsInv, BookInv
    <3> QED BY <3>2 DEF Listing
  <2> QED BY <1>2, <2>1 DEF Cached, Proven, Stocked, Kept
<1> HIDE DEF hits
<1>3. \A k \in hits \cap untouched : Stocked(k)'
  BY <1>1, <1>2 DEF Stocked, Kept
<1> QED BY <1>1, <1>3 DEF Stock, Stocked, Kept, Fetching, Writing

LEMMA ReadsStock ==
  ASSUME RowsInv, AllCached, Stock, ReadColumns \/ ReadIndexes \/ ReadModules
  PROVE  Stock'
<1>1. /\ pc \in {"columns", "indexes", "modules"} /\ pc' \in {"indexes", "modules", "store"}
      /\ UNCHANGED <<db, cachedStructures, cachedModules, objects, selected, missing, untouched, published>>
  BY DEF ReadColumns, ReadIndexes, ReadModules, database, cache, planned, history
<1>2. ASSUME pc' = "store", NEW k \in missing \cap untouched, objects[k].kind \in Modules
      PROVE  definitions'[k] # None
  <2>1. CASE ReadModules
    <3>1. /\ k \in Keys /\ db[k] # None /\ db[k] \in Object /\ objects[k].kind = db[k].kind
      <4>1. objects[k] # None
        BY SelectedListed DEF RowsInv, BookInv, TypeOK, FetchedOK
      <4>2. k \in Keys /\ db[k] # None /\ db[k] \in Object /\ objects[k] = Listing(db[k])
        BY <4>1, UntouchedListing DEF RowsInv, BookInv
      <4> QED BY <4>2 DEF Listing
    <3>2. HasBody(db[k])
      <4>1. db[k].content \in UNION {Content(c) : c \in Kinds}
        BY <3>1 DEF Object
      <4>2. PICK c \in Kinds : db[k].content \in Content(c)
        BY <4>1
      <4>3. db[k].content.hidden = FALSE
        BY <4>2 DEF Content, AllCached
      <4> QED BY <1>2, <3>1, <4>3 DEF HasBody
    <3>3. definitions'[k] = BodyOf(db[k]) /\ BodyOf(db[k]) \in Bodies
      BY <1>2, <2>1, <3>1, <3>2, ReadingTypes DEF ReadModules
    <3> QED BY <3>3, NoneAssumption
  <2>2. CASE ~ReadModules
    BY <1>2, <2>2 DEF ReadColumns, ReadIndexes
  <2> QED BY <2>1, <2>2
<1> QED BY <1>1, <1>2 DEF Stock, Stocked, Kept, Fetching, Writing

LEMMA StoreStock == ASSUME RowsInv, AllCached, Stock, Store PROVE Stock'
<1>1. /\ pc = "store" /\ pc' = "describe"
      /\ UNCHANGED <<db, objects, selected, missing, definitions, untouched, published>>
      /\ cachedStructures' = [k \in Keys |->
           IF k \in missing THEN [signal |-> objects[k].modified, value |-> structures[k]]
                            ELSE cachedStructures[k]]
      /\ cachedModules' = [k \in Keys |->
           IF k \in missing /\ definitions[k] # None
           THEN [signal |-> objects[k].modified, value |-> Trim(definitions[k])]
           ELSE cachedModules[k]]
  BY DEF Store, AllCached, database, planned, fetched, history
<1>2. missing \subseteq selected /\ published \subseteq untouched /\ untouched \subseteq Keys
  BY <1>1 DEF RowsInv, BookInv, TypeOK, FetchedOK, HistoryOK, PublishedStand
<1>3. ASSUME NEW k \in untouched, k \in missing \/ Stocked(k)
      PROVE  Stocked(k)'
  <2>1. CASE k \in missing /\ db[k] # None
    <3>1. /\ k \in Keys /\ objects[k] = Listing(db[k])
          /\ objects[k].modified = db[k].modified /\ objects[k].kind = db[k].kind
          /\ db[k] \in Object /\ Listing(db[k]) \in Listings
      BY <2>1, UntouchedListing, ReadingTypes DEF RowsInv, BookInv, Listing
    <3>2. db[k].modified # NoSignal /\ (db[k].kind \in Modules => definitions[k] # None)
      BY <1>1, <2>1, <3>1 DEF Stock
    <3>3. /\ cachedStructures'[k] = [signal |-> db[k].modified, value |-> structures[k]]
          /\ db[k].kind \in Modules =>
               cachedModules'[k] = [signal |-> db[k].modified, value |-> Trim(definitions[k])]
      BY <1>1, <2>1, <3>1, <3>2
    <3>4. /\ cachedStructures'[k] # None
          /\ db[k].kind \in Modules => cachedModules'[k] # None
      <4>1. structures[k] \in Structures /\ db[k].modified \in Nat
        BY <1>1, <2>1, <3>1 DEF RowsInv, BookInv, Assembled, Object
      <4>2. db[k].kind \in Modules => Trim(definitions[k]) \in Bodies
        BY <3>1, <3>2, TrimType DEF RowsInv, BookInv, TypeOK, FetchedOK, Optional
      <4> QED BY <3>3, <4>1, <4>2, NoneAssumption DEF CachedStructures, CachedBodies
    <3>5. /\ cachedStructures'[k].signal = db[k].modified
          /\ db[k].kind \in Modules => cachedModules'[k].signal = db[k].modified
      BY <3>3
    <3> QED BY <1>1, <3>2, <3>4, <3>5 DEF Stocked, Kept, Same
  <2>2. CASE k \notin missing
    BY <1>1, <1>2, <1>3, <2>2 DEF Stocked, Kept
  <2>3. CASE db[k] = None
    BY <1>1, <2>3 DEF Stocked
  <2> QED BY <2>1, <2>2, <2>3
<1>4. \A k \in published : Stocked(k)'
  BY <1>2, <1>3 DEF Stock
<1>5. \A k \in selected \cap untouched : Stocked(k)'
  BY <1>1, <1>3 DEF Stock, Fetching
<1> QED BY <1>1, <1>4, <1>5 DEF Stock, Stocked, Kept, Fetching, Writing

LEMMA RemoveStock == ASSUME RowsInv, Stock, Remove PROVE Stock'
<1>1. /\ pc = "remove" /\ pc' = "idle" /\ UNCHANGED <<db, cachedStructures, cachedModules>>
      /\ published' = published \cup (Covered \cap untouched)
  BY DEF Remove, Forget, database, cache
<1>2. ASSUME NEW k \in Covered \cap untouched PROVE Stocked(k)
  <2>1. db[k] # None => k \in selected
    BY UntouchedListing DEF RowsInv, BookInv, Covered
  <2> QED BY <1>1, <2>1 DEF Stock, Writing, Stocked
<1> QED BY <1>1, <1>2 DEF Stock, Stocked, Kept, Fetching, Writing

LEMMA NextStock == ASSUME RowsInv, AllCached, Stock, [Next]_vars PROVE Stock'
<1>1. CASE (\E o \in Options : Manifest(o)) \/ Plan \/ Describe \/ Merge \/ WriteColumns \/ WriteBodies
            \/ Failures
  <2>1. UNCHANGED <<db, cache>> /\ published' \subseteq published
    BY <1>1 DEF Manifest, Plan, Describe, Merge, WriteColumns, WriteBodies, Failures, Stop, TornMerge,
       StopInColumns, StopInBodies, StopInRemove, database, history
  <2>2. /\ pc' \in {"plan", "lookup", "idle", "merge", "columnFiles", "bodyFiles", "remove"}
        /\ pc' \in {"merge", "columnFiles", "bodyFiles", "remove"} =>
             pc \in {"describe", "merge", "columnFiles", "bodyFiles"} /\ UNCHANGED <<selected, untouched>>
    BY <1>1 DEF Manifest, Plan, Describe, Merge, WriteColumns, WriteBodies, Failures, Stop, TornMerge,
       StopInColumns, StopInBodies, StopInRemove, Forget, planned, history
  <2> QED BY <2>1, <2>2, QuietStock DEF Fetching, Writing
<1>2. CASE UNCHANGED vars
  BY <1>2 DEF vars, database, cache, build, planned, fetched, history, Stock, Stocked, Kept, Fetching,
     Writing
<1> QED BY <1>1, <1>2, DatabaseStock, LookupStock, ReadsStock, StoreStock, RemoveStock DEF Next, Progress

LEMMA NextRereads ==
  ASSUME RowsInv, OneKindEach, Stock, RereadsNothingUntouched, [Next]_vars
  PROVE  RereadsNothingUntouched'
<1> SUFFICES ASSUME pc' = "columns", ~opts'.force, NEW k \in missing', k \in published'
             PROVE  FALSE
  BY DEF RereadsNothingUntouched
<1>1. CASE Lookup
  <2>1. /\ pc = "lookup" /\ UNCHANGED <<opts, published>> /\ k \in selected /\ ~Cached(k)
    BY <1>1 DEF Lookup, planned, history
  <2>2. /\ db[k] # None /\ db[k] \in Object /\ objects[k] = Listing(db[k]) /\ k \in Keys
    BY <2>1, PublishedListing DEF RowsInv
  <2>3. Current(state[k], db[k])
    BY <2>1, <2>2, PublishedState DEF Reading
  <2>4. /\ objects[k].modified = db[k].modified /\ objects[k].kind = db[k].kind
        /\ objects[k].rows = db[k].rows /\ db[k].modified # NoSignal
    BY <2>2 DEF Listing, Stock
  <2>5. ~Refetch(objects[k], state[k])
    BY <2>3, <2>4 DEF Current, Refetch, IsNew, IsModified, IsResampled, Same
  <2>6. Stocked(k)
    BY <2>1 DEF Stock
  <2> QED BY <2>1, <2>2, <2>4, <2>5, <2>6 DEF Cached, Proven, Stocked, Kept
<1>2. CASE Database \/ UNCHANGED vars
  <2>1. UNCHANGED <<pc, opts, missing>> /\ published' \subseteq published
    BY <1>2 DEF Database, Deploy, Drop, Grow, Touch, vars, build, planned, fetched, history
  <2> QED BY <2>1 DEF RereadsNothingUntouched
<1>3. CASE ~Lookup /\ ~Database /\ ~UNCHANGED vars
  BY <1>3
     DEF Next, Manifest, Progress, Plan, ReadColumns, ReadIndexes, ReadModules, Store, Describe,
         Merge, WriteColumns, WriteBodies, Remove, Failures, Stop, TornMerge, StopInColumns,
         StopInBodies, StopInRemove, Forget
<1> QED BY <1>1, <1>2, <1>3

\* Nothing is fetched again that a finished build fetched and nobody has touched
\* since: the signal and the cache spare it, through every later build, whatever
\* it covered and however it died - where the engine has a signal, every body can
\* be read, and the cache takes what it is given.
THEOREM RereadsNothingUntouchedHolds ==
  ASSUME Coarse = FALSE, \A k \in Keys : \A a, b \in KindsOf[k] : a = b,
         "cache" \notin Faults, Hiding \subseteq {FALSE}, Engines = {"sqlserver"}
  PROVE  Spec => []RereadsNothingUntouched
<1>1. Init => RowsInv /\ Stock /\ RereadsNothingUntouched
  <2>1. Init => Stock /\ RereadsNothingUntouched
    BY DEF Init, Nothing, Stock, Stocked, Fetching, Writing, RereadsNothingUntouched
  <2> QED BY <2>1, InitRows
<1>2. RowsInv /\ Stock /\ RereadsNothingUntouched /\ [Next]_vars
        => RowsInv' /\ Stock' /\ RereadsNothingUntouched'
  BY NextRows, NextStock, NextRereads DEF AllCached, OneKindEach
<1> QED BY <1>1, <1>2, PTL DEF Spec

-----------------------------------------------------------------------------
(* The index as a function of the database.                                 *)

\* What the invariants say of a published object is all there is to say of it.
LEMMA PublishedFaithful ==
  ASSUME Overlong = {}, SynonymsApart
  PROVE  RowsInv /\ FilesStand /\ Told /\ Countless /\ SentencesIntact /\ SentencesOwn => Faithful
<1> SUFFICES ASSUME RowsInv, FilesStand, Told, Countless, SentencesIntact, SentencesOwn,
                    NEW k \in published
             PROVE  /\ Found(k) = ImageOf(db[k])
                    /\ k \notin reported => SentenceFound(k) = SentenceOf(db[k])
  BY DEF Faithful
<1>1. k \in Keys
  BY DEF RowsInv, SignalInv, TypeOK, HistoryOK
<1>2. CASE db[k] = None
  <2>1. RowFound(k) = None
    BY <1>1, <1>2, PublishedCurrent, StateOfRow DEF RowsInv, RowFound
  <2> QED BY <1>2, <2>1 DEF Found, Bare, ImageOf, SentenceFound, SentenceOf
<1>3. CASE db[k] # None
  <2> DEFINE row == catalogs[db[k].kind][k]
  <2>1. db[k].kind \in Kinds /\ db[k].kind \in KindsOf[k]
    BY <1>1, <1>3 DEF RowsInv, SignalInv, TypeOK, DatabaseOK, Optional, Object, BookInv, KindsKept
  <2>2. RowFound(k) = row
    BY <1>3 DEF RowFound
  <2>3. Current(row, db[k])
    BY <1>3, PublishedCurrent DEF RowsInv
  <2>4. row.fingerprint = Hash(db[k])
    BY <2>3 DEF Current, Fingerprints, Readings, Trim, Hash
  <2>5. row.rows = IF db[k].kind = "table" THEN db[k].rows ELSE 0
    BY <1>1, <2>1, <2>3 DEF Current, Countless
  <2>6. Bare(RowFound(k)) = ImageOf(db[k]).row
    BY <1>3, <2>2, <2>3, <2>4, <2>5 DEF Bare, Current, ImageOf
  <2>7. /\ Found(k).columns = ImageOf(db[k]).columns
        /\ Found(k).body = ImageOf(db[k]).body
    BY <1>3 DEF FilesStand, Found, ImageOf
  <2>8. Found(k) = ImageOf(db[k])
    BY <1>3, <2>6, <2>7 DEF Found, ImageOf
  <2>9. ASSUME k \notin reported PROVE SentenceFound(k) = SentenceOf(db[k])
    <3>1. SentenceFound(k) = row.description
      BY <2>2, <2>3 DEF SentenceFound, Current
    <3>2. CASE db[k].kind \in Describable
      <4>1. row.description # None
        BY <1>3, <2>9, <3>2 DEF Told, HasSentence
      <4>2. row.description \in {None, Torn, row.fingerprint} /\ row.description # Torn
        BY <1>1, <2>1, <2>3, <2>9 DEF SentencesOwn, OwnSentence, SentencesIntact, Intact, Current
      <4> QED BY <1>3, <2>4, <3>1, <3>2, <4>1, <4>2 DEF SentenceOf
    <3>3. CASE db[k].kind \notin Describable
      <4>1. "synonym" \in KindsOf[k]
        BY <2>1, <3>3 DEF Describable
      <4>2. row.description = None
        BY <1>1, <2>1, <2>3, <4>1 DEF SentencesOwn, Undescribed, Current
      <4> QED BY <3>1, <3>3, <4>2 DEF SentenceOf
    <3> QED BY <3>2, <3>3
  <2> QED BY <2>8, <2>9
<1> QED BY <1>2, <1>3

\* The same after a step.
LEMMA NextFaithful ==
  ASSUME Overlong = {}, SynonymsApart
  PROVE  (RowsInv /\ FilesStand /\ Told /\ Countless /\ SentencesIntact /\ SentencesOwn => Faithful)'
BY PublishedFaithful, PTL

-----------------------------------------------------------------------------
(* What is settled, and stays so.                                           *)

\* The cache cuts the tail of a body, never all of it.
LEMMA TrimText == ASSUME NEW b \in Bodies PROVE Trim(b).text = b.text
BY DEF Trim, Bodies

\* At the end of a build, the row and the files of an object it covered and nobody
\* touched are those of its entry, which is one reading of the object.
LEMMA EntryAtEnd ==
  ASSUME RowsInv, "" \notin Texts, pc = "remove", NEW k \in selected, k \in untouched
  PROVE  /\ db[k] # None /\ objects[k].kind = db[k].kind /\ k \notin Dropped
         /\ catalogs[db[k].kind][k] = EntryRow(k)
         /\ EntryRow(k) # None /\ EntryRow(k).fingerprint \in Fingerprints(db[k])
         /\ HasBody(db[k]) => \E body \in Readings(db[k]) :
              bodyFiles[k] = [fingerprint |-> EntryRow(k).fingerprint, content |-> body]
         /\ db[k].kind \in Detailed =>
              columnFiles[k] = [fingerprint |-> EntryRow(k).fingerprint, content |-> StructureOf(db[k])]
<1> USE DEF RowsInv
<1>1. /\ k \in Keys /\ k \notin Dropped
      /\ db[k] # None /\ db[k] \in Object /\ objects[k].kind = db[k].kind
  <2>1. k \in Keys /\ k \notin Dropped
    BY SelectedListed DEF BookInv
  <2>2. db[k] # None /\ objects[k].kind = db[k].kind
    BY EntryRowCurrent DEF Writing
  <2> QED BY <2>1, <2>2, UntouchedListing DEF BookInv
<1>2. Current(EntryRow(k), db[k]) /\ catalogs[db[k].kind][k] = EntryRow(k)
  BY <1>1, EntryRowCurrent, SelectedRow DEF Writing
<1>3. structures[k] = StructureOf(db[k]) /\ EntryBody(k) \in Readings(db[k])
  BY <1>1 DEF SignalInv, ReadsAttested, Attested, Whole, Writing
<1>4. db[k].content.text # ""
  <2>1. PICK c \in Kinds : db[k].content \in Content(c)
    BY <1>1 DEF Object
  <2> QED BY <2>1 DEF Content
<1>5. /\ db[k].kind \in Detailed => WritesColumns(k)
      /\ HasBody(db[k]) => WritesBody(k)
  <2>1. StructureOf(db[k]).columns # ""
    BY <1>4 DEF StructureOf
  <2>2. ASSUME HasBody(db[k]) PROVE EntryBody(k).text # ""
    <3>1. BodyOf(db[k]).text # ""
      BY <1>4, <2>2 DEF BodyOf
    <3>2. Trim(BodyOf(db[k])).text # ""
      BY <1>1, <3>1, HashType, TrimText
    <3> QED BY <1>3, <3>1, <3>2 DEF Readings
  <2> QED BY <1>1, <1>3, <2>1, <2>2 DEF WritesColumns, WritesBody, HasBody
<1>6. /\ WritesColumns(k) => columnFiles[k] = ColumnsFile(k)
      /\ WritesBody(k) => bodyFiles[k] = BodyFile(k)
  BY <1>1 DEF BookInv, FilesWritten
<1>7. EntryRow(k).fingerprint = EntryFingerprint(k)
  BY DEF EntryRow
<1> QED BY <1>1, <1>2, <1>3, <1>5, <1>6, <1>7 DEF Current, ColumnsFile, BodyFile

\* Its sentence is about that reading, if the build bought it, or kept it and no build
\* ever had to go without.
LEMMA SpokenAtEnd ==
  ASSUME BookInv, SentencesOwn, SynonymsApart, pc = "remove",
         NEW k \in selected, Spoken(k), objects[k].kind \in Describable
  PROVE  EntryRow(k).description = EntryRow(k).fingerprint
<1>1. /\ EntryRow(k).description = EntryDescription(k)
      /\ EntryRow(k).fingerprint = EntryFingerprint(k)
  BY DEF EntryRow
<1>2. CASE k \in sentences
  BY <1>1, <1>2 DEF EntryDescription
<1>3. CASE k \notin sentences
  <2>1. k \in Keys /\ k \notin reported /\ Intact(state[k]) /\ Unchanged(EntryFingerprint(k), state[k])
    BY <1>3, SelectedListed DEF Spoken, BookInv, Sentenced, Merging
  <2>2. state[k].description = state[k].fingerprint
    BY <2>1 DEF SentencesOwn, OwnSentence, Intact, Unchanged
  <2> QED BY <1>1, <1>3, <2>1, <2>2 DEF EntryDescription, Unchanged
<1> QED BY <1>2, <1>3

\* What is published is settled.
LEMMA PublishedSettled ==
  ASSUME Overlong = {}, SynonymsApart, "torn" \notin Faults
  PROVE  RowsInv /\ FilesStand /\ Faithful /\ (NoFailure => DroppedLeaveNoFiles) => StaysSettled
<1> SUFFICES ASSUME RowsInv, FilesStand, Faithful, NoFailure => DroppedLeaveNoFiles,
                    NEW k \in published, k \notin reported, db[k] # None \/ NoFailure
             PROVE  Settled(k)
  BY DEF StaysSettled
<1>1. CASE db[k] = None
  BY <1>1, PublishedCurrent DEF RowsInv, Settled, DroppedLeaveNoFiles
<1>2. CASE db[k] # None
  <2>1. Current(catalogs[db[k].kind][k], db[k])
    BY <1>2, PublishedCurrent DEF RowsInv
  <2>2. FilesOf(k)
    BY <1>2, FilesStandIs
  <2>3. Readings(db[k]) = {BodyOf(db[k])} /\ Fingerprints(db[k]) = {Hash(db[k])}
    BY DEF Readings, Trim, Fingerprints, Hash
  <2>4. db[k].kind \in Describable => catalogs[db[k].kind][k].description = Hash(db[k])
    BY <1>2, <2>1 DEF Faithful, SentenceFound, RowFound, SentenceOf, Current
  <2>5. catalogs[db[k].kind][k] # None /\ catalogs[db[k].kind][k].fingerprint = Hash(db[k])
    BY <2>1, <2>3 DEF Current
  <2> HIDE DEF Hash
  <2>6. FilesOf(k)!1 /\ FilesOf(k)!2
    BY <2>2 DEF FilesOf
  <2> QED BY <1>2, <2>3, <2>4, <2>5, <2>6 DEF Settled
<1> QED BY <1>1, <1>2

\* The same after a step.
LEMMA NextSettled ==
  ASSUME Overlong = {}, SynonymsApart, "torn" \notin Faults
  PROVE  (RowsInv /\ FilesStand /\ Faithful /\ (NoFailure => DroppedLeaveNoFiles) => StaysSettled)'
BY PublishedSettled, PTL

\* All of it together, the invariants that the runs check beside the promises: a
\* build keeps its books whatever the signals are worth, and where no two changes
\* share a signal, what its rows, files, sentences and cache entries vouch for.
THEOREM IndexInvHolds == Spec => []IndexInv
<1>1. Init => IndexInv
  BY InitRows, InitSignal, InitBooks, InitLeft, InitUncut, InitIntact
     DEF RowsInv, IndexInv, Left, Faithful, StaysSettled, Init, Nothing, FilesStand, Stock, Stocked, Fetching, Writing,
         RereadsNothingUntouched, SentencesOwn, OwnSentence, Undescribed
<1>2. ASSUME IndexInv, [Next]_vars PROVE IndexInv'
  <2>1. BookInv' /\ Told' /\ Countless'
    BY <1>2, NextBooks, NextTold, NextCountless DEF IndexInv
  <2>2. Overlong = {} => BodiesUncut'
    BY <1>2, NextUncut DEF IndexInv
  <2>3. NoFailure => FilesHaveRows' /\ DroppedLeaveNoFiles' /\ BodiesOfRows'
    BY <1>2, NextLeft DEF IndexInv, Left
  <2>4. SynonymsApart => SentencesOwn'
    BY <1>2, NextOwn DEF IndexInv
  <2>5. "torn" \notin Faults => SentencesIntact'
    BY <1>2, NextIntact DEF IndexInv
  <2>6. ASSUME Coarse = FALSE
        PROVE  /\ SignalInv' /\ RowsCurrent'
               /\ Overlong = {} /\ "" \notin Texts => FilesStand'
               /\ Overlong = {} /\ "" \notin Texts /\ "torn" \notin Faults /\ SynonymsApart
                    => Faithful' /\ StaysSettled'
               /\ OneKindEach /\ AllCached => Stock' /\ RereadsNothingUntouched'
    <3>1. RowsInv
      BY <1>2, <2>6 DEF IndexInv, RowsInv
    <3>2. RowsInv'
      BY <1>2, <2>6, <3>1, NextRows
    <3>3. Overlong = {} /\ "" \notin Texts => FilesStand'
      BY <1>2, <2>6, <3>1, NextFiles DEF IndexInv
    <3>4. OneKindEach /\ AllCached => Stock' /\ RereadsNothingUntouched'
      BY <1>2, <2>6, <3>1, NextStock, NextRereads DEF IndexInv
    <3>5. Overlong = {} /\ "" \notin Texts /\ "torn" \notin Faults /\ SynonymsApart => Faithful'
      BY <2>1, <2>4, <2>5, <3>2, <3>3, NextFaithful
    <3>6. Overlong = {} /\ "" \notin Texts /\ "torn" \notin Faults /\ SynonymsApart => StaysSettled'
      BY <2>3, <3>2, <3>3, <3>5, NextSettled DEF NoFailure
    <3> QED BY <3>2, <3>3, <3>4, <3>5, <3>6 DEF RowsInv
  <2> QED BY <2>1, <2>2, <2>3, <2>4, <2>5, <2>6 DEF IndexInv, NoFailure, SynonymsApart, OneKindEach, AllCached
<1> QED BY <1>1, <1>2, PTL DEF Spec

\* One build settles everything it covers and nobody touches meanwhile, row, files and
\* sentence, whatever earlier builds left undone, half done or cut short, and whether
\* its readings came from the server or from the cache. (Where signals are exact, no
\* text is empty, and no synonym takes over a described name.)
THEOREM BuildSettlesHolds ==
  ASSUME Coarse = FALSE, "" \notin Texts,
         \A k \in Keys : "synonym" \in KindsOf[k] => KindsOf[k] = {"synonym"}
  PROVE  Spec => BuildSettles
<1>1. ASSUME IndexInv, IndexInv', Remove, NEW k \in Covered \cap untouched, Spoken(k),
             db[k] # None \/ NoFailure
      PROVE  Settled(k)'
  <2>1. /\ RowsInv /\ RowsInv' /\ SentencesOwn
        /\ pc = "remove" /\ db' = db /\ catalogs' = catalogs
        /\ columnFiles' = [j \in Keys |-> IF j \in Dropped THEN None ELSE columnFiles[j]]
        /\ bodyFiles' = [j \in Keys |-> IF j \in Dropped THEN None ELSE bodyFiles[j]]
        /\ k \in published'
    BY <1>1 DEF IndexInv, RowsInv, Remove, database, SynonymsApart
  <2>2. k \in Keys
    BY <1>1, <2>1 DEF RowsInv, SignalInv, TypeOK, HistoryOK
  <2>3. CASE db[k] = None
    <3>1. \A c \in Kinds : catalogs'[c][k] = None
      BY <2>1, <2>3 DEF RowsInv, RowsCurrent
    <3>2. columnFiles'[k] = None /\ bodyFiles'[k] = None
      BY <1>1, <2>1, <2>3 DEF IndexInv, DroppedLeaveNoFiles
    <3> QED BY <2>1, <2>3, <3>1, <3>2 DEF Settled
  <2>4. CASE db[k] # None
    <3>1. k \in selected /\ k \in untouched
      <4>1. objects[k] # None
        BY <1>1, <2>1, <2>4, UntouchedListing DEF RowsInv, BookInv
      <4> QED BY <1>1, <4>1 DEF Covered
    <3>2. /\ objects[k].kind = db[k].kind /\ k \notin Dropped
          /\ catalogs[db[k].kind][k] = EntryRow(k)
          /\ EntryRow(k) # None /\ EntryRow(k).fingerprint \in Fingerprints(db[k])
          /\ HasBody(db[k]) => \E body \in Readings(db[k]) :
               bodyFiles[k] = [fingerprint |-> EntryRow(k).fingerprint, content |-> body]
          /\ db[k].kind \in Detailed =>
               columnFiles[k] = [fingerprint |-> EntryRow(k).fingerprint, content |-> StructureOf(db[k])]
      BY <2>1, <3>1, EntryAtEnd
    <3>3. db[k].kind \in Describable => EntryRow(k).description = EntryRow(k).fingerprint
      BY <1>1, <2>1, <3>1, <3>2, SpokenAtEnd DEF RowsInv, SynonymsApart
    <3>4. columnFiles'[k] = columnFiles[k] /\ bodyFiles'[k] = bodyFiles[k]
      BY <2>1, <2>2, <3>2
    <3> HIDE DEF EntryRow
    <3> QED BY <2>1, <2>4, <3>2, <3>3, <3>4 DEF Settled
  <2> QED BY <2>3, <2>4
<1>2. IndexInv /\ IndexInv' => [Remove => \A k \in Covered \cap untouched :
        Spoken(k) /\ (db[k] # None \/ NoFailure) => Settled(k)']_vars
  BY <1>1
<1> QED BY <1>2, IndexInvHolds, PTL DEF BuildSettles

\* What is settled stays so through every later build, whatever it covers, is
\* forced to or dies of, until somebody touches it: with BuildSettles, all of
\* Converges but that builds are run. (Where signals are exact, bodies fit the
\* cache, no text is empty, no write is torn and no synonym takes over a name.)
THEOREM StaysSettledHolds ==
  ASSUME Coarse = FALSE, Overlong = {}, "" \notin Texts, "torn" \notin Faults,
         \A k \in Keys : "synonym" \in KindsOf[k] => KindsOf[k] = {"synonym"}
  PROVE  Spec => []StaysSettled
<1>1. IndexInv => StaysSettled
  BY DEF IndexInv, SynonymsApart
<1> QED BY <1>1, IndexInvHolds, PTL

\* A build that stops between its writes takes nothing from what is published.
LEMMA StoppedPublishes ==
  ASSUME Shape, "torn" \notin Faults, Failures
  PROVE  UNCHANGED <<db, published, reported>>
<1>1. CASE Stop \/ StopInRemove
  BY <1>1 DEF Stop, StopInRemove, database
<1>2. CASE StopInColumns
  <2>1. PICK last \in Keys : \E end \in Ends(columnFiles, last) :
          columnFiles' = PartOf(columnFiles,
            [j \in Keys |-> IF WritesColumns(j) THEN ColumnsFile(j) ELSE None], last, end)
    BY <1>2 DEF StopInColumns
  <2>2. columnFiles' = PartOf(columnFiles,
          [j \in Keys |-> IF WritesColumns(j) THEN ColumnsFile(j) ELSE None], last, columnFiles[last])
    BY <2>1 DEF Ends
  <2>3. \A k \in Keys : WritesColumns(k) => ColumnsFile(k) # Torn
    BY <1>2, FilesTypes, TornAssumption DEF StopInColumns, Shape, Writing
  <2>4. \A k \in Keys : columnFiles'[k] = Torn => columnFiles[k] = Torn
    BY <2>2, <2>3 DEF PartOf
  <2> QED BY <1>2, <2>4 DEF StopInColumns, database, Shape, TypeOK, HistoryOK
<1>3. CASE StopInBodies
  <2>1. PICK last \in Keys : \E end \in Ends(bodyFiles, last) :
          bodyFiles' = PartOf(bodyFiles,
            [j \in Keys |-> IF WritesBody(j) THEN BodyFile(j) ELSE None], last, end)
    BY <1>3 DEF StopInBodies
  <2>2. bodyFiles' = PartOf(bodyFiles,
          [j \in Keys |-> IF WritesBody(j) THEN BodyFile(j) ELSE None], last, bodyFiles[last])
    BY <2>1 DEF Ends
  <2>3. \A k \in Keys : WritesBody(k) => BodyFile(k) # Torn
    BY <1>3, FilesTypes, TornAssumption DEF StopInBodies, Shape, Writing
  <2>4. \A k \in Keys : bodyFiles'[k] = Torn => bodyFiles[k] = Torn
    BY <2>2, <2>3 DEF PartOf
  <2> QED BY <1>3, <2>4 DEF StopInBodies, database, Shape, TypeOK, HistoryOK
<1> QED BY <1>1, <1>2, <1>3 DEF Failures, TornMerge

\* All a step does to an index that is faithful before and after: it changes an
\* object, owes sentences, publishes names, or does nothing a reader could see.
LEMMA IndexStep ==
  ASSUME Shape, Faithful, Faithful', "torn" \notin Faults, [Next]_vars
  PROVE  [Index!Next]_Index!vars
<1> USE DEF Shape
<1> DEFINE index == [k \in Keys |-> IF k \in published THEN Found(k) ELSE Torn]
           sentence == [k \in Keys |-> IF k \in published \ reported THEN SentenceFound(k) ELSE Torn]
<1>1. /\ published \subseteq Keys /\ reported \subseteq Keys
      /\ index = [k \in Keys |-> IF k \in published THEN ImageOf(db[k]) ELSE Torn]
      /\ sentence = [k \in Keys |-> IF k \in published \ reported THEN SentenceOf(db[k]) ELSE Torn]
  BY DEF TypeOK, HistoryOK, Faithful
<1>2. /\ index' = [k \in Keys |-> IF k \in published' THEN ImageOf(db'[k]) ELSE Torn]
      /\ sentence' = [k \in Keys |-> IF k \in published' \ reported' THEN SentenceOf(db'[k]) ELSE Torn]
  BY DEF Faithful
<1> HIDE DEF index, sentence
<1>3. CASE Database
  <2>1. PICK j \in Keys : /\ \E o : db' = [db EXCEPT ![j] = o]
                          /\ published' = published \ {j} /\ reported' = reported
    BY <1>3 DEF Database, Deploy, Drop, Grow, Touch
  <2>2. \A k \in Keys \ {j} : db'[k] = db[k]
    BY <2>1 DEF TypeOK, DatabaseOK
  <2>3. index' = [index EXCEPT ![j] = Torn] /\ sentence' = [sentence EXCEPT ![j] = Torn]
    BY <1>1, <1>2, <2>1, <2>2
  <2>4. Index!Change(j)
    BY <2>1, <2>2, <2>3 DEF Index!Change, index, sentence
  <2> QED BY <2>4 DEF Index!Next
<1>4. CASE Remove
  <2>1. PICK covered \in SUBSET Keys : published' = published \cup covered
    BY <1>1, <1>4 DEF Remove, TypeOK, HistoryOK
  <2>2. db' = db /\ reported' = reported
    BY <1>4 DEF Remove, database
  <2>3. /\ index' = [k \in Keys |-> IF k \in covered THEN ImageOf(db[k]) ELSE index[k]]
        /\ sentence' = [k \in Keys |-> IF k \in covered \ reported THEN SentenceOf(db[k])
                                                                   ELSE sentence[k]]
    BY <1>1, <1>2, <2>1, <2>2
  <2>4. Index!Publish(covered)
    BY <2>2, <2>3 DEF Index!Publish, index, sentence
  <2> QED BY <2>4 DEF Index!Next
<1>5. CASE Describe
  <2>1. PICK silent \in SUBSET Keys : reported' = reported \cup silent
    BY <1>5 DEF Describe, Todo, TypeOK, PlannedOK, Listed
  <2>2. db' = db /\ published' = published
    BY <1>5 DEF Describe, database
  <2>3. index' = index /\ sentence' = [k \in Keys |-> IF k \in silent THEN Torn ELSE sentence[k]]
    BY <1>1, <1>2, <2>1, <2>2
  <2>4. Index!Owe(silent)
    BY <2>1, <2>2, <2>3 DEF Index!Owe, index, sentence
  <2> QED BY <2>4 DEF Index!Next
<1>6. CASE ~Database /\ ~Remove /\ ~Describe
  <2>1. UNCHANGED <<db, published, reported>>
    BY <1>6, StoppedPublishes
       DEF Next, Manifest, Progress, Plan, Lookup, ReadColumns, ReadIndexes, ReadModules, Store,
           Merge, WriteColumns, WriteBodies, vars, database, history
  <2>2. index' = index /\ sentence' = sentence
    BY <1>1, <1>2, <2>1
  <2> QED BY <2>1, <2>2 DEF Index!vars, index, sentence
<1> QED BY <1>3, <1>4, <1>5, <1>6

\* An index is a function of its database. From the end of the build that covered an
\* object until somebody touches it, what a reader finds of it - row, files and, unless
\* the model had none, sentence - is what the object alone determines: no later build
\* changes a byte of it, however narrowed, forced or cut off, and nothing of the
\* builds before shows. (Where signals are exact, bodies fit the cache, no text is
\* empty, no synonym takes over a described name, and no write is torn. The files of
\* an object that is gone are DroppedLeaveNoFiles.)
THEOREM BuildImplementsIndexing ==
  ASSUME Coarse = FALSE, Overlong = {}, "" \notin Texts, "torn" \notin Faults,
         \A k \in Keys : "synonym" \in KindsOf[k] => KindsOf[k] = {"synonym"}
  PROVE  Spec => ImplementsIndexing
<1>1. Init => Index!Init
  BY DEF Init, Nothing, Index!Init
<1>2. IndexInv => Shape /\ Faithful
  BY BooksOf DEF IndexInv, SynonymsApart
<1>3. Shape /\ Faithful /\ Faithful' /\ [Next]_vars => [Index!Next]_Index!vars
  BY IndexStep
<1> QED BY <1>1, <1>2, <1>3, IndexInvHolds, PTL DEF Spec, ImplementsIndexing, Index!Spec
=============================================================================
