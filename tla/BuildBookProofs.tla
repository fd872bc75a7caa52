--------------------------- MODULE BuildBookProofs ---------------------------
(***************************************************************************)
(* The books of a build (BookInv), and the promises that rest on them      *)
(* alone: they hold whatever the modify signals are worth.                 *)
(***************************************************************************)
EXTENDS BuildProofs

\* The listing of what nobody touched.
LEMMA ListingIsThere == ASSUME NEW o \in Object PROVE Listing(o) # None
BY ReadingTypes, NoneAssumption

LEMMA UntouchedListing ==
  ASSUME TypeOK, ListingStands, NEW k \in untouched
  PROVE  /\ k \in Keys /\ (objects[k] = None <=> db[k] = None)
         /\ db[k] # None => db[k] \in Object /\ objects[k] = Listing(db[k])
<1>1. k \in Keys /\ (db[k] = None \/ db[k] \in Object)
  BY DEF TypeOK, HistoryOK, DatabaseOK, Optional
<1>2. objects[k] = IF db[k] = None THEN None ELSE Listing(db[k])
  BY DEF ListingStands
<1> QED BY <1>1, <1>2, ListingIsThere

\* What is selected is listed, and so not dropped.
LEMMA SelectedListed ==
  ASSUME TypeOK, NEW k \in selected
  PROVE  k \in Keys /\ objects[k] # None /\ objects[k] \in Listings /\ k \notin Dropped
BY DEF TypeOK, PlannedOK, Listed, Dropped, Optional

\* What a name is to be written with depends on nothing the writes change.
LEMMA EntryStays ==
  ASSUME UNCHANGED <<selected, objects, state, structures, definitions, sentences>>
  PROVE  /\ \A k : EntryFingerprint(k)' = EntryFingerprint(k) /\ EntryRow(k)' = EntryRow(k)
         /\ \A k : ColumnsFile(k)' = ColumnsFile(k) /\ BodyFile(k)' = BodyFile(k)
         /\ \A k : WritesColumns(k)' = WritesColumns(k) /\ WritesBody(k)' = WritesBody(k)
         /\ Dropped' = Dropped
BY DEF EntryFingerprint, EntryRow, EntryDescription, EntryBody, ColumnsFile, BodyFile,
       WritesColumns, WritesBody, Dropped

\* A name without a state has no row in any catalog; one with a state has it
\* from the row of one.
LEMMA StateOfRow ==
  ASSUME NEW k \in Keys
  PROVE  \/ ReadState[k] = None /\ \A c \in Kinds : catalogs[c][k] = None
         \/ \E c \in Kinds : catalogs[c][k] # None /\ ReadState[k] = catalogs[c][k]
<1>1. CASE Recorded(k) = {}
  <2>1. \A i \in 1 .. 5 : catalogs[Catalogs[i]][k] = None
    BY <1>1, CatalogsAreKinds DEF Recorded
  <2>2. ReadState[k] = None
    BY <1>1 DEF ReadState
  <2>3. \A c \in Kinds : catalogs[c][k] = None
    BY <2>1, CatalogsAreKinds
  <2> QED BY <2>2, <2>3
<1>2. CASE Recorded(k) # {}
  <2> DEFINE last == CHOOSE i \in Recorded(k) : \A j \in Recorded(k) : j <= i
  <2>1. Recorded(k) \subseteq 1 .. 5
    BY CatalogsAreKinds DEF Recorded
  <2>2. last \in Recorded(k)
    BY <1>2, <2>1, LastOfFew
  <2>3. ReadState[k] = catalogs[Catalogs[last]][k]
    BY <1>2 DEF ReadState
  <2> HIDE DEF last
  <2>4. catalogs[Catalogs[last]][k] # None /\ Catalogs[last] \in Kinds
    BY <2>1, <2>2, CatalogsAreKinds DEF Recorded
  <2> QED BY <2>3, <2>4
<1> QED BY <1>1, <1>2

LEMMA ReadStateStays == ASSUME UNCHANGED catalogs PROVE ReadState' = ReadState
BY DEF ReadState, Recorded

-----------------------------------------------------------------------------
(* The books, step by step.                                                 *)

\* All of them but the types, which have lemmas of their own.
Books == /\ ListingStands /\ PublishedStand /\ RowsWritten /\ NoRowsUnknown
         /\ FilesWritten /\ KindsKept /\ StateRead /\ Sentenced

LEMMA BooksOf == BookInv <=> Shape /\ Books
BY DEF BookInv, Shape, Books

LEMMA InitBooks == Init => BookInv
<1> SUFFICES ASSUME Init PROVE Books
  BY InitShape, BooksOf
<1> QED
  BY DEF Init, Nothing, Books, ListingStands, PublishedStand, RowsWritten, NoRowsUnknown,
         FilesWritten, KindsKept, StateRead, Sentenced, Reading, Merging

LEMMA DatabaseBooks == ASSUME BookInv, Database PROVE Books'
<1> USE DEF BookInv
<1>1. PICK k \in Keys : Deploy(k) \/ Drop(k) \/ Grow(k)
  BY DEF Database
<1>2. PICK o : /\ db' = [db EXCEPT ![k] = o]
               /\ untouched' = untouched \ {k} /\ published' = published \ {k}
               /\ UNCHANGED <<tree, cache, build>>
               /\ o # None => o.kind \in KindsOf[k]
  <2>1. CASE Deploy(k)
    <3>1. PICK o : Touch(k, o) /\ o.kind \in KindsOf[k]
      BY <2>1 DEF Deploy
    <3> QED BY <3>1 DEF Touch
  <2>2. CASE Drop(k)
    BY <2>2 DEF Drop, Touch
  <2>3. CASE Grow(k)
    <3>1. PICK r \in Rows, t \in Triggers : Touch(k, [db[k] EXCEPT !.rows = r, !.triggers = t])
      BY <2>3 DEF Grow
    <3>2. db[k] # None /\ db[k] \in Object /\ db[k].kind \in KindsOf[k]
      BY <1>1, <2>3 DEF Grow, TypeOK, DatabaseOK, Optional, KindsKept
    <3>3. [db[k] EXCEPT !.rows = r, !.triggers = t].kind = db[k].kind
      BY <3>2 DEF Object
    <3> QED BY <3>1, <3>2, <3>3 DEF Touch
  <2> QED BY <1>1, <2>1, <2>2, <2>3
<1>3. /\ UNCHANGED <<catalogs, columnFiles, bodyFiles, pc, opts, objects, state, selected,
                     structures, definitions, missing, sentences, merged>>
      /\ db \in [Keys -> Optional(Object)] /\ untouched \subseteq Keys
  BY <1>2 DEF tree, build, planned, fetched, TypeOK, DatabaseOK, HistoryOK
<1>4. reported' = reported
  BY <1>1 DEF Deploy, Drop, Grow, Touch
<1>5. ListingStands'
  <2>1. \A j \in untouched' : j \in untouched /\ db'[j] = db[j]
    BY <1>2, <1>3
  <2> QED BY <1>3, <2>1 DEF ListingStands, Listing
<1>6. PublishedStand' /\ RowsWritten' /\ NoRowsUnknown' /\ FilesWritten'
  BY <1>2, <1>3, EntryStays DEF PublishedStand, RowsWritten, NoRowsUnknown, FilesWritten
<1>7. KindsKept'
  BY <1>1, <1>2, <1>3 DEF KindsKept
<1>8. StateRead' /\ Sentenced'
  BY <1>3, <1>4, EntryStays, ReadStateStays
     DEF StateRead, Reading, Sentenced, Merging
<1> QED BY <1>5, <1>6, <1>7, <1>8 DEF Books

\* A step that ends a build.
LEMMA ForgetBooks ==
  ASSUME BookInv, Forget, UNCHANGED database,
         \A k \in Keys, c \in Kinds : catalogs'[c][k] # None => c \in KindsOf[k]
  PROVE  Books'
BY DEF BookInv, Forget, database, Nothing, Books, ListingStands, PublishedStand, RowsWritten,
       NoRowsUnknown, FilesWritten, KindsKept, StateRead, Sentenced, Reading, Merging

LEMMA ManifestBooks == ASSUME BookInv, NEW o \in Options, Manifest(o) PROVE Books'
<1> USE DEF BookInv
<1>1. /\ pc' = "plan" /\ untouched' = Keys /\ UNCHANGED <<db, catalogs, published>>
      /\ objects' = [k \in Keys |-> IF db[k] = None THEN None ELSE Listing(db[k])]
  BY DEF Manifest, tree, database
<1>2. ListingStands'
  BY <1>1 DEF ListingStands, Listing
<1>3. KindsKept'
  BY <1>1 DEF KindsKept, Listing
<1> QED
  BY <1>1, <1>2, <1>3
     DEF Books, TypeOK, HistoryOK, PublishedStand, RowsWritten, NoRowsUnknown, FilesWritten,
         StateRead, Sentenced, Reading, Merging

LEMMA PlanBooks == ASSUME BookInv, Plan PROVE Books'
<1> USE DEF BookInv
<1>1. UNCHANGED <<database, db, catalogs, published>> /\ pc = "plan"
  BY DEF Plan, tree, database
<1>2. CASE opts.dry
  BY <1>1, <1>2, ForgetBooks DEF Plan, KindsKept
<1>3. CASE ~opts.dry
  <2>1. /\ pc' = "lookup" /\ UNCHANGED <<opts, objects, untouched>>
        /\ state' = IF opts.force THEN Nothing ELSE ReadState
    BY <1>3 DEF Plan
  <2>2. NoRowsUnknown'
    <3> SUFFICES ASSUME ~opts.force, NEW k \in Keys, state'[k] = None, NEW c \in Kinds
                 PROVE  catalogs[c][k] = None
      BY <1>1, <2>1 DEF NoRowsUnknown
    <3> QED BY <2>1, StateOfRow
  <2>3. StateRead'
    BY <1>1, <2>1, ReadStateStays DEF StateRead
  <2>4. ListingStands' /\ KindsKept'
    BY <1>1, <2>1 DEF ListingStands, KindsKept, Listing
  <2> QED
    BY <1>1, <2>1, <2>2, <2>3, <2>4
       DEF Books, PublishedStand, RowsWritten, FilesWritten, Sentenced, Merging
<1> QED BY <1>2, <1>3

\* The reads, and the model's answers, touch neither the tree nor the plan.
LEMMA ReadsBooks ==
  ASSUME BookInv, Lookup \/ ReadColumns \/ ReadIndexes \/ ReadModules \/ Store \/ Describe
  PROVE  Books'
<1> USE DEF BookInv
<1>1. /\ UNCHANGED <<db, catalogs, opts, objects, state, selected, untouched, published>>
      /\ pc \in {"lookup", "columns", "indexes", "modules", "store", "describe"}
      /\ pc' \in {"columns", "indexes", "modules", "store", "describe", "merge"}
  BY DEF Lookup, ReadColumns, ReadIndexes, ReadModules, Store, Describe, tree, planned, history,
     database
<1>2. merged' = 0
  BY DEF Assembled, Lookup, ReadColumns, ReadIndexes, ReadModules, Store, Describe
<1>3. ListingStands' /\ KindsKept'
  BY <1>1 DEF ListingStands, KindsKept, Listing
<1>4. PublishedStand' /\ RowsWritten' /\ NoRowsUnknown' /\ FilesWritten'
  BY <1>1, <1>2 DEF PublishedStand, RowsWritten, NoRowsUnknown, FilesWritten
<1>5. StateRead'
  BY <1>1, ReadStateStays DEF StateRead, Reading
<1>6. Sentenced'
  <2> SUFFICES ASSUME pc' = "merge", NEW k \in selected
               PROVE  IF objects[k].kind \in Describable
                      THEN k \in sentences' \/ k \in reported' \/ Unchanged(EntryFingerprint(k)', state[k])
                      ELSE k \notin sentences'
    BY <1>1 DEF Sentenced, Merging
  <2>1. Describe
    BY <1>1 DEF Lookup, ReadColumns, ReadIndexes, ReadModules, Store
  <2>2. PICK silent : sentences' = Todo \ silent /\ reported' = reported \cup silent
    BY <2>1 DEF Describe
  <2>3. EntryFingerprint(k)' = EntryFingerprint(k)
    BY <1>1, <2>1 DEF Describe, fetched, EntryFingerprint, EntryBody
  <2> QED BY <2>2, <2>3 DEF Todo
<1> QED BY <1>3, <1>4, <1>5, <1>6 DEF Books

\* A merge replaces the rows of the selection, deletes those of dropped names,
\* and gives no row to a name that has none.
LEMMA MergeStep ==
  ASSUME Shape, Merge
  PROVE  /\ pc = "merge" /\ merged \in 0 .. 4 /\ Catalogs[merged + 1] \in Kinds
         /\ merged' = merged + 1 /\ pc' = IF merged + 1 = 5 THEN "columnFiles" ELSE "merge"
         /\ \A d \in Kinds : catalogs'[d] = IF d = Catalogs[merged + 1] THEN MergedRows(d)
                                                                       ELSE catalogs[d]
         /\ UNCHANGED <<database, db, columnFiles, bodyFiles, cache, opts, objects, state, selected,
                        structures, definitions, missing, sentences, untouched, published, reported>>
<1>1. pc = "merge" /\ merged \in 0 .. 4 /\ Catalogs[merged + 1] \in Kinds
  BY CatalogsAreKinds DEF Merge, Shape, TypeOK, FetchedOK, Assembled
<1>2. /\ catalogs' = [catalogs EXCEPT ![Catalogs[merged + 1]] = MergedRows(Catalogs[merged + 1])]
      /\ merged' = merged + 1 /\ pc' = IF merged + 1 = 5 THEN "columnFiles" ELSE "merge"
      /\ UNCHANGED <<database, db, columnFiles, bodyFiles, cache, opts, objects, state, selected,
                     structures, definitions, missing, sentences, untouched, published, reported>>
  BY CatalogsAreKinds DEF Merge, database, planned, fetched, history
<1> QED BY <1>1, <1>2 DEF Shape, TypeOK, TreeOK

LEMMA MergeBooks == ASSUME BookInv, Merge PROVE Books'
<1> USE DEF BookInv
<1> DEFINE c == Catalogs[merged + 1]
<1>1. Shape
  BY DEF Shape
<1>2. /\ pc = "merge" /\ merged \in 0 .. 4 /\ c \in Kinds
      /\ merged' = merged + 1 /\ pc' = IF merged + 1 = 5 THEN "columnFiles" ELSE "merge"
      /\ \A d \in Kinds : catalogs'[d] = IF d = c THEN MergedRows(d) ELSE catalogs[d]
      /\ UNCHANGED <<db, opts, objects, state, selected, structures, definitions, sentences,
                     untouched, published, reported>>
  BY <1>1, MergeStep
<1>3. \A i \in 1 .. merged + 1 : Catalogs[i] = c \/ i \in 1 .. merged
  BY <1>2
<1>4. merged + 1 = 5 => \A d \in Kinds : \E i \in 1 .. merged + 1 : Catalogs[i] = d
  BY CatalogsAreKinds
<1> HIDE DEF c
<1>5. \A k \in selected : k \in Keys /\ objects[k] # None /\ k \notin Dropped
  BY SelectedListed
<1>6. ListingStands' /\ PublishedStand'
  BY <1>2 DEF ListingStands, PublishedStand, Listing
<1>7. ASSUME NEW d \in Kinds, d = c \/ (\E i \in 1 .. merged : Catalogs[i] = d)
      PROVE  /\ \A k \in selected : objects[k].kind = d => catalogs'[d][k] = EntryRow(k)
             /\ \A k \in Dropped : catalogs'[d][k] = None
  <2>1. CASE d = c
    BY <1>2, <1>5, <2>1 DEF MergedRows, Dropped
  <2>2. CASE d # c
    BY <1>2, <1>7, <2>2 DEF RowsWritten
  <2> QED BY <2>1, <2>2
<1>8. RowsWritten'
  <2> SUFFICES ASSUME NEW d \in Kinds,
                      pc' = "columnFiles" \/ (pc' = "merge" /\ \E i \in 1 .. merged' : Catalogs[i] = d)
               PROVE  /\ \A k \in selected : objects[k].kind = d => catalogs'[d][k] = EntryRow(k)
                      /\ \A k \in Dropped : catalogs'[d][k] = None
    BY <1>2, <1>5, EntryStays DEF RowsWritten
  <2>1. \E i \in 1 .. merged + 1 : Catalogs[i] = d
    BY <1>2, <1>4
  <2> QED BY <1>3, <1>7, <2>1
<1>9. NoRowsUnknown'
  <2> SUFFICES ASSUME ~opts.force, NEW k \in Keys, objects[k] = None, state[k] = None, NEW d \in Kinds
               PROVE  catalogs'[d][k] = None
    BY <1>2 DEF NoRowsUnknown
  <2>1. catalogs[d][k] = None
    BY <1>2 DEF NoRowsUnknown
  <2>2. k \notin selected
    BY <1>5
  <2> QED BY <1>2, <2>1, <2>2 DEF MergedRows
<1>10. KindsKept'
  <2>1. ASSUME NEW k \in Keys, NEW d \in Kinds, catalogs'[d][k] # None
        PROVE  d \in KindsOf[k]
    BY <1>2, <1>5, <2>1 DEF KindsKept, MergedRows
  <2> QED BY <1>2, <2>1 DEF KindsKept
<1>11. FilesWritten' /\ StateRead'
  BY <1>2 DEF FilesWritten, StateRead, Reading
<1>12. Sentenced'
  BY <1>2, EntryStays DEF Sentenced, Merging
<1> QED BY <1>6, <1>8, <1>9, <1>10, <1>11, <1>12 DEF Books

LEMMA FilesBooks == ASSUME BookInv, WriteColumns \/ WriteBodies PROVE Books'
<1> USE DEF BookInv
<1>1. /\ pc \in {"columnFiles", "bodyFiles"} /\ pc' \in {"bodyFiles", "remove"}
      /\ UNCHANGED <<db, catalogs, opts, objects, state, selected, structures, definitions,
                     sentences, untouched, published, reported>>
  BY DEF WriteColumns, WriteBodies, database, planned, fetched, history
<1>2. ListingStands' /\ PublishedStand' /\ RowsWritten' /\ NoRowsUnknown' /\ KindsKept'
  BY <1>1, EntryStays DEF ListingStands, Listing, PublishedStand, RowsWritten, NoRowsUnknown, KindsKept
<1>3. FilesWritten'
  <2>1. CASE WriteColumns
    BY <1>1, <2>1, EntryStays DEF WriteColumns, FilesWritten
  <2>2. CASE WriteBodies
    <3>1. pc = "bodyFiles" /\ UNCHANGED columnFiles
          /\ bodyFiles' = [k \in Keys |-> IF WritesBody(k) THEN BodyFile(k) ELSE bodyFiles[k]]
      BY <2>2 DEF WriteBodies
    <3> QED BY <1>1, <3>1, EntryStays DEF FilesWritten
  <2> QED BY <2>1, <2>2
<1>4. StateRead' /\ Sentenced'
  BY <1>1, EntryStays DEF StateRead, Reading, Sentenced, Merging
<1> QED BY <1>2, <1>3, <1>4 DEF Books

\* What a merge that did not complete leaves of any row.
LEMMA TornStep ==
  ASSUME Shape, TornMerge, NEW d \in Kinds, NEW k \in Keys
  PROVE  \/ catalogs'[d][k] \in {None, catalogs[d][k], MergedRows(d)[k]}
         \/ MergedRows(d)[k] # None /\ catalogs'[d][k] \in CutShort(MergedRows(d)[k])
<1> DEFINE c == Catalogs[merged + 1]
<1>1. c \in Kinds
  BY CatalogsAreKinds DEF Shape, TypeOK, FetchedOK, Assembled, TornMerge
<1>2. PICK last \in Keys :
        \E end \in IF MergedRows(c)[last] = None THEN {None} ELSE CutShort(MergedRows(c)[last]) :
          catalogs' = [catalogs EXCEPT ![c] = [j \in Keys |->
            IF j < last THEN MergedRows(c)[j] ELSE IF j = last THEN end ELSE None]]
  BY DEF TornMerge
<1>3. PICK end \in IF MergedRows(c)[last] = None THEN {None} ELSE CutShort(MergedRows(c)[last]) :
        catalogs' = [catalogs EXCEPT ![c] = [j \in Keys |->
          IF j < last THEN MergedRows(c)[j] ELSE IF j = last THEN end ELSE None]]
  BY <1>2
<1> HIDE DEF c
<1>4. catalogs'[d] = IF d = c THEN [j \in Keys |->
                       IF j < last THEN MergedRows(c)[j] ELSE IF j = last THEN end ELSE None]
                     ELSE catalogs[d]
  BY <1>1, <1>3 DEF Shape, TypeOK, TreeOK
<1> QED BY <1>3, <1>4

\* A name that is still published after it has its row whole: the one the merge
\* was to write, or the one that stood there.
LEMMA TornPublished ==
  ASSUME Shape, TornMerge
  PROVE  /\ pc = "merge" /\ UNCHANGED <<database, reported>> /\ published' \subseteq published
         /\ \A d \in Kinds, k \in published' : catalogs'[d][k] \in {catalogs[d][k], MergedRows(d)[k]}
<1> DEFINE c == Catalogs[merged + 1]
<1>1. c \in Kinds /\ published \subseteq Keys
  BY CatalogsAreKinds DEF Shape, TypeOK, FetchedOK, HistoryOK, Assembled, TornMerge
<1>2. PICK left \in [Keys -> Optional(RowsOfFile)] :
        /\ catalogs' = [catalogs EXCEPT ![c] = left]
        /\ published' = {k \in published : left[k] = MergedRows(c)[k]}
  <2>1. PICK last \in Keys :
          \E end \in IF MergedRows(c)[last] = None THEN {None} ELSE CutShort(MergedRows(c)[last]) :
            LET left == [j \in Keys |->
                  IF j < last THEN MergedRows(c)[j] ELSE IF j = last THEN end ELSE None]
            IN  /\ catalogs' = [catalogs EXCEPT ![c] = left]
                /\ published' = {k \in published : left[k] = MergedRows(c)[k]}
    BY DEF TornMerge
  <2>2. PICK left : /\ catalogs' = [catalogs EXCEPT ![c] = left]
                    /\ published' = {k \in published : left[k] = MergedRows(c)[k]}
    BY <2>1
  <2>3. Shape'
    BY TornMergeShape
  <2>4. catalogs'[c] = left
    BY <1>1, <2>2 DEF Shape, TypeOK, TreeOK
  <2>5. left \in [Keys -> Optional(RowsOfFile)]
    BY <1>1, <2>3, <2>4 DEF Shape, TypeOK, TreeOK
  <2> QED BY <2>2, <2>5
<1>3. pc = "merge" /\ UNCHANGED <<database, reported>>
  BY DEF TornMerge
<1>4. ASSUME NEW d \in Kinds, NEW k \in published'
      PROVE  catalogs'[d][k] \in {catalogs[d][k], MergedRows(d)[k]}
  <2> HIDE DEF c
  <2>1. catalogs'[d] = IF d = c THEN left ELSE catalogs[d]
    BY <1>1, <1>2 DEF Shape, TypeOK, TreeOK
  <2> QED BY <1>2, <2>1
<1> QED BY <1>2, <1>3, <1>4

\* However a build ends, it takes its plan with it.
LEMMA EndBooks == ASSUME BookInv, Remove \/ Failures PROVE Books'
<1>1. CASE Remove \/ Stop \/ StopInColumns \/ StopInBodies \/ StopInRemove
  <2>1. Forget /\ UNCHANGED <<database, catalogs>>
    BY <1>1 DEF Remove, Stop, StopInColumns, StopInBodies, StopInRemove, tree
  <2> QED BY <2>1, ForgetBooks DEF BookInv, KindsKept
<1>2. CASE TornMerge
  <2>1. ASSUME NEW d \in Kinds, NEW k \in Keys, catalogs'[d][k] # None
        PROVE  d \in KindsOf[k]
    <3>1. catalogs[d][k] # None \/ MergedRows(d)[k] # None
      BY <1>2, <2>1, TornStep, BooksOf
    <3> QED BY <3>1, SelectedListed DEF BookInv, KindsKept, MergedRows
  <2> QED BY <1>2, <2>1, ForgetBooks DEF TornMerge
<1> QED BY <1>1, <1>2 DEF Failures

LEMMA NextBooks == ASSUME BookInv, [Next]_vars PROVE BookInv'
<1>1. Shape'
  BY NextShape, BooksOf
<1>2. Books'
  <2>1. CASE Progress
    BY <2>1, PlanBooks, ReadsBooks, MergeBooks, FilesBooks, EndBooks DEF Progress
  <2>2. CASE UNCHANGED vars
    <3>1. UNCHANGED <<db, catalogs, columnFiles, bodyFiles, pc, opts, objects, state, selected,
                      structures, definitions, sentences, merged, untouched, published, reported>>
      BY <2>2 DEF vars, database, tree, build, planned, fetched, history
    <3> QED
      BY <3>1, EntryStays, ReadStateStays
         DEF BookInv, Books, ListingStands, Listing, PublishedStand, RowsWritten, NoRowsUnknown,
             FilesWritten, KindsKept, StateRead, Reading, Sentenced, Merging
  <2> QED BY <2>1, <2>2, DatabaseBooks, ManifestBooks, EndBooks DEF Next
<1> QED BY <1>1, <1>2 DEF BookInv, Books, Shape

-----------------------------------------------------------------------------
(* What is left beside the rows, if no build dies halfway.                  *)

Left == FilesHaveRows /\ DroppedLeaveNoFiles /\ BodiesOfRows

LEMMA InitLeft == Init => Left
BY DEF Init, Nothing, Left, FilesHaveRows, DroppedLeaveNoFiles, BodiesOfRows, BodyOfRow

\* Outside the writes, every file is beside the row it belongs to; and every step
\* but a write leaves the tree as it is.
LEMMA QuietLeft ==
  ASSUME Left, ~Merging, UNCHANGED <<catalogs, columnFiles, bodyFiles>>,
         \A k \in published' : k \in published /\ db'[k] = db[k]
  PROVE  Left'
BY DEF Left, FilesHaveRows, DroppedLeaveNoFiles, BodiesOfRows, BodyOfRow, Rewritten, Merging, Bodiless

LEMMA DatabaseLeft == ASSUME BookInv, Left, Database PROVE Left'
<1>1. PICK k \in Keys : \E o : db' = [db EXCEPT ![k] = o] /\ published' = published \ {k}
                             /\ UNCHANGED <<tree, build>>
  BY DEF Database, Deploy, Drop, Grow, Touch
<1>2. /\ \A j \in published' : j \in published /\ db'[j] = db[j]
      /\ UNCHANGED <<catalogs, columnFiles, bodyFiles, pc, objects, state, selected>>
  BY <1>1 DEF tree, build, planned, BookInv, TypeOK, DatabaseOK, HistoryOK
<1>3. UNCHANGED <<Merging, Dropped>> /\ \A j : Rewritten(j)' = Rewritten(j) /\ BodyOfRow(j)' = BodyOfRow(j)
  BY <1>2 DEF Merging, Dropped, Rewritten, BodyOfRow, Bodiless
<1> QED BY <1>2, <1>3 DEF Left, FilesHaveRows, DroppedLeaveNoFiles, BodiesOfRows

\* A merge takes the row of a dropped name only, and changes that of a selected one.
LEMMA MergeLeft == ASSUME BookInv, Left, Merge PROVE Left'
<1>1. Shape
  BY BooksOf
<1>2. /\ pc = "merge" /\ pc' \in {"merge", "columnFiles"}
      /\ \A d \in Kinds : catalogs'[d] = IF d = Catalogs[merged + 1] THEN MergedRows(d) ELSE catalogs[d]
      /\ UNCHANGED <<db, columnFiles, bodyFiles, objects, state, selected, published>>
  BY <1>1, MergeStep
<1>3. \A k \in selected : EntryRow(k) # None
  BY <1>1, <1>2, EntryTypes, NoneAssumption DEF Shape, Assembled, Writing
<1>4. ASSUME NEW k \in Keys, k \notin Dropped, NEW d \in Kinds, catalogs[d][k] # None
      PROVE  catalogs'[d][k] # None
  <2>1. MergedRows(d)[k] = IF k \in selected /\ objects[k].kind = d THEN EntryRow(k) ELSE catalogs[d][k]
    BY <1>4 DEF MergedRows
  <2>2. MergedRows(d)[k] # None
    BY <1>3, <1>4, <2>1
  <2> QED BY <1>2, <1>4, <2>2
<1>5. ASSUME NEW k \in Keys, k \notin Dropped, NEW d \in Kinds,
             ~(k \in selected /\ objects[k].kind = d)
      PROVE  catalogs'[d][k] = catalogs[d][k]
  BY <1>2, <1>5 DEF MergedRows
<1>6. Dropped' = Dropped /\ Merging /\ Merging'
  BY <1>2 DEF Dropped, Merging
<1>7. FilesHaveRows'
  BY <1>2, <1>4, <1>6 DEF Left, FilesHaveRows
<1>8. BodiesOfRows'
  <2> SUFFICES ASSUME NEW k \in Keys, k \notin Dropped, ~(k \in selected /\ objects[k].kind \in Modules)
               PROVE  BodyOfRow(k)'
    BY <1>2, <1>6 DEF BodiesOfRows, Rewritten
  <2>1. BodyOfRow(k)
    BY <1>2 DEF Left, BodiesOfRows, Rewritten
  <2>2. \A d \in Modules : d \in Kinds /\ catalogs'[d][k] = catalogs[d][k]
    BY <1>5 DEF Modules, Kinds
  <2> QED BY <1>2, <2>1, <2>2 DEF BodyOfRow, Bodiless
<1> QED BY <1>2, <1>7, <1>8 DEF Left, DroppedLeaveNoFiles

\* A file is written beside a row that is there.
LEMMA SelectedRow ==
  ASSUME BookInv, pc \in {"columnFiles", "bodyFiles", "remove"}, NEW k \in selected
  PROVE  /\ k \in Keys /\ objects[k].kind \in Kinds /\ EntryRow(k) # None
         /\ catalogs[objects[k].kind][k] = EntryRow(k)
<1>1. k \in Keys /\ objects[k].kind \in Kinds
  BY SelectedListed DEF BookInv, Listings
<1>2. EntryRow(k) # None
  BY EntryTypes, NoneAssumption DEF BookInv, Assembled, Writing
<1> QED BY <1>1, <1>2 DEF BookInv, RowsWritten

\* Nor is one written for a name that is published as gone.
LEMMA PublishedGone ==
  ASSUME BookInv, pc # "idle", NEW k \in published, db[k] = None
  PROVE  k \in Keys /\ objects[k] = None /\ k \notin selected
BY UntouchedListing, SelectedListed DEF BookInv, PublishedStand

LEMMA FilesLeft == ASSUME BookInv, Left, WriteColumns \/ WriteBodies PROVE Left'
<1>1. /\ pc \in {"columnFiles", "bodyFiles"} /\ pc' \in {"bodyFiles", "remove"}
      /\ UNCHANGED <<db, catalogs, objects, state, selected, published>>
      /\ columnFiles' = IF pc = "columnFiles"
                        THEN [k \in Keys |-> IF WritesColumns(k) THEN ColumnsFile(k) ELSE columnFiles[k]]
                        ELSE columnFiles
      /\ bodyFiles' = IF pc = "columnFiles" THEN bodyFiles
                      ELSE [k \in Keys |-> IF WritesBody(k) THEN BodyFile(k) ELSE bodyFiles[k]]
      /\ pc' = IF pc = "columnFiles" THEN "bodyFiles" ELSE "remove"
  BY DEF WriteColumns, WriteBodies, database, planned, history
<1>2. ASSUME NEW k \in Keys, k \notin selected
      PROVE  columnFiles'[k] = columnFiles[k] /\ bodyFiles'[k] = bodyFiles[k]
  BY <1>1, <1>2 DEF WritesColumns, WritesBody
<1>3. Dropped' = Dropped /\ Merging /\ Merging'
  BY <1>1 DEF Dropped, Merging
<1>4. FilesHaveRows'
  <2> SUFFICES ASSUME NEW k \in Keys, columnFiles'[k] # None \/ bodyFiles'[k] # None, k \notin Dropped
               PROVE  \E c \in Kinds : catalogs[c][k] # None
    BY <1>1, <1>3 DEF FilesHaveRows
  <2>1. CASE k \in selected
    BY <1>1, <2>1, SelectedRow
  <2>2. CASE k \notin selected
    BY <1>2, <2>2 DEF Left, FilesHaveRows
  <2> QED BY <2>1, <2>2
<1>5. DroppedLeaveNoFiles'
  <2> SUFFICES ASSUME NEW k \in published, db[k] = None
               PROVE  columnFiles'[k] = None /\ bodyFiles'[k] = None
    BY <1>1 DEF DroppedLeaveNoFiles
  <2>1. k \in Keys /\ k \notin selected
    BY <1>1, PublishedGone
  <2> QED BY <1>2, <2>1 DEF Left, DroppedLeaveNoFiles
<1>6. BodiesOfRows'
  <2> SUFFICES ASSUME NEW k \in Keys, k \notin Dropped, ~Rewritten(k)'
               PROVE  BodyOfRow(k)'
    BY <1>3 DEF BodiesOfRows
  <2>1. CASE k \in selected /\ objects[k].kind \in Modules
    <3>1. pc = "bodyFiles" /\ bodyFiles' = [j \in Keys |-> IF WritesBody(j) THEN BodyFile(j) ELSE bodyFiles[j]]
      BY <1>1, <2>1 DEF Rewritten
    <3>2. /\ catalogs[objects[k].kind][k] = EntryRow(k) /\ EntryRow(k) # None
          /\ EntryRow(k).fingerprint = EntryFingerprint(k)
      BY <2>1, <3>1, SelectedRow DEF EntryRow
    <3>3. CASE WritesBody(k)
      <4>1. bodyFiles'[k].fingerprint = EntryFingerprint(k)
        BY <3>1, <3>3 DEF BodyFile
      <4> QED BY <1>1, <2>1, <3>2, <4>1 DEF BodyOfRow
    <3>4. CASE ~WritesBody(k)
      <4>1. EntryBody(k).text = "" /\ objects[k].kind # "table"
        BY <2>1, <3>4 DEF WritesBody, Modules
      <4>2. EntryFingerprint(k).of = "body" /\ EntryFingerprint(k).text.text = ""
        BY <2>1, <4>1 DEF EntryFingerprint, Fingerprint, Normalize
      <4> QED BY <1>1, <2>1, <3>2, <4>2 DEF BodyOfRow, Bodiless
    <3> QED BY <3>3, <3>4
  <2>2. CASE ~(k \in selected /\ objects[k].kind \in Modules)
    <3>1. BodyOfRow(k)
      BY <2>2 DEF Left, BodiesOfRows, Rewritten
    <3>2. bodyFiles'[k] = bodyFiles[k]
      BY <1>1, <2>2 DEF WritesBody
    <3> QED BY <1>1, <3>1, <3>2 DEF BodyOfRow, Bodiless
  <2> QED BY <2>1, <2>2
<1> QED BY <1>4, <1>5, <1>6 DEF Left

LEMMA RemoveLeft == ASSUME BookInv, Left, Remove PROVE Left'
<1>1. /\ pc = "remove" /\ pc' = "idle" /\ UNCHANGED <<db, catalogs>>
      /\ columnFiles' = [k \in Keys |-> IF k \in Dropped THEN None ELSE columnFiles[k]]
      /\ bodyFiles' = [k \in Keys |-> IF k \in Dropped THEN None ELSE bodyFiles[k]]
      /\ published' = published \cup (Covered \cap untouched)
  BY DEF Remove, Forget, database
<1>2. FilesHaveRows'
  BY <1>1 DEF Left, FilesHaveRows, Dropped
<1>3. BodiesOfRows'
  <2>1. ASSUME NEW k \in Keys PROVE BodyOfRow(k)'
    <3>1. CASE k \in Dropped
      BY <1>1, <3>1 DEF BodyOfRow
    <3>2. CASE k \notin Dropped
      <4>1. BodyOfRow(k)
        BY <1>1, <3>2 DEF Left, BodiesOfRows, Rewritten
      <4> QED BY <1>1, <3>2, <4>1 DEF BodyOfRow, Bodiless
    <3> QED BY <3>1, <3>2
  <2> QED BY <2>1 DEF BodiesOfRows
<1>4. DroppedLeaveNoFiles'
  <2> SUFFICES ASSUME NEW k \in published', db[k] = None
               PROVE  columnFiles'[k] = None /\ bodyFiles'[k] = None
    BY <1>1 DEF DroppedLeaveNoFiles
  <2>1. k \in Keys
    BY <1>1, UntouchedListing DEF BookInv, TypeOK, HistoryOK
  <2>2. CASE k \in published
    BY <1>1, <2>1, <2>2 DEF Left, DroppedLeaveNoFiles
  <2>3. CASE k \notin published
    <3>1. k \in Covered /\ objects[k] = None
      BY <1>1, <2>3, UntouchedListing DEF BookInv
    <3>2. ~opts.force
      BY <3>1, SelectedListed DEF Covered, BookInv
    <3>3. CASE state[k] # None
      BY <1>1, <2>1, <3>1, <3>3 DEF Dropped
    <3>4. CASE state[k] = None
      <4>1. \A c \in Kinds : catalogs[c][k] = None
        BY <1>1, <2>1, <3>1, <3>2, <3>4 DEF BookInv, NoRowsUnknown
      <4>2. k \notin Dropped
        BY <3>4 DEF Dropped
      <4> QED BY <1>1, <2>1, <4>1, <4>2 DEF Left, FilesHaveRows
    <3> QED BY <3>3, <3>4
  <2> QED BY <2>2, <2>3
<1> QED BY <1>2, <1>3, <1>4 DEF Left

LEMMA NextLeft == ASSUME BookInv, Left, NoFailure, [Next]_vars PROVE Left'
<1>1. ~Failures
  BY DEF Failures, Stop, TornMerge, StopInColumns, StopInBodies, StopInRemove, NoFailure
<1>2. CASE Plan \/ Lookup \/ ReadColumns \/ ReadIndexes \/ ReadModules \/ Store \/ Describe
            \/ \E o \in Options : Manifest(o)
  <2>1. UNCHANGED <<db, catalogs, columnFiles, bodyFiles, published>> /\ ~Merging
    BY <1>2 DEF Plan, Lookup, ReadColumns, ReadIndexes, ReadModules, Store, Describe, Manifest, tree,
       database, history, Merging
  <2> QED BY <2>1, QuietLeft
<1>3. CASE UNCHANGED vars
  <2>1. UNCHANGED <<db, catalogs, columnFiles, bodyFiles, published, pc, objects, state, selected>>
    BY <1>3 DEF vars, database, tree, build, planned, history
  <2>2. UNCHANGED <<Merging, Dropped>> /\ \A j : Rewritten(j)' = Rewritten(j) /\ BodyOfRow(j)' = BodyOfRow(j)
    BY <2>1 DEF Merging, Dropped, Rewritten, BodyOfRow, Bodiless
  <2> QED BY <2>1, <2>2 DEF Left, FilesHaveRows, DroppedLeaveNoFiles, BodiesOfRows
<1> QED BY <1>1, <1>2, <1>3, DatabaseLeft, MergeLeft, FilesLeft, RemoveLeft DEF Next, Progress

\* A name a finished build found dropped has left no file behind, for as long as
\* nobody creates it again: whatever the builds before had written of it, and
\* however the builds since were narrowed or forced - if none died halfway.
THEOREM DroppedLeaveNoFilesHolds ==
  ASSUME Faults \cap {"crash", "torn"} = {}
  PROVE  Spec => []DroppedLeaveNoFiles
<1>1. Init => BookInv /\ Left
  BY InitBooks, InitLeft
<1>2. BookInv /\ Left /\ [Next]_vars => BookInv' /\ Left'
  BY NextBooks, NextLeft DEF NoFailure
<1>3. Left => DroppedLeaveNoFiles
  BY DEF Left
<1> QED BY <1>1, <1>2, <1>3, PTL DEF Spec

\* Between builds, every body file carries the fingerprint of the row beside it,
\* or lies beside a row that was written over no body - if no build died halfway.
THEOREM BodyMatchesRowHolds ==
  ASSUME Faults \cap {"crash", "torn"} = {}
  PROVE  Spec => []BodyMatchesRow
<1>1. Init => BookInv /\ Left
  BY InitBooks, InitLeft
<1>2. BookInv /\ Left /\ [Next]_vars => BookInv' /\ Left'
  BY NextBooks, NextLeft DEF NoFailure
<1>3. Left => BodyMatchesRow
  BY DEF Left, BodiesOfRows, BodyOfRow, Rewritten, Merging, BodyMatchesRow
<1> QED BY <1>1, <1>2, <1>3, PTL DEF Spec

-----------------------------------------------------------------------------
(* The sentences, if no name that was described is taken over by a synonym. *)

LEMMA EntryRowOwn ==
  ASSUME BookInv, SentencesOwn, SynonymsApart, Merging, NEW k \in selected
  PROVE  /\ k \notin reported => EntryRow(k).description \in {None, Torn, EntryFingerprint(k)}
         /\ "synonym" \in KindsOf[k] => EntryRow(k).description = None
<1>1. k \in Keys /\ objects[k].kind \in KindsOf[k] /\ objects[k].kind \in Kinds
  BY SelectedListed DEF BookInv, KindsKept, Listings
<1>2. EntryRow(k).description = EntryDescription(k)
  BY DEF EntryRow
<1>3. CASE objects[k].kind \in Describable
  <2>1. "synonym" \notin KindsOf[k]
    BY <1>1, <1>3 DEF SynonymsApart, Describable
  <2>2. k \in sentences \/ k \in reported \/ Unchanged(EntryFingerprint(k), state[k])
    BY <1>3 DEF BookInv, Sentenced
  <2>3. k \notin reported => state[k] = None \/ state[k].description \in {None, Torn, state[k].fingerprint}
    BY <1>1 DEF SentencesOwn, OwnSentence
  <2> QED BY <1>2, <2>1, <2>2, <2>3 DEF EntryDescription, Unchanged
<1>4. CASE objects[k].kind \notin Describable
  <2>1. k \notin sentences
    BY <1>4 DEF BookInv, Sentenced
  <2>2. "synonym" \in KindsOf[k]
    BY <1>1, <1>4 DEF Describable
  <2>3. state[k] = None \/ state[k].description = None
    BY <1>1, <2>2 DEF SentencesOwn, Undescribed
  <2> QED BY <1>2, <2>1, <2>3 DEF EntryDescription
<1> QED BY <1>3, <1>4

LEMMA MergedRowsOwn ==
  ASSUME BookInv, SentencesOwn, SynonymsApart, Merging, NEW k \in Keys, NEW c \in Kinds
  PROVE  /\ k \notin reported => OwnSentence(MergedRows(c)[k])
         /\ "synonym" \in KindsOf[k] => Undescribed(MergedRows(c)[k])
<1>1. EntryRow(k).fingerprint = EntryFingerprint(k)
  BY DEF EntryRow
<1> QED BY <1>1, EntryRowOwn DEF MergedRows, SentencesOwn, OwnSentence, Undescribed

\* A step that writes no catalog.
LEMMA QuietOwn ==
  ASSUME SentencesOwn, UNCHANGED catalogs, reported \subseteq reported',
         state' = state \/ state' = Nothing \/ state' = ReadState
  PROVE  SentencesOwn'
<1> SUFFICES ASSUME NEW k \in Keys
             PROVE  /\ k \notin reported => OwnSentence(state'[k])
                    /\ "synonym" \in KindsOf[k] => Undescribed(state'[k])
  BY DEF SentencesOwn, OwnSentence, Undescribed
<1>1. CASE state' = state
  BY <1>1 DEF SentencesOwn
<1>2. CASE state' = Nothing
  BY <1>2 DEF Nothing, OwnSentence, Undescribed
<1>3. CASE state' = ReadState
  <2>1. state'[k] = None \/ \E c \in Kinds : state'[k] = catalogs[c][k]
    BY <1>3, StateOfRow
  <2> QED BY <2>1 DEF SentencesOwn, OwnSentence, Undescribed
<1> QED BY <1>1, <1>2, <1>3

LEMMA NextOwn == ASSUME BookInv, SentencesOwn, SynonymsApart, [Next]_vars PROVE SentencesOwn'
<1>1. Shape
  BY BooksOf
<1>2. CASE Merge
  <2>1. /\ Merging /\ UNCHANGED <<reported, state>>
        /\ \A d \in Kinds : catalogs'[d] = catalogs[d] \/ catalogs'[d] = MergedRows(d)
    BY <1>1, <1>2, MergeStep DEF Merging
  <2>2. ASSUME NEW k \in Keys, NEW d \in Kinds
        PROVE  /\ k \notin reported => OwnSentence(catalogs'[d][k])
               /\ "synonym" \in KindsOf[k] => Undescribed(catalogs'[d][k])
    BY <2>1, MergedRowsOwn DEF SentencesOwn
  <2> QED BY <2>1, <2>2 DEF SentencesOwn, OwnSentence, Undescribed
<1>3. CASE TornMerge
  <2>1. Merging /\ pc = "merge" /\ reported' = reported /\ state' = Nothing
    BY <1>3 DEF TornMerge, Merging, Forget
  <2>2. ASSUME NEW k \in Keys, NEW d \in Kinds
        PROVE  /\ k \notin reported => OwnSentence(catalogs'[d][k])
               /\ "synonym" \in KindsOf[k] => Undescribed(catalogs'[d][k])
    <3>1. MergedRows(d)[k] # None => MergedRows(d)[k] \in RowsOfFile
      BY <1>1, <2>1, MergedRowsType DEF Optional
    <3>2. /\ k \notin reported => OwnSentence(MergedRows(d)[k])
          /\ "synonym" \in KindsOf[k] => Undescribed(MergedRows(d)[k])
      BY <2>1, MergedRowsOwn
    <3>3. ASSUME NEW row \in RowsOfFile, NEW end \in CutShort(row)
          PROVE  (OwnSentence(row) /\ row # None => OwnSentence(end))
                 /\ (Undescribed(row) /\ row # None => Undescribed(end))
      BY <3>3 DEF CutShort, OwnSentence, Undescribed, RowsOfFile
    <3> QED BY <1>1, <1>3, <3>1, <3>2, <3>3, TornStep DEF SentencesOwn, OwnSentence, Undescribed
  <2> QED BY <2>1, <2>2 DEF SentencesOwn, OwnSentence, Undescribed, Nothing
<1>4. CASE ~Merge /\ ~TornMerge
  <2>1. UNCHANGED catalogs /\ reported \subseteq reported'
    BY <1>4
       DEF Next, Database, Deploy, Drop, Grow, Touch, Manifest, Progress, Plan, Lookup, ReadColumns,
           ReadIndexes, ReadModules, Store, Describe, WriteColumns, WriteBodies, Remove, Failures,
           Stop, StopInColumns, StopInBodies, StopInRemove, vars, tree, history
  <2>2. state' = state \/ state' = Nothing \/ state' = ReadState
    BY <1>4
       DEF Next, Database, Deploy, Drop, Grow, Touch, Manifest, Progress, Plan, Lookup, ReadColumns,
           ReadIndexes, ReadModules, Store, Describe, WriteColumns, WriteBodies, Remove, Failures,
           Stop, StopInColumns, StopInBodies, StopInRemove, vars, build, planned, Forget
  <2> QED BY <2>1, <2>2, QuietOwn
<1> QED BY <1>2, <1>3, <1>4

\* A sentence in the tree was written about the content its row's fingerprint was
\* taken of, or a build reported that it had no sentence for the object: through
\* any number of failed batches, kills and torn writes, and whatever the signals
\* and the cache are worth - unless a synonym takes over a name that was described.
THEOREM StaleOnlyIfReportedHolds ==
  ASSUME \A k \in Keys : "synonym" \in KindsOf[k] => KindsOf[k] = {"synonym"}
  PROVE  Spec => []StaleOnlyIfReported
<1>1. Init => BookInv /\ SentencesOwn
  <2>1. Init => SentencesOwn
    BY DEF Init, Nothing, SentencesOwn, OwnSentence, Undescribed
  <2> QED BY <2>1, InitBooks
<1>2. BookInv /\ SentencesOwn /\ [Next]_vars => BookInv' /\ SentencesOwn'
  BY NextBooks, NextOwn DEF SynonymsApart
<1>3. SentencesOwn => StaleOnlyIfReported
  BY DEF SentencesOwn, OwnSentence, StaleOnlyIfReported
<1> QED BY <1>1, <1>2, <1>3, PTL DEF Spec

-----------------------------------------------------------------------------
(* What is published, and the sentences beside it.                          *)

\* Only the end of a build publishes a name; what is published after any other
\* step was before, and its object is as it was.
LEMMA PublishedStays ==
  ASSUME Shape, [Next]_vars, ~Remove, NEW k \in published'
  PROVE  k \in published /\ db'[k] = db[k]
<1>1. CASE Database
  <2>1. PICK j \in Keys : \E o : db' = [db EXCEPT ![j] = o] /\ published' = published \ {j}
    BY <1>1 DEF Database, Deploy, Drop, Grow, Touch
  <2> QED BY <2>1 DEF Shape, TypeOK, DatabaseOK, HistoryOK
<1>2. CASE ~Database
  BY <1>2
     DEF Next, Manifest, Progress, Plan, Lookup, ReadColumns, ReadIndexes, ReadModules, Store,
         Describe, Merge, WriteColumns, WriteBodies, Failures, Stop, TornMerge, StopInColumns,
         StopInBodies, StopInRemove, vars, database, history
<1> QED BY <1>1, <1>2

\* Only a merge changes a row, whole or cut short.
LEMMA CatalogsStay ==
  ASSUME [Next]_vars, ~Merge, ~TornMerge
  PROVE  catalogs' = catalogs /\ reported \subseteq reported'
BY DEF Next, Database, Deploy, Drop, Grow, Touch, Manifest, Progress, Plan, Lookup, ReadColumns,
       ReadIndexes, ReadModules, Store, Describe, WriteColumns, WriteBodies, Remove, Failures,
       Stop, StopInColumns, StopInBodies, StopInRemove, vars, tree, history

\* What is published is listed as it is while a build runs.
LEMMA PublishedListing ==
  ASSUME BookInv, pc # "idle", NEW k \in published
  PROVE  /\ k \in Keys /\ k \in untouched
         /\ db[k] = None => k \notin selected
         /\ db[k] # None => /\ db[k] \in Object /\ objects[k] = Listing(db[k])
                           /\ objects[k].kind = db[k].kind /\ k \notin Dropped
<1>1. k \in untouched
  BY DEF BookInv, PublishedStand
<1>2. /\ k \in Keys /\ (objects[k] = None <=> db[k] = None)
      /\ db[k] # None => db[k] \in Object /\ objects[k] = Listing(db[k])
  BY <1>1, UntouchedListing DEF BookInv
<1> QED BY <1>1, <1>2, SelectedListed DEF BookInv, Listing, Dropped

\* The row of an entry that was not reported has a sentence.
LEMMA EntryTold ==
  ASSUME BookInv, Merging, NEW k \in selected, k \notin reported, objects[k].kind \in Describable
  PROVE  HasSentence(EntryRow(k))
<1>1. k \in sentences \/ Unchanged(EntryFingerprint(k), state[k])
  BY DEF BookInv, Sentenced
<1>2. EntryFingerprint(k) # None /\ EntryRow(k) # None
  BY EntryTypes, NoneAssumption DEF BookInv, Assembled, Merging, Writing
<1>3. EntryRow(k).description = EntryDescription(k)
  BY DEF EntryRow
<1> QED BY <1>1, <1>2, <1>3 DEF HasSentence, EntryDescription, Unchanged

LEMMA NextTold == ASSUME BookInv, Told, [Next]_vars PROVE Told'
<1>1. Shape
  BY BooksOf
<1>2. CASE Merge
  <2>1. /\ pc = "merge" /\ Merging /\ UNCHANGED <<db, reported, published>>
        /\ \A d \in Kinds : catalogs'[d] = catalogs[d] \/ catalogs'[d] = MergedRows(d)
    BY <1>1, <1>2, MergeStep DEF Merging
  <2> SUFFICES ASSUME NEW k \in published, k \notin reported, db[k] # None, db[k].kind \in Describable
               PROVE  HasSentence(catalogs'[db[k].kind][k])
    BY <2>1 DEF Told
  <2>2. k \in Keys /\ k \notin Dropped /\ objects[k].kind = db[k].kind /\ db[k].kind \in Kinds
    BY <2>1, PublishedListing DEF Object
  <2>3. MergedRows(db[k].kind)[k] = IF k \in selected THEN EntryRow(k) ELSE catalogs[db[k].kind][k]
    BY <2>2 DEF MergedRows
  <2>4. HasSentence(catalogs[db[k].kind][k])
    BY DEF Told
  <2>5. k \in selected => HasSentence(EntryRow(k))
    BY <2>1, <2>2, EntryTold
  <2> QED BY <2>1, <2>2, <2>3, <2>4, <2>5
<1>3. CASE Remove
  <2>1. /\ pc = "remove" /\ Merging /\ UNCHANGED <<db, catalogs, reported>>
        /\ published' = published \cup (Covered \cap untouched)
    BY <1>3 DEF Remove, database, Merging
  <2> SUFFICES ASSUME NEW k \in Covered \cap untouched, k \notin reported, db[k] # None,
                      db[k].kind \in Describable
               PROVE  HasSentence(catalogs[db[k].kind][k])
    BY <2>1 DEF Told
  <2>2. k \in selected /\ objects[k].kind = db[k].kind
    <3>1. objects[k] # None /\ objects[k] = Listing(db[k])
      BY UntouchedListing DEF BookInv
    <3> QED BY <3>1 DEF Covered, Listing
  <2>3. HasSentence(EntryRow(k))
    BY <2>1, <2>2, EntryTold
  <2> QED BY <2>1, <2>2, <2>3, SelectedRow
<1>4. CASE TornMerge
  <2>1. /\ pc = "merge" /\ Merging /\ UNCHANGED <<db, reported>> /\ published' \subseteq published
        /\ \A d \in Kinds, k \in published' : catalogs'[d][k] \in {catalogs[d][k], MergedRows(d)[k]}
    BY <1>1, <1>4, TornPublished DEF Merging, database
  <2> SUFFICES ASSUME NEW k \in published', k \notin reported, db[k] # None, db[k].kind \in Describable
               PROVE  HasSentence(catalogs'[db[k].kind][k])
    BY <2>1 DEF Told
  <2>2. k \in Keys /\ k \notin Dropped /\ objects[k].kind = db[k].kind /\ db[k].kind \in Kinds
    BY <2>1, PublishedListing DEF Object
  <2>3. MergedRows(db[k].kind)[k] = IF k \in selected THEN EntryRow(k) ELSE catalogs[db[k].kind][k]
    BY <2>2 DEF MergedRows
  <2>4. HasSentence(catalogs[db[k].kind][k])
    BY <2>1 DEF Told
  <2>5. k \in selected => HasSentence(EntryRow(k))
    BY <2>1, <2>2, EntryTold
  <2> QED BY <2>1, <2>2, <2>3, <2>4, <2>5
<1>5. CASE ~Merge /\ ~TornMerge /\ ~Remove
  BY <1>1, <1>5, CatalogsStay, PublishedStays DEF Told
<1> QED BY <1>2, <1>3, <1>4, <1>5

-----------------------------------------------------------------------------
(* The hashes of bodies, if none is too long for the cache.                 *)

LEMMA EntryUncut ==
  ASSUME BookInv, BodiesUncut, Writing, NEW k \in selected
  PROVE  Uncut(EntryRow(k))
<1>1. k \in Keys /\ EntryFingerprint(k) \in Hashes /\ EntryFingerprint(k) # Torn
  BY EntryTypes, TornAssumption DEF BookInv, Assembled
<1>2. EntryRow(k).fingerprint = EntryFingerprint(k)
  BY DEF EntryRow
<1>3. EntryBody(k).cut = FALSE
  <2>1. EntryBody(k) \in Bodies
    BY <1>1, EntryTypes DEF BookInv, Assembled
  <2>2. ~EntryBody(k).cut
    BY <1>1 DEF BodiesUncut, EntryBody, EmptyBody
  <2> QED BY <2>1, <2>2 DEF Bodies
<1>4. EntryFingerprint(k).of = "body" =>
        EntryFingerprint(k) = [of |-> "body", triggers |-> 0, depth |-> 0,
                               text |-> [text |-> EntryBody(k).text, cut |-> FALSE]]
  BY <1>3 DEF EntryFingerprint, Fingerprint, Normalize
<1> QED BY <1>1, <1>2, <1>4 DEF Uncut

LEMMA CatalogsUncut ==
  ASSUME BookInv, BodiesUncut, [Next]_vars, NEW c \in Kinds, NEW k \in Keys
  PROVE  Uncut(catalogs'[c][k])
<1>1. Shape
  BY BooksOf
<1>2. pc = "merge" => Uncut(MergedRows(c)[k])
  BY EntryUncut DEF MergedRows, Writing, BodiesUncut, Uncut
<1>3. CASE Merge
  <2>1. pc = "merge" /\ catalogs'[c] \in {catalogs[c], MergedRows(c)}
    BY <1>1, <1>3, MergeStep
  <2> QED BY <1>2, <2>1 DEF BodiesUncut
<1>4. CASE TornMerge
  <2>1. pc = "merge"
    BY <1>4 DEF TornMerge
  <2>2. MergedRows(c)[k] # None => MergedRows(c)[k] \in RowsOfFile
    BY <1>1, <2>1, MergedRowsType DEF Optional
  <2>3. ASSUME NEW row \in RowsOfFile, row # None, Uncut(row), NEW end \in CutShort(row)
        PROVE  Uncut(end)
    <3>1. CASE end = None
      BY <3>1 DEF Uncut
    <3>2. CASE end = [row EXCEPT !.fingerprint = Torn, !.description = None]
      BY <3>2 DEF Uncut, RowsOfFile
    <3>3. CASE end.fingerprint = row.fingerprint /\ (row.description = None => end.description = None)
      BY <2>3, <3>3 DEF Uncut
    <3> QED BY <2>3, <3>1, <3>2, <3>3 DEF CutShort, RowsOfFile
  <2>4. CASE catalogs'[c][k] \in {None, catalogs[c][k], MergedRows(c)[k]}
    BY <1>2, <2>1, <2>4 DEF BodiesUncut, Uncut
  <2>5. CASE MergedRows(c)[k] # None /\ catalogs'[c][k] \in CutShort(MergedRows(c)[k])
    BY <1>2, <2>1, <2>2, <2>3, <2>5
  <2> QED BY <1>1, <1>4, <2>4, <2>5, TornStep
<1> QED BY <1>3, <1>4, CatalogsStay DEF BodiesUncut

LEMMA NextUncut == ASSUME BookInv, BodiesUncut, Overlong = {}, [Next]_vars PROVE BodiesUncut'
<1>1. \A k \in Keys, c \in Kinds : Uncut(catalogs'[c][k])
  BY CatalogsUncut
<1>2. ASSUME NEW k \in Keys PROVE Uncut(state'[k])
  <2>1. state' = state \/ state' = Nothing \/ state' = ReadState
    BY DEF Next, Database, Deploy, Drop, Grow, Touch, Manifest, Progress, Plan, Lookup, ReadColumns,
           ReadIndexes, ReadModules, Store, Describe, Merge, WriteColumns, WriteBodies, Remove,
           Failures, Stop, TornMerge, StopInColumns, StopInBodies, StopInRemove, vars, build,
           planned, Forget
  <2>2. ReadState[k] = None \/ \E c \in Kinds : ReadState[k] = catalogs[c][k]
    BY StateOfRow
  <2> QED BY <2>1, <2>2 DEF BodiesUncut, Nothing, Uncut
<1>3. ASSUME NEW k \in Keys
      PROVE  /\ definitions'[k] # None => ~definitions'[k].cut
             /\ cachedModules'[k] # None => ~cachedModules'[k].value.cut
  <2>1. CASE Lookup
    <3>1. cachedModules' = cachedModules /\ definitions'[k] \in {None, cachedModules[k].value}
      BY <2>1 DEF Lookup, cache
    <3>2. definitions'[k] # None => cachedModules[k] # None
      BY <2>1 DEF Lookup, Cached, Proven
    <3>3. cachedModules[k] # None => ~cachedModules[k].value.cut
      BY DEF BodiesUncut
    <3> QED BY <3>1, <3>2, <3>3
  <2>2. CASE ReadModules
    <3>1. cachedModules' = cachedModules /\ definitions'[k] \in {definitions[k], BodyOf(db[k])}
      BY <2>2 DEF ReadModules, cache
    <3>2. ~BodyOf(db[k]).cut
      BY DEF BodyOf, EmptyBody
    <3>3. /\ definitions[k] # None => ~definitions[k].cut
          /\ cachedModules[k] # None => ~cachedModules[k].value.cut
      BY DEF BodiesUncut
    <3> QED BY <3>1, <3>2, <3>3
  <2>3. CASE Store
    <3>1. PICK refused \in (SUBSET missing) \X (SUBSET missing) :
            cachedModules' = [j \in Keys |->
              IF j \in missing \ refused[2] /\ definitions[j] # None
              THEN [signal |-> objects[j].modified, value |-> Trim(definitions[j])]
              ELSE cachedModules[j]]
      BY <2>3 DEF Store
    <3>2. definitions' = definitions /\ Trim(definitions[k]) = definitions[k]
      BY <2>3 DEF Store, fetched, Trim
    <3> QED BY <3>1, <3>2 DEF BodiesUncut
  <2>4. CASE ~Lookup /\ ~ReadModules /\ ~Store
    <3>1. cachedModules' = cachedModules /\ (definitions' = definitions \/ definitions' = Nothing)
      BY <2>4
         DEF Next, Database, Deploy, Drop, Grow, Touch, Manifest, Progress, Plan, ReadColumns,
             ReadIndexes, Describe, Merge, WriteColumns, WriteBodies, Remove,
             Failures, Stop, TornMerge, StopInColumns, StopInBodies, StopInRemove, vars, build,
             fetched, cache, Forget
    <3> QED BY <3>1 DEF BodiesUncut, Nothing
  <2> QED BY <2>1, <2>2, <2>3, <2>4
<1> QED BY <1>1, <1>2, <1>3 DEF BodiesUncut, Uncut

LEMMA InitUncut == Init => Told /\ BodiesUncut
BY DEF Init, Nothing, Told, BodiesUncut, Uncut
-----------------------------------------------------------------------------
(* Row counts, and sentences cut short.                                     *)

LEMMA CountlessEntry ==
  ASSUME NEW k PROVE objects[k].kind # "table" => EntryRow(k).rows = 0
BY DEF EntryRow

LEMMA NextCountless == ASSUME BookInv, Countless, [Next]_vars PROVE Countless'
<1>1. Shape
  BY BooksOf
<1>2. ASSUME NEW c \in Kinds \ {"table"}, NEW k \in Keys, MergedRows(c)[k] # None
      PROVE  MergedRows(c)[k].rows = 0
  BY <1>2, CountlessEntry DEF MergedRows, Countless
<1>3. CASE Merge
  <2>1. \A d \in Kinds : catalogs'[d] \in {catalogs[d], MergedRows(d)}
    BY <1>1, <1>3, MergeStep
  <2> QED BY <1>2, <2>1 DEF Countless
<1>4. CASE TornMerge
  <2>1. pc = "merge"
    BY <1>4 DEF TornMerge
  <2> SUFFICES ASSUME NEW c \in Kinds \ {"table"}, NEW k \in Keys, catalogs'[c][k] # None
               PROVE  catalogs'[c][k].rows = 0
    BY DEF Countless
  <2>2. MergedRows(c)[k] # None => MergedRows(c)[k] \in RowsOfFile
    BY <1>1, <2>1, MergedRowsType DEF Optional
  <2>3. ASSUME NEW row \in RowsOfFile, NEW end \in CutShort(row), end # None PROVE end.rows = row.rows
    BY <2>3 DEF CutShort, RowsOfFile
  <2> QED BY <1>1, <1>2, <1>4, <2>2, <2>3, TornStep DEF Countless
<1>5. CASE ~Merge /\ ~TornMerge
  BY <1>5, CatalogsStay DEF Countless
<1> QED BY <1>3, <1>4, <1>5

\* A sentence is the fingerprint it was written about, or the one there was.
LEMMA EntryIntact ==
  ASSUME BookInv, SentencesIntact, Writing, NEW k \in selected
  PROVE  Intact(EntryRow(k))
<1>1. k \in Keys /\ EntryFingerprint(k) # Torn
  BY EntryTypes, TornAssumption DEF BookInv, Assembled
<1>2. EntryRow(k).description = EntryDescription(k)
  BY DEF EntryRow
<1>3. Torn # None
  BY TornAssumption
<1> QED BY <1>1, <1>2, <1>3 DEF EntryDescription, SentencesIntact, Intact

LEMMA NextIntact ==
  ASSUME BookInv, SentencesIntact, "torn" \notin Faults, [Next]_vars PROVE SentencesIntact'
<1>1. Shape
  BY BooksOf
<1>2. ASSUME NEW k \in Keys, NEW c \in Kinds PROVE Intact(catalogs'[c][k])
  <2>1. pc = "merge" => Intact(MergedRows(c)[k])
    BY EntryIntact DEF MergedRows, Writing, SentencesIntact, Intact
  <2>2. CASE Merge
    <3>1. pc = "merge" /\ catalogs'[c] \in {catalogs[c], MergedRows(c)}
      BY <1>1, <2>2, MergeStep
    <3> QED BY <2>1, <3>1 DEF SentencesIntact
  <2>3. ~TornMerge
    BY DEF TornMerge
  <2> QED BY <2>2, <2>3, CatalogsStay DEF SentencesIntact
<1>3. ASSUME NEW k \in Keys PROVE Intact(state'[k])
  <2>1. state' = state \/ state' = Nothing \/ state' = ReadState
    BY DEF Next, Database, Deploy, Drop, Grow, Touch, Manifest, Progress, Plan, Lookup, ReadColumns,
           ReadIndexes, ReadModules, Store, Describe, Merge, WriteColumns, WriteBodies, Remove,
           Failures, Stop, TornMerge, StopInColumns, StopInBodies, StopInRemove, vars, build,
           planned, Forget
  <2>2. ReadState[k] = None \/ \E c \in Kinds : ReadState[k] = catalogs[c][k]
    BY StateOfRow
  <2> QED BY <2>1, <2>2 DEF SentencesIntact, Nothing, Intact
<1> QED BY <1>2, <1>3 DEF SentencesIntact, Intact

LEMMA InitIntact == Init => Countless /\ SentencesIntact
BY DEF Init, Nothing, Countless, SentencesIntact, Intact

-----------------------------------------------------------------------------
(* What is not asked about.                                                 *)

\* If the model always answers, no name is ever reported.
LEMMA NoneReported ==
  ASSUME reported = {}, "model" \notin Faults, [Next]_vars PROVE reported' = {}
BY DEF Next, Database, Deploy, Drop, Grow, Touch, Manifest, Progress, Plan, Lookup, ReadColumns,
       ReadIndexes, ReadModules, Store, Describe, Merge, WriteColumns, WriteBodies, Remove, Failures,
       Stop, TornMerge, StopInColumns, StopInBodies, StopInRemove, vars, history

\* The build's own test is enough to find what has to be described again, as long
\* as the model answers whenever it is asked: an entry it is not asked about has no
\* sentence, or one that was written about the content the entry has. So a batch
\* that failed is the only way to a sentence that stays behind its object for good
\* (internal/plan, Describe, and internal/index, describeAll) - whatever the signals and
\* the cache are worth, and wherever builds were cut off. A synonym taking over the
\* name of a described object is set aside, as above.
THEOREM ChangesAreDescribedHolds ==
  ASSUME "model" \notin Faults, \A k \in Keys : "synonym" \in KindsOf[k] => KindsOf[k] = {"synonym"}
  PROVE  Spec => []ChangesAreDescribed
<1> DEFINE Inv == BookInv /\ SentencesOwn /\ reported = {}
<1>1. Init => Inv
  <2>1. Init => SentencesOwn
    BY DEF Init, Nothing, SentencesOwn, OwnSentence, Undescribed
  <2>2. Init => reported = {}
    BY DEF Init
  <2> QED BY <2>1, <2>2, InitBooks
<1>2. Inv /\ [Next]_vars => Inv'
  BY NextBooks, NextOwn, NoneReported DEF SynonymsApart
<1>3. Inv => ChangesAreDescribed
  <2> SUFFICES ASSUME Inv, NEW k \in selected \ Todo, state[k] # None
               PROVE  state[k].description \in {None, Torn, EntryFingerprint(k)}
    BY DEF ChangesAreDescribed
  <2>1. k \in Keys /\ objects[k].kind \in KindsOf[k] /\ objects[k].kind \in Kinds
    BY SelectedListed DEF BookInv, KindsKept, Listings
  <2>2. CASE Unchanged(EntryFingerprint(k), state[k])
    <3>1. OwnSentence(state[k])
      BY <2>1 DEF SentencesOwn
    <3> QED BY <2>2, <3>1 DEF Unchanged, OwnSentence
  <2>3. CASE objects[k].kind \notin Describable
    <3>1. "synonym" \in KindsOf[k]
      BY <2>1, <2>3 DEF Describable
    <3>2. Undescribed(state[k])
      BY <2>1, <3>1 DEF SentencesOwn
    <3> QED BY <3>2 DEF Undescribed
  <2> QED BY <2>2, <2>3 DEF Todo
<1> HIDE DEF Inv
<1> QED BY <1>1, <1>2, <1>3, PTL DEF Spec
=============================================================================
