---------------------------- MODULE BuildProofs ----------------------------
(***************************************************************************)
(* Theorems about Build, for every value of its constants.                 *)
(***************************************************************************)
EXTENDS BuildInv, TLAPS

USE DEF NoSignal

-----------------------------------------------------------------------------
(* The operators the model is built from.                                   *)

\* The catalogs are five, one per kind.
LEMMA CatalogsAreKinds ==
  /\ Len(Catalogs) = 5 /\ DOMAIN Catalogs = 1 .. 5
  /\ \A i \in 1 .. 5 : Catalogs[i] \in Kinds
  /\ \A c \in Kinds : \E i \in 1 .. 5 : Catalogs[i] = c
<1>1. Len(Catalogs) = 5 /\ DOMAIN Catalogs = 1 .. 5
  BY DEF Catalogs
<1>2. /\ Catalogs[1] = "table" /\ Catalogs[2] = "view" /\ Catalogs[3] = "procedure"
      /\ Catalogs[4] = "function" /\ Catalogs[5] = "synonym"
  BY DEF Catalogs
<1>3. \A i \in 1 .. 5 : i = 1 \/ i = 2 \/ i = 3 \/ i = 4 \/ i = 5
  OBVIOUS
<1> QED BY <1>1, <1>2, <1>3 DEF Kinds

\* A set of catalogs that is not empty has a last one.
LEMMA LastOfFew ==
  ASSUME NEW S \in SUBSET (1 .. 5), S # {}
  PROVE  \E i \in S : \A j \in S : j <= i
<1>1. CASE 5 \in S  BY <1>1
<1>2. CASE 4 \in S /\ 5 \notin S  BY <1>2
<1>3. CASE 3 \in S /\ 4 \notin S /\ 5 \notin S  BY <1>3
<1>4. CASE 2 \in S /\ 3 \notin S /\ 4 \notin S /\ 5 \notin S  BY <1>4
<1>5. CASE 2 \notin S /\ 3 \notin S /\ 4 \notin S /\ 5 \notin S
  <2>1. \A j \in S : j = 1
    BY <1>5
  <2>2. 1 \in S
    BY <2>1
  <2> QED BY <2>1, <2>2
<1> QED BY <1>1, <1>2, <1>3, <1>4, <1>5

\* What is read of an object, and what is kept of it, has the type of a reading.
LEMMA ReadingTypes ==
  ASSUME NEW o \in Object
  PROVE  /\ StructureOf(o) \in Structures
         /\ BodyOf(o) \in Bodies
         /\ Listing(o) \in Listings
         /\ o.content.text \in Text
<1>1. o.content \in [text: Texts, eol: Eols \cup {"lf"}, hidden: BOOLEAN]
  <2>1. o.content \in UNION {Content(c) : c \in Kinds}
    BY DEF Object
  <2>2. PICK c \in Kinds : o.content \in Content(c)
    BY <2>1
  <2> QED BY <2>2, HidingAssumption DEF Content
<1> QED
  BY <1>1 DEF Object, StructureOf, BodyOf, HasBody, Listing, Structures, Bodies, Listings,
     Text, EmptyBody

LEMMA TrimType == ASSUME NEW b \in Bodies PROVE Trim(b) \in Bodies
BY DEF Trim, Bodies

LEMMA EmptyTypes == EmptyStructure \in Structures /\ EmptyBody \in Bodies
BY DEF EmptyStructure, EmptyBody, Structures, Bodies, Text

LEMMA SampleDepthRange == ASSUME NEW n \in Int PROVE SampleDepth(n) \in 0 .. SampleRows
BY SampleRowsAssumption DEF SampleDepth

\* A fingerprint is a hash, whatever it is taken over.
LEMMA FingerprintType ==
  ASSUME NEW o \in Listings, NEW s \in Structures, NEW b \in Bodies
  PROVE  Fingerprint(o, s, b) \in Hashes
<1>1. /\ o.rows \in Int /\ o.triggers \in Triggers
  BY CountsAssumption DEF Listings
<1>2. SampleDepth(o.rows) \in 0 .. SampleRows /\ 0 \in 0 .. SampleRows
  BY <1>1, SampleDepthRange, SampleRowsAssumption
<1>3. Normalize(b) \in [text: Text, cut: BOOLEAN]
  BY DEF Normalize, Bodies
<1>4. [s EXCEPT !.indexes = ""] \in Structures
  BY DEF Structures, Text
<1> QED
  BY <1>1, <1>2, <1>3, <1>4 DEF Fingerprint, Hashes

\* The row of an entry that was assembled.
LEMMA EntryTypes ==
  ASSUME TypeOK, NEW k \in selected, structures[k] \in Structures
  PROVE  /\ k \in Keys /\ objects[k] \in Listings
         /\ structures[k] \in Structures /\ EntryBody(k) \in Bodies
         /\ EntryFingerprint(k) \in Hashes
         /\ EntryRow(k) \in RowsOfFile
<1>1. k \in Keys /\ objects[k] \in Listings
  BY DEF TypeOK, PlannedOK, Listed, Optional
<1>2. structures[k] \in Structures
  BY <1>1 DEF TypeOK, FetchedOK, Optional
<1>3. EntryBody(k) \in Bodies
  BY <1>1, EmptyTypes DEF TypeOK, FetchedOK, Optional, EntryBody
<1>4. EntryFingerprint(k) \in Hashes
  BY <1>1, <1>2, <1>3, FingerprintType DEF EntryFingerprint
<1>5. EntryDescription(k) \in Hashes \cup {None, Torn}
  <2>1. state[k] = None \/ state[k].description \in Hashes \cup {None, Torn}
    BY <1>1 DEF TypeOK, PlannedOK, Optional, RowsOfFile
  <2> QED BY <1>4, <2>1 DEF EntryDescription
<1>6. EntryRow(k) \in RowsOfFile
  BY <1>1, <1>4, <1>5 DEF EntryRow, RowsOfFile, Listings
<1> QED BY <1>1, <1>2, <1>3, <1>4, <1>6

-----------------------------------------------------------------------------
(* The types, and what each stage is to assemble, step by step.             *)

Shape == TypeOK /\ Assembled

LEMMA InitShape == Init => Shape
BY CatalogsAreKinds, ClockAssumption
   DEF Init, Shape, TypeOK, DatabaseOK, TreeOK, CacheOK, CachedStructures, CachedBodies, PlannedOK, FetchedOK, HistoryOK,
       Assembled, Fetching, Writing, Nothing, Optional, StageNames, Listed

\* A build that is over holds nothing.
LEMMA ForgetShape ==
  ASSUME TypeOK, Forget PROVE PlannedOK' /\ FetchedOK' /\ Assembled' /\ untouched' \subseteq Keys
BY CatalogsAreKinds
   DEF TypeOK, PlannedOK, FetchedOK, Assembled, Fetching, Writing, Forget, Nothing,
       Optional, StageNames, Listed

\* The database changes nothing of the build's.
LEMMA DatabaseShape == ASSUME Shape, Database PROVE Shape'
<1> USE DEF Shape
<1>1. PICK k \in Keys : Deploy(k) \/ Drop(k) \/ Grow(k)
  BY DEF Database
<1>2. DatabaseOK' /\ UNCHANGED <<tree, cache, build, reported>> /\ HistoryOK'
  <2>1. CASE Deploy(k)
    <3>1. PICK kind \in KindsOf[k], signal \in Signals : \E content \in Content(kind) :
            /\ Touch(k, [kind |-> kind, modified |-> signal, content |-> content,
                          rows     |-> IF db[k] = None THEN 0 ELSE db[k].rows,
                          triggers |-> IF db[k] = None THEN 0 ELSE db[k].triggers])
            /\ now' = signal
      BY <2>1 DEF Deploy
    <3>2. PICK content \in Content(kind) :
            Touch(k, [kind |-> kind, modified |-> signal, content |-> content,
                          rows     |-> IF db[k] = None THEN 0 ELSE db[k].rows,
                          triggers |-> IF db[k] = None THEN 0 ELSE db[k].triggers])
      BY <3>1
    <3>3. kind \in Kinds
      BY KindsOfAssumption
    <3>4. signal \in 0 .. MaxClock
      BY ClockAssumption DEF Signals, TypeOK, DatabaseOK
    <3>5. db[k] = None \/ (db[k].rows \in Rows /\ db[k].triggers \in Triggers)
      BY DEF TypeOK, DatabaseOK, Optional, Object
    <3>6. content \in UNION {Content(c) : c \in Kinds}
      BY <3>3
    <3>7. [kind |-> kind, modified |-> signal, content |-> content,
           rows     |-> IF db[k] = None THEN 0 ELSE db[k].rows,
           triggers |-> IF db[k] = None THEN 0 ELSE db[k].triggers] \in Object
      BY <3>3, <3>4, <3>5, <3>6, CountsAssumption DEF Object
    <3> QED BY <3>1, <3>2, <3>4, <3>7 DEF Touch, TypeOK, DatabaseOK, HistoryOK, Optional
  <2>2. CASE Drop(k)
    BY <2>2 DEF Drop, Touch, TypeOK, DatabaseOK, HistoryOK, Optional
  <2>3. CASE Grow(k)
    <3>1. PICK r \in Rows, t \in Triggers : Touch(k, [db[k] EXCEPT !.rows = r, !.triggers = t])
      BY <2>3 DEF Grow
    <3>2. [db[k] EXCEPT !.rows = r, !.triggers = t] \in Object
      BY <2>3 DEF Grow, TypeOK, DatabaseOK, Optional, Object
    <3> QED BY <2>3, <3>1, <3>2 DEF Grow, Touch, TypeOK, DatabaseOK, HistoryOK, Optional
  <2> QED BY <1>1, <2>1, <2>2, <2>3
<1>3. TypeOK'
  BY <1>2 DEF TypeOK, TreeOK, CacheOK, CachedStructures, CachedBodies, PlannedOK, FetchedOK, tree, cache, build, planned,
     fetched, Listed
<1>4. Assembled'
  BY <1>2 DEF Assembled, Fetching, Writing, build, planned, fetched
<1> QED BY <1>3, <1>4

\* One step each of the build: the listing and the plan.
LEMMA ManifestShape == ASSUME Shape, NEW o \in Options, Manifest(o) PROVE Shape'
<1> USE DEF Shape
<1>1. \A k \in Keys : (IF db[k] = None THEN None ELSE Listing(db[k])) \in Optional(Listings)
  BY ReadingTypes DEF TypeOK, DatabaseOK, Optional
<1>2. objects' \in [Keys -> Optional(Listings)]
  BY <1>1 DEF Manifest
<1>3. selected' = {} /\ pc' = "plan" /\ merged' = 0
  BY DEF Manifest, Assembled
<1>4. PlannedOK'
  BY <1>2, <1>3 DEF Manifest, TypeOK, PlannedOK, Optional, StageNames, Listed
<1> QED
  BY <1>3, <1>4
     DEF Manifest, TypeOK, DatabaseOK, database, TreeOK, tree, CacheOK, CachedStructures, CachedBodies, cache, FetchedOK, fetched,
         HistoryOK, Assembled, Fetching, Writing

LEMMA PlanShape == ASSUME Shape, Plan PROVE Shape'
<1> USE DEF Shape
<1>1. CASE opts.dry
  BY <1>1, ForgetShape
     DEF Plan, TypeOK, DatabaseOK, database, TreeOK, tree, CacheOK, CachedStructures, CachedBodies, cache, HistoryOK
<1>2. CASE ~opts.dry
  <2>1. ReadState \in [Keys -> Optional(RowsOfFile)]
    <3>1. ASSUME NEW k \in Keys, Recorded(k) # {}
          PROVE  ReadState[k] \in Optional(RowsOfFile)
      <4> DEFINE last == CHOOSE i \in Recorded(k) : \A j \in Recorded(k) : j <= i
      <4>1. Recorded(k) \subseteq 1 .. 5
        BY CatalogsAreKinds DEF Recorded
      <4>2. last \in Recorded(k)
        BY <3>1, <4>1, LastOfFew
      <4>3. Catalogs[last] \in Kinds
        BY <4>1, <4>2, CatalogsAreKinds
      <4>4. catalogs[Catalogs[last]][k] \in Optional(RowsOfFile)
        BY <4>3 DEF TypeOK, TreeOK
      <4>5. ReadState[k] = catalogs[Catalogs[last]][k]
        BY <3>1 DEF ReadState
      <4> QED BY <4>4, <4>5
    <3>2. \A k \in Keys : ReadState[k] \in Optional(RowsOfFile)
      <4> TAKE k \in Keys
      <4>1. CASE Recorded(k) = {}  BY <4>1 DEF ReadState, Optional
      <4> QED BY <3>1, <4>1
    <3>3. ReadState = [k \in Keys |-> ReadState[k]]
      BY DEF ReadState
    <3> HIDE DEF ReadState
    <3> QED BY <3>2, <3>3
  <2>2. state' \in [Keys -> Optional(RowsOfFile)]
    BY <1>2, <2>1 DEF Plan, Nothing, Optional
  <2>3. selected' \subseteq Listed /\ pc' = "lookup"
    BY <1>2 DEF Plan
  <2>4. missing' = {} /\ sentences' = {} /\ merged' = 0
    BY <1>2 DEF Plan, fetched, Assembled, TypeOK, FetchedOK
  <2> QED
    BY <1>2, <2>2, <2>3, <2>4
       DEF Plan, TypeOK, DatabaseOK, database, TreeOK, tree, CacheOK, CachedStructures, CachedBodies, cache, PlannedOK, FetchedOK,
           fetched, HistoryOK, Listed, Assembled, Fetching, Writing, Optional, StageNames
<1> QED BY <1>1, <1>2

\* What the reads bring has the type of a reading.
LEMMA LookupShape == ASSUME Shape, Lookup PROVE Shape'
<1> USE DEF Shape
<1> DEFINE hits == {k \in selected : Cached(k)}
<1>1. /\ missing' = selected \ hits
      /\ structures' = [k \in Keys |-> IF k \in hits THEN cachedStructures[k].value ELSE None]
      /\ definitions' = [k \in Keys |->
           IF k \in hits /\ objects[k].kind \in Modules THEN cachedModules[k].value ELSE None]
      /\ pc' = IF selected = hits THEN "describe" ELSE "columns"
      /\ UNCHANGED <<database, tree, cache, planned, sentences, merged, history>>
  BY DEF Lookup
<1>2. \A k \in hits : k \in Keys /\ cachedStructures[k].value \in Structures
  BY DEF Cached, Proven, TypeOK, CacheOK, CachedStructures, CachedBodies, PlannedOK, Listed, Optional
<1>3. \A k \in hits : objects[k].kind \in Modules => cachedModules[k].value \in Bodies
  BY <1>2 DEF Cached, Proven, TypeOK, CacheOK, CachedStructures, CachedBodies, Optional
<1>4. /\ structures' \in [Keys -> Optional(Structures)]
      /\ definitions' \in [Keys -> Optional(Bodies)]
      /\ \A k \in selected \ missing' : structures'[k] \in Structures
      /\ \A k \in missing' : definitions'[k] = None
  <2> HIDE DEF hits
  <2>1. hits \subseteq selected /\ selected \subseteq Keys
    BY DEF hits, TypeOK, PlannedOK, Listed
  <2> QED BY <1>1, <1>2, <1>3, <2>1 DEF Optional
<1>5. pc' = "describe" => missing' = {}
  BY <1>1
<1> HIDE DEF hits
<1>6. missing' \subseteq selected' /\ pc' \in {"describe", "columns"} /\ merged' = 0
  BY <1>1 DEF planned, Lookup, Assembled
<1>7. selected' = selected
  BY <1>1 DEF planned
<1>8. Assembled'
  BY <1>4, <1>5, <1>6, <1>7 DEF Assembled, Fetching, Writing
<1>9. PlannedOK' /\ FetchedOK'
  BY <1>1, <1>4, <1>6 DEF TypeOK, PlannedOK, planned, FetchedOK, Listed, StageNames, Lookup
<1> QED
  BY <1>1, <1>8, <1>9
     DEF TypeOK, DatabaseOK, database, TreeOK, tree, CacheOK, CachedStructures, CachedBodies, cache, HistoryOK, history

LEMMA ReadColumnsShape == ASSUME Shape, ReadColumns PROVE Shape'
<1> USE DEF Shape
<1>1. \A k \in Keys : db[k] # None => StructureOf(db[k]).columns \in Text
  BY ReadingTypes DEF TypeOK, DatabaseOK, Optional, Structures
<1>2. \A k \in missing : structures'[k] \in Structures
  BY <1>1, EmptyTypes DEF ReadColumns, Structures, TypeOK, FetchedOK, PlannedOK, Listed
<1>3. \A k \in Keys \ missing : structures'[k] = structures[k]
  BY DEF ReadColumns
<1>4. structures' \in [Keys -> Optional(Structures)]
  <2>1. \A k \in Keys : structures'[k] \in Optional(Structures)
    BY <1>2, <1>3 DEF TypeOK, FetchedOK, Optional
  <2> QED BY <2>1 DEF ReadColumns
<1> QED
  BY <1>2, <1>3, <1>4
     DEF ReadColumns, TypeOK, DatabaseOK, database, TreeOK, tree, CacheOK, CachedStructures, CachedBodies, cache, PlannedOK, planned,
         FetchedOK, HistoryOK, history, Listed, Assembled, Fetching, Writing, StageNames

LEMMA ReadIndexesShape == ASSUME Shape, ReadIndexes PROVE Shape'
<1> USE DEF Shape
<1>1. \A k \in Keys : db[k] # None => StructureOf(db[k]).indexes \in Text
  BY ReadingTypes DEF TypeOK, DatabaseOK, Optional, Structures
<1>2. \A k \in missing : structures'[k] \in Structures
  BY <1>1 DEF ReadIndexes, Structures, TypeOK, FetchedOK, PlannedOK, Listed, Assembled
<1>3. \A k \in Keys \ missing : structures'[k] = structures[k]
  BY DEF ReadIndexes
<1>4. structures' \in [Keys -> Optional(Structures)]
  <2>1. \A k \in Keys : structures'[k] \in Optional(Structures)
    BY <1>2, <1>3 DEF TypeOK, FetchedOK, Optional
  <2> QED BY <2>1 DEF ReadIndexes
<1>5. pc = "indexes" /\ pc' \in {"modules", "store"}
  BY DEF ReadIndexes
<1> QED
  BY <1>2, <1>3, <1>4, <1>5
     DEF ReadIndexes, TypeOK, DatabaseOK, database, TreeOK, tree, CacheOK, CachedStructures, CachedBodies, cache, PlannedOK, planned,
         FetchedOK, HistoryOK, history, Listed, Assembled, Fetching, Writing, StageNames

LEMMA ReadModulesShape == ASSUME Shape, ReadModules PROVE Shape'
<1> USE DEF Shape
<1>1. \A k \in Keys : db[k] # None => BodyOf(db[k]) \in Bodies
  BY ReadingTypes DEF TypeOK, DatabaseOK, Optional
<1>2. definitions' \in [Keys -> Optional(Bodies)]
  BY <1>1 DEF ReadModules, TypeOK, FetchedOK, Optional
<1> QED
  BY <1>2
     DEF ReadModules, TypeOK, DatabaseOK, database, TreeOK, tree, CacheOK, CachedStructures, CachedBodies, cache, PlannedOK, planned,
         FetchedOK, HistoryOK, history, Listed, Assembled, Fetching, Writing, StageNames

LEMMA StoreShape == ASSUME Shape, Store PROVE Shape'
<1> USE DEF Shape
<1>1. PICK refused \in (SUBSET missing) \X (SUBSET missing) :
        /\ cachedStructures' = [k \in Keys |->
             IF k \in missing \ refused[1]
             THEN [signal |-> objects[k].modified, value |-> structures[k]]
             ELSE cachedStructures[k]]
        /\ cachedModules' = [k \in Keys |->
             IF k \in missing \ refused[2] /\ definitions[k] # None
             THEN [signal |-> objects[k].modified, value |-> Trim(definitions[k])]
             ELSE cachedModules[k]]
  BY DEF Store
<1>2. \A k \in missing : objects[k].modified \in Nat /\ structures[k] \in Structures
  BY DEF Store, Assembled, TypeOK, PlannedOK, FetchedOK, Listed, Optional, Listings
<1>3. \A k \in Keys : definitions[k] # None => Trim(definitions[k]) \in Bodies
  BY TrimType DEF TypeOK, FetchedOK, Optional
<1>4. CacheOK'
  BY <1>1, <1>2, <1>3 DEF TypeOK, CacheOK, CachedStructures, CachedBodies, Optional
<1>5. pc = "store" /\ pc' = "describe" /\ UNCHANGED <<database, tree, planned, fetched, sentences, merged, history>>
  BY DEF Store
<1> QED
  BY <1>4, <1>5
     DEF TypeOK, DatabaseOK, database, TreeOK, tree, PlannedOK, planned,
         FetchedOK, fetched, HistoryOK, history, Listed, Assembled, Fetching, Writing, StageNames

LEMMA DescribeShape == ASSUME Shape, Describe PROVE Shape'
<1> USE DEF Shape
<1>1. PICK silent \in SUBSET Todo : sentences' = Todo \ silent /\ reported' = reported \cup silent
  BY DEF Describe
<1>2. Todo \subseteq selected /\ selected \subseteq Keys
  BY DEF Todo, TypeOK, PlannedOK, Listed
<1>3. /\ pc = "describe" /\ pc' = "merge" /\ merged = 0
      /\ UNCHANGED <<database, tree, cache, planned, fetched, merged, untouched, published>>
  BY DEF Describe, Assembled
<1>4. sentences' \subseteq selected /\ reported' \subseteq Keys
  BY <1>1, <1>2 DEF TypeOK, HistoryOK
<1>5. Assembled'
  BY <1>3, CatalogsAreKinds DEF Assembled, Fetching, Writing, planned, fetched
<1>6. PlannedOK' /\ FetchedOK'
  BY <1>3, <1>4 DEF TypeOK, PlannedOK, planned, FetchedOK, fetched, Listed, StageNames
<1> QED
  BY <1>3, <1>4, <1>5, <1>6
     DEF TypeOK, DatabaseOK, database, TreeOK, tree, CacheOK, CachedStructures, CachedBodies, cache, HistoryOK

\* What the writes leave on disk has the types the next build reads.
LEMMA MergedRowsType ==
  ASSUME Shape, pc = "merge", NEW c \in Kinds
  PROVE  MergedRows(c) \in [Keys -> Optional(RowsOfFile)]
<1>1. \A k \in selected : EntryRow(k) \in RowsOfFile
  BY EntryTypes DEF Shape, Assembled, Writing
<1>2. catalogs[c] \in [Keys -> Optional(RowsOfFile)]
  BY DEF Shape, TypeOK, TreeOK
<1> QED BY <1>1, <1>2 DEF MergedRows, Optional

LEMMA MergeShape == ASSUME Shape, Merge PROVE Shape'
<1> USE DEF Shape
<1>1. merged \in 0 .. 4 /\ pc = "merge"
  BY CatalogsAreKinds DEF Merge, Assembled, TypeOK, FetchedOK
<1>2. Catalogs[merged + 1] \in Kinds
  BY <1>1, CatalogsAreKinds
<1>3. catalogs' \in [Kinds -> [Keys -> Optional(RowsOfFile)]]
  <2>1. catalogs' = [catalogs EXCEPT ![Catalogs[merged + 1]] = MergedRows(Catalogs[merged + 1])]
    BY DEF Merge
  <2> QED BY <1>1, <1>2, <2>1, MergedRowsType DEF TypeOK, TreeOK
<1>4. /\ pc' \in {"merge", "columnFiles"} /\ merged' \in 0 .. Len(Catalogs)
      /\ pc' = "merge" => merged' < Len(Catalogs)
      /\ UNCHANGED <<database, columnFiles, bodyFiles, cache, planned, fetched, sentences, history>>
  BY <1>1, CatalogsAreKinds DEF Merge
<1>5. Assembled'
  BY <1>1, <1>4 DEF Assembled, Fetching, Writing, planned, fetched
<1>6. PlannedOK' /\ FetchedOK'
  BY <1>1, <1>4 DEF TypeOK, PlannedOK, planned, FetchedOK, fetched, Listed, StageNames
<1> QED
  BY <1>3, <1>4, <1>5, <1>6
     DEF TypeOK, DatabaseOK, database, TreeOK, CacheOK, CachedStructures, CachedBodies, cache, HistoryOK, history

LEMMA FilesTypes ==
  ASSUME Shape, Writing
  PROVE  /\ \A k \in Keys : WritesColumns(k) => ColumnsFile(k) \in ColumnFiles
         /\ \A k \in Keys : WritesBody(k) => BodyFile(k) \in BodyFiles
BY EntryTypes
   DEF Shape, Assembled, WritesColumns, WritesBody, ColumnsFile, BodyFile, ColumnFiles, BodyFiles

LEMMA WriteColumnsShape == ASSUME Shape, WriteColumns PROVE Shape'
<1> USE DEF Shape
<1>1. pc = "columnFiles" /\ pc' = "bodyFiles"
  BY DEF WriteColumns
<1>2. columnFiles' \in [Keys -> ColumnFiles \cup {None, Torn}]
  BY <1>1, FilesTypes DEF WriteColumns, Writing, TypeOK, TreeOK
<1> QED
  BY <1>1, <1>2
     DEF WriteColumns, TypeOK, DatabaseOK, database, TreeOK, CacheOK, CachedStructures, CachedBodies, cache, PlannedOK, planned,
         FetchedOK, fetched, HistoryOK, history, Listed, Assembled, Fetching, Writing, StageNames

LEMMA WriteBodiesShape == ASSUME Shape, WriteBodies PROVE Shape'
<1> USE DEF Shape
<1>1. pc = "bodyFiles" /\ pc' = "remove"
  BY DEF WriteBodies
<1>2. bodyFiles' \in [Keys -> BodyFiles \cup {None, Torn}]
  BY <1>1, FilesTypes DEF WriteBodies, Writing, TypeOK, TreeOK
<1> QED
  BY <1>1, <1>2
     DEF WriteBodies, TypeOK, DatabaseOK, database, TreeOK, CacheOK, CachedStructures, CachedBodies, cache, PlannedOK, planned,
         FetchedOK, fetched, HistoryOK, history, Listed, Assembled, Fetching, Writing, StageNames

LEMMA RemoveShape == ASSUME Shape, Remove PROVE Shape'
<1> USE DEF Shape
<1>1. columnFiles' \in [Keys -> ColumnFiles \cup {None, Torn}] /\ bodyFiles' \in [Keys -> BodyFiles \cup {None, Torn}]
  BY DEF Remove, TypeOK, TreeOK
<1>2. published' \subseteq Keys
  BY DEF Remove, Covered, TypeOK, HistoryOK
<1> QED
  BY <1>1, <1>2, ForgetShape
     DEF Remove, TypeOK, DatabaseOK, database, TreeOK, CacheOK, CachedStructures, CachedBodies, cache, HistoryOK

\* Nor does a build that stops leave anything else.
LEMMA TornMergeShape == ASSUME Shape, TornMerge PROVE Shape'
<1> USE DEF Shape
<1>1. merged \in 0 .. 4 /\ pc = "merge"
  BY CatalogsAreKinds DEF TornMerge, Assembled, TypeOK, FetchedOK
<1> DEFINE c == Catalogs[merged + 1]
<1>2. c \in Kinds
  BY <1>1, CatalogsAreKinds
<1>3. PICK last \in Keys :
        \E end \in IF MergedRows(c)[last] = None THEN {None} ELSE CutShort(MergedRows(c)[last]) :
          catalogs' = [catalogs EXCEPT ![c] = [k \in Keys |->
            IF k < last THEN MergedRows(c)[k] ELSE IF k = last THEN end ELSE None]]
  BY DEF TornMerge
<1>4. PICK end \in IF MergedRows(c)[last] = None THEN {None} ELSE CutShort(MergedRows(c)[last]) :
        catalogs' = [catalogs EXCEPT ![c] = [k \in Keys |->
          IF k < last THEN MergedRows(c)[k] ELSE IF k = last THEN end ELSE None]]
  BY <1>3
<1>5. MergedRows(c) \in [Keys -> Optional(RowsOfFile)]
  BY <1>1, <1>2, MergedRowsType
<1>6. end \in Optional(RowsOfFile)
  <2>1. CASE MergedRows(c)[last] = None
    BY <1>4, <2>1 DEF Optional
  <2>2. CASE MergedRows(c)[last] \in RowsOfFile /\ MergedRows(c)[last] # None
    BY <1>4, <2>2 DEF CutShort, Optional, RowsOfFile
  <2> QED BY <1>5, <2>1, <2>2 DEF Optional
<1>7. catalogs' \in [Kinds -> [Keys -> Optional(RowsOfFile)]]
  <2> HIDE DEF c
  <2>1. [k \in Keys |-> IF k < last THEN MergedRows(c)[k] ELSE IF k = last THEN end ELSE None]
          \in [Keys -> Optional(RowsOfFile)]
    BY <1>5, <1>6 DEF Optional
  <2> QED BY <1>2, <1>4, <2>1 DEF TypeOK, TreeOK
<1> QED
  BY <1>7, ForgetShape
     DEF TornMerge, TypeOK, DatabaseOK, database, TreeOK, CacheOK, CachedStructures, CachedBodies, cache, HistoryOK

LEMMA StopInColumnsShape == ASSUME Shape, StopInColumns PROVE Shape'
<1> USE DEF Shape
<1>1. columnFiles' \in [Keys -> ColumnFiles \cup {None, Torn}]
  <2>1. PICK last \in Keys : \E end \in Ends(columnFiles, last) :
          columnFiles' = PartOf(columnFiles,
            [k \in Keys |-> IF WritesColumns(k) THEN ColumnsFile(k) ELSE None], last, end)
    BY DEF StopInColumns
  <2>2. PICK end \in Ends(columnFiles, last) :
          columnFiles' = PartOf(columnFiles,
            [k \in Keys |-> IF WritesColumns(k) THEN ColumnsFile(k) ELSE None], last, end)
    BY <2>1
  <2>3. end \in ColumnFiles \cup {None, Torn}
    BY DEF Ends, TypeOK, TreeOK
  <2>4. \A k \in Keys : WritesColumns(k) => ColumnsFile(k) \in ColumnFiles
    BY FilesTypes DEF StopInColumns, Writing
  <2> QED BY <2>2, <2>3, <2>4 DEF PartOf, TypeOK, TreeOK
<1> QED
  BY <1>1, ForgetShape
     DEF StopInColumns, TypeOK, DatabaseOK, database, TreeOK, CacheOK, CachedStructures, CachedBodies, cache, HistoryOK

LEMMA StopInBodiesShape == ASSUME Shape, StopInBodies PROVE Shape'
<1> USE DEF Shape
<1>1. bodyFiles' \in [Keys -> BodyFiles \cup {None, Torn}]
  <2>1. PICK last \in Keys : \E end \in Ends(bodyFiles, last) :
          bodyFiles' = PartOf(bodyFiles,
            [k \in Keys |-> IF WritesBody(k) THEN BodyFile(k) ELSE None], last, end)
    BY DEF StopInBodies
  <2>2. PICK end \in Ends(bodyFiles, last) :
          bodyFiles' = PartOf(bodyFiles,
            [k \in Keys |-> IF WritesBody(k) THEN BodyFile(k) ELSE None], last, end)
    BY <2>1
  <2>3. end \in BodyFiles \cup {None, Torn}
    BY DEF Ends, TypeOK, TreeOK
  <2>4. \A k \in Keys : WritesBody(k) => BodyFile(k) \in BodyFiles
    BY FilesTypes DEF StopInBodies, Writing
  <2> QED BY <2>2, <2>3, <2>4 DEF PartOf, TypeOK, TreeOK
<1> QED
  BY <1>1, ForgetShape
     DEF StopInBodies, TypeOK, DatabaseOK, database, TreeOK, CacheOK, CachedStructures, CachedBodies, cache, HistoryOK

LEMMA StopShape == ASSUME Shape, Stop \/ StopInRemove PROVE Shape'
<1> USE DEF Shape
<1>1. columnFiles' \in [Keys -> ColumnFiles \cup {None, Torn}] /\ bodyFiles' \in [Keys -> BodyFiles \cup {None, Torn}]
  <2>1. CASE Stop
    BY <2>1 DEF Stop, tree, TypeOK, TreeOK
  <2>2. CASE StopInRemove
    BY <2>2 DEF StopInRemove, TypeOK, TreeOK
  <2> QED BY <2>1, <2>2
<1>2. Forget /\ UNCHANGED <<database, catalogs, cache, published, reported>>
  BY DEF Stop, StopInRemove, tree
<1> QED
  BY <1>1, <1>2, ForgetShape
     DEF TypeOK, DatabaseOK, database, TreeOK, CacheOK, CachedStructures, CachedBodies, cache, HistoryOK

LEMMA NextShape == ASSUME Shape, [Next]_vars PROVE Shape'
<1>1. CASE Next
  <2>1. CASE Progress
    BY <2>1, PlanShape, LookupShape, ReadColumnsShape, ReadIndexesShape, ReadModulesShape, StoreShape,
       DescribeShape, MergeShape, WriteColumnsShape, WriteBodiesShape, RemoveShape DEF Progress
  <2>2. CASE Failures
    BY <2>2, StopShape, TornMergeShape, StopInColumnsShape, StopInBodiesShape DEF Failures
  <2> QED BY <1>1, <2>1, <2>2, DatabaseShape, ManifestShape DEF Next
<1>2. CASE UNCHANGED vars
  BY <1>2
     DEF vars, database, tree, cache, build, planned, fetched, history, Shape, TypeOK, DatabaseOK,
         TreeOK, CacheOK, CachedStructures, CachedBodies, PlannedOK, FetchedOK, HistoryOK, Listed, Assembled, Fetching, Writing
<1> QED BY <1>1, <1>2

\* Every step of every build, whichever way it ends, and every change of the
\* database leaves the disk, the cache and the running build well typed, with
\* everything assembled that the stage it is in relies on: no stage of
\* index.Build meets a missing structure, and no catalog is merged a sixth time.
THEOREM TypesHold == Spec => [](TypeOK /\ Assembled)
<1>1. Init => Shape
  BY InitShape
<1>2. Shape /\ [Next]_vars => Shape'
  BY NextShape
<1> QED BY <1>1, <1>2, PTL DEF Spec, Shape
=============================================================================
