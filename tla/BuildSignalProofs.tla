------------------------- MODULE BuildSignalProofs -------------------------
(***************************************************************************)
(* The modify signal never misses a change: SignalProves, for every value  *)
(* of the constants under which two changes never share a signal.          *)
(***************************************************************************)
EXTENDS BuildProofs

USE DEF NoSignal

\* What a row of one catalog has to be for its signal to prove its content.
Sound(row, c, k) ==
  (row # None /\ db[k] # None /\ Same(row.modified, db[k].modified)) =>
    /\ c = db[k].kind
    /\ row.fingerprint # Torn => \E f \in Fingerprints(db[k]) : row.fingerprint.text = f.text

LEMMA SignalProvesIsSound == SignalProves <=> \A c \in Kinds, k \in Keys : Sound(catalogs[c][k], c, k)
BY DEF SignalProves, Sound

-----------------------------------------------------------------------------
(* Content and signals.                                                     *)

\* Of an object's listing, only the kind decides which text is hashed.
LEMMA FingerprintText ==
  ASSUME NEW o, NEW p, NEW s, NEW b, o.kind = p.kind
  PROVE  Fingerprint(o, s, b).text = Fingerprint(p, s, b).text
BY DEF Fingerprint

\* Two objects of one kind and content read the same, and hash the same text.
LEMMA SameContent ==
  ASSUME NEW o, NEW p, o.kind = p.kind, o.content = p.content
  PROVE  /\ StructureOf(o) = StructureOf(p) /\ BodyOf(o) = BodyOf(p)
         /\ Readings(o) = Readings(p)
         /\ \A f \in Fingerprints(o) : \E g \in Fingerprints(p) : f.text = g.text
<1>1. StructureOf(o) = StructureOf(p) /\ BodyOf(o) = BodyOf(p)
  BY DEF StructureOf, BodyOf, HasBody
<1>2. Readings(o) = Readings(p)
  BY <1>1 DEF Readings
<1>3. \A b \in Readings(o) :
        Fingerprint(o, StructureOf(o), b).text = Fingerprint(p, StructureOf(p), b).text
  BY <1>1, FingerprintText
<1> QED BY <1>1, <1>2, <1>3 DEF Fingerprints

\* What may happen to the database in one step, as far as the invariant goes:
\* an object is gone, carries a signal nothing has recorded, or is what it was
\* but for its counts.
LEMMA DatabaseStep ==
  ASSUME Shape, Stamps, Coarse = FALSE, Database
  PROVE  /\ now <= now' /\ engine' = engine /\ (engine = "postgres" => now' = 0)
         /\ UNCHANGED <<tree, cache, build>>
         /\ untouched' \subseteq untouched
         /\ \A k \in Keys : db'[k] # None => db'[k].modified <= now'
         /\ \A k \in Keys :
              \/ db'[k] = db[k]
              \/ db'[k] = None /\ k \notin untouched'
              \/ k \notin untouched' /\ \A t \in Nat : t <= now => ~Same(t, db'[k].modified)
              \/ /\ k \notin untouched' /\ db[k] # None /\ db'[k].kind = db[k].kind
                 /\ db'[k].content = db[k].content /\ db'[k].modified = db[k].modified
<1>1. PICK k \in Keys : Deploy(k) \/ Drop(k) \/ Grow(k)
  BY DEF Database
<1>2. db \in [Keys -> Optional(Object)] /\ now \in Nat /\ engine \in {"sqlserver", "postgres"}
  BY EnginesAssumption, ClockAssumption DEF Shape, TypeOK, DatabaseOK
<1>3. \A j \in Keys : db[j] # None => db[j].modified <= now /\ db[j].modified \in Nat
  BY <1>2 DEF Stamps, Optional, Object
<1>4. CASE Deploy(k)
  <2>1. PICK kind \in KindsOf[k], signal \in Signals : \E content \in Content(kind) :
          /\ Touch(k, [kind |-> kind, modified |-> signal, content |-> content,
                       rows     |-> IF db[k] = None THEN 0 ELSE db[k].rows,
                       triggers |-> IF db[k] = None THEN 0 ELSE db[k].triggers])
          /\ now' = signal
    BY <1>4 DEF Deploy
  <2>2. PICK o : Touch(k, o) /\ o.modified = signal
    BY <2>1
  <2>3. \/ engine = "postgres" /\ signal = 0 /\ now = 0
        \/ engine # "postgres" /\ signal = now + 1
    <3>1. CASE engine = "postgres"
      BY <3>1 DEF Signals, Stamps
    <3>2. CASE engine # "postgres"
      <4>1. signal \in {now, now + 1} /\ (signal = now => Coarse)
        BY <3>2 DEF Signals
      <4>2. signal # now
        BY <4>1
      <4> QED BY <3>2, <4>1, <4>2
    <3> QED BY <3>1, <3>2
  <2>4. \A t \in Nat : t <= now => ~Same(t, signal)
    BY <1>2, <2>3 DEF Same
  <2> QED
    BY <1>1, <1>2, <1>3, <2>1, <2>2, <2>3, <2>4 DEF Touch
<1>5. CASE Drop(k)
  BY <1>1, <1>2, <1>3, <1>5 DEF Drop, Touch, Stamps
<1>6. CASE Grow(k)
  <2>1. PICK r \in Rows, t \in Triggers : Touch(k, [db[k] EXCEPT !.rows = r, !.triggers = t])
    BY <1>6 DEF Grow
  <2>2. db[k] # None /\ db[k] \in Object /\ now' = now
    BY <1>2, <1>6 DEF Grow, Optional
  <2>3. /\ [db[k] EXCEPT !.rows = r, !.triggers = t].kind = db[k].kind
        /\ [db[k] EXCEPT !.rows = r, !.triggers = t].content = db[k].content
        /\ [db[k] EXCEPT !.rows = r, !.triggers = t].modified = db[k].modified
    BY <2>2 DEF Object
  <2> QED BY <1>1, <1>2, <1>3, <2>1, <2>2, <2>3 DEF Touch, Stamps
<1> QED BY <1>1, <1>4, <1>5, <1>6

-----------------------------------------------------------------------------
(* The invariant, step by step.                                             *)

\* All of it but the types and the rows, which have lemmas of their own.
Vouched == Stamps /\ ListingStands /\ KindsAttested /\ CacheVouched /\ ReadsAttested

LEMMA InitSignal == Init => SignalInv
<1> SUFFICES ASSUME Init PROVE SignalInv
  OBVIOUS
<1>1. Stamps /\ ListingStands /\ KindsAttested /\ CacheVouched /\ ReadsAttested /\ SignalProves
  BY DEF Init, Stamps, ListingStands, KindsAttested, CacheVouched, ReadsAttested, SignalProves,
         Nothing, Listed, Attested
<1> QED BY <1>1, InitShape DEF SignalInv, Shape

\* A build that is over holds nothing that has to be vouched for.
LEMMA ForgetVouched ==
  ASSUME SignalInv, Forget, UNCHANGED <<database, cache>>,
         \A c \in Kinds, k \in Keys : catalogs'[c][k] # None => catalogs'[c][k].modified <= now
  PROVE  Vouched'
BY DEF SignalInv, Vouched, Forget, database, cache, Nothing, Stamps, ListingStands, KindsAttested,
       Listed, CacheVouched, Vouches, ReadsAttested, Attested

\* A row is sound for as long as nothing about its object or itself changes.
LEMMA SoundStays ==
  ASSUME SignalProves, UNCHANGED <<database, catalogs>> PROVE SignalProves'
BY DEF SignalProves, database, Fingerprints, Readings

LEMMA DatabaseVouched == ASSUME SignalInv, Coarse = FALSE, Database PROVE Vouched' /\ SignalProves'
<1> USE DEF SignalInv
<1>1. Shape
  BY DEF Shape
<1>2. /\ now <= now' /\ engine' = engine /\ (engine = "postgres" => now' = 0)
      /\ UNCHANGED <<tree, cache, build>> /\ untouched' \subseteq untouched
      /\ \A k \in Keys : db'[k] # None => db'[k].modified <= now'
  BY <1>1, DatabaseStep
<1>3. /\ now \in Nat /\ now' \in Nat
      /\ \A k \in Keys :
           /\ objects[k] # None => objects[k].modified \in Nat
           /\ cachedStructures[k] # None => cachedStructures[k].signal \in Nat
           /\ cachedModules[k] # None => cachedModules[k].signal \in Nat
           /\ \A c \in Kinds : catalogs[c][k] # None => catalogs[c][k].modified \in Nat
  <2>1. Shape'
    BY <1>1, DatabaseShape
  <2> QED
    BY <2>1, ClockAssumption DEF Shape, TypeOK, DatabaseOK, TreeOK, CacheOK, CachedStructures, CachedBodies, PlannedOK, Optional, Listings, RowsOfFile
<1>4. Stamps'
  BY <1>2, <1>3 DEF Stamps, tree, cache, build, planned
<1>5. ListingStands'
  <2>1. \A k \in untouched' : db'[k] = db[k]
    BY <1>1, DatabaseStep DEF Shape, TypeOK, HistoryOK
  <2> QED BY <1>2, <2>1 DEF ListingStands, build, planned, Listing
\* Whatever was attested still is, and what attests it is what it was.
<1>6. ASSUME NEW k \in Keys, db'[k] # None,
             NEW t \in Nat, t <= now, k \in untouched' \/ Same(t, db'[k].modified)
      PROVE  /\ db[k] # None /\ (k \in untouched \/ Same(t, db[k].modified))
             /\ db'[k].kind = db[k].kind /\ db'[k].content = db[k].content
             /\ db'[k].modified = db[k].modified
  BY <1>1, <1>2, <1>6, DatabaseStep
<1>7. ASSUME NEW k \in Keys, db[k].kind = db'[k].kind, db[k].content = db'[k].content
      PROVE  /\ StructureOf(db'[k]) = StructureOf(db[k]) /\ BodyOf(db'[k]) = BodyOf(db[k])
             /\ Readings(db'[k]) = Readings(db[k])
  BY <1>7, SameContent
<1>8. KindsAttested'
  BY <1>2, <1>3, <1>6 DEF KindsAttested, Stamps, Listed, build, planned
<1>9. CacheVouched'
  <2> SUFFICES ASSUME NEW k \in Keys
               PROVE /\ (cachedStructures[k] # None /\ Vouches(cachedStructures[k].signal, k)') =>
                          cachedStructures[k].value = StructureOf(db'[k])
                     /\ (cachedModules[k] # None /\ Vouches(cachedModules[k].signal, k)') =>
                          cachedModules[k].value = Trim(BodyOf(db'[k]))
    BY <1>2 DEF CacheVouched, cache, Vouches
  <2>1. ASSUME NEW t \in Nat, t <= now, db'[k] # None, Same(t, db'[k].modified)
        PROVE  /\ db[k] # None /\ Same(t, db[k].modified)
               /\ StructureOf(db'[k]) = StructureOf(db[k]) /\ BodyOf(db'[k]) = BodyOf(db[k])
    BY <2>1, <1>6, <1>7
  <2> QED BY <1>2, <1>3, <2>1 DEF CacheVouched, Vouches, Stamps, cache
<1>10. ReadsAttested'
  <2>1. ASSUME NEW k \in Keys, Attested(k)'
        PROVE  /\ Attested(k) /\ StructureOf(db'[k]) = StructureOf(db[k])
               /\ BodyOf(db'[k]) = BodyOf(db[k]) /\ Readings(db'[k]) = Readings(db[k])
    <3>1. k \in selected /\ objects[k] # None /\ db'[k] # None
          /\ (k \in untouched' \/ Same(objects[k].modified, db'[k].modified))
      BY <1>2, <2>1 DEF Attested, build, planned, TypeOK, PlannedOK, Listed
    <3>2. objects[k].modified \in Nat /\ objects[k].modified <= now
      BY <1>3, <3>1 DEF Stamps
    <3>3. /\ db[k] # None /\ (k \in untouched \/ Same(objects[k].modified, db[k].modified))
          /\ db[k].kind = db'[k].kind /\ db[k].content = db'[k].content
      BY <1>6, <3>1, <3>2
    <3> QED BY <1>7, <3>1, <3>3 DEF Attested
  <2>2. UNCHANGED <<pc, selected, missing, structures, definitions>>
    BY <1>2 DEF build, planned, fetched
  <2> QED BY <2>1, <2>2 DEF ReadsAttested, Whole, Fetching, Writing, EntryBody
<1>11. SignalProves'
  <2> SUFFICES ASSUME NEW c \in Kinds, NEW k \in Keys, catalogs[c][k] # None, db'[k] # None,
                      Same(catalogs[c][k].modified, db'[k].modified)
               PROVE  /\ c = db'[k].kind
                      /\ catalogs[c][k].fingerprint # Torn =>
                           \E f \in Fingerprints(db'[k]) : catalogs[c][k].fingerprint.text = f.text
    BY <1>2 DEF SignalProves, tree, Fingerprints, Readings
  <2>1. /\ db[k] # None /\ Same(catalogs[c][k].modified, db[k].modified)
        /\ db'[k].kind = db[k].kind /\ db'[k].content = db[k].content
    BY <1>3, <1>6 DEF Stamps, Same
  <2>2. \A f \in Fingerprints(db[k]) : \E g \in Fingerprints(db'[k]) : f.text = g.text
    BY <2>1, SameContent
  <2> QED BY <2>1, <2>2 DEF SignalProves
<1> QED BY <1>4, <1>5, <1>8, <1>9, <1>10, <1>11 DEF Vouched

\* What an attested object is known to be.
LEMMA AttestedObject ==
  ASSUME SignalInv, NEW k \in Keys, Attested(k)
  PROVE  /\ k \in selected /\ db[k] \in Object /\ objects[k] \in Listings
         /\ objects[k].kind = db[k].kind /\ objects[k].modified = db[k].modified
<1> USE DEF SignalInv
<1>1. k \in selected /\ db[k] \in Object /\ db[k] # None /\ objects[k] \in Listings /\ k \in Listed
  BY DEF Attested, TypeOK, DatabaseOK, PlannedOK, Listed, Optional
<1>2. objects[k].kind = db[k].kind
  BY <1>1 DEF Attested, KindsAttested
<1>3. objects[k].modified = db[k].modified
  <2>1. CASE k \in untouched
    <3>1. objects[k] = Listing(db[k])
      BY <1>1, <2>1 DEF ListingStands
    <3> QED BY <3>1 DEF Listing
  <2>2. CASE Same(objects[k].modified, db[k].modified)
    BY <2>2 DEF Same
  <2> QED BY <2>1, <2>2 DEF Attested
<1> QED BY <1>1, <1>2, <1>3

LEMMA ManifestVouched ==
  ASSUME SignalInv, NEW o \in Options, Manifest(o) PROVE Vouched' /\ SignalProves'
<1> USE DEF SignalInv
<1>1. /\ objects' = [k \in Keys |-> IF db[k] = None THEN None ELSE Listing(db[k])]
      /\ untouched' = Keys /\ selected' = {}
      /\ UNCHANGED <<database, tree, cache>>
  BY DEF Manifest, Assembled
<1>2. Stamps'
  BY <1>1 DEF Stamps, database, tree, cache, Listing
<1>3. ListingStands' /\ KindsAttested'
  BY <1>1 DEF ListingStands, KindsAttested, Listed, database, Listing
<1>4. CacheVouched' /\ ReadsAttested'
  BY <1>1 DEF CacheVouched, Vouches, ReadsAttested, Attested, database, cache
<1> QED BY <1>1, <1>2, <1>3, <1>4, SoundStays DEF Vouched, tree

LEMMA PlanVouched == ASSUME SignalInv, Plan PROVE Vouched' /\ SignalProves'
<1> USE DEF SignalInv
<1>1. UNCHANGED <<database, tree, cache>>
  BY DEF Plan
<1>2. SignalProves'
  BY <1>1, SoundStays DEF tree
<1>3. CASE opts.dry
  BY <1>1, <1>2, <1>3, ForgetVouched DEF Plan, tree, Stamps
<1>4. CASE ~opts.dry
  <2>1. pc' = "lookup" /\ UNCHANGED <<objects, untouched>>
    BY <1>4 DEF Plan
  <2> QED
    BY <1>1, <1>2, <2>1
       DEF Vouched, Stamps, ListingStands, KindsAttested, CacheVouched, Vouches, ReadsAttested,
           Listed, Fetching, Writing, database, tree, cache
<1> QED BY <1>3, <1>4

\* A step that reads or asks: it keeps the database, the disk and the plan.
LEMMA ReadsVouched ==
  ASSUME SignalInv, UNCHANGED <<database, tree, cache, objects, selected, untouched>>, ReadsAttested'
  PROVE  Vouched' /\ SignalProves'
<1> USE DEF SignalInv
<1>1. SignalProves'
  BY SoundStays DEF tree
<1> QED
  BY <1>1 DEF Vouched, Stamps, ListingStands, KindsAttested, CacheVouched, Vouches, Listed,
     database, tree, cache

LEMMA LookupVouched == ASSUME SignalInv, Lookup PROVE Vouched' /\ SignalProves'
<1> USE DEF SignalInv
<1> DEFINE hits == {k \in selected : Cached(k)}
<1>1. /\ missing' = selected \ hits
      /\ structures' = [k \in Keys |-> IF k \in hits THEN cachedStructures[k].value ELSE None]
      /\ definitions' = [k \in Keys |->
           IF k \in hits /\ objects[k].kind \in Modules THEN cachedModules[k].value ELSE None]
      /\ pc' = IF selected = hits THEN "describe" ELSE "columns"
      /\ UNCHANGED <<database, tree, cache, planned, sentences, merged, history>>
  BY DEF Lookup
<1>2. UNCHANGED <<db, objects, selected, untouched>>
  BY <1>1 DEF database, planned, history
<1>3. ASSUME NEW k \in hits, Attested(k)
      PROVE  /\ structures'[k] = StructureOf(db[k])
             /\ EntryBody(k)' \in Readings(db[k])
  <2>1. k \in Keys /\ k \in selected /\ Cached(k)
    BY DEF TypeOK, PlannedOK, Listed
  <2>2. objects[k].kind = db[k].kind /\ objects[k].modified = db[k].modified /\ db[k] # None
    BY <1>3, <2>1, AttestedObject DEF Attested
  <2>3. structures'[k] = StructureOf(db[k])
    BY <1>1, <2>1, <2>2 DEF Cached, Proven, CacheVouched, Vouches, Same
  <2>4. CASE objects[k].kind \in Modules
    <3>1. cachedModules[k] # None /\ Vouches(cachedModules[k].signal, k)
      BY <2>1, <2>2, <2>4 DEF Cached, Proven, Vouches, Same
    <3>2. cachedModules[k].value = Trim(BodyOf(db[k])) /\ cachedModules[k].value \in Bodies
      BY <2>1, <3>1 DEF CacheVouched, TypeOK, CacheOK, CachedStructures, CachedBodies, Optional
    <3>3. definitions'[k] = Trim(BodyOf(db[k])) /\ definitions'[k] # None
      BY <1>1, <2>1, <2>4, <3>2, NoneAssumption
    <3> QED BY <2>3, <3>3 DEF EntryBody, Readings
  <2>5. CASE objects[k].kind \notin Modules
    <3>1. definitions'[k] = None /\ BodyOf(db[k]) = EmptyBody
      BY <1>1, <2>1, <2>2, <2>5 DEF BodyOf, HasBody
    <3> QED BY <2>3, <3>1 DEF EntryBody, Readings
  <2> QED BY <2>4, <2>5
<1>4. pc' \in {"describe", "columns"} /\ (pc' = "describe" => selected = hits)
  BY <1>1
<1> HIDE DEF hits
<1>5. \A k \in Keys : Attested(k)' => Attested(k)
  BY <1>2 DEF Attested
<1>6. ReadsAttested'
  <2> SUFFICES ASSUME NEW k \in Keys, Attested(k)'
               PROVE  /\ Fetching' /\ k \notin missing' => Whole(k)'
                      /\ Writing' => Whole(k)'
    BY <1>4 DEF ReadsAttested
  <2>1. Attested(k) /\ k \in selected
    BY <1>5 DEF Attested
  <2>2. k \in hits => Whole(k)'
    BY <1>2, <1>3, <2>1 DEF Whole, Readings
  <2> QED BY <1>1, <1>4, <2>1, <2>2 DEF Fetching, Writing
<1> QED BY <1>1, <1>6, ReadsVouched DEF planned, history

LEMMA ReadColumnsVouched == ASSUME SignalInv, ReadColumns PROVE Vouched' /\ SignalProves'
<1> USE DEF SignalInv
<1>1. /\ pc = "columns" /\ pc' = "indexes"
      /\ structures' = [k \in Keys |->
           IF k \notin missing THEN structures[k]
           ELSE IF db[k] = None THEN EmptyStructure
           ELSE [EmptyStructure EXCEPT !.columns = StructureOf(db[k]).columns]]
      /\ UNCHANGED <<database, tree, cache, db, objects, selected, untouched, definitions, missing>>
  BY DEF ReadColumns, database, planned, history
<1>2. \A k \in missing : k \in Keys /\ (db[k] # None => structures'[k].columns = StructureOf(db[k]).columns)
  BY <1>1 DEF TypeOK, FetchedOK, PlannedOK, Listed, EmptyStructure
<1>3. ReadsAttested'
  BY <1>1, <1>2 DEF ReadsAttested, Attested, Whole, EntryBody, Readings, Fetching, Writing
<1> QED BY <1>1, <1>3, ReadsVouched

LEMMA ReadIndexesVouched == ASSUME SignalInv, ReadIndexes PROVE Vouched' /\ SignalProves'
<1> USE DEF SignalInv
<1>1. /\ pc = "indexes"
      /\ pc' = IF \E k \in missing : objects[k].kind \in Modules THEN "modules" ELSE "store"
      /\ structures' = [k \in Keys |->
           IF k \notin missing \/ db[k] = None THEN structures[k]
           ELSE [structures[k] EXCEPT !.indexes = StructureOf(db[k]).indexes]]
      /\ UNCHANGED <<database, tree, cache, db, objects, selected, untouched, definitions, missing>>
  BY DEF ReadIndexes, database, planned, history
<1>2. ASSUME NEW k \in missing, Attested(k)
      PROVE  /\ k \in Keys /\ structures'[k] = StructureOf(db[k])
             /\ pc' = "store" => EntryBody(k) = BodyOf(db[k])
  <2>1. k \in Keys /\ structures[k] \in Structures /\ definitions[k] = None
    BY <1>1 DEF TypeOK, FetchedOK, PlannedOK, Listed, Assembled
  <2>2. db[k] # None /\ objects[k].kind = db[k].kind
    BY <1>2, <2>1, AttestedObject DEF Attested
  <2>3. structures[k].columns = StructureOf(db[k]).columns
    BY <1>1, <1>2, <2>1 DEF ReadsAttested
  <2>4. structures'[k] = StructureOf(db[k])
    BY <1>1, <2>1, <2>2, <2>3 DEF Structures, StructureOf
  <2>5. pc' = "store" => objects[k].kind \notin Modules
    BY <1>1
  <2>6. pc' = "store" => EntryBody(k) = BodyOf(db[k])
    BY <2>1, <2>2, <2>5 DEF EntryBody, BodyOf, HasBody
  <2> QED BY <2>1, <2>4, <2>6
<1>3. \A k \in Keys : Attested(k)' => Attested(k)
  BY <1>1 DEF Attested
<1>4. pc' \in {"modules", "store"}
  BY <1>1
<1>5. ReadsAttested'
  <2> SUFFICES ASSUME NEW k \in Keys, Attested(k)'
               PROVE  /\ k \notin missing => Whole(k)'
                      /\ k \in missing => structures'[k] = StructureOf(db[k])
                      /\ (pc' = "store" /\ k \in missing) => EntryBody(k)' = BodyOf(db[k])
    BY <1>1, <1>4 DEF ReadsAttested, Fetching, Writing
  <2>1. Attested(k)
    BY <1>3
  <2>2. k \notin missing => Whole(k)'
    BY <1>1, <2>1 DEF ReadsAttested, Whole, EntryBody, Readings, Fetching
  <2>3. EntryBody(k)' = EntryBody(k)
    BY <1>1 DEF EntryBody
  <2> QED BY <1>2, <2>1, <2>2, <2>3
<1> QED BY <1>1, <1>5, ReadsVouched

LEMMA ReadModulesVouched == ASSUME SignalInv, ReadModules PROVE Vouched' /\ SignalProves'
<1> USE DEF SignalInv
<1>1. /\ pc = "modules" /\ pc' = "store"
      /\ definitions' = [k \in Keys |->
           IF k \in missing /\ objects[k].kind \in Modules /\ db[k] # None /\ HasBody(db[k])
           THEN BodyOf(db[k]) ELSE definitions[k]]
      /\ UNCHANGED <<database, tree, cache, db, objects, selected, untouched, structures, missing>>
  BY DEF ReadModules, database, planned, history
<1>2. ASSUME NEW k \in missing, Attested(k)
      PROVE  k \in Keys /\ structures[k] = StructureOf(db[k]) /\ EntryBody(k)' = BodyOf(db[k])
  <2>1. k \in Keys /\ definitions[k] = None
    BY <1>1 DEF TypeOK, FetchedOK, PlannedOK, Listed, Assembled
  <2>2. db[k] \in Object /\ db[k] # None /\ objects[k].kind = db[k].kind
    BY <1>2, <2>1, AttestedObject DEF Attested
  <2>3. BodyOf(db[k]) # None
    BY <2>2, ReadingTypes, NoneAssumption
  <2>4. EntryBody(k)' = BodyOf(db[k])
    <3>1. CASE HasBody(db[k])
      BY <1>1, <2>1, <2>2, <2>3, <3>1 DEF EntryBody, HasBody
    <3>2. CASE ~HasBody(db[k])
      BY <1>1, <2>1, <2>2, <3>2 DEF EntryBody, BodyOf
    <3> QED BY <3>1, <3>2
  <2> QED BY <1>1, <1>2, <2>1, <2>4 DEF ReadsAttested
<1>3. \A k \in Keys : Attested(k)' => Attested(k)
  BY <1>1 DEF Attested
<1>4. ReadsAttested'
  <2> SUFFICES ASSUME NEW k \in Keys, Attested(k)'
               PROVE  /\ k \notin missing => Whole(k)'
                      /\ k \in missing => structures[k] = StructureOf(db[k]) /\ EntryBody(k)' = BodyOf(db[k])
    BY <1>1 DEF ReadsAttested, Fetching, Writing
  <2>1. k \notin missing => Whole(k)'
    BY <1>1, <1>3 DEF ReadsAttested, Whole, EntryBody, Readings, Fetching
  <2> QED BY <1>2, <1>3, <2>1
<1> QED BY <1>1, <1>4, ReadsVouched

LEMMA StoreVouched == ASSUME SignalInv, Store PROVE Vouched' /\ SignalProves'
<1> USE DEF SignalInv
<1>1. /\ pc = "store" /\ pc' = "describe"
      /\ UNCHANGED <<database, tree, db, objects, selected, untouched, structures, definitions, missing>>
  BY DEF Store, database, planned, fetched, history
<1>2. PICK refused \in (SUBSET missing) \X (SUBSET missing) :
        /\ cachedStructures' = [k \in Keys |->
             IF k \in missing \ refused[1]
             THEN [signal |-> objects[k].modified, value |-> structures[k]]
             ELSE cachedStructures[k]]
        /\ cachedModules' = [k \in Keys |->
             IF k \in missing \ refused[2] /\ definitions[k] # None
             THEN [signal |-> objects[k].modified, value |-> Trim(definitions[k])]
             ELSE cachedModules[k]]
  BY DEF Store
<1>3. \A k \in missing : k \in Keys /\ k \in selected /\ objects[k] # None
  BY DEF TypeOK, FetchedOK, PlannedOK, Listed
<1>4. ASSUME NEW k \in missing, db[k] # None, Attested(k)
      PROVE  structures[k] = StructureOf(db[k]) /\ EntryBody(k) = BodyOf(db[k])
  BY <1>1, <1>3, <1>4 DEF ReadsAttested
<1>5. CacheVouched'
  <2>1. ASSUME NEW k \in missing, Vouches(objects[k].modified, k) PROVE db[k] # None /\ Attested(k)
    BY <1>3, <2>1 DEF Vouches, Attested
  <2>2. \A k \in missing : definitions[k] # None => EntryBody(k) = definitions[k]
    BY DEF EntryBody
  <2> SUFFICES ASSUME NEW k \in Keys
               PROVE /\ (cachedStructures'[k] # None /\ Vouches(cachedStructures'[k].signal, k)) =>
                          cachedStructures'[k].value = StructureOf(db[k])
                     /\ (cachedModules'[k] # None /\ Vouches(cachedModules'[k].signal, k)) =>
                          cachedModules'[k].value = Trim(BodyOf(db[k]))
    BY <1>1 DEF CacheVouched, Vouches
  <2>3. (cachedStructures'[k] # None /\ Vouches(cachedStructures'[k].signal, k)) =>
          cachedStructures'[k].value = StructureOf(db[k])
    BY <1>2, <1>4, <2>1 DEF CacheVouched
  <2>4. (cachedModules'[k] # None /\ Vouches(cachedModules'[k].signal, k)) =>
          cachedModules'[k].value = Trim(BodyOf(db[k]))
    BY <1>2, <1>4, <2>1, <2>2 DEF CacheVouched
  <2> QED BY <2>3, <2>4
<1>6. Stamps'
  BY <1>1, <1>2, <1>3 DEF Stamps, database, tree
<1>7. ReadsAttested'
  <2> SUFFICES ASSUME NEW k \in Keys, Attested(k) PROVE Whole(k)
    BY <1>1 DEF ReadsAttested, Attested, Whole, EntryBody, Readings, Fetching, Writing
  <2>1. CASE k \in missing
    BY <1>4, <2>1 DEF Attested, Whole, Readings
  <2>2. CASE k \notin missing
    BY <1>1, <2>2 DEF ReadsAttested, Fetching
  <2> QED BY <2>1, <2>2
<1>8. ListingStands' /\ KindsAttested'
  BY <1>1 DEF ListingStands, KindsAttested, Listed
<1> QED BY <1>1, <1>5, <1>6, <1>7, <1>8, SoundStays DEF Vouched, tree

LEMMA DescribeVouched == ASSUME SignalInv, Describe PROVE Vouched' /\ SignalProves'
<1> USE DEF SignalInv
<1>1. /\ pc = "describe" /\ pc' = "merge"
      /\ UNCHANGED <<database, tree, cache, db, objects, selected, untouched, structures, definitions, missing>>
  BY DEF Describe, database, planned, fetched
<1>2. ReadsAttested'
  BY <1>1 DEF ReadsAttested, Attested, Whole, EntryBody, Readings, Fetching, Writing
<1> QED BY <1>1, <1>2, ReadsVouched

\* The rows a merge writes are as sound as the readings they were hashed over.
LEMMA MergedRowsSound ==
  ASSUME SignalInv, pc = "merge", NEW c \in Kinds, NEW k \in Keys, MergedRows(c)[k] # None
  PROVE  MergedRows(c)[k].modified <= now /\ Sound(MergedRows(c)[k], c, k)
<1> USE DEF SignalInv
<1> DEFINE row == MergedRows(c)[k]
<1>1. CASE k \in selected /\ objects[k].kind = c /\ k \notin Dropped
  <2>1. row = EntryRow(k)
    BY <1>1 DEF MergedRows
  <2>2. objects[k] # None /\ structures[k] \in Structures
    BY <1>1 DEF Assembled, Writing, TypeOK, PlannedOK, Listed
  <2>3. row.modified = objects[k].modified /\ row.fingerprint = EntryFingerprint(k)
    BY <2>1 DEF EntryRow
  <2>4. ASSUME db[k] # None, Same(objects[k].modified, db[k].modified)
        PROVE  c = db[k].kind /\ \E f \in Fingerprints(db[k]) : row.fingerprint.text = f.text
    <3>1. Attested(k)
      BY <1>1, <2>4 DEF Attested
    <3>2. objects[k].kind = db[k].kind
      BY <3>1, AttestedObject
    <3>3. structures[k] = StructureOf(db[k]) /\ EntryBody(k) \in Readings(db[k])
      BY <3>1 DEF ReadsAttested, Whole, Writing
    <3>4. row.fingerprint.text = Fingerprint(db[k], StructureOf(db[k]), EntryBody(k)).text
      BY <2>3, <3>2, <3>3, FingerprintText DEF EntryFingerprint
    <3> QED BY <1>1, <3>2, <3>3, <3>4 DEF Fingerprints
  <2> HIDE DEF row
  <2> QED BY <2>2, <2>3, <2>4 DEF Stamps, Sound, row
<1>2. CASE ~(k \in selected /\ objects[k].kind = c) \/ k \in Dropped
  <2>1. row = catalogs[c][k]
    BY <1>2 DEF MergedRows
  <2> HIDE DEF row
  <2> QED BY <2>1, SignalProvesIsSound DEF Stamps, row
<1> QED BY <1>1, <1>2

LEMMA MergeVouched == ASSUME SignalInv, Merge PROVE Vouched' /\ SignalProves'
<1> USE DEF SignalInv
<1> DEFINE c == Catalogs[merged + 1]
<1>1. pc = "merge" /\ c \in Kinds
  BY CatalogsAreKinds DEF Merge, TypeOK, FetchedOK, Assembled
<1>2. catalogs' = [catalogs EXCEPT ![c] = MergedRows(c)]
  BY DEF Merge
<1>3. /\ pc' \in {"merge", "columnFiles"}
      /\ UNCHANGED <<database, cache, db, objects, selected, untouched, structures, definitions, missing>>
  BY DEF Merge, database, planned, fetched, history
<1> HIDE DEF c
<1>4. \A d \in Kinds : catalogs'[d] = IF d = c THEN MergedRows(c) ELSE catalogs[d]
  BY <1>1, <1>2 DEF TypeOK, TreeOK
<1>5. \A d \in Kinds, k \in Keys : catalogs'[d][k] # None =>
        catalogs'[d][k].modified <= now /\ Sound(catalogs'[d][k], d, k)
  BY <1>1, <1>4, MergedRowsSound, SignalProvesIsSound DEF Stamps
<1>6. SignalProves'
  BY <1>3, <1>5 DEF SignalProves, Sound, Fingerprints, Readings
<1>7. Stamps'
  BY <1>3, <1>5 DEF Stamps, database, cache
<1>8. ListingStands' /\ KindsAttested' /\ CacheVouched'
  BY <1>3 DEF ListingStands, KindsAttested, Listed, CacheVouched, Vouches, cache
<1>9. ReadsAttested'
  BY <1>1, <1>3 DEF ReadsAttested, Attested, Whole, EntryBody, Readings, Fetching, Writing
<1> QED BY <1>6, <1>7, <1>8, <1>9 DEF Vouched

\* The files beside the rows are evidence of nothing.
LEMMA FilesVouched ==
  ASSUME SignalInv, WriteColumns \/ WriteBodies PROVE Vouched' /\ SignalProves'
<1> USE DEF SignalInv
<1>1. /\ pc \in {"columnFiles", "bodyFiles"} /\ pc' \in {"bodyFiles", "remove"}
      /\ UNCHANGED <<database, cache, catalogs, db, objects, selected, untouched,
                     structures, definitions, missing>>
  BY DEF WriteColumns, WriteBodies, database, planned, fetched, history
<1>2. SignalProves'
  BY <1>1, SoundStays
<1>3. Stamps'
  BY <1>1 DEF Stamps, database, cache
<1>4. ListingStands' /\ KindsAttested' /\ CacheVouched'
  BY <1>1 DEF ListingStands, KindsAttested, Listed, CacheVouched, Vouches, cache
<1>5. ReadsAttested'
  BY <1>1 DEF ReadsAttested, Attested, Whole, EntryBody, Readings, Fetching, Writing
<1> QED BY <1>2, <1>3, <1>4, <1>5 DEF Vouched

\* A build that is over, or that stopped, leaves rows it had merged.
LEMMA OverVouched ==
  ASSUME SignalInv, Remove \/ Stop \/ StopInColumns \/ StopInBodies \/ StopInRemove
  PROVE  Vouched' /\ SignalProves'
<1> USE DEF SignalInv
<1>1. Forget /\ UNCHANGED <<database, cache, catalogs>>
  BY DEF Remove, Stop, StopInColumns, StopInBodies, StopInRemove, tree
<1>2. \A c \in Kinds, k \in Keys : catalogs'[c][k] # None => catalogs'[c][k].modified <= now
  BY <1>1 DEF Stamps
<1> QED BY <1>1, <1>2, ForgetVouched, SoundStays

\* A catalog cut short: a row whose fingerprint cell was cut proves nothing.
LEMMA TornMergeVouched == ASSUME SignalInv, TornMerge PROVE Vouched' /\ SignalProves'
<1> USE DEF SignalInv
<1> DEFINE c == Catalogs[merged + 1]
<1>1. pc = "merge" /\ c \in Kinds
  BY CatalogsAreKinds DEF TornMerge, TypeOK, FetchedOK, Assembled
<1>2. PICK last \in Keys :
        \E end \in IF MergedRows(c)[last] = None THEN {None} ELSE CutShort(MergedRows(c)[last]) :
          catalogs' = [catalogs EXCEPT ![c] = [k \in Keys |->
            IF k < last THEN MergedRows(c)[k] ELSE IF k = last THEN end ELSE None]]
  BY DEF TornMerge
<1>3. PICK end \in IF MergedRows(c)[last] = None THEN {None} ELSE CutShort(MergedRows(c)[last]) :
        catalogs' = [catalogs EXCEPT ![c] = [k \in Keys |->
          IF k < last THEN MergedRows(c)[k] ELSE IF k = last THEN end ELSE None]]
  BY <1>2
<1>4. Forget /\ UNCHANGED <<database, cache, db>>
  BY DEF TornMerge, database
<1> HIDE DEF c
<1>5. MergedRows(c)[last] # None =>
        MergedRows(c)[last].modified <= now /\ Sound(MergedRows(c)[last], c, last)
  BY <1>1, MergedRowsSound
<1>6. end # None => end.modified <= now /\ Sound(end, c, last)
  <2> SUFFICES ASSUME end # None PROVE end.modified <= now /\ Sound(end, c, last)
    OBVIOUS
  <2> DEFINE row == MergedRows(c)[last]
  <2>1. row # None /\ end \in CutShort(row) \ {None} /\ row \in RowsOfFile
    BY <1>1, <1>3, MergedRowsType DEF Shape, Optional
  <2>2. end.modified = row.modified /\ end.fingerprint \in {row.fingerprint, Torn}
    BY <2>1 DEF CutShort, RowsOfFile
  <2> QED BY <1>5, <2>1, <2>2 DEF Sound
<1>7. \A k \in Keys : MergedRows(c)[k] # None =>
        MergedRows(c)[k].modified <= now /\ Sound(MergedRows(c)[k], c, k)
  BY <1>1, MergedRowsSound
<1>8. \A d \in Kinds, k \in Keys : catalogs'[d][k] # None =>
        catalogs'[d][k].modified <= now /\ Sound(catalogs'[d][k], d, k)
  <2> SUFFICES ASSUME NEW d \in Kinds, NEW k \in Keys, catalogs'[d][k] # None
               PROVE  catalogs'[d][k].modified <= now /\ Sound(catalogs'[d][k], d, k)
    OBVIOUS
  <2>1. CASE d = c
    <3>1. catalogs'[d][k] = IF k < last THEN MergedRows(c)[k] ELSE IF k = last THEN end ELSE None
      BY <1>1, <1>3, <2>1 DEF TypeOK, TreeOK
    <3> QED BY <1>6, <1>7, <2>1, <3>1
  <2>2. CASE d # c
    <3>1. catalogs'[d][k] = catalogs[d][k]
      BY <1>1, <1>3, <2>2 DEF TypeOK, TreeOK
    <3> QED BY <3>1, SignalProvesIsSound DEF Stamps
  <2> QED BY <2>1, <2>2
<1>9. SignalProves'
  BY <1>4, <1>8 DEF SignalProves, Sound, Fingerprints, Readings
<1> QED BY <1>4, <1>8, <1>9, ForgetVouched

LEMMA NextSignal == ASSUME SignalInv, Coarse = FALSE, [Next]_vars PROVE SignalInv'
<1>1. Shape /\ Shape'
  BY NextShape DEF SignalInv, Shape
<1>2. Vouched' /\ SignalProves'
  <2>1. CASE Progress
    BY <2>1, PlanVouched, LookupVouched, ReadColumnsVouched, ReadIndexesVouched, ReadModulesVouched,
       StoreVouched, DescribeVouched, MergeVouched, FilesVouched, OverVouched DEF Progress
  <2>2. CASE Failures
    BY <2>2, OverVouched, TornMergeVouched DEF Failures
  <2>3. CASE UNCHANGED vars
    <3>1. UNCHANGED <<database, tree, cache, pc, objects, selected, untouched, structures,
                      definitions, missing>>
      BY <2>3 DEF vars, build, planned, fetched, history
    <3>2. ReadsAttested'
      BY <3>1 DEF SignalInv, ReadsAttested, Attested, Whole, EntryBody, Readings, Fetching, Writing, database
    <3> QED BY <3>1, <3>2, ReadsVouched
  <2> QED BY <2>1, <2>2, <2>3, DatabaseVouched, ManifestVouched DEF Next
<1> QED BY <1>1, <1>2 DEF SignalInv, Shape, Vouched

\* The modify signal never misses a real change: whatever is altered between the
\* listing and the reads, whichever reads the cache serves, and wherever builds
\* stop or are cut short, a row that carries the object's own signal was
\* fingerprinted over the content the object has.  It rests on one fact about the
\* engine, which a signal of whole seconds does not grant: that no two changes
\* share a signal.
THEOREM SignalProvesHolds ==
  ASSUME Coarse = FALSE
  PROVE  Spec => []SignalProves
<1>1. Init => SignalInv
  BY InitSignal
<1>2. SignalInv /\ [Next]_vars => SignalInv'
  BY NextSignal
<1>3. SignalInv => SignalProves
  BY DEF SignalInv
<1> QED BY <1>1, <1>2, <1>3, PTL DEF Spec
=============================================================================
