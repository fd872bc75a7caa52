----------------------------- MODULE BuildInv -----------------------------
(***************************************************************************)
(* The inductive invariants of Build: what has to hold at every stage of a *)
(* build, beside the types, for each of its promises to hold after every   *)
(* step.  TLC checks them on the instances of MCBuild, the modules of      *)
(* proofs prove them.                                                      *)
(***************************************************************************)
EXTENDS Build

Fetching == pc \in {"columns", "indexes", "modules", "store"}
Writing  == pc \in {"describe", "merge", "columnFiles", "bodyFiles", "remove"}

\* At every stage, what the stages before it were to assemble is there.
Assembled ==
  /\ pc \in {"idle", "plan"} => selected = {}
  /\ pc \notin {"merge", "columnFiles", "bodyFiles", "remove"} => merged = 0
  /\ Fetching => \A k \in selected \ missing : structures[k] \in Structures
  /\ pc \in {"indexes", "modules", "store"} => \A k \in missing : structures[k] \in Structures
  /\ Writing => \A k \in selected : structures[k] \in Structures
  /\ pc \in {"columns", "indexes", "modules"} => \A k \in missing : definitions[k] = None
  /\ pc = "merge" => merged < Len(Catalogs)

\* No signal recorded anywhere is later than the clock.
Stamps ==
  /\ engine = "postgres" => now = 0
  /\ \A k \in Keys :
       /\ db[k] # None => db[k].modified <= now
       /\ objects[k] # None => objects[k].modified <= now
       /\ cachedStructures[k] # None => cachedStructures[k].signal <= now
       /\ cachedModules[k] # None => cachedModules[k].signal <= now
       /\ \A c \in Kinds : catalogs[c][k] # None => catalogs[c][k].modified <= now

\* A signal vouches for an object that still carries it.  What the build holds
\* of an object is attested by its signal, or by nobody having touched it.
Vouches(signal, k) == db[k] # None /\ Same(signal, db[k].modified)
Attested(k) == /\ k \in selected /\ db[k] # None
               /\ k \in untouched \/ Same(objects[k].modified, db[k].modified)

\* The listing still says of an untouched object what the database does.
ListingStands ==
  \A k \in untouched : objects[k] = IF db[k] = None THEN None ELSE Listing(db[k])

KindsAttested ==
  \A k \in Listed :
    (db[k] # None /\ (k \in untouched \/ Same(objects[k].modified, db[k].modified))) =>
      objects[k].kind = db[k].kind

\* A cache entry whose signal the object still carries holds what it holds.
CacheVouched ==
  \A k \in Keys :
    /\ (cachedStructures[k] # None /\ Vouches(cachedStructures[k].signal, k)) =>
         cachedStructures[k].value = StructureOf(db[k])
    /\ (cachedModules[k] # None /\ Vouches(cachedModules[k].signal, k)) =>
         cachedModules[k].value = Trim(BodyOf(db[k]))

\* So does every reading of an attested object, as far as it has been read.
Whole(k) == structures[k] = StructureOf(db[k]) /\ EntryBody(k) \in Readings(db[k])
ReadsAttested ==
  \A k \in Keys : Attested(k) =>
    /\ Fetching /\ k \notin missing => Whole(k)
    /\ Writing => Whole(k)
    /\ pc = "indexes" /\ k \in missing => structures[k].columns = StructureOf(db[k]).columns
    /\ pc \in {"modules", "store"} /\ k \in missing => structures[k] = StructureOf(db[k])
    /\ pc = "store" /\ k \in missing => EntryBody(k) = BodyOf(db[k])

SignalInv == /\ TypeOK /\ Assembled /\ Stamps /\ ListingStands /\ KindsAttested
             /\ CacheVouched /\ ReadsAttested /\ SignalProves

-----------------------------------------------------------------------------
(* The books of a build: what its stages know of the tree and of each other, *)
(* whatever the signals are worth.                                           *)

\* While a build runs, nobody has touched what is published.
PublishedStand == pc # "idle" => published \subseteq untouched

\* The catalogs merged so far hold the rows of the selection, and none of the
\* dropped names; a name without a row in any catalog is known to be without one.
RowsWritten ==
  LET done(c) == \/ pc \in {"columnFiles", "bodyFiles", "remove"}
                 \/ pc = "merge" /\ \E i \in 1 .. merged : Catalogs[i] = c
  IN \A c \in Kinds : done(c) =>
       /\ \A k \in selected : objects[k].kind = c => catalogs[c][k] = EntryRow(k)
       /\ \A k \in Dropped : catalogs[c][k] = None
NoRowsUnknown ==
  (pc \notin {"idle", "plan"} /\ ~opts.force) =>
    \A k \in Keys : objects[k] = None /\ state[k] = None => \A c \in Kinds : catalogs[c][k] = None

\* So do the files, once it is their turn.
FilesWritten ==
  /\ pc \in {"bodyFiles", "remove"} =>
       \A k \in Keys : WritesColumns(k) => columnFiles[k] = ColumnsFile(k)
  /\ pc = "remove" => \A k \in Keys : WritesBody(k) => bodyFiles[k] = BodyFile(k)

\* A name is only ever of a kind its objects may have.
KindsKept ==
  \A k \in Keys :
    /\ db[k] # None => db[k].kind \in KindsOf[k]
    /\ objects[k] # None => objects[k].kind \in KindsOf[k]
    /\ \A c \in Kinds : catalogs[c][k] # None => c \in KindsOf[k]

\* Up to the first merge, the state is still what the tree says.
Reading == pc \in {"lookup", "columns", "indexes", "modules", "store", "describe"}
StateRead == Reading => state = IF opts.force THEN Nothing ELSE ReadState

\* A selected object has been described or reported, or keeps its sentence; what
\* is not described at all was not asked about.
Merging == pc \in {"merge", "columnFiles", "bodyFiles", "remove"}
Sentenced ==
  Merging => \A k \in selected :
    IF objects[k].kind \in Describable
    THEN k \in sentences \/ k \in reported \/ Unchanged(EntryFingerprint(k), state[k])
    ELSE k \notin sentences

BookInv == /\ TypeOK /\ Assembled /\ ListingStands
           /\ PublishedStand /\ RowsWritten /\ NoRowsUnknown /\ FilesWritten
           /\ KindsKept /\ StateRead /\ Sentenced

-----------------------------------------------------------------------------
(* What follows from the books alone.                                       *)

\* If no build dies halfway: a file has a row beside it, or its name is being
\* dropped; and a body file the fingerprint of its row, or either is about to be
\* written again.
FilesHaveRows ==
  \A k \in Keys : columnFiles[k] # None \/ bodyFiles[k] # None =>
    \/ \E c \in Kinds : catalogs[c][k] # None
    \/ Merging /\ k \in Dropped
BodyOfRow(k) ==
  bodyFiles[k] # None => \E c \in Modules :
    \/ Bodiless(catalogs[c][k])
    \/ /\ catalogs[c][k] # None
       /\ catalogs[c][k].fingerprint = bodyFiles[k].fingerprint
Rewritten(k) == /\ pc \in {"merge", "columnFiles", "bodyFiles"}
                /\ k \in selected /\ objects[k].kind \in Modules
BodiesOfRows ==
  \A k \in Keys : BodyOfRow(k) \/ Rewritten(k) \/ (Merging /\ k \in Dropped)

\* If no name that was described is taken over by a synonym: a sentence on disk,
\* or in the state read from it, is its row's own, and a synonym has none.
OwnSentence(row) == row # None => row.description \in {None, Torn, row.fingerprint}
Undescribed(row) == row # None => row.description = None
SentencesOwn ==
  \A k \in Keys :
    /\ k \notin reported => OwnSentence(state[k]) /\ \A c \in Kinds : OwnSentence(catalogs[c][k])
    /\ "synonym" \in KindsOf[k] =>
         Undescribed(state[k]) /\ \A c \in Kinds : Undescribed(catalogs[c][k])

\* What is published and was never reported has its row and its sentence.
HasSentence(row) == row # None /\ row.description # None
Told ==
  \A k \in published \ reported : db[k] # None /\ db[k].kind \in Describable =>
    HasSentence(catalogs[db[k].kind][k])

\* No row's hash was taken of a body cut short, nor is one cut anywhere else; a
\* row whose hash was lost has lost its sentence.
Uncut(row) ==
  row # None =>
    /\ row.fingerprint = Torn => row.description = None
    /\ (row.fingerprint # Torn /\ row.fingerprint.of = "body") =>
         row.fingerprint = [of |-> "body", triggers |-> 0, depth |-> 0,
                            text |-> [text |-> row.fingerprint.text.text, cut |-> FALSE]]
BodiesUncut ==
  \A k \in Keys :
    /\ definitions[k] # None => ~definitions[k].cut
    /\ cachedModules[k] # None => ~cachedModules[k].value.cut
    /\ Uncut(state[k])
    /\ \A c \in Kinds : Uncut(catalogs[c][k])

-----------------------------------------------------------------------------
(* What takes the signals as well.                                          *)

RowsInv == SignalInv /\ BookInv /\ RowsCurrent

\* The files of what is published, beside its rows.
Hash(o) == Fingerprint(o, StructureOf(o), BodyOf(o))
FilesStand ==
  \A k \in published : db[k] # None =>
    /\ HasBody(db[k]) =>
         bodyFiles[k] = [fingerprint |-> Hash(db[k]), content |-> BodyOf(db[k])]
    /\ db[k].kind \in Detailed =>
         columnFiles[k] = [fingerprint |-> Hash(db[k]), content |-> StructureOf(db[k])]

\* What is published is in the cache under its signal, and so is what a build
\* has found there or put there, unless it was touched.
Kept(entry, k) == entry # None /\ Same(db[k].modified, entry.signal)
Stocked(k) == db[k] # None => /\ Kept(cachedStructures[k], k)
                              /\ db[k].kind \in Modules => Kept(cachedModules[k], k)
Stock ==
  /\ \A k \in Keys : db[k] # None => db[k].modified # NoSignal
  /\ \A k \in published : Stocked(k)
  /\ Fetching => \A k \in (selected \ missing) \cap untouched : Stocked(k)
  /\ Writing => \A k \in selected \cap untouched : Stocked(k)
  /\ pc = "store" => \A k \in missing \cap untouched :
       objects[k].kind \in Modules => definitions[k] # None

-----------------------------------------------------------------------------
(* What the whole of it comes to: the index is a function of the database.  *)

\* Only a table's row has a row count; no sentence is cut short.
Countless ==
  \A c \in Kinds \ {"table"}, k \in Keys : catalogs[c][k] # None => catalogs[c][k].rows = 0
Intact(row) == row # None => row.description # Torn
SentencesIntact == \A k \in Keys : Intact(state[k]) /\ \A c \in Kinds : Intact(catalogs[c][k])

\* What the tree is to say of an object: its row but for the sentence, its files,
\* and the sentence.
Bare(row) ==
  IF row = None THEN None
  ELSE [modified |-> row.modified, fingerprint |-> row.fingerprint, rows |-> row.rows]
ImageOf(o) ==
  IF o = None THEN [row |-> None, columns |-> None, body |-> None]
  ELSE [row     |-> [modified |-> o.modified, fingerprint |-> Hash(o),
                     rows |-> IF o.kind = "table" THEN o.rows ELSE 0],
        columns |-> IF o.kind \in Detailed
                    THEN [fingerprint |-> Hash(o), content |-> StructureOf(o)] ELSE None,
        body    |-> IF HasBody(o)
                    THEN [fingerprint |-> Hash(o), content |-> BodyOf(o)] ELSE None]
SentenceOf(o) == IF o # None /\ o.kind \in Describable THEN Hash(o) ELSE None

\* What it says: the row of the object's kind, or any at all of an object that is
\* gone, and the files of its kind.
RowFound(k) == IF db[k] = None THEN ReadState[k] ELSE catalogs[db[k].kind][k]
Found(k) ==
  [row     |-> Bare(RowFound(k)),
   columns |-> IF db[k] # None /\ db[k].kind \in Detailed THEN columnFiles[k] ELSE None,
   body    |-> IF db[k] # None /\ HasBody(db[k]) THEN bodyFiles[k] ELSE None]
SentenceFound(k) == IF RowFound(k) = None THEN None ELSE RowFound(k).description

\* What is published is said as it is to be, and so is the sentence, if no build
\* had to report that there is none.
Faithful ==
  \A k \in published :
    /\ Found(k) = ImageOf(db[k])
    /\ k \notin reported => SentenceFound(k) = SentenceOf(db[k])

\* Builds implement an index that is a function of the database: "two builds produce
\* the same files" (internal/index, write), and no file depends "on which objects a
\* run happened to select" (internal/render, merge).
Index == INSTANCE Indexing WITH
  Unknown <- Torn, Image <- ImageOf, Sentence <- SentenceOf, owed <- reported,
  index <- [k \in Keys |-> IF k \in published THEN Found(k) ELSE Torn],
  sentence <- [k \in Keys |-> IF k \in published \ reported THEN SentenceFound(k) ELSE Torn]
ImplementsIndexing == Index!Spec

-----------------------------------------------------------------------------
\* Where each of them is owed, by the constants.
NoFailure   == Faults \cap {"crash", "torn"} = {}
OneKindEach == \A k \in Keys : \A a, b \in KindsOf[k] : a = b
SynonymsApart == \A k \in Keys : "synonym" \in KindsOf[k] => KindsOf[k] = {"synonym"}
AllCached   == /\ "cache" \notin Faults /\ Hiding \subseteq {FALSE}
               /\ Engines = {"sqlserver"}

-----------------------------------------------------------------------------
(* What Converges comes to, but for the scheduling of builds.               *)

\* A sentence that was bought by this build, or is kept from one that had it whole
\* and never had to report it missing.
Spoken(k) == k \in sentences \/ (k \notin reported /\ Intact(state[k]))

\* One build is enough: whatever the builds before it left behind, narrowed, forced,
\* killed in any of their writes or refused by the cache, an object that it covered
\* and nobody touched meanwhile is settled when it ends - and a name that is gone, if
\* no build was killed before it had removed the files.
BuildSettles ==
  [][Remove => \A k \in Covered \cap untouched :
       Spoken(k) /\ (db[k] # None \/ NoFailure) => Settled(k)']_vars

\* And it is settled for good: through the writes of every later build, until
\* somebody touches it.
StaysSettled ==
  \A k \in published \ reported : db[k] # None \/ NoFailure => Settled(k)

-----------------------------------------------------------------------------
\* The whole of it: the inductive invariant of an index, on whatever instance.
IndexInv ==
  /\ BookInv /\ Told /\ Countless
  /\ "torn" \notin Faults => SentencesIntact
  /\ Overlong = {} => BodiesUncut
  /\ NoFailure => FilesHaveRows /\ DroppedLeaveNoFiles /\ BodiesOfRows
  /\ SynonymsApart => SentencesOwn
  /\ Coarse = FALSE =>
       /\ SignalInv /\ RowsCurrent
       /\ Overlong = {} /\ "" \notin Texts => FilesStand
       /\ Overlong = {} /\ "" \notin Texts /\ "torn" \notin Faults /\ SynonymsApart => Faithful /\ StaysSettled
       /\ OneKindEach /\ AllCached => Stock /\ RereadsNothingUntouched
=============================================================================
