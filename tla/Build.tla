------------------------------- MODULE Build -------------------------------
(***************************************************************************)
(* One `dbmap index` build after another against one database, into one    *)
(* directory (internal/index, with internal/plan, internal/cache and       *)
(* internal/render as it uses them).  The database changes on its own at   *)
(* any moment; a build reads it in several queries, consults a cache that  *)
(* outlives it, buys sentences from a model, and merges what it learned    *)
(* into the tree the previous builds left - which is also where the next   *)
(* build reads its staleness state from.                                   *)
(***************************************************************************)
EXTENDS Catalog, Sequences

CONSTANTS
  Keys,       \* schema-qualified names, as numbers in the order of the names
  KindsOf,    \* the kinds an object of each name may be created with
  Texts,      \* versions of an object's content
  Eols,       \* how the lines of a body may end
  Hiding,     \* {FALSE}, or BOOLEAN where a body may be unreadable (encrypted)
  Rows,       \* row counts the listing may report
  Triggers,   \* trigger counts the listing may report
  Engines,    \* the engines the database may run on: only one supplies a modify signal
  Coarse,     \* whether two changes may fall within one tick of that signal
  MaxClock,   \* bound: how often the signal moves
  Options,    \* the options a build may be started with
  Faults,     \* what may go wrong, a subset of {"crash", "torn", "cache", "model"}
  Torn        \* text cut short by a write that did not complete

ASSUME KeysAssumption == Keys \subseteq Nat
ASSUME KindsOfAssumption == KindsOf \in [Keys -> SUBSET Kinds]
ASSUME EnginesAssumption == Engines \subseteq {"sqlserver", "postgres"} /\ Coarse \in BOOLEAN
ASSUME HidingAssumption == Hiding \subseteq BOOLEAN
ASSUME ClockAssumption == MaxClock \in Nat
ASSUME CountsAssumption == Rows \subseteq Int /\ 0 \in Rows /\ Triggers \subseteq Nat /\ 0 \in Triggers
ASSUME OptionsAssumption ==
  Options \subseteq [force: BOOLEAN, narrow: BOOLEAN, dry: BOOLEAN]

VARIABLES
  \* the database
  engine, db, now,
  \* the tree: one catalog file per kind, and the per-object files
  catalogs, columnFiles, bodyFiles,
  \* the cache
  cachedStructures, cachedModules,
  \* the running build
  pc, opts, objects, state, selected, structures, definitions, missing,
  sentences, merged,
  \* history, for the properties only
  untouched,  \* names the database has not touched since this build listed it
  published,  \* names a finished build covered, untouched since it listed them, and
              \* whose row and files no write cut short has damaged since
  reported    \* names some build reported it had no sentence for

database == <<engine, db, now>>
tree     == <<catalogs, columnFiles, bodyFiles>>
cache    == <<cachedStructures, cachedModules>>
fetched  == <<structures, definitions, missing>>
planned  == <<opts, objects, state, selected>>
build    == <<pc, planned, fetched, sentences, merged>>
history  == <<untouched, published, reported>>
vars     == <<database, tree, cache, build, history>>

Content(kind) ==
  IF kind \in Modules THEN [text: Texts, eol: Eols, hidden: Hiding]
                      ELSE [text: Texts, eol: {"lf"}, hidden: {FALSE}]
Object == [kind: Kinds, modified: Nat, content: UNION {Content(c) : c \in Kinds},
           rows: Rows, triggers: Triggers]
-----------------------------------------------------------------------------
(* What the database answers about an object.                              *)

Listing(o) == [kind |-> o.kind, modified |-> o.modified, rows |-> o.rows,
               triggers |-> o.triggers]
StructureOf(o) == [columns |-> o.content.text, indexes |-> o.content.text]
HasBody(o) == o.kind \in Modules /\ ~o.content.hidden
BodyOf(o)  == IF HasBody(o) THEN [text |-> o.content.text, eol |-> o.content.eol, cut |-> FALSE]
                            ELSE EmptyBody

(* What ReadState makes of the tree: rows are looked up by name alone, and  *)
(* a later catalog overrides an earlier one.                                *)

Recorded(k) == {i \in DOMAIN Catalogs : catalogs[Catalogs[i]][k] # None}
ReadState ==
  [k \in Keys |->
     IF Recorded(k) = {} THEN None
     ELSE LET last == CHOOSE i \in Recorded(k) : \A j \in Recorded(k) : j <= i
          IN  catalogs[Catalogs[last]][k]]

(* What a build makes of what it read.                                      *)

\* Mutant: names dropped only if selected.
DroppedOfSelected == {k \in selected : state[k] # None /\ objects[k] = None}

Listed  == {k \in Keys : objects[k] # None}
Dropped == {k \in Keys : state[k] # None /\ objects[k] = None}

EntryBody(k) == IF definitions[k] = None THEN EmptyBody ELSE definitions[k]
EntryFingerprint(k) == Fingerprint(objects[k], structures[k], EntryBody(k))
EntryDescription(k) ==
  IF k \in sentences THEN EntryFingerprint(k)
  ELSE IF state[k] = None THEN None ELSE state[k].description

EntryRow(k) ==
  [modified    |-> objects[k].modified,
   fingerprint |-> EntryFingerprint(k),
   rows        |-> IF objects[k].kind = "table" THEN objects[k].rows ELSE 0,
   description |-> EntryDescription(k)]

\* Mutant: a call spent on every object of the listing, covered or not.
TodoOfListing == {k \in Listed : /\ ~Unchanged(EntryFingerprint(k), state[k])
                                 /\ objects[k].kind \in Describable}

\* The objects a model call is spent on.
Todo == {k \in selected : /\ ~Unchanged(EntryFingerprint(k), state[k])
                          /\ objects[k].kind \in Describable}
-----------------------------------------------------------------------------
Nothing == [k \in Keys |-> None]

Init ==
  /\ engine \in Engines /\ db = Nothing /\ now = 0
  /\ catalogs = [c \in Kinds |-> Nothing]
  /\ columnFiles = Nothing /\ bodyFiles = Nothing
  /\ cachedStructures = Nothing /\ cachedModules = Nothing
  /\ pc = "idle" /\ opts = None
  /\ objects = Nothing /\ state = Nothing /\ selected = {}
  /\ structures = Nothing /\ definitions = Nothing /\ missing = {}
  /\ sentences = {} /\ merged = 0
  /\ untouched = {} /\ published = {} /\ reported = {}

-----------------------------------------------------------------------------
(* The database, which nobody stops while a build runs.                     *)

\* The signal of a change made now: a later tick than any before it, unless
\* ticks are coarse and the change falls within the current one.
Signals ==
  IF engine = "postgres" THEN {NoSignal}
  ELSE {t \in {now, now + 1} : t # NoSignal /\ t <= MaxClock /\ (t = now => Coarse)}

Touch(k, o) ==
  /\ db' = [db EXCEPT ![k] = o]
  /\ untouched' = untouched \ {k}
  /\ published' = published \ {k}
  /\ UNCHANGED <<engine, tree, cache, build, reported>>

\* A definition is created, changed, or deployed again as it was.
Deploy(k) ==
  \E kind \in KindsOf[k], signal \in Signals :
    \E content \in Content(kind) :
      /\ db[k] # None => db[k].kind = kind
      /\ Touch(k, [kind |-> kind, modified |-> signal, content |-> content,
                   rows     |-> IF db[k] = None THEN 0 ELSE db[k].rows,
                   triggers |-> IF db[k] = None THEN 0 ELSE db[k].triggers])
      /\ now' = signal

Drop(k) ==
  /\ db[k] # None
  /\ Touch(k, None)
  /\ UNCHANGED now

\* Rows arrive and leave, and triggers come and go, without the signal moving.
Grow(k) ==
  /\ db[k] # None /\ db[k].kind = "table"
  /\ \E r \in Rows, t \in Triggers :
       /\ <<r, t>> # <<db[k].rows, db[k].triggers>>
       /\ Touch(k, [db[k] EXCEPT !.rows = r, !.triggers = t])
  /\ UNCHANGED now

Database == \E k \in Keys : Deploy(k) \/ Drop(k) \/ Grow(k)

-----------------------------------------------------------------------------
(* The build, stage by stage.                                               *)

\* A build that stops, for whatever reason, takes what it fetched with it.
Forget ==
  /\ pc' = "idle" /\ opts' = None
  /\ objects' = Nothing /\ state' = Nothing /\ selected' = {}
  /\ structures' = Nothing /\ definitions' = Nothing /\ missing' = {}
  /\ sentences' = {} /\ merged' = 0
  /\ untouched' = {}

\* One listing of the whole database, which every later stage versions against.
Manifest(o) ==
  /\ pc = "idle"
  /\ objects' = [k \in Keys |-> IF db[k] = None THEN None ELSE Listing(db[k])]
  /\ opts' = o
  /\ pc' = "plan"
  /\ untouched' = Keys
  /\ UNCHANGED <<database, tree, cache, state, selected, fetched, sentences,
                 merged, published, reported>>

\* What the last build recorded - nothing at all for a forced one - and the
\* part of the listing this build covers.  A dry run stops here.
Plan ==
  /\ pc = "plan"
  /\ IF opts.dry
     THEN Forget
     ELSE /\ state' = IF opts.force THEN Nothing ELSE ReadState
          /\ \E s \in IF opts.narrow THEN SUBSET Listed ELSE {Listed} : selected' = s
          /\ pc' = "lookup"
          /\ UNCHANGED <<opts, objects, fetched, sentences, merged, untouched>>
  /\ UNCHANGED <<database, tree, cache, published, reported>>

\* Mutants: an entry served because it is there; a body looked up for every
\* kind, though a table never has one.
ProvenByPresence(entry, k) == entry # None
CachedWithBody(k) ==
  /\ ~Refetch(objects[k], state[k])
  /\ ProvenByPresence(cachedStructures[k], k)
  /\ ProvenByPresence(cachedModules[k], k)

\* The cache serves an object only when nothing about it moved, and only when
\* it has everything: a partial hit is a miss.
Proven(entry, k) == entry # None /\ Same(objects[k].modified, entry.signal)
Cached(k) ==
  /\ ~Refetch(objects[k], state[k])
  /\ Proven(cachedStructures[k], k)
  /\ objects[k].kind \in Modules => Proven(cachedModules[k], k)

Lookup ==
  /\ pc = "lookup"
  /\ LET hits == {k \in selected : Cached(k)} IN
       /\ missing' = selected \ hits
       /\ structures' = [k \in Keys |->
            IF k \in hits THEN cachedStructures[k].value ELSE None]
       /\ definitions' = [k \in Keys |->
            IF k \in hits /\ objects[k].kind \in Modules
            THEN cachedModules[k].value ELSE None]
       /\ pc' = IF selected = hits THEN "describe" ELSE "columns"
  /\ UNCHANGED <<database, tree, cache, planned, sentences, merged, history>>

\* The structure is read by several queries, with time for the database to
\* change between them; an object none of them mentions has an empty one.
ReadColumns ==
  /\ pc = "columns"
  /\ structures' = [k \in Keys |->
       IF k \notin missing THEN structures[k]
       ELSE IF db[k] = None THEN EmptyStructure
       ELSE [EmptyStructure EXCEPT !.columns = StructureOf(db[k]).columns]]
  /\ pc' = "indexes"
  /\ UNCHANGED <<database, tree, cache, planned, definitions, missing, sentences,
                 merged, history>>

ReadIndexes ==
  /\ pc = "indexes"
  /\ structures' = [k \in Keys |->
       IF k \notin missing \/ db[k] = None THEN structures[k]
       ELSE [structures[k] EXCEPT !.indexes = StructureOf(db[k]).indexes]]
  /\ pc' = IF \E k \in missing : objects[k].kind \in Modules THEN "modules" ELSE "store"
  /\ UNCHANGED <<database, tree, cache, planned, definitions, missing, sentences,
                 merged, history>>

\* The bodies of the modules among them; one that cannot be read is not answered.
ReadModules ==
  /\ pc = "modules"
  /\ definitions' = [k \in Keys |->
       IF /\ k \in missing /\ objects[k].kind \in Modules
          /\ db[k] # None /\ HasBody(db[k])
       THEN BodyOf(db[k]) ELSE definitions[k]]
  /\ pc' = "store"
  /\ UNCHANGED <<database, tree, cache, planned, structures, missing, sentences,
                 merged, history>>

\* Everything fetched is cached under the signal of the LISTING.  A write the
\* cache refuses is only warned about.
Store ==
  /\ pc = "store"
  /\ \E refused \in IF "cache" \in Faults THEN (SUBSET missing) \X (SUBSET missing)
                                          ELSE {<<{}, {}>>} :
       /\ cachedStructures' = [k \in Keys |->
            IF k \in missing \ refused[1]
            THEN [signal |-> objects[k].modified, value |-> structures[k]]
            ELSE cachedStructures[k]]
       /\ cachedModules' = [k \in Keys |->
            IF k \in missing \ refused[2] /\ definitions[k] # None
            THEN [signal |-> objects[k].modified, value |-> Trim(definitions[k])]
            ELSE cachedModules[k]]
  /\ pc' = "describe"
  /\ UNCHANGED <<database, tree, planned, fetched, sentences, merged, history>>

\* The model is asked about the entries whose content changed.  A batch may
\* fail and an answer may leave an object out; both are reported.
Describe ==
  /\ pc = "describe"
  /\ \E silent \in IF "model" \in Faults THEN SUBSET Todo ELSE {{}} :
       /\ sentences' = Todo \ silent
       /\ reported' = reported \cup silent
  /\ pc' = "merge"
  /\ UNCHANGED <<database, tree, cache, planned, fetched, merged, untouched, published>>

-----------------------------------------------------------------------------
(* The writes.  Each catalog is read back, the selected rows of its kind     *)
(* replaced, the dropped names deleted, and the file written whole.          *)

\* Mutant: the catalog replaced by the rows of this build's selection.
MergedRowsOfSelection(c) ==
  [k \in Keys |->
     IF k \in selected \ Dropped /\ objects[k].kind = c THEN EntryRow(k) ELSE None]

MergedRows(c) ==
  [k \in Keys |->
     IF k \in Dropped THEN None
     ELSE IF k \in selected /\ objects[k].kind = c THEN EntryRow(k)
     ELSE catalogs[c][k]]

Merge ==
  /\ pc = "merge"
  /\ LET c == Catalogs[merged + 1] IN
       catalogs' = [catalogs EXCEPT ![c] = MergedRows(c)]
  /\ merged' = merged + 1
  /\ pc' = IF merged + 1 = Len(Catalogs) THEN "columnFiles" ELSE "merge"
  /\ UNCHANGED <<database, columnFiles, bodyFiles, cache, planned, fetched,
                 sentences, history>>

\* Mutants: a column file written once and for all; a body file written only for
\* an object that was described.
WritesColumnsOnce(k) == /\ k \in selected /\ objects[k].kind \in Detailed
                        /\ columnFiles[k] = None
WritesBodyIfDescribed(k) == /\ k \in sentences /\ objects[k].kind \in Modules
                            /\ EntryBody(k).text # ""

WritesColumns(k) == /\ k \in selected /\ objects[k].kind \in Detailed
                    /\ structures[k].columns # ""
WritesBody(k) == /\ k \in selected /\ objects[k].kind \in Modules
                 /\ EntryBody(k).text # ""

ColumnsFile(k) == [fingerprint |-> EntryFingerprint(k), content |-> structures[k]]
BodyFile(k)    == [fingerprint |-> EntryFingerprint(k), content |-> EntryBody(k)]

WriteColumns ==
  /\ pc = "columnFiles"
  /\ columnFiles' = [k \in Keys |->
       IF WritesColumns(k) THEN ColumnsFile(k) ELSE columnFiles[k]]
  /\ pc' = "bodyFiles"
  /\ UNCHANGED <<database, catalogs, bodyFiles, cache, planned, fetched, sentences,
                 merged, history>>

WriteBodies ==
  /\ pc = "bodyFiles"
  /\ bodyFiles' = [k \in Keys |->
       IF WritesBody(k) THEN BodyFile(k) ELSE bodyFiles[k]]
  /\ pc' = "remove"
  /\ UNCHANGED <<database, catalogs, columnFiles, cache, planned, fetched, sentences,
                 merged, history>>

\* What a finished build covered: its selection, and the names it found dropped.
Covered == selected \cup {k \in Keys : objects[k] = None /\ ~opts.force}

\* Mutant: the bodies of dropped objects forgotten.
RemoveColumns ==
  /\ pc = "remove"
  /\ columnFiles' = [k \in Keys |-> IF k \in Dropped THEN None ELSE columnFiles[k]]
  /\ published' = published \cup (Covered \cap untouched)
  /\ Forget
  /\ UNCHANGED <<database, catalogs, bodyFiles, cache, reported>>

\* The last write: what the dropped objects left behind.  The build is over,
\* and every name it covered that nobody touched meanwhile is published.
Remove ==
  /\ pc = "remove"
  /\ columnFiles' = [k \in Keys |-> IF k \in Dropped THEN None ELSE columnFiles[k]]
  /\ bodyFiles'   = [k \in Keys |-> IF k \in Dropped THEN None ELSE bodyFiles[k]]
  /\ published' = published \cup (Covered \cap untouched)
  /\ Forget
  /\ UNCHANGED <<database, catalogs, cache, reported>>

-----------------------------------------------------------------------------
(* What may go wrong.                                                       *)

\* The process is killed, the connection fails or the server asks for room:
\* the build stops between two of its steps.
Stop ==
  /\ "crash" \in Faults /\ pc # "idle"
  /\ Forget
  /\ UNCHANGED <<database, tree, cache, published, reported>>

\* A write that did not complete leaves the start of the file it was writing:
\* the rows before some name, that name's row cut short, and none after it.  A
\* row is still read as one when the cut falls within its last two cells.
CutShort(row) ==
  {None, [row EXCEPT !.fingerprint = Torn, !.description = None],
         [row EXCEPT !.description = None],
         [row EXCEPT !.description = IF row.description = None THEN None ELSE Torn]}
TornMerge ==
  /\ "torn" \in Faults /\ pc = "merge"
  /\ LET c == Catalogs[merged + 1]
         rows == MergedRows(c)
     IN \E last \in Keys :
          \E end \in IF rows[last] = None THEN {None} ELSE CutShort(rows[last]) :
            LET left == [k \in Keys |-> IF k < last THEN rows[k] ELSE IF k = last THEN end ELSE None]
            IN /\ catalogs' = [catalogs EXCEPT ![c] = left]
               /\ published' = {k \in published : left[k] = rows[k]}
  /\ Forget
  /\ UNCHANGED <<database, columnFiles, bodyFiles, cache, reported>>

\* The per-object files are written in the order of the names; a build that
\* stops among them has written the ones before, and perhaps cut one short.
PartOf(files, writes, last, end) ==
  [k \in Keys |-> IF writes[k] = None \/ k > last THEN files[k]
                  ELSE IF k = last THEN end ELSE writes[k]]
Ends(files, k) == {files[k]} \cup (IF "torn" \in Faults THEN {Torn} ELSE {})

StopInColumns ==
  /\ "crash" \in Faults /\ pc = "columnFiles"
  /\ \E last \in Keys : \E end \in Ends(columnFiles, last) :
       columnFiles' = PartOf(columnFiles,
         [k \in Keys |-> IF WritesColumns(k) THEN ColumnsFile(k) ELSE None], last, end)
  /\ published' = {k \in published : columnFiles'[k] = Torn => columnFiles[k] = Torn}
  /\ Forget
  /\ UNCHANGED <<database, catalogs, bodyFiles, cache, reported>>

StopInBodies ==
  /\ "crash" \in Faults /\ pc = "bodyFiles"
  /\ \E last \in Keys : \E end \in Ends(bodyFiles, last) :
       bodyFiles' = PartOf(bodyFiles,
         [k \in Keys |-> IF WritesBody(k) THEN BodyFile(k) ELSE None], last, end)
  /\ published' = {k \in published : bodyFiles'[k] = Torn => bodyFiles[k] = Torn}
  /\ Forget
  /\ UNCHANGED <<database, catalogs, columnFiles, cache, reported>>

\* Removal goes name by name, a name's columns before its body.
StopInRemove ==
  /\ "crash" \in Faults /\ pc = "remove"
  /\ \E last \in Dropped :
       /\ columnFiles' = [k \in Keys |->
            IF k \in Dropped /\ k <= last THEN None ELSE columnFiles[k]]
       /\ bodyFiles' = [k \in Keys |->
            IF k \in Dropped /\ k < last THEN None ELSE bodyFiles[k]]
  /\ Forget
  /\ UNCHANGED <<database, catalogs, cache, published, reported>>

-----------------------------------------------------------------------------
Progress ==
  \/ Plan \/ Lookup
  \/ ReadColumns \/ ReadIndexes \/ ReadModules \/ Store
  \/ Describe
  \/ Merge \/ WriteColumns \/ WriteBodies \/ Remove
Failures == Stop \/ TornMerge \/ StopInColumns \/ StopInBodies \/ StopInRemove
Next == Database \/ (\E o \in Options : Manifest(o)) \/ Progress \/ Failures

Spec == Init /\ [][Next]_vars

\* A build that was started goes on, and full builds are run again and again.
Full == [force |-> FALSE, narrow |-> FALSE, dry |-> FALSE]
FairSpec == Spec /\ WF_vars(Progress) /\ SF_vars(Manifest(Full))

-----------------------------------------------------------------------------
(* Types.                                                                   *)

Optional(S) == S \cup {None}
Text        == Texts \cup {""}
Structures  == [columns: Text, indexes: Text]
Bodies      == [text: Text, eol: Eols \cup {"lf"}, cut: BOOLEAN]
Listings    == [kind: Kinds, modified: Nat, rows: Rows, triggers: Triggers]
Hashes      == [of: {"structure", "body", "target"},
                text: Structures \cup [text: Text, cut: BOOLEAN],
                triggers: Triggers \cup {0}, depth: 0 .. SampleRows]
RowsOfFile  == [modified: Nat, fingerprint: Hashes \cup {Torn}, rows: Rows \cup {0},
                description: Hashes \cup {None, Torn}]
ColumnFiles == [fingerprint: Hashes, content: Structures]
BodyFiles   == [fingerprint: Hashes, content: Bodies]
CachedStructures == [signal: Nat, value: Structures]
CachedBodies     == [signal: Nat, value: Bodies]

\* An absent value is none of these, and nor is what is left of a torn write.
ASSUME NoneAssumption ==
  None \notin Listings \cup Bodies \cup RowsOfFile \cup Hashes \cup ColumnFiles \cup BodyFiles
             \cup CachedStructures \cup CachedBodies
ASSUME TornAssumption == Torn \notin Hashes \cup ColumnFiles \cup BodyFiles \cup {None}

StageNames  == {"idle", "plan", "lookup", "columns", "indexes", "modules", "store",
                "describe", "merge", "columnFiles", "bodyFiles", "remove"}

DatabaseOK ==
  engine \in Engines /\ db \in [Keys -> Optional(Object)] /\ now \in 0 .. MaxClock
TreeOK ==
  /\ catalogs \in [Kinds -> [Keys -> Optional(RowsOfFile)]]
  /\ columnFiles \in [Keys -> ColumnFiles \cup {None, Torn}]
  /\ bodyFiles \in [Keys -> BodyFiles \cup {None, Torn}]
CacheOK ==
  /\ cachedStructures \in [Keys -> Optional(CachedStructures)]
  /\ cachedModules \in [Keys -> Optional(CachedBodies)]
PlannedOK ==
  /\ pc \in StageNames /\ opts \in Optional(Options) /\ (pc = "idle" \/ opts \in Options)
  /\ objects \in [Keys -> Optional(Listings)]
  /\ state \in [Keys -> Optional(RowsOfFile)]
  /\ selected \subseteq Listed
FetchedOK ==
  /\ structures \in [Keys -> Optional(Structures)]
  /\ definitions \in [Keys -> Optional(Bodies)]
  /\ missing \subseteq selected /\ sentences \subseteq selected
  /\ merged \in 0 .. Len(Catalogs)
HistoryOK == untouched \subseteq Keys /\ published \subseteq Keys /\ reported \subseteq Keys

\* Every variable holds what the code's types allow: the rows and files on
\* disk, the cache and the running build included.
TypeOK == DatabaseOK /\ TreeOK /\ CacheOK /\ PlannedOK /\ FetchedOK /\ HistoryOK

-----------------------------------------------------------------------------
(* What a build promises.                                                   *)

\* The readings of an object as it stands: its body may be served whole or as
\* the cache kept it.
Readings(o) == {BodyOf(o), Trim(BodyOf(o))}
Fingerprints(o) == {Fingerprint(o, StructureOf(o), b) : b \in Readings(o)}

\* The modify signal never misses a real change: a row whose recorded signal
\* is the object's own was fingerprinted over the content the object has now,
\* whatever was altered between the listing and the reads, whichever reads the
\* cache served, and wherever an earlier build stopped.
SignalProves ==
  \A c \in Kinds, k \in Keys :
    LET row == catalogs[c][k] IN
      (row # None /\ db[k] # None /\ Same(row.modified, db[k].modified)) =>
        /\ c = db[k].kind
        /\ row.fingerprint # Torn => \E f \in Fingerprints(db[k]) : row.fingerprint.text = f.text

\* What a finished build covered, and nobody has touched since it listed it, is
\* in the tree as the database has it: the row of its kind carries the
\* fingerprint of the real content, and a name it found dropped has no row left.
\* Later builds that stop, or whose write is cut short, take from it nothing but
\* the rows from the cut on.
RowsCurrent ==
  \A k \in published :
    IF db[k] = None
    THEN \A c \in Kinds : catalogs[c][k] = None
    ELSE LET row == catalogs[db[k].kind][k] IN
           /\ row # None
           /\ row.modified = db[k].modified
           /\ row.fingerprint \in Fingerprints(db[k])
           /\ db[k].kind = "table" => row.rows = db[k].rows

\* The files beside those rows were written from the same content; a write cut
\* short damages the one file it was writing, and no other.
FilesCurrent ==
  \A k \in published : db[k] # None =>
    LET row == catalogs[db[k].kind][k] IN
    /\ HasBody(db[k]) =>
         /\ bodyFiles[k] \notin {None, Torn}
         /\ bodyFiles[k].fingerprint = row.fingerprint
         /\ bodyFiles[k].content \in Readings(db[k])
    /\ db[k].kind \in Detailed =>
         /\ columnFiles[k] \notin {None, Torn}
         /\ columnFiles[k].fingerprint = row.fingerprint
         /\ columnFiles[k].content = StructureOf(db[k])

\* A name a finished build found dropped has left no file behind.
DroppedLeaveNoFiles ==
  \A k \in published : db[k] = None => columnFiles[k] = None /\ bodyFiles[k] = None

\* A sentence beside a fingerprint was written about the content with that
\* fingerprint, unless a build reported that it had no sentence for the object.
StaleOnlyIfReported ==
  \A c \in Kinds, k \in Keys \ reported :
    LET row == catalogs[c][k] IN
      row # None => row.description \in {None, Torn, row.fingerprint}

\* A rebuild costs nothing for what did not change: the model is never asked
\* about an object a finished build covered, that nobody has touched since, and
\* that no build had to report - however the builds between were narrowed, and
\* wherever they stopped, within a write too, unless the cut took the object's own
\* row or file.
RebuildCostsNothing ==
  pc = "describe" /\ ~opts.force => Todo \cap published \subseteq reported

\* Nor is it asked about one that was touched, when what came of it hashes the
\* same as the row says: redeployed as it was, its line endings rewritten, or
\* its rows past the depth of the sample.
LooksAlike(f, o) ==
  IF o.kind = "table"
  THEN /\ f.of = "structure" /\ f.text = StructureOf(o)
       /\ f.triggers = o.triggers
       /\ f.depth = IF o.rows < SampleRows THEN o.rows ELSE SampleRows
  ELSE f.of = "body" /\ f.text.text = BodyOf(o).text
AsksOnlyAboutChanges ==
  pc = "describe" => \A k \in Todo \cap untouched :
    (state[k] # None /\ state[k].description # None) =>
      ~LooksAlike(state[k].fingerprint, db[k])

\* Between builds, a body file carries the fingerprint of the row beside it -
\* unless the row was written over no body at all.
Bodiless(row) == row # None /\ row.fingerprint.of = "body" /\ row.fingerprint.text.text = ""
BodyMatchesRow ==
  pc = "idle" => \A k \in Keys : bodyFiles[k] # None =>
    \E c \in Modules : \/ Bodiless(catalogs[c][k])
                       \/ /\ catalogs[c][k] # None
                          /\ catalogs[c][k].fingerprint = bodyFiles[k].fingerprint

\* Nor is anything fetched again that a finished build fetched and nobody has
\* touched since: the signal and the cache spare it.
RereadsNothingUntouched ==
  pc = "columns" /\ ~opts.force => missing \cap published = {}

\* A build changes the rows it covered and those of dropped names; every other
\* row stays exactly as it was, in every catalog.
OtherRowsStay ==
  [][\A c \in Kinds, k \in Keys :
       catalogs'[c][k] # catalogs[c][k] => k \in selected \cup Dropped]_catalogs

\* Once the database is left alone, and the model answers, full builds bring the
\* whole tree into line with it for good: every row and file of the content the
\* database has, every sentence about that content, and nothing of what is gone.
Settled(k) ==
  IF db[k] = None
  THEN columnFiles[k] = None /\ bodyFiles[k] = None /\ \A c \in Kinds : catalogs[c][k] = None
  ELSE LET row == catalogs[db[k].kind][k] IN
       /\ row # None /\ row.fingerprint \in Fingerprints(db[k])
       /\ db[k].kind \in Describable => row.description = row.fingerprint
       /\ HasBody(db[k]) => \E body \in Readings(db[k]) :
            bodyFiles[k] = [fingerprint |-> row.fingerprint, content |-> body]
       /\ db[k].kind \in Detailed =>
            columnFiles[k] = [fingerprint |-> row.fingerprint, content |-> StructureOf(db[k])]
Converges == <>[](\A k \in Keys : Settled(k))

-----------------------------------------------------------------------------
(* A statement of the documentation the code does not keep.                 *)

\* "A content hash decides whether to DESCRIBE": an object whose sentence was
\* written about other content than it has now is described again.
ChangesAreDescribed ==
  pc = "describe" => \A k \in selected \ Todo :
    state[k] # None => state[k].description \in {None, Torn, EntryFingerprint(k)}
=============================================================================
