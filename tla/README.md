# Verification of dbmap

dbmap reads a database's catalog, has a language model describe each object in
one sentence, and writes the result as a tree of TSV files. The tree is also
dbmap's only memory: the next build reads from it which objects are stale. This
directory holds TLA+ models of that program, TLC configurations that check them
on small instances, and TLAPS proofs about them for every size.

`tlc -config X.cfg M` checks a run, `tlapm M.tla` checks the proofs of a module;
`PROJECT.json` lists the runs, the theorems, the mutants each property is tested
against, and the source lines every definition stands for.

## 1. The system

| component | state it keeps | operations | talks to |
|---|---|---|---|
| build pipeline (`internal/index`) | the running build: listing, prior rows, selection, what was fetched, sentences | manifest, prior, narrow, fetch, pull, describe, write | all of the below |
| staleness planner (`internal/plan`) | none | `Fetch` (what must be read again), `Describe` (whose sentence is stale) | listing, prior rows |
| fingerprint (`internal/fingerprint`) | none | `Of` over a table's structure, a module's body, a synonym's target | |
| tree (`internal/render`) | five catalog files, a column file per table or view, a body file per module, a roster and a guide per tree | `ReadState`, `Write` (merge, detail files), `Remove`, `WriteRoster` | disk |
| fetch cache (`internal/cache`) | an entry per object and kind of artifact, with the signal it was read under | `Structure`, `Module`, `PutStructure`, `PutModule` | disk |
| describe stage (`internal/describe`) | batches, outcomes, sentences by name | worker pool, prompt, answer matching | model client (gollm) |
| engines (`internal/engine/...`) | none: a guard for each statement, a verdict on each reading | `Manifest`, `Structure`, `Modules`, `Sample`, `Health` | connections |
| connections (`internal/connect`) | a pool of at most four connections; a transaction while a guarded statement runs | `Open`, `Query`, `Verify`, `Close` | database server, Kerberos |
| sampling, redaction | none | a `TOP n` per table, skipped when risky; regular expressions | engine |
| credentials (`internal/credentials`) | environment, keychain, file | `Get`, `Set`, `Delete` along a chain | OS keychain |
| configuration (`internal/config`) | one YAML file | load, edit, validate, save | commands |
| commands (`cmd`) | none | index, connection, backend, profile, config, doctor | all of the above |
| plugin (`plugins/dbmap`) | a registry of trees, their clones | add, remove, remind, sync, list, the reminder of a session's start | git, the roster |

What is hard in it, and where (PROJECT.json lists every hazard at its line):

- A build versions everything against **one listing**, but reads structures and
  bodies with **later queries** of a live database; the cache and the tree then
  trust the signal of the listing across builds.
- A build is **narrowed, forced, interrupted, cut short** in any sequence, and
  every one of them merges into the tree the others left, which is also the
  state that decides what later builds read and pay for.
- Batches **fail** and answers **leave objects out**; the row is written anyway.
- Catalogs are **truncated and rewritten in place**, one after another, then the
  per-object files, then the removals.
- Several builds, plugin commands and config edits may run **at once** over files
  with no lock.
- The server may **run out of room, go mute or go away** between any two
  statements, each of which may fail alone; ^C may come at any time.
- A sync may **die anywhere** in git's fetch, reset, removal or clone; what it
  leaves is what the next one starts from.

## 2. The modules

| module | models |
|---|---|
| `Catalog` | kinds, signals, readings, the fingerprint and the two staleness rules: pure operators |
| `Build` | the database beside builds, the tree, the cache, and one build after another |
| `BuildInv` | the inductive invariants of the safety theorems, and `IndexInv`, which is all of them |
| `MCBuild` | definitions that give the constants of `Build` small values |
| `Indexing` | what an index promises to whoever reads it: it is a function of the database |
| `BuildProofs` | operator lemmas, and type correctness |
| `BuildSignalProofs` | `SignalProves` |
| `BuildBookProofs` | what a build knows of the tree whatever signals are worth: `BookInv`, `DroppedLeaveNoFiles`, `BodyMatchesRow`, `StaleOnlyIfReported`, `ChangesAreDescribed` |
| `BuildRowsProofs` | what takes the signals as well: `RowsCurrent`, `FilesCurrent`, the cost properties, `IndexInv`, the refinement of `Indexing`; and `OtherRowsStay` |
| `Describing` | what a build counts on when it buys sentences: one step |
| `DescribeStage` | one describe run: batches, workers, replies, the matching of names; it implements `Describing` |
| `MCDescribe` | small object lists and spellings for `DescribeStage` |
| `DescribeProofs` | the invariants and theorems of `DescribeStage` |
| `Settings` | the commands that edit the configuration and the stored secrets, run by several processes |
| `MCSettings` | small entries and secrets for `Settings` |
| `SettingsProofs` | the invariants and theorems of `Settings` |
| `Statements` | one statement on a connection of the pool, in its guard's transaction; the health query and its verdict |
| `Reads` | `index`, its dry run and `doctor` as stages that send statements; it extends `Statements` and implements `Fetching` |
| `Fetching` | what a build counts on of the server: it writes only from everything it meant to read |
| `MCReads` | small objects, loads and limits for `Reads` |
| `ReadsProofs` | the invariants and theorems of `Reads` |
| `Roster` | builds merging their rows into the roster of a tree, at once and with kills |
| `Trees` | the plugin: registry, clones, sync and reminder, over the trees of `Roster`, which it extends |
| `MCTrees` | a small machine for `Trees`, its symmetry and constraints |
| `TreesProofs` | the invariants and theorems of `Roster` and `Trees` |

How they compose: `Reads` is a command seen from the server, and takes the planner's
two decisions (what is to be read, for what a sentence is wanted) and the describe
run as free choices; `Build` is the same build seen from the tree, and takes the
statements as stages that succeed or stop the build; `DescribeStage` is one step of
`Build`. `Describing` and `Fetching` are the two promises between them, each shown
to be kept by the module that is one level down, and `Indexing` is the promise above
them all, which `Build` keeps towards the readers of a tree. What a build does to the roster at
its end is in `Roster`, and `Trees` puts that beside the plugin's commands.

### Build, and how it corresponds to the code

The state is the database (`db`, its clock `now`, its `engine`), the tree
(`catalogs`, `columnFiles`, `bodyFiles`), the cache, and the running build, whose
`pc` is the stage of `index.Build` it is in:

    idle -> plan -> lookup -> columns -> indexes -> modules -> store
         -> describe -> merge (5 times) -> columnFiles -> bodyFiles -> remove -> idle

Between any two stages the database may create, change, redeploy, drop or grow an
object (`Deploy`, `Drop`, `Grow`); that is what makes the listing stale while the
build still uses it. An object's content is a version: its structure, its body
and its hash are functions of it, so two readings are equal exactly when the
content is. A fingerprint stands for the hash's preimage.

| action | code |
|---|---|
| `Manifest(o)` | `index.go` Build, `manifest.go` of an engine: one listing, with the options the build was started with |
| `Plan` | `prior` (nothing under `--force`), `plan.Fetch`, `narrow`; a dry run ends here |
| `Lookup` | `fetch`: the cache serves an object only if the planner does not want it read, its structure is proven by the signal, and for a module its body is too |
| `ReadColumns`, `ReadIndexes`, `ReadModules` | `Engine.Structure` (several queries; two stand for them), `Engine.Modules` |
| `Store` | `pull`: what was fetched is cached under the signal of the listing; a refused write is a warning |
| `Describe` | `plan.Describe`, `describeAll`: sentences for the stale entries, some of which fail |
| `Merge` | `render.Write`/`merge`: one catalog is read back, merged and written whole |
| `WriteColumns`, `WriteBodies` | the per-object files |
| `Remove` | `render.Remove` |
| `Stop`, `StopInColumns`, `StopInBodies`, `StopInRemove` | a kill, an error or a lost connection between two steps, or within a sequence of files |
| `TornMerge` | a kill while a catalog is being written: the file is a prefix of itself, and the rows behind the cut are gone |

Three variables are history: `untouched` (names the database left alone since the
running build listed them), `published` (names a finished build covered, untouched
since, and not damaged by a write cut short) and `reported` (names a build said it had
no sentence for). No action of the code reads them. A write that is cut short takes from
`published` the names whose rows the catalog lost, or the one whose file it was
writing, and no other: of everything an earlier build covered besides, the properties
still speak.

### DescribeStage, and how it corresponds to the code

`Build` takes a describe run as one step in which any of the objects asked about
may stay without a sentence. `DescribeStage` is that step from within
(`describe.All`), and `ImplementsDescribing` says it is no more than that step.

| action | code |
|---|---|
| `Group` | `Batch`: one item is put into the open batch or opens the next, by the length of its prompt and the count |
| `Start` | `All`: the batches are made, the outcomes allocated |
| `Take(w)` | `run`: a goroutine receives the next batch; with one worker, the loop |
| `Fail(w)` | `describeBatch`: the call fails, or its output cannot be parsed |
| `Answer(w)` | `describeBatch`: the reply's names are resolved to keys (`Requested`, `Resolve`) and the sentences filed |
| `Finish` | `wg.Wait`, then the outcomes merged in batch order, the failed and the missing listed |

A key or a name is a member of a small set of spellings. The matching looks at
two things only, how a spelling folds to lower case and which spellings it ends
with after a dot; `Fold` and `Tails` give them. A sentence stands for the name it
was written under, so that the result shows for whom it was meant. The model may
answer anything: names it was asked about, names it was not, unqualified ones,
one twice, none. A blank sentence is an absent answer.

### Settings, and how it corresponds to the code

The state is `config.yml` (`config`), the OS keychain, the plaintext file, and per
process the command it runs: the copy of the configuration it loaded and edited
(`next`), the entry and the secret it is about, and where it is. An entry is a
name with its kind of authentication; what else it holds is data.

| action | code |
|---|---|
| `StartAdd` | `addConnection`, `addBackend`: flags, the secret from stdin, the environment or a prompt (`readSecret`), the probe |
| `StartRemove` | `RemoveConnection`, `RemoveBackend`: refused while a profile binds the entry |
| `StartEdit` | `profile create`, `switch`, `remove`, `config set` |
| `StartUse` | the reads of `index` and `doctor` |
| `Get`, `Approve` | `chain.Get`, `Keychain.Get`: a silent read, the dialog, the re-save of an item that was released |
| `SetItem`, `RefuseOwner`, `DropItem`, `Refuse` | `Keychain.Set` call by call; `AfterRefusal` is what `chain.Set`, `remember` and `rebind` make of a refusal |
| `Forget` | `forget`, `chain.Delete` |
| `ReadFile`, `TruncateFile`, `WriteFile` | `credentials.File`: read, edit, `os.WriteFile` |
| `Save` | `Config.Save`: one rename |
| `Stop` | a failed probe, validation or write, a cancellation, a kill |
| `Upgrade` | the binary is replaced, and the keychain's items are another program's |

`told`, `dropped` and `refused` are history, and so is the `apart` of a command: no
other has disturbed it (`Disturbs`). What two commands about one entry report, nobody
can hold both of them to; and an `add` promises an entry in a configuration that any
command beside it may save over.

### Reads and Statements, and how they correspond to the code

A statement is what it is for (`health`, `alive`, `work`) and how far it is. A
server is a load, mute (it answers, but not about itself) or gone. `Weather` changes
it between any two steps, `Interrupt` is ^C or the end of doctor's time.

| action | code |
|---|---|
| `Begin`, `Set`, `Execute` | `conn.Query`: a transaction and its settings for PostgreSQL, the bare statement for SQL Server |
| `Collect` | `engine.collect`: the rows are read, the cursor and its transaction closed |
| `Fails` | every error return of `conn.Query` and of `collect`, with what it releases |
| `AskAlive`, `Health` | `Engine.Health` of both engines: the reading, or whether a trivial query is answered |
| `Resolve`, `OpenPool`, `Equip`, `GiveUp` | `runIndex` up to `index.Build`, and every way it fails there |
| `Ask`, `AskAgain`, `Proceed`, `Halt` | `halt` and `engine.Assert`: the health query before every statement |
| `Answered`, `Failed` | a statement of `Manifest`, `Structure`, `Modules` or `Sample` came back, or did not |
| `Probe`, `Skip`, `Fatal` | `sample.All`, `fatal`: after a sample that failed, and after a sample whose health query got no answer |
| `Listed`, `Plan`, `Structured`, `Assemble`, `Split` | `index.Build`, `fetch`, `pull` between the reads |
| `Report` | a dry run's report |
| `Release`, `Describe`, `Write` | `index.Build` after its last read: the pool is closed first |
| `Verify`, `AskDoctor`, `ReadOnly`, `ReadOnlyFails`, `Judge` | doctor's checks, each depending on the one before |

`said` (what the server last told of itself, until the statement that was asked for
is over) and `silent` (statements failed in a row) are history.

### Roster and Trees, and how they correspond to the code

A roster is a function from databases to build stamps, or `Undated` for a row whose
stamp has slipped under another heading: `readRoster` pads the rows of an earlier
dbmap, of fewer kinds, at their end (`Padded`, `narrow`). A root is a name, a path and
perhaps a remote; a row of the registry that a hand left without a name or a path is
`broken`. A checkout is what git may be found to have left: `whole`; `partial`, with
files missing that a reset brings back (a clone that was cut short has its remote
already, and can be fetched); `locked`, where a fetch succeeds and a reset finds the
index locked; or `torn`, with no repository in it any more. In a torn one git takes the
repository around it, if there is one (`Enclosed`), and fetches and resets that.

| action | code |
|---|---|
| `Read`, `Truncate`, `Write`, `BuildDies` | `WriteRoster`: read and merge, `os.WriteFile` in two steps; a kill |
| `Publish`, `HandEdit` | a team pushes its tree; a person breaks or mends `roots.json`, or a row in it |
| `StartEdit`, `Save` | `add`, `remove`, `setRemindAfterHours`: `readStrict`, which leaves out the broken rows, the edit, `write` through a rename |
| `StartSync`, `Turn`, `Finish` | `sync` in `roots.js` |
| `Fetch`, `FetchFails`, `RemoveCheckout`, `Reset`, `ResetFails` | `git.pull` |
| `StartClone`, `Clone`, `CloneFails` | `git.clone` |
| `FetchStray`, `ResetStray` | `git.pull` in a torn checkout inside another repository |
| `Die` | a kill of the command and its git, or of a git left alone, and what it leaves half done (`Wrecks`) |
| `DieAlone` | `node` is killed and the git it started goes on (`Orphan`), beside whatever sync comes next |
| `Messages` (an operator) | `notify-stale.js` over `resolveAll`, for the state it finds |

`stamped`, `older`, `clashed`, `asked`, `spoiled`, `raced` and `crossed` are history.
`clashed`, `raced` and `crossed` say which builds, edits and syncs met: what two of
them leave behind nobody can hold either of them to. `spoiled` are the names whose row
was broken when a command about another name read it: the save drops it. The known
limits of section 4 name all of these.

## 3. What is checked

Every passing run explores its whole state space.

| run | instance | properties |
|---|---|---|
| `BuildNarrowed` | a table and a procedure, narrowed, forced and dry builds, failing batches | `TypeOK`, `DroppedLeaveNoFiles`, `IndexInv`, `RereadsNothingUntouched`, `OtherRowsStay`, `ImplementsIndexing` |
| `BuildModule` | one view, two line endings, a body that may be unreadable, a refusing cache, failing batches | `AsksOnlyAboutChanges`, `SignalProves`, `StaleOnlyIfReported`, `BodyMatchesRow` |
| `BuildTable` | one table, row counts around the sample depth, both engines, a refusing cache | `AsksOnlyAboutChanges` |
| `BuildCrash` | a table and a procedure, full and narrowed builds, kills between and within writes | `RowsCurrent`, `FilesCurrent`, `RebuildCostsNothing`, `BuildSettles` |
| `DescribePool` | three tables, two of one name in two schemas; prompts below and above the budget; two workers; replies of up to two names, one of them unqualified | `TypeOK`, `BatchesFit`, `EachBatchOnce`, `AnswersArrive`, `MeantFor`, `ImplementsDescribing`, `Finishes` |
| `SettingsRace` | two processes, a connection with two possible passwords, a backend without a key, one profile; items stored by an earlier installation; upgrades | `TypeOK`, `BindingsStand`, `AddedStays`, `NoSilentPlaintext`, `RemovedForGood` |
| `BuildConverges` | a synonym and a function, a body longer than the cache keeps, full and narrowed builds, fair | `Converges` |
| `Reads` | either engine; four tables (two sampled in part, one whole, one of which nothing may be read) and three modules, two a batch; `--samples` of all, none and two; loads that are well, tight, low, pressed or queued | `TypeOK`, `RoomFirst`, `GivesUp`, `NothingHeld`, `HonestExit`, `CheapestFirst`, `ImplementsFetching` |
| `Trees` | two processes, one local tree, which an earlier dbmap may have built, two databases, two names, two remotes, one of which may have been cloned before, all inside another repository | `TypeOK`, `RowsStay`, `NothingDropped`, `PulledIsPublished`, `RemindsTruly` |

Each property names in its comment the behaviour it is about. The central ones:

- `SignalProves`: if a row carries the object's own modify signal, it was
  fingerprinted over the object's present content. The whole economy of a
  rebuild rests on it: with such a row nothing is read again.
- `RowsCurrent` and `FilesCurrent`: what a finished build covered and nobody
  touched since is in the tree as the database has it, through later builds that are
  narrowed or killed. A kill within a write costs the rows or the file it cut; the
  properties hold the rest of the tree to what it was.
- `ImplementsIndexing`: what a reader finds of such an object (its row, its files and
  its sentence) is what the object alone determines, and stays so through every
  later build until the object is touched. "Two builds produce the same files", says
  the comment of `index.write`.
- `RebuildCostsNothing`: the model is not asked about such an object either.
- `AnswersArrive` and `MeantFor`: an answer under an object's own name reaches
  that object, whatever batches fail; an answer under an unqualified name reaches
  an object only if it could be meant for no other of the batch.
- `AddedStays`: once an `add` that ran alone, with no file and no secret from the
  environment in play, has reported success, its secret answers until the next `add` or
  `remove` of the entry starts, whatever was stored under the name before; never an older
  one, and nothing only where a lookup let an upgraded build delete the item and could not
  store it again.
- `RemovedForGood`: once a `remove` with no file in play and no other command about its
  entry beside it has reported success, the keychain holds nothing of the entry until the
  next `add` or `remove` of it starts, though an edit that had loaded the configuration
  before puts the entry back and lookups of it follow.
- `RoomFirst` and `GivesUp`: no statement of any weight is sent to a server that
  has not just said it has room, and none after four in a row were not answered.
- `HonestExit`: a command that ends well did what it was asked, from everything it
  meant to read.
- `NothingDropped`: edits, one at a time, and hand edits and kills between them lose no
  root, as they would if an unreadable registry were edited as an empty one; but for a
  row that was broken when a command about another name read it, and of that name the
  registry then has none.
- `PulledIsPublished`: what a sync that ran alone says it has pulled is whole and what the
  repository of the checkout had, though earlier syncs died in the middle of a clone, a
  removal or a reset; but for a torn checkout inside another repository.
- `RemindsTruly`: the reminder names the stalest database, and is silent only if there
  is nothing to say, where "stalest" and "registered" are what the builds and the
  commands did, not what the roster and the registry say of it.
- `BuildSettles`: one build is enough. Whatever earlier builds left, narrowed, forced,
  killed between two writes or within one, the next that covers an object nobody touches
  meanwhile ends with its row, its files and, where none is owed, its sentence right.
- `Converges`: once the database is left alone and batches succeed, full builds
  bring the whole tree into line for good.

**Bounds.** `MaxClock` (2) limits how often the signal moves: an object can be
created, changed once and redeployed; a row, a cache entry and the object then
carry three distinguishable versions. Two names are the fewest that tell a
covered object from one that is not. `SampleRows` is 1 and row counts are 0..2:
below, at and past the depth. Nothing else is bounded; the number of builds is
not.

In `DescribePool` a batch holds at most two objects and three characters
(`BatchMax`, `BatchChars`), prompts have one character or four (`Costs`): the
objects fall into two or three batches, closed by count, by characters, or by a
single prompt over the budget, more batches than workers included. A reply of up
to `MaxAnswers` (2) names can answer for a whole batch, for one object twice or
for none of it.

In `SettingsRace` two processes are the fewest that can overwrite each other, two
passwords the fewest that tell a replaced secret from the one it replaced, and
one connection and one backend are what a profile needs. Removals are not forced
(`Forces`): forced ones leave dangling bindings, which the code means them to
(`internal/config/validate.go:94-97`). `FileAlone`, the constraint of the run, has
commands that may use the plaintext file run one at a time, which keeps the run
small; the theorems about the file and the bindings do without it. The two
passwords and the two processes are symmetric.

`ChangesMatter`, the action constraint of the safety runs, explores changes of the
database only while a build is idle or reading. From `lookup` and from `describe`
on a build consults the database no more, so a change made there commutes with
the build's steps to the next read or to its end. The proofs do not use it, and
`BuildConverges` runs without it.

In `Reads` the three modules make one full batch and one that is not; the four
tables differ in what the sampling looks at, and a limit of two leaves one of the
three useful ones out. Nothing bounds how often the server's load changes or how
many samples fail. Kinds that are neither table nor module are read with the
structure and need no statement of their own, so none is in the instance.

In `Trees` the clock runs to `MaxNow` (2), which tells an old stamp from a new one
and both from none; `MaxCommands` (3) builds and commands are given, enough for an
edit and two syncs, or three commands that overlap in pairs. `PublishedOne` has one
team publish one database, which is enough for its clone to be behind;
`EditedBetween` has hand edits come between commands, which read the registry once,
when they start; `OneBroken` has the file, or one row of it, broken at a time, and
nothing built meanwhile. `OneOlder` and `OlderApart` have an earlier dbmap leave one
database's row, where no remote is registered: two rows tell one built beside from one
built again. `Enclosed` is TRUE, which takes nothing away: a step in a torn checkout may
fail as well. Processes, remotes, databases and names are symmetric. The theorems do
without all these bounds.

**Fairness.** `FairSpec` says that a build that was started goes on
(`WF(Progress)`: the pipeline is sequential and blocks on nothing it does not get
an answer from) and that full builds are started again and again
(`SF(Manifest(Full))`: the schedule the documentation recommends). Deploys are
bounded by `MaxClock` and nothing is required of them. In `DescribeStage` the
goroutine of the run and those of its workers are fair, and so is each worker's
`Fail` or `Answer` taken together: a call comes back one way or the other, and
nothing says which. That is an assumption about the model client; the code sets no
deadline of its own on a batch.

## 4. Where code and documentation part

Each of these is a run that must fail, and TLC's counterexample is the scenario.

- `BuildStaleSentence`: a failed batch writes the new fingerprint beside the old
  sentence, and the next build takes the object for unchanged. The program
  reports the failure once, and never describes the change. That a failed batch is the
  only way there is `ChangesAreDescribedHolds`.
- `ReadsInterrupted`: "Cancelling the context lets the pipeline stop where it is"
  (`main.go`), but a describe call that ends with the context is a failed batch
  like any other, and the interrupted build goes on to write the tree, the new
  fingerprints beside old sentences or none. It exits as a failed build, not as an
  interrupted one.
- `TreesMoved`: a name registered again with another remote keeps the checkout of
  the old one, which sync goes on fetching while it says it updated the new one;
  `registry.js` says two teams' trees never share a checkout.

Known limits, which the instances exclude by their constants or the properties by
their history:

- `--force` discards the prior state, and with it the knowledge of what was
  dropped: rows and files of dropped objects stay until an unforced build runs;
- a view dropped and created again as a table keeps its row in `views.tsv`, which
  the next `ReadState` prefers: the table is described on every build;
- of two objects of a batch whose names differ only in case one can never be
  answered for; its answer is filed under the other (`describe.go:276`);
- a read approved through the keychain's dialog stores the item again, and for an
  item of another owner deletes it first: a refusal then loses the secret just read;
- two builds that meet at a roster, and a build killed between its truncation and
  its write, lose rows (`roster.go:66-82`); each comes back with its next build;
- a roster row of an earlier dbmap, of fewer kinds, is padded at its end when another
  database is built beside it: its stamp slips under the heading of a count, and nobody
  can read its age any more (`roster.go:129-132`);
- of two registry edits at once one is lost (`registry.js:76-97`);
- a registry row that a hand left without a name or a path is dropped by the next command
  that saves (`registry.js:52, 151-155`; `tests/registry.test.js:114-121` has the read drop
  it): only a file that does not parse is kept from the write (`registry.js:38-40`);
- a checkout that a kill left without its `.git`, inside another repository, is taken for
  that repository: sync fetches and resets it and reports the root updated (`git.js:26-34`);
- a git that outlives its killed `node` goes on in the checkout the next sync works on
  (`git.js:11`; `PulledIsPublished` leaves such syncs out, as it does two at once);
- a published tree that was fetched and holds no index is reported as one that "has not
  been fetched yet" (`notify-stale.js:31`), though the comment at its head speaks of trees
  "never fetched"; `sync` itself tells the two apart (`roots.js:188-190`);
- a sync without a network deletes a checkout that was readable (`git.js:27-29`);
- a reset that was killed leaves git's index locked, and every later sync of that
  root fails until somebody removes the lock (`git.js:33`);
- the first remote that cannot be fetched ends a sync: the roots after it are not
  tried (`roots.js:187`);
- the probe after a failed sample heeds only whether the server answers, not what it
  says; the next table's own health query stops the build (`sample.go:130-141`);
- doctor's time starts before the keychain's dialog, which may use it up
  (`doctor.go:198`);
- a table PostgreSQL has never analysed is listed with no rows, so its sample is
  taken for the whole table (`projection.go:69`);
- two connections with different Kerberos caches use the one resolved last
  (`gss.go:24-26`, which says so);
- an error met while rows are read is passed on without the diagnosis the error of
  a statement gets (`conn.go:12-15`);
- a signal of whole seconds (`Coarse = TRUE`): a second change within the second
  the first was indexed in is never noticed, so `SignalProves` does not hold;
- a build stopped between the merge and the removal leaves the files of dropped
  objects for good, since the rows that named them are gone;
- a catalog cut off in the last cell of a row leaves the start of a sentence there,
  which every later build keeps: the fingerprint before it is whole and the sentence
  is not empty (`plan.go:142`, `write.go:155`);
- a body that becomes unreadable leaves its old body file in place beside a row
  fingerprinted over nothing (`BodyMatchesRow` names the exception);
- a module whose body cannot be read is never cached, and is read again by every
  build (the runs with `RereadsNothingUntouched` have readable bodies);
- with a plaintext file in use, an older secret left in the keychain answers before
  the newer one in the file, a keychain that refuses a deletion is not reported,
  and the file loses what another process stored between its read and its write
  (`AddedStays` and `RemovedForGood` speak of commands that had not opted in);
- a lookup that was released an item while its entry is removed stores it again, and the
  removal is reported as done all the same; a lookup that was refused to store what it
  deleted has lost the secret;
- of two processes that edit the configuration at once the later save wins whole:
  an `add` can be undone by an edit that had loaded the file before it;
- redaction may lengthen a body past what the cache keeps (`Overlong`): it is then
  fingerprinted once whole and once cut, and described once more than needed
  whenever the source of the reading changes.

## 5. What is proved

For every set of names, kinds, texts and options, any number of builds, processes,
workers, databases and remotes, and any clock, under the assumptions on constants
that the modules state (each checked by TLC on every run). Beside those that fix what
a constant is, they say that the markers for "nothing" and for a torn file are no
values of the data (`NoneAssumption`, `TornAssumption`, `ItemAssumption`,
`ExitAssumption`, `NoRosterAssumption`, `UndatedAssumption`), that batches and clocks are positive, and that
a clone is not where a person builds (`PlacesAssumption`).

| theorem | statement, and what it takes beside `Spec` |
|---|---|
| `TypesHold` (of `BuildProofs`) | `TypeOK /\ Assembled` |
| `SignalProvesHolds`, `RowsCurrentHolds` | exact signals |
| `BuildSettlesHolds` | exact signals, no empty text, no synonym takes over the name of another kind |
| `StaysSettledHolds` | the same, no body longer than the cache keeps, no torn write |
| `FilesCurrentHolds` | exact signals, no body longer than the cache keeps, no empty text |
| `AsksOnlyAboutChangesHolds` | exact signals, no body longer than the cache keeps |
| `RebuildCostsNothingHolds` | the same, and one kind per name |
| `RereadsNothingUntouchedHolds` | exact signals, one kind per name, SQL Server, readable bodies, a cache that takes what it is given |
| `DroppedLeaveNoFilesHolds`, `BodyMatchesRowHolds` | no kill and no torn write |
| `StaleOnlyIfReportedHolds` | no synonym takes over the name of another kind |
| `ChangesAreDescribedHolds` | the same, and the model answers whenever it is asked |
| `BuildImplementsIndexing` | exact signals, no body longer than the cache keeps, no empty text, no torn write, no synonym takes over the name of another kind |
| `OtherRowsStayHolds` | no torn write |
| `IndexInvHolds` | nothing: each part states its own condition |
| `TypesHold`, `BatchesFitHolds`, `EachBatchOnceHolds`, `EveryStepCountsHolds`, `NobodyStuckHolds`, `RunImplementsDescribing` (of `DescribeProofs`) | nothing |
| `AnswersArriveHolds` | no two keys fold alike |
| `MeantForHolds` | the same, and no key is the unqualified end of another |
| `TypesHold`, `NoSilentPlaintextHolds`, `AddedStaysHolds`, `RemovedForGoodHolds` (of `SettingsProofs`) | nothing |
| `BindingsStandHolds` | no forced removal |
| `TypesHold`, `RoomFirstHolds`, `GivesUpHolds`, `NothingHeldHolds`, `HonestExitHolds`, `CheapestFirstHolds`, `EveryMoveCountsHolds`, `ReadsImplementFetching` (of `ReadsProofs`) | nothing |
| `TypesHold`, `RowsStayHolds`, `NothingDroppedHolds`, `PulledIsPublishedHolds`, `RemindsTrulyHolds` (of `TreesProofs`) | nothing |

Why each condition is there, and what the code does without it:

- *Exact signals* (`Coarse = FALSE`): of two changes within one tick of the signal the
  second is never noticed. PostgreSQL, which has no signal, is covered: its builds read
  everything.
- *No body longer than the cache keeps* (`Overlong = {}`): such a body is fingerprinted
  whole when it was fetched and cut when it came from the cache.
- *No empty text* (`"" \notin Texts`): an object that no longer has columns, or a module
  that no longer has a text, keeps the file of the time it had (`render/write.go:70`).
- *One kind per name*: a name that had another kind may have a row in two catalogs, and
  `ReadState` takes the later one.
- *No kill, no torn write*: the removals come last, and are forgotten by a build that
  does not get there; the body files come after the catalogs.
- *No torn write*: what is cut short in the middle of a sentence is kept, and a
  catalog cut short has lost rows of others.
- *No synonym takes over a name*: it inherits the old row's sentence.
- *The model answers*: the run `BuildStaleSentence` shows what a failed batch leaves.
- *No two keys fold alike*, *no key the end of another*: see the known limits; a reply
  that names an object of another batch can be taken for the qualified name it ends.

### Build

**Books and signals.** What a build knows has two sources, and the invariants are
divided by them. `BookInv` is what its stages know of the tree and of each other by
having looked: the state read still is what the tree says until the first merge
(`StateRead`), the merged catalogs hold the selection's rows and no dropped name's
(`RowsWritten`), a name without prior state has no row anywhere (`NoRowsUnknown`), so
have the files once it is their turn (`FilesWritten`), and a selected object has been
described, has been reported or keeps its sentence (`Sentenced`). It holds for every
constant. `SignalInv` is what a build believes because of a signal:

- `Stamps`: no recorded signal is later than the clock. A change therefore takes
  a signal nothing has recorded (this is where `Coarse = FALSE` is used), and
  whatever was vouched for stops being so.
- `Attested(k)`: the object still carries the signal of the listing, or nobody has
  touched it. `KindsAttested` and `ListingStands` say what the listing is then
  worth.
- `CacheVouched`: a cache entry whose signal the object still carries holds what
  the object holds.
- `ReadsAttested`: at each stage, what has been read so far of an attested object
  is what the object holds. A change between two reads makes the object
  unattested, which is why a mixed reading can be written, but never believed.

`SignalProves` by itself is not inductive: a row is only as good as the readings it is
made of. `RowsCurrent` takes both: the signals say that what was read is what there is,
the books that it was written and that nothing else wrote there since.

**Files.** `FilesStand` is `FilesCurrent` at every stage of a later build. A file is
written again only from a reading that is attested, and then with the same bytes; it is
removed only for a name that was dropped, which a published one is not. A kill between
two files leaves each as it was or as it was to be written, which for a published name
is the same; a kill within one damages that one, whose name is published no more.
`TornPublished` says the same of catalogs: a name still published after a catalog was
cut short has the row the merge was to write, or the one it had.

**Cost.** `RebuildCostsNothing` and `AsksOnlyAboutChanges` add that no row's hash was
taken of a body cut short (`BodiesUncut`: otherwise an equal content has two hashes),
and `Told`: what is published and was never reported missing has its row and its
sentence.
`RereadsNothingUntouched` adds `Stock`: what is published is in the cache under its
signal, and so is whatever the running build found or put there.

**Without signals.** `DroppedLeaveNoFiles` and `BodyMatchesRow` need that no file is
without a row unless its name is being dropped (`FilesHaveRows`), and that a body file
has the fingerprint of its row or is about to be written again (`BodiesOfRows`).
`StaleOnlyIfReported` follows the sentences from the rows into the state and back
(`SentencesOwn`); without failed batches nothing is reported, and `ChangesAreDescribed`
is what that leaves of it. `IndexInv` is all of it, and `BuildNarrowed` checks it on its
instance.

**Settling.** `Settled(k)` is what a reader wants of one object: its row as the database
has it, a sentence, the files of its kind, and of a name that is gone nothing at all.
`BuildSettles` looks at the end of a build, where the row is what the build read
(`RowsWritten`), the files were just written (`FilesWritten`) and what was read is what
the object holds, since nobody touched it (`ReadsAttested`). It asks nothing of the state
the build found, so it needs neither the torn writes nor the long bodies excluded; an
object that lost its sentence to a torn catalog is one the build either describes again
or finds with a whole sentence (`Spoken`). `StaysSettled` is `Faithful` again, read the
other way: the steps of later builds write what is there. Both together are `Converges`
without the fairness.

**The refinement.** `Indexing` has the database, what the index says of each object,
its sentence, and the sentences owed. Its steps are a change, which voids what was
said of the object; a build's end, which sets what it covered to `Image(object)`; and a
silent model. `Index` maps to it what a reader finds of a published object: the row of
its kind, or any at all of an object that is gone, the files of its kind, and the
sentence if none was ever owed. `Faithful` says that this is the image of the object,
and is what the other invariants come to: `RowsCurrent` and `FilesStand` with the one
hash a body has (`Overlong`), no row count but a table's (`Countless`), and a sentence
that is there (`Told`), its row's own (`SentencesOwn`) and whole (`SentencesIntact`). So
the merge and the files of a later build, however narrowed, forced or killed, write over
a published object what was there: each of their steps is a stutter of `Indexing`. The
files of an object that is gone are not part of what is mapped, since a killed build
leaves them; `DroppedLeaveNoFiles` is about those.

### Describe

`EachBatchOnce` rests on `Grouping` (an item grouped has a batch that exists) and
`Flight` (a batch handed out is in flight or has come back; nothing is in flight
that was not handed out). `AnswersArrive` adds `Filing`: a batch that was answered
has its reply filed under the keys it was asked for, and nothing else is filed;
`LargestOf` gives the merge its last batch. `MeantFor` follows a sentence of the result
back to the reply it stood in (`SentenceFiled`), to the object the name was resolved to
(`ResolvedTo`), and to that object's batch, which is the only one that can have filed
it: so the choice `resolve` makes among one batch's objects is as good as one among all.
`BatchesFit` compares the length of a batch with the budget, and the length is a sum
over a set, a fold that takes the elements in an order nothing is known of. That the
order does not matter is an induction over sets, put as a search for the least
counterexample: there is such a sum (`SumExists`), any two agree (`SumsAgree`), and any
element may be taken out first (`SumTakesOut`). `Packed` then says what the running
count and length are, and each prompt either opens a batch (`OpensFit`) or joins the
last (`JoinsFit`). That a batch may hold at least one prompt (`BatchMax > 0`) is what
`Options.max()` makes of any other setting.
The refinement needs no invariant: only `Finish` changes what `Describing` sees.

A run ends, but for the scheduler. `ToGo` adds up the objects to be grouped, the batches
that may still be handed out and come back (one an object at most), and the stages left;
`EveryStepCounts` has it fall with every step, an answered call or a failed one, which
needs `Flight`: a batch that came back twice would not bring the end nearer. `NobodyStuck`
says that until the end somebody has a step to take and that at the end no batch is
missing. `Finishes` adds only that whoever can take a step does.

### Settings

`BindingsStand` needs that the copies still to be saved stand as well
(`BindInv`): each was loaded from a file that stood and edited by an operation
that keeps it so, which is why the order of the saves does not matter.
`NoSilentPlaintext` needs the same of what the processes have read of the file
(`FileInv`), and that whoever carries a secret to the file was refused with it;
`refused` only grows. `AddedStays` and `RemovedForGood` rest on one invariant,
`ToldInv`: what a command reported is in the configuration and the keychain
(`Stored`), every other command in flight either speaks of another entry, or carries a copy that
agrees with a reported add, or is a lookup that has found nothing of a removed secret
(`Sound`, `Minds`), and what a command nobody has disturbed is about to report is already
so, with nobody there who could make it untrue (`Apart`). An `add` is disturbed by any
command beside it, since the configuration is saved as a whole; a `remove` only by those
about its own entry, since what it promises is about the keychain.

### Reads

`RoomFirst`, `GivesUp` and `NothingHeld` rest on `CommandInv`. `RoomFirst` needs
`SaidInv`: what the server said is kept until the statement it was asked for is over.
`GivesUp` needs the bound on failures for each statement by what it is for
(`SilentInv`). A sample's own health query and the trivial one can both fail; that is an
error like any other to `sample.All`, whose `fatal` asks for the server's health again:
two more, four in a row (`sample.go:115-117, 134-141`). In every other stage the first
two end the command. `NothingHeld` needs `HeldInv` and that a stage that sends nothing has
nothing under way (`StageInv`).

`HonestExit`, `CheapestFirst` and the refinement add `RunInv`: `Course` (what the stages
so far have left of the plan), `Gained` (the batches of bodies cover the modules up to
the last one read), `Cheapest` (what was tried is an initial segment of the useful
tables) and `HonestExit` itself. That a next table exists at all is `FirstOf`: of some
tables one has the fewest before it, by the well-foundedness of the naturals and the
cardinality of finite sets. `Fetching` is refined step by step: each stage that ends is
one of its actions, each statement a stutter.

`EveryMoveCounts` says that no command goes on for ever: but for changes of the server's
load and the user's interrupt, each step leads to a later stage, to fewer statements this
one has still to send, or closer to the answer of the one under way; all three are natural
numbers. It needs `Turns`: a statement is under way only while the stage has one to send,
so a stage never overshoots the count its end is compared with. A sample that fails is
counted like one that was answered, and the questions after it are two at most; were a
skipped table tried again, a server that keeps failing would hold the build for ever.

### Roster and Trees

- `RowsStay` rests on `RosterInv`: at a directory where no two builds met at most one
  has truncated the roster, and whoever is to write there has every other row, padded
  if it came from an older roster (`Knows`).
- `NothingDropped` rests on `RegistryInv`: an edit still to be saved read the rows that
  are there, broken or not (`Fresh`; hands move rows between the two and drop none,
  `HandsKeep`), and no row is both. Only a save beside another edit could spoil that,
  which is `raced`.
- `PulledIsPublished` rests on `SyncInv`: no name is twice in the registry, in what a
  sync has to do and in what it has done (`NamesInv`), so that a pull touches no
  checkout pulled before; of two syncs under way, and of a sync and a git left behind,
  each is `crossed` (`Alone`); a remote never has less than any sync saw of it
  (`PublishedInv`); and what was fetched into a checkout that is still one is no older
  than that, so the reset may use it (`SyncedNew`).
- `RemindsTruly` needs the first two: by `RegistryInv` the roots in the registry are
  those last asked for (`WantedRoots`), by `RowsStay` a roster tells when each database
  was last built. The stalest database of the stalest tree then exists (`OldestOf`) and
  is the stalest of all (`AgeOf`).

### Model-checked only

`Converges` and `Finishes` are liveness under fairness, which is out of the prover's
reach. What they rest on beside fairness is proved: `BuildSettlesHolds` and
`StaysSettledHolds` for the one, `EveryStepCountsHolds` and `NobodyStuckHolds` for the
other. That a build reaches its end at all is the fairness `Converges` assumes of it, and
that no command can read for ever is `EveryMoveCountsHolds`. Every invariant and every
action property of a passing run is stated by a theorem. `StaysSettled`,
`EveryStepCounts`, `NobodyStuck` and `EveryMoveCounts` are stated in `BuildInv`,
`DescribeStage` and `Reads` for the theorems about them; no run lists them.

## 6. Not modelled, and the plan

- The text of files, prompts and queries; SHA-256; driver strings, the Kerberos
  credential cache and the wording of driver errors; terminal output; the redaction
  rules. They are conversions or external I/O, and no state outlives a call.
- The model client's own response cache and retries (`gollm`, external): a call
  answers or does not.
- The cells of a sample: they reach the prompt and no file.
- Two objects of one name: PostgreSQL lets a table and a function share one, and
  everything in the code is keyed by name. `Build` has names unique.
- Two builds of one database into one directory at once. They meet at the catalogs
  with no lock; `Build` runs builds one after another, and only the roster is
  modelled under concurrency.

What would add most next: two builds of one database at once, over a smaller `Build`.
