-------------------------------- MODULE Reads --------------------------------
(***************************************************************************)
(* The commands that read a server: `index` (cmd/index.go over             *)
(* internal/index), its dry run, and `doctor` (cmd/doctor.go).  They       *)
(* settle a connection, open a pool and go from stage to stage; a stage    *)
(* asks for room and sends a statement, as often as it has something to    *)
(* read.  What a build does with the rows is module Build's business; here *)
(* it is which statements are sent, in which order, under which condition, *)
(* and what becomes of the command when one of them fails.                 *)
(*                                                                         *)
(* Objects are numbered in the order the manifest lists them.              *)
(***************************************************************************)
EXTENDS Statements, FiniteSetsExt

CONSTANTS
  KindOf,      \* per object: "table", "module", "synonym"
  Rows,        \* per object: the rows the manifest says it has
  Columns,     \* per table: the names of its columns
  Personal,    \* columns whose name says personal data
  Opaque,      \* columns of a type no describer can read
  SampleRows, ModuleBatch,
  Limits,      \* what --samples may be: -1 for every table, 0 for none
  Stale,       \* sets of objects the fetch cache may be unable to serve
  Changed      \* sets of objects that may turn out to want a sentence

Objects == DOMAIN KindOf
Tables  == {o \in Objects : KindOf[o] = "table"}

ASSUME ObjectsAssumption == Objects \subseteq Nat /\ IsFiniteSet(Objects)
ASSUME BatchAssumption == ModuleBatch \in Nat \ {0}
ASSUME CountsAssumption == SampleRows \in Nat /\ Limits \subseteq Int /\ \A t \in Tables : Rows[t] \in Int
ASSUME ExitAssumption == None \notin {"ok", "failed"}
ASSUME InputsAssumption == Stale \subseteq SUBSET Objects /\ Changed \subseteq SUBSET Objects

VARIABLES
  cmd,      \* build, dry, doctor
  limit,    \* --samples
  stage,
  turn,     \* how many statements of the stage have been answered or given up
  probing,  \* a sample failed, and the server is asked why
  missing,  \* objects to be read from the server
  todo,     \* objects a sentence is wanted for
  bodies,   \* modules whose batch was answered
  read,     \* objects of `missing` the build has assembled
  sampled, skipped,  \* tables
  silence,  \* objects the model gave no sentence
  failed,   \* whether a batch of the describe stage failed
  written,  \* the tree
  exit      \* how the command ended

asked  == <<cmd, limit>>
place  == <<stage, turn, probing>>
plans  == <<missing, todo>>
gains  == <<bodies, read, sampled, skipped>>
result == <<silence, failed, written, exit>>
vars   == <<wire, asked, place, plans, gains, result>>

-----------------------------------------------------------------------------
(* What there is to read.                                                   *)

\* The structure of everything, one query per aspect of it.
SqlServerSources == {"columns", "indexes", "foreignKeys", "parameters", "synonyms"}
PostgresSources  == {"columns", "indexes", "foreignKeys", "parameters"}
Sources == IF engine = "sqlserver" THEN SqlServerSources ELSE PostgresSources

\* Bodies are asked for by name, so many names a query. Mutant: a last batch
\* that is not full forgotten.
Place(o, all) == Cardinality({p \in all : p <= o})
Keys == {o \in missing : KindOf[o] = "module"}
BatchesFull == Cardinality(Keys) \div ModuleBatch
Batches == (Cardinality(Keys) + ModuleBatch - 1) \div ModuleBatch
Batch(b) == {o \in Keys : Place(o, Keys) > (b - 1) * ModuleBatch /\ Place(o, Keys) <= b * ModuleBatch}

\* What may be read of a table: no personal data, nothing opaque.
Project(t) == {c \in Columns[t] : c \notin Personal /\ c \notin Opaque}
Complete(t) == Rows[t] <= SampleRows

\* A table nothing may be read from is not asked about.
Plans == {t \in todo \cap Tables : Project(t) # {}}

\* Tables read whole come first, then the smaller ones. Mutant: in the order
\* they are listed.
BeforeByKey(t, u) == t < u
Before(t, u) ==
  \/ Complete(t) /\ ~Complete(u)
  \/ Complete(t) = Complete(u) /\ (Rows[t] < Rows[u] \/ (Rows[t] = Rows[u] /\ t < u))

Count == IF limit = 0 THEN 0
         ELSE IF limit > 0 /\ Cardinality(Plans) > limit THEN limit ELSE Cardinality(Plans)
NextTable == CHOOSE t \in Plans \ (sampled \cup skipped) :
               \A u \in Plans \ (sampled \cup skipped \cup {t}) : Before(t, u)

\* How many statements a stage has to send.
Wanted == CASE stage = "manifest"  -> 1
            [] stage = "structure" -> IF missing = {} THEN 0 ELSE Cardinality(Sources)
            [] stage = "modules"   -> Batches
            [] stage = "sample"    -> Count
            [] OTHER -> 0
ReadStages == {"manifest", "structure", "modules", "sample"}

-----------------------------------------------------------------------------
Init ==
  /\ engine \in Engines /\ server \in Loads \cup {Mute, Gone} /\ cancelled = FALSE
  /\ pool = "none" /\ held = 0 /\ stmt = Nothing /\ said = None /\ silent = 0
  /\ cmd \in {"build", "dry", "doctor"} /\ limit \in Limits
  /\ stage = "resolve" /\ turn = 0 /\ probing = FALSE /\ missing = {} /\ todo = {}
  /\ bodies = {} /\ read = {} /\ sampled = {} /\ skipped = {}
  /\ silence = {} /\ failed = FALSE /\ written = FALSE /\ exit = None

Quiet == UNCHANGED wire
Goes(to) == stage' = to /\ turn' = 0 /\ probing' = FALSE

\* Every way out closes the pool.
Ends(how) ==
  /\ stage' = "over" /\ turn' = 0 /\ probing' = FALSE /\ exit' = how
  /\ stmt' = Nothing /\ pool' = Closed
  /\ UNCHANGED <<engine, server, cancelled, held, said, silent>>

\* The connection, the database and the directory are settled and the secret
\* fetched, the pool is opened, the model's client made; each of them may be
\* what fails, and so may the split by content hash and the making of prompts.
Resolve ==
  /\ stage = "resolve" /\ Goes("open")
  /\ Quiet /\ UNCHANGED <<asked, plans, gains, result>>
OpenPool ==
  /\ stage = "open" /\ pool' = "open"
  /\ Goes(IF cmd = "doctor" THEN "auth" ELSE "equip")
  /\ UNCHANGED <<engine, server, cancelled, held, stmt, said, silent>>
  /\ UNCHANGED <<asked, plans, gains, result>>
Equip ==
  /\ stage = "equip" /\ Goes("manifest")
  /\ Quiet /\ UNCHANGED <<asked, plans, gains, result>>
GiveUp ==
  /\ stage \in {"resolve", "open", "equip", "auth", "plan", "split", "describe"} /\ Ends("failed")
  /\ UNCHANGED <<asked, plans, gains, silence, failed, written>>

-----------------------------------------------------------------------------
(* A stage that reads.                                                      *)

\* Mutant: room asked for once a stage.
AskOnce ==
  /\ stage \in ReadStages /\ turn < Wanted /\ stmt = Nothing
  /\ Send(IF turn = 0 THEN "health" ELSE "work")
  /\ UNCHANGED <<asked, place, plans, gains, result>>

\* Room is asked for before every statement.
Ask ==
  /\ stage \in ReadStages /\ turn < Wanted /\ stmt = Nothing
  /\ Send("health")
  /\ UNCHANGED <<asked, place, plans, gains, result>>
AskAgain ==
  /\ AskAlive
  /\ UNCHANGED <<asked, place, plans, gains, result>>
Proceed ==
  /\ stage \in ReadStages /\ ~probing /\ Health = "room"
  /\ Send("work")
  /\ UNCHANGED <<asked, place, plans, gains, result>>
\* No room, or no word of it, ends the command; a connection that is gone does,
\* unless it was a sample that asked.
Halt ==
  /\ stage \in ReadStages /\ ~probing
  /\ Health \in {"full", "unknown"} \/ (Health = "error" /\ stage # "sample")
  /\ Ends("failed")
  /\ UNCHANGED <<asked, plans, gains, silence, failed, written>>

Answered ==
  /\ Came("work", "rows")
  /\ Send("none") /\ turn' = turn + 1
  /\ bodies' = IF stage = "modules" THEN bodies \cup Batch(turn') ELSE bodies
  /\ sampled' = IF stage = "sample" THEN sampled \cup {NextTable} ELSE sampled
  /\ UNCHANGED <<asked, stage, probing, plans, read, skipped, result>>

\* A statement that fails ends the command, unless it was a sample.
Failed ==
  /\ Came("work", "failed") /\ stage # "sample"
  /\ Ends("failed")
  /\ UNCHANGED <<asked, plans, gains, silence, failed, written>>
\* A sample that fails is followed by the question whether the server is there,
\* though it may have been that question that failed.
Probe ==
  /\ stage = "sample" /\ (Came("work", "failed") \/ (~probing /\ Health = "error"))
  /\ Send("health") /\ probing' = TRUE
  /\ UNCHANGED <<asked, stage, turn, plans, gains, result>>
\* The table is skipped if the server answers at all, whatever it says.
Skip ==
  /\ probing /\ Health \in {"room", "full", "unknown"}
  /\ Send("none") /\ turn' = turn + 1 /\ probing' = FALSE
  /\ skipped' = skipped \cup {NextTable}
  /\ UNCHANGED <<asked, stage, plans, bodies, read, sampled, result>>
Fatal ==
  /\ probing /\ Health = "error"
  /\ Ends("failed")
  /\ UNCHANGED <<asked, plans, gains, silence, failed, written>>

-----------------------------------------------------------------------------
(* From stage to stage.                                                     *)

Done(of) == stage = of /\ turn = Wanted /\ stmt = Nothing

\* A dry run ends with the plan.
Listed ==
  /\ Done("manifest") /\ Goes("plan")
  /\ Quiet /\ UNCHANGED <<asked, plans, gains, result>>
Report ==
  /\ stage = "plan" /\ cmd = "dry" /\ Ends("ok")
  /\ UNCHANGED <<asked, plans, gains, silence, failed, written>>
Plan ==
  /\ stage = "plan" /\ cmd = "build" /\ missing' \in Stale /\ Goes("structure")
  /\ Quiet /\ UNCHANGED <<asked, todo, gains, result>>
Structured ==
  /\ Done("structure") /\ Goes("modules")
  /\ Quiet /\ UNCHANGED <<asked, plans, gains, result>>
\* An object is assembled from its structure and, a module, its body.
Assemble ==
  /\ Done("modules") /\ Goes("split")
  /\ read' = {o \in missing : KindOf[o] = "module" => o \in bodies}
  /\ Quiet /\ UNCHANGED <<asked, plans, bodies, sampled, skipped, result>>
Split ==
  /\ stage = "split" /\ todo' \in Changed /\ Goes("sample")
  /\ Quiet /\ UNCHANGED <<asked, missing, gains, result>>

\* The pool is closed before the first model call; that may fail, too.
Release ==
  /\ Done("sample") /\ pool' = Closed
  /\ \/ Goes("describe") /\ UNCHANGED exit
     \/ stage' = "over" /\ turn' = 0 /\ probing' = FALSE /\ exit' = "failed"
  /\ UNCHANGED <<engine, server, cancelled, held, stmt, said, silent>>
  /\ UNCHANGED <<asked, plans, gains, silence, failed, written>>

\* What module Describing promises, and the batches that failed.
Describe ==
  /\ stage = "describe" /\ silence' \in SUBSET todo
  /\ failed' \in IF silence' = {} THEN {FALSE} ELSE BOOLEAN
  /\ Goes("write")
  /\ Quiet /\ UNCHANGED <<asked, plans, gains, written, exit>>

\* Mutant: only failed batches fail the command.
OutcomeOfBatches == IF failed THEN "failed" ELSE "ok"
Outcome == IF failed \/ silence # {} THEN "failed" ELSE "ok"

Write ==
  /\ stage = "write" /\ written' = TRUE /\ \E how \in {"failed", Outcome} : Ends(how)
  /\ UNCHANGED <<asked, plans, gains, silence, failed>>

-----------------------------------------------------------------------------
(* Doctor: each check depends on the one before, and the first that fails   *)
(* is the last.                                                             *)

Verify ==
  /\ stage = "auth" /\ Answers /\ Goes("read-only")
  /\ Quiet /\ UNCHANGED <<asked, plans, gains, result>>
AskDoctor ==
  /\ stage = "read-only" /\ stmt = Nothing /\ Send("health")
  /\ UNCHANGED <<asked, place, plans, gains, result>>
\* Any answer passes the check of the read path, and the next judges it.
ReadOnly ==
  /\ stage = "read-only" /\ Health \in {"room", "full", "unknown"} /\ Goes("health")
  /\ Quiet /\ UNCHANGED <<asked, plans, gains, result>>
ReadOnlyFails ==
  /\ stage = "read-only" /\ Health = "error" /\ Ends("failed")
  /\ UNCHANGED <<asked, plans, gains, silence, failed, written>>
Judge ==
  /\ stage = "health" /\ Ends(IF Health = "room" THEN "ok" ELSE "failed")
  /\ UNCHANGED <<asked, plans, gains, silence, failed, written>>

Working == Ask \/ AskAgain \/ Proceed \/ Halt \/ Answered \/ Failed \/ Probe \/ Skip \/ Fatal
Moving  == Resolve \/ OpenPool \/ Equip \/ GiveUp \/ Listed \/ Report \/ Plan \/ Structured \/ Assemble \/ Split
           \/ Release \/ Describe \/ Write
Doctor  == Verify \/ AskDoctor \/ ReadOnly \/ ReadOnlyFails \/ Judge
\* While it writes nothing looks at the context any more.
Outside ==
  /\ stage # "over" /\ (Statement \/ Weather \/ (stage # "write" /\ Interrupt))
  /\ UNCHANGED <<asked, place, plans, gains, result>>
Over    == stage = "over" /\ UNCHANGED vars
Next    == Working \/ Moving \/ Doctor \/ Outside \/ Over

Spec == Init /\ [][Next]_vars

-----------------------------------------------------------------------------
Stages == {"resolve", "open", "equip", "manifest", "plan", "structure", "modules", "split", "sample", "describe", "write",
           "auth", "read-only", "health", "over"}

TypeOK ==
  /\ WireTypeOK /\ cmd \in {"build", "dry", "doctor"} /\ limit \in Limits
  /\ stage \in Stages /\ turn \in Nat /\ probing \in BOOLEAN
  /\ {missing, todo, bodies, read, silence} \subseteq SUBSET Objects /\ {sampled, skipped} \subseteq SUBSET Tables
  /\ failed \in BOOLEAN /\ written \in BOOLEAN /\ exit \in {None, "ok", "failed"}

\* No statement of any weight is on its way to a server unless the last it said
\* of itself, since the statement before, was that it has room: at least 2 GB
\* free and not low, where it lets on about memory, and no more than 5 waiting.
RoomFirst ==
  stmt.what = "work" /\ stmt.at \in {"sent", "begun", "cursor"} =>
    /\ said # None
    /\ said.visible => said.free >= 2 /\ ~said.low
    /\ ~said.pressed /\ said.waiting <= 5

\* "Skipping table by table through a dead connection reports five hundred skips
\* and no failure": a connection that stays dead ends the command at the first
\* table it is met at. Four statements in a row without an answer are the most any
\* command sends: a sample's health query and the trivial one, and both again.
GivesUp == silent <= 4

\* How far a command is from its end: the stages still ahead, what this one has
\* still to send, and what may come before it has an answer to that - a question
\* for room, work, another question, each with a trivial statement after it.
Ahead == CASE stage = "resolve" -> 11
           [] stage = "open" -> 10
           [] stage \in {"equip", "auth"} -> 9
           [] stage \in {"manifest", "read-only"} -> 8
           [] stage \in {"plan", "health"} -> 7
           [] stage = "structure" -> 6
           [] stage = "modules" -> 5
           [] stage = "split" -> 4
           [] stage = "sample" -> 3
           [] stage = "describe" -> 2
           [] stage = "write" -> 1
           [] OTHER -> 0
ToSend == Wanted - turn
Questions == CASE stmt.what = "none"   -> 5
               [] stmt.what = "health" -> IF probing THEN 1 ELSE 4
               [] stmt.what = "alive"  -> IF probing THEN 0 ELSE 3
               [] OTHER -> 2
Steps == CASE stmt.at = "sent"   -> 6
           [] stmt.at = "begun"  -> 5 - stmt.set
           [] stmt.at = "cursor" -> 1
           [] OTHER -> 0
Pending == 7 * Questions + Steps

\* No command goes on for ever, whatever the server answers: each of its steps,
\* one that fails like any other, is one nearer to the end.
EveryMoveCounts ==
  [][UNCHANGED <<server, cancelled>> =>
       /\ ToSend \in Nat /\ Pending \in Nat
       /\ \/ Ahead' < Ahead
          \/ Ahead' = Ahead /\ ToSend' < ToSend
          \/ Ahead' = Ahead /\ ToSend' = ToSend /\ Pending' < Pending]_vars

\* A statement takes at most one connection and gives it back however it ends;
\* none is open while the model is called or the tree written, nor after the
\* command. (The pool has four: a leak would leave a build waiting for ever.)
NothingHeld ==
  /\ held = IF stmt.at \in {"begun", "cursor"} THEN 1 ELSE 0
  /\ stage \in {"describe", "write", "over"} => pool # "open"

\* A command that reports success did what it was asked: a build wrote the tree
\* with a sentence for every object that wanted one, from everything it meant to
\* read; a dry run read the list and nothing else; doctor found room.
HonestExit == exit = "ok" =>
  CASE cmd = "build"  -> written /\ silence = {} /\ read = missing
    [] cmd = "dry"    -> ~written /\ missing = {} /\ bodies = {} /\ sampled \cup skipped = {}
    [] cmd = "doctor" -> said # None /\ ~StopConditions(said)

\* Under a limit the tables read are the cheapest, and none is read in vain: of
\* two that may be sampled the one with fewer rows is never left for the other.
CheapestFirst ==
  LET tried == sampled \cup skipped
      useful == {t \in todo : KindOf[t] = "table" /\ \E c \in Columns[t] : c \notin Personal \cup Opaque}
  IN /\ tried \subseteq useful /\ (limit >= 0 => Cardinality(tried) <= limit)
     /\ \A t \in tried, u \in useful \ tried : Rows[t] < Rows[u] \/ (Rows[t] = Rows[u] /\ t < u)

\* What a build counts on of the server, whatever becomes of it meanwhile.
Phase == CASE stage \in {"resolve", "open", "equip", "manifest", "plan"} -> "planning"
           [] stage \in {"structure", "modules"} -> "fetching"
           [] stage = "split" -> "splitting"
           [] stage = "sample" -> "sampling"
           [] stage \in {"describe", "write"} -> "writing"
           [] stage = "over" -> "over"
           [] OTHER -> "planning"
Promise == INSTANCE Fetching WITH
  phase <- Phase, wanted <- missing
ImplementsFetching == Promise!Spec

\* "Cancelling the context lets the pipeline stop where it is": a build that was
\* interrupted before its sentences were in does not go on to write the tree
\* without them.
InterruptStops == cancelled /\ silence # {} => stage # "write"
=============================================================================
