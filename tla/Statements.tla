----------------------------- MODULE Statements -----------------------------
(***************************************************************************)
(* How a command reads a server: one statement at a time on a connection   *)
(* of the pool (internal/connect), in the session the engine's guard asks  *)
(* for (internal/engine), and the question put to the server before a      *)
(* statement of any weight: has it room?                                   *)
(*                                                                         *)
(* A statement is told apart by what it is for: the health query, the      *)
(* trivial one that tells a mute server from a lost connection, and the    *)
(* work a stage wants done.                                                *)
(***************************************************************************)
EXTENDS Naturals

CONSTANTS
  None,
  Mute, Gone, \* a server that will not say how it fares, one that does not answer
  Engines,    \* of the two, those one may be connected to
  Loads       \* what a server may have to say of itself

ASSUME EnginesAssumption == Engines \subseteq {"sqlserver", "postgres"}
\* A load: gigabytes free, whether the server calls that low, whether it
\* signals its own memory low, and how many queries wait.
Load == [free: Nat, low: BOOLEAN, pressed: BOOLEAN, waiting: Nat]
ASSUME LoadsAssumption == Loads \subseteq Load /\ {Mute, Gone} \cap Load = {} /\ Mute # Gone
ASSUME NoneAssumption == None \notin [visible: BOOLEAN, free: Nat, low: BOOLEAN, pressed: BOOLEAN, waiting: Nat]

\* What the guard of an engine has done before each statement: settings of a
\* read-only transaction, or nothing, its cap being part of the statement.
Settings == [sqlserver |-> 0, postgres |-> 3]

MinAvailableGB == 2
MaxWaiting == 5

VARIABLES
  engine,
  server,     \* its load, Mute or Gone
  cancelled,  \* the command was interrupted, or doctor's time is up
  pool,       \* none, open, closed
  held,       \* connections taken from the pool and not given back
  stmt,       \* the statement under way
  \* history, for the properties only
  said,       \* what the server last said of itself, None once that is used up
  silent      \* how many statements in a row have failed

wire == <<engine, server, cancelled, pool, held, stmt, said, silent>>

Nothing == [what |-> "none", at |-> "rows", set |-> 0, reading |-> None]
Sent(what) == [what |-> what, at |-> "sent", set |-> 0, reading |-> None]

\* SQL Server tells all of it; PostgreSQL tells an ordinary role nothing of the
\* machine's memory, which is then not judged.
Parsed(load) ==
  IF engine = "sqlserver"
  THEN [visible |-> TRUE, free |-> load.free, low |-> load.low, pressed |-> load.pressed, waiting |-> load.waiting]
  ELSE [visible |-> FALSE, free |-> 0, low |-> FALSE, pressed |-> FALSE, waiting |-> load.waiting]
Reading == [visible: BOOLEAN, free: Nat, low: BOOLEAN, pressed: BOOLEAN, waiting: Nat]

\* The conditions a build stops under, and the verdict on a reading.
StopConditions(r) ==
  \/ r.visible /\ r.free < MinAvailableGB
  \/ r.visible /\ r.low
  \/ r.pressed
  \/ r.waiting > MaxWaiting
Classify(r) == IF r = None THEN "unknown" ELSE IF StopConditions(r) THEN "full" ELSE "room"

-----------------------------------------------------------------------------
(* The life of a statement.                                                 *)

Answers == server # Gone /\ ~cancelled /\ pool = "open"

\* A transaction is begun for the settings, each is set, the statement runs.
Begin ==
  /\ stmt.at = "sent" /\ Settings[engine] > 0 /\ Answers
  /\ stmt' = [stmt EXCEPT !.at = "begun"] /\ held' = held + 1
  /\ UNCHANGED <<engine, server, cancelled, pool, said, silent>>
Set ==
  /\ stmt.at = "begun" /\ stmt.set < Settings[engine] /\ Answers
  /\ stmt' = [stmt EXCEPT !.set = @ + 1]
  /\ UNCHANGED <<engine, server, cancelled, pool, held, said, silent>>
Execute ==
  /\ stmt.at = IF Settings[engine] > 0 THEN "begun" ELSE "sent"
  /\ stmt.set = Settings[engine] /\ Answers
  /\ stmt' = [stmt EXCEPT !.at = "cursor"]
  /\ held' = IF stmt.at = "sent" THEN held + 1 ELSE held
  /\ UNCHANGED <<engine, server, cancelled, pool, said, silent>>

\* The rows are read and the cursor closed, the transaction with it. A server
\* that will not say answers the health query with a row that cannot be read.
Collect ==
  /\ stmt.at = "cursor" /\ Answers
  /\ stmt' = [stmt EXCEPT !.at = "rows",
                !.reading = IF stmt.what # "health" \/ server = Mute THEN None ELSE Parsed(server)]
  /\ held' = held - 1
  /\ said' = IF stmt.what = "alive" THEN said ELSE stmt'.reading
  /\ silent' = 0
  /\ UNCHANGED <<engine, server, cancelled, pool>>

\* Mutants: a setting that fails leaves its transaction open; a connection given
\* back that was never taken.
GivenBackAlways == 1
GivenBackQueried == IF stmt.at = "sent" \/ (stmt.at = "begun" /\ stmt.set < Settings[engine]) THEN 0 ELSE 1

\* Wherever it fails the connection is given back, if one was taken.
GivenBack == IF stmt.at = "sent" THEN 0 ELSE 1

\* Any statement may fail for reasons of its own: a permission, a timeout, a
\* deadlock. One sent to a server that does not answer does.
Fails ==
  /\ stmt.at \in {"sent", "begun", "cursor"}
  /\ stmt' = [stmt EXCEPT !.at = "failed"]
  /\ held' = held - GivenBack
  /\ said' = IF stmt.what = "alive" THEN said ELSE None
  /\ silent' = silent + 1
  /\ UNCHANGED <<engine, server, cancelled, pool>>

Statement == Begin \/ Set \/ Execute \/ Collect \/ Fails

\* Meanwhile the server fares as it will, and somebody may press ^C.
Weather ==
  /\ server' \in (Loads \cup {Mute, Gone}) \ {server}
  /\ UNCHANGED <<engine, cancelled, pool, held, stmt, said, silent>>
Interrupt ==
  /\ ~cancelled /\ cancelled' = TRUE
  /\ UNCHANGED <<engine, server, pool, held, stmt, said, silent>>

-----------------------------------------------------------------------------
(* Has it room?                                                             *)

Came(what, at) == stmt.what = what /\ stmt.at = at
Send(what) ==
  /\ stmt' = IF what = "none" THEN Nothing ELSE Sent(what)
  /\ UNCHANGED <<engine, server, cancelled, pool, held, said, silent>>

\* A health query that failed is followed by a trivial one.
AskAlive == Came("health", "failed") /\ Send("alive")

\* What Engine.Health has come to, once it has. Mutant: a connection that is
\* gone taken for a server that will not say.
HealthUnknown ==
  IF Came("health", "rows") THEN Classify(stmt.reading)
  ELSE IF stmt.what = "alive" /\ stmt.at \in {"rows", "failed"} THEN "unknown" ELSE "pending"
Health ==
  IF Came("health", "rows") THEN Classify(stmt.reading)
  ELSE IF Came("alive", "rows") THEN "unknown"
  ELSE IF Came("alive", "failed") THEN "error" ELSE "pending"

Closed == IF pool = "open" THEN "closed" ELSE pool

WireTypeOK ==
  /\ engine \in Engines /\ server \in Loads \cup {Mute, Gone} /\ cancelled \in BOOLEAN
  /\ pool \in {"none", "open", "closed"} /\ held \in Nat /\ silent \in Nat
  /\ stmt \in [what: {"none", "health", "alive", "work"}, at: {"sent", "begun", "cursor", "rows", "failed"},
               set: 0 .. 3, reading: Reading \cup {None}]
  /\ said \in Reading \cup {None}
=============================================================================
