----------------------------- MODULE ReadsProofs -----------------------------
(* What every command keeps to that reads a server, for any engines, loads,  *)
(* objects and limits.                                                       *)
EXTENDS Reads, FiniteSetTheorems, TLAPS

-----------------------------------------------------------------------------
(* Statements.                                                              *)

Whats == {"none", "health", "alive", "work"}
UnderWay == stmt.at \in {"sent", "begun", "cursor"}

\* A connection is held exactly while a statement is under way on it.
HeldInv == held = IF stmt.at \in {"begun", "cursor"} THEN 1 ELSE 0

\* What the server said of itself is kept until the statement it was for is over.
SaidInv ==
  /\ Came("health", "rows") => said = stmt.reading
  /\ stmt.what = "work" /\ UnderWay => said # None /\ ~StopConditions(said)

\* How many statements in a row may have failed, by what was sent last and whether
\* a sample had failed before.
Already == IF probing THEN 2 ELSE 0
SilentInv ==
  /\ silent <= 4 /\ probing \in BOOLEAN
  /\ stmt.what # "none" /\ stmt.at = "rows" => silent = 0
  /\ stmt.what = "none" => stmt.at = "rows"
  /\ stmt.what = "work" => silent <= IF stmt.at = "failed" THEN 1 ELSE 0
  /\ stmt.what = "health" => silent <= Already + IF stmt.at = "failed" THEN 1 ELSE 0
  /\ stmt.what = "alive" => silent <= Already + IF stmt.at = "failed" THEN 2 ELSE 1

WireInv == WireTypeOK /\ HeldInv /\ SaidInv /\ SilentInv

\* What a load comes to is a reading.
LEMMA ParsedType ==
  ASSUME NEW load \in Loads
  PROVE  Parsed(load) \in Reading
BY LoadsAssumption DEF Load, Parsed, Reading

LEMMA NothingKnown ==
  /\ None \notin Reading
  /\ Nothing \in [what: Whats, at: {"sent", "begun", "cursor", "rows", "failed"}, set: 0 .. 3, reading: Reading \cup {None}]
  /\ \A what \in Whats :
       Sent(what) \in [what: Whats, at: {"sent", "begun", "cursor", "rows", "failed"}, set: 0 .. 3, reading: Reading \cup {None}]
BY NoneAssumption DEF Reading, Nothing, Sent, Whats

LEMMA StatementKeeps ==
  ASSUME WireInv, Statement, UNCHANGED probing
  PROVE  WireInv'
<1> USE DEF WireInv, WireTypeOK, Whats
<1> DEFINE Stmts == [what: Whats, at: {"sent", "begun", "cursor", "rows", "failed"}, set: 0 .. 3, reading: Reading \cup {None}]
<1>0. stmt \in Stmts /\ engine \in {"sqlserver", "postgres"} /\ Settings[engine] \in {0, 3}
  BY EnginesAssumption DEF Settings
<1>1. CASE Begin
  <2>1. stmt' \in Stmts /\ stmt'.what = stmt.what /\ stmt'.at = "begun" /\ held' = 1
    BY <1>0, <1>1 DEF Begin, HeldInv
  <2> QED
    BY <1>0, <1>1, <2>1 DEF Begin, HeldInv, SaidInv, SilentInv, Already, UnderWay, Came, StopConditions
<1>2. CASE Set
  <2>1. stmt' \in Stmts /\ stmt'.what = stmt.what /\ stmt'.at = "begun" /\ held' = 1
    BY <1>0, <1>2 DEF Set, HeldInv
  <2> QED
    BY <1>0, <1>2, <2>1 DEF Set, HeldInv, SaidInv, SilentInv, Already, UnderWay, Came, StopConditions
<1>3. CASE Execute
  <2>1. stmt' \in Stmts /\ stmt'.what = stmt.what /\ stmt'.at = "cursor" /\ held' = 1
    BY <1>0, <1>3 DEF Execute, HeldInv
  <2> QED
    BY <1>0, <1>3, <2>1 DEF Execute, HeldInv, SaidInv, SilentInv, Already, UnderWay, Came, StopConditions
<1>4. CASE Collect
  <2> DEFINE got == IF stmt.what # "health" \/ server = Mute THEN None ELSE Parsed(server)
  <2>1. got \in Reading \cup {None}
    BY <1>4, ParsedType DEF Collect, Answers
  <2>2. stmt' \in Stmts /\ stmt'.what = stmt.what /\ stmt'.at = "rows" /\ stmt'.reading = got /\ held' = 0
    <3>1. stmt' = [stmt EXCEPT !.at = "rows", !.reading = got] /\ held' = held - 1 /\ stmt.at = "cursor"
      BY <1>4 DEF Collect
    <3> HIDE DEF got
    <3>2. stmt' \in Stmts
      BY <1>0, <2>1, <3>1
    <3>3. stmt'.what = stmt.what /\ stmt'.at = "rows" /\ stmt'.reading = got
      BY <1>0, <3>1
    <3>4. held' = 0
      BY <3>1 DEF HeldInv
    <3> QED
      BY <3>2, <3>3, <3>4
  <2>3. said' \in Reading \cup {None} /\ silent' = 0
    BY <1>4, <2>1, <2>2 DEF Collect
  <2> QED
    BY <1>0, <1>4, <2>2, <2>3 DEF Collect, HeldInv, SaidInv, SilentInv, Already, UnderWay, Came
<1>5. CASE Fails
  <2>1. stmt' \in Stmts /\ stmt'.what = stmt.what /\ stmt'.at = "failed" /\ held' = 0
    BY <1>0, <1>5 DEF Fails, GivenBack, HeldInv
  <2> QED
    BY <1>0, <1>5, <2>1 DEF Fails, HeldInv, SaidInv, SilentInv, Already, UnderWay, Came
<1> QED
  BY <1>1, <1>2, <1>3, <1>4, <1>5 DEF Statement

\* Between two statements nothing is held, and the next may be sent: a health
\* query after an answer or after a piece of work, another after the first,
\* work once there is room.
LEMMA SendKeeps ==
  ASSUME WireInv, NEW what \in Whats, Send(what), ~UnderWay,
         probing' \in BOOLEAN,
         \/ what = "none" /\ silent = 0
         \/ what = "health" /\ silent <= Already'
         \/ what = "alive" /\ silent <= Already' + 1
         \/ what = "work" /\ Health = "room"
  PROVE  WireInv'
<1> USE DEF WireInv, WireTypeOK, Whats
<1>1. held = 0
  BY DEF HeldInv, UnderWay
<1>2. /\ stmt' \in [what: Whats, at: {"sent", "begun", "cursor", "rows", "failed"}, set: 0 .. 3, reading: Reading \cup {None}]
      /\ stmt'.what = what /\ stmt'.at = IF what = "none" THEN "rows" ELSE "sent"
  BY NothingKnown DEF Send, Nothing, Sent
<1>3. CASE what = "work"
  <2>1. Came("health", "rows") /\ Classify(stmt.reading) = "room"
    BY <1>3 DEF Health
  <2>2. said = stmt.reading /\ said # None /\ ~StopConditions(said) /\ silent = 0
    BY <2>1 DEF SaidInv, SilentInv, Classify, Came
  <2> QED
    BY <1>1, <1>2, <1>3, <2>2 DEF Send, HeldInv, SaidInv, SilentInv, Already, UnderWay, Came, StopConditions
<1>4. CASE what # "work"
  BY <1>1, <1>2, <1>4 DEF Send, HeldInv, SaidInv, SilentInv, Already, UnderWay, Came
<1> QED
  BY <1>3, <1>4

LEMMA WireAlone ==
  ASSUME WireInv, UNCHANGED <<engine, held, stmt, said, silent>>, probing' \in BOOLEAN, probing' = probing \/ stmt = Nothing,
         server' \in Loads \cup {Mute, Gone}, cancelled' \in BOOLEAN, pool' \in {"none", "open", "closed"}
  PROVE  WireInv'
BY DEF WireInv, WireTypeOK, HeldInv, SaidInv, SilentInv, Already, Nothing, UnderWay, Came, StopConditions

-----------------------------------------------------------------------------
(* Commands.                                                                *)

\* Where a command stands: it sends nothing but in a stage that reads, its work
\* only there; once it is past reading, the pool is closed.
Sending == ReadStages \cup {"read-only", "health"}
StageInv ==
  /\ stage \in Stages
  /\ stage \notin Sending => stmt = Nothing
  /\ stage # "over" /\ stmt.what = "none" => silent = 0
  /\ stage = "health" => Health # "pending"
  /\ stage \notin ReadStages => ~(stmt.what = "work")
  /\ probing => stage \in ReadStages
  /\ stage \in {"describe", "write", "over"} => pool # "open"
CommandInv == WireInv /\ StageInv

LEMMA CommandInitial ==
  Init => CommandInv
<1> SUFFICES ASSUME Init PROVE CommandInv
  OBVIOUS
<1>1. WireTypeOK
  <2>1. cancelled \in BOOLEAN
    BY Zenon DEF Init
  <2> QED
    BY <2>1, NothingKnown, Zenon DEF Init, WireTypeOK, Whats
<1>2. SilentInv
  <2>1. probing \in BOOLEAN
    BY Zenon DEF Init
  <2> QED BY <2>1 DEF Init, SilentInv, Already, Nothing
<1> QED
  BY <1>1, <1>2 DEF Init, CommandInv, Health, WireInv, HeldInv, SaidInv, StageInv, Nothing, UnderWay, Came, Stages,
     ReadStages, Sending

\* A verdict is there only when no statement is under way.
LEMMA Verdict ==
  ASSUME Health # "pending"
  PROVE  ~UnderWay
BY DEF Health, Came, UnderWay

LEMMA NotUnderWay ==
  ASSUME stmt = Nothing
  PROVE  ~UnderWay
BY DEF Nothing, UnderWay

\* However a command ends, between two statements.
LEMMA EndsKeeps ==
  ASSUME CommandInv, NEW how, Ends(how), ~UnderWay
  PROVE  CommandInv'
<1>1. held = 0
  BY DEF CommandInv, WireInv, HeldInv, UnderWay
<1>2. WireTypeOK'
  BY NothingKnown DEF CommandInv, WireInv, WireTypeOK, Ends, Closed, Whats
<1>3. HeldInv' /\ SaidInv' /\ SilentInv'
  BY <1>1 DEF CommandInv, WireInv, Ends, HeldInv, SaidInv, SilentInv, Already, Nothing, UnderWay, Came
<1>4. StageInv'
  BY DEF Ends, StageInv, Stages, Sending, ReadStages, Nothing, Closed
<1> QED
  BY <1>2, <1>3, <1>4 DEF CommandInv, WireInv

\* On to a stage, with nothing sent yet.
LEMMA GoesKeeps ==
  ASSUME CommandInv, NEW to \in Stages \ {"health", "over"}, Goes(to), stmt = Nothing, stage # "over",
         UNCHANGED <<engine, server, cancelled, held, stmt, said, silent>>,
         pool' \in {"none", "open", "closed"}, to \in {"describe", "write"} => pool' # "open"
  PROVE  CommandInv'
<1>1. WireInv'
  BY WireAlone DEF CommandInv, WireInv, WireTypeOK, Goes
<1>2. StageInv'
  BY DEF CommandInv, StageInv, Goes, Nothing, Sending, ReadStages
<1> QED
  BY <1>1, <1>2 DEF CommandInv

\* A statement sent where the command stands, which may be to ask why a sample
\* failed.
LEMMA SendStays ==
  ASSUME CommandInv, NEW what \in Whats, Send(what), UNCHANGED stage, stage \in Sending \ {"health"},
         probing' => stage \in ReadStages, what = "work" => stage \in ReadStages, ~UnderWay,
         probing' \in BOOLEAN,
         \/ what = "none" /\ silent = 0
         \/ what = "health" /\ silent <= Already'
         \/ what = "alive" /\ silent <= Already' + 1
         \/ what = "work" /\ Health = "room"
  PROVE  CommandInv'
<1>1. WireInv'
  BY SendKeeps DEF CommandInv
<1>2. stmt'.what = what /\ pool' = pool /\ silent' = silent
  BY DEF Send, Nothing, Sent
<1>3. StageInv'
  BY <1>2 DEF CommandInv, StageInv, Sending, ReadStages
<1> QED
  BY <1>1, <1>3 DEF CommandInv

LEMMA WorkingKeeps ==
  ASSUME CommandInv, Working
  PROVE  CommandInv'
<1> USE DEF Whats
<1>1. stage \in Stages /\ (stmt.what = "work" => stage \in ReadStages) /\ (probing => stage \in ReadStages)
  BY DEF CommandInv, StageInv
<1>2. SilentInv
  BY DEF CommandInv, WireInv
<1>3. ReadStages \subseteq Sending \ {"health", "over"}
  BY DEF ReadStages, Sending
<1>4. CASE Ask
  <2>1. silent = 0 /\ silent <= Already' /\ probing' \in BOOLEAN /\ ~UnderWay
    BY <1>2, <1>3, <1>4, NotUnderWay DEF Ask, place, SilentInv, Already, CommandInv, StageInv, Nothing
  <2> QED
    BY <1>1, <1>3, <1>4, <2>1, SendStays DEF Ask, place
<1>5. CASE AskAgain
  <2>1. stmt # Nothing /\ Health = "pending" /\ silent <= Already' + 1 /\ probing' \in BOOLEAN /\ ~UnderWay
    BY <1>2, <1>5 DEF AskAgain, AskAlive, Came, Health, Nothing, SilentInv, Already, UnderWay, place
  <2>2. stage \in Sending \ {"health"}
    BY <2>1 DEF CommandInv, StageInv
  <2> QED
    BY <1>1, <1>5, <2>1, <2>2, SendStays DEF AskAgain, AskAlive, place
<1>6. CASE Proceed
  <2>1. ~UnderWay /\ probing' \in BOOLEAN
    BY <1>2, <1>6, Verdict DEF Proceed, place, SilentInv
  <2> QED
    BY <1>1, <1>3, <1>6, <2>1, SendStays DEF Proceed, place
<1>7. CASE Halt \/ Fatal
  BY <1>7, Verdict, EndsKeeps DEF Halt, Fatal
<1>8. CASE Answered
  <2>1. silent = 0 /\ ~UnderWay /\ probing' \in BOOLEAN
    BY <1>2, <1>8 DEF Answered, Came, SilentInv, UnderWay
  <2> QED
    BY <1>1, <1>3, <1>8, <2>1, SendStays DEF Answered, Came
<1>9. CASE Failed
  <2>1. ~UnderWay
    BY <1>9 DEF Failed, Came, UnderWay
  <2> QED
    BY <1>9, <2>1, EndsKeeps DEF Failed
<1>10. CASE Probe
  <2>1. silent <= Already' /\ probing' \in BOOLEAN /\ ~UnderWay /\ stage \in ReadStages
    <3>0. silent \in Nat
      BY DEF CommandInv, WireInv, WireTypeOK
    <3>1. CASE Came("work", "failed")
      BY <1>2, <1>10, <3>0, <3>1 DEF Probe, Came, SilentInv, Already, UnderWay, ReadStages
    <3>2. CASE Came("alive", "failed") /\ ~probing
      BY <1>2, <1>10, <3>0, <3>2 DEF Probe, Came, SilentInv, Already, UnderWay, ReadStages
    <3>3. Health = "error" => Came("alive", "failed")
      BY DEF Health, Classify
    <3> QED BY <1>10, <3>1, <3>2, <3>3 DEF Probe
  <2> QED
    BY <1>3, <1>10, <2>1, SendStays DEF Probe
<1>11. CASE Skip
  <2>1. silent = 0
    BY <1>2, <1>11 DEF Skip, Health, Came, SilentInv
  <2>2. ~UnderWay /\ probing' \in BOOLEAN
    BY <1>11, Verdict DEF Skip
  <2> QED
    BY <1>1, <1>3, <1>11, <2>1, <2>2, SendStays DEF Skip
<1> QED
  BY <1>4, <1>5, <1>6, <1>7, <1>8, <1>9, <1>10, <1>11 DEF Working

LEMMA MovingKeeps ==
  ASSUME CommandInv, Moving
  PROVE  CommandInv'
<1>0. pool \in {"none", "open", "closed"} /\ Closed \in {"none", "closed"} /\ Closed # "open"
  BY DEF CommandInv, WireInv, WireTypeOK, Closed
<1>1. stage \in {"resolve", "open", "equip", "auth", "plan", "split", "describe", "write"} => stmt = Nothing /\ stage # "over"
  BY DEF CommandInv, StageInv, Sending, ReadStages
<1>2. CASE Resolve \/ OpenPool \/ Equip \/ Plan \/ Split
  BY <1>0, <1>1, <1>2, GoesKeeps DEF Resolve, OpenPool, Equip, Plan, Split, Quiet, wire, Stages
<1>3. CASE Listed \/ Structured \/ Assemble
  BY <1>0, <1>3, GoesKeeps DEF Listed, Structured, Assemble, Done, Quiet, wire, Stages
<1>4. CASE GiveUp \/ Report
  BY <1>1, <1>4, NotUnderWay, EndsKeeps DEF GiveUp, Report
<1>5. CASE Release
  <2>1. stmt = Nothing /\ stage # "over" /\ ~UnderWay
    BY <1>5, NotUnderWay DEF Release, Done
  <2>2. CASE Goes("describe")
    BY <1>0, <1>5, <2>1, <2>2, GoesKeeps DEF Release, Stages
  <2>3. CASE stage' = "over" /\ turn' = 0 /\ probing' = FALSE /\ exit' = "failed"
    BY <1>5, <2>1, <2>3, EndsKeeps DEF Release, Ends
  <2> QED
    BY <1>5, <2>2, <2>3 DEF Release
<1>6. CASE Describe
  <2>1. pool # "open"
    BY <1>6 DEF Describe, CommandInv, StageInv
  <2> QED
    BY <1>0, <1>1, <1>6, <2>1, GoesKeeps DEF Describe, Quiet, wire, Stages
<1>7. CASE Write
  BY <1>1, <1>7, NotUnderWay, EndsKeeps DEF Write
<1> QED
  BY <1>2, <1>3, <1>4, <1>5, <1>6, <1>7 DEF Moving

LEMMA DoctorKeeps ==
  ASSUME CommandInv, Doctor
  PROVE  CommandInv'
<1>0. pool \in {"none", "open", "closed"}
  BY DEF CommandInv, WireInv, WireTypeOK
<1>1. CASE Verify
  <2>1. stmt = Nothing
    BY <1>1 DEF Verify, CommandInv, StageInv, Sending, ReadStages
  <2> QED
    BY <1>0, <1>1, <2>1, GoesKeeps DEF Verify, Quiet, wire, Stages
<1>2. CASE AskDoctor
  <2>1. silent = 0 /\ silent <= Already' /\ probing' \in BOOLEAN /\ ~UnderWay /\ ~probing /\ stage \in Sending \ {"health"}
    BY <1>2, NotUnderWay DEF AskDoctor, place, WireInv, SilentInv, Already, CommandInv, StageInv, Nothing, Sending, ReadStages
  <2> QED
    BY <1>2, <2>1, SendStays DEF AskDoctor, place, Whats
<1>3. CASE ReadOnly
  <2>1. WireInv'
    <3>1. ~probing /\ probing' = FALSE
      BY <1>3 DEF ReadOnly, Goes, CommandInv, StageInv, ReadStages
    <3>2. probing' = probing
      BY <3>1, <1>3 DEF CommandInv, WireInv, SilentInv
    <3> QED BY <1>0, <1>3, <3>1, <3>2, WireAlone DEF ReadOnly, Quiet, wire, CommandInv, WireInv, WireTypeOK
  <2>2. Health' = Health /\ stmt' = stmt /\ silent' = silent
    BY <1>3 DEF ReadOnly, Quiet, wire, Health, Came, Classify, StopConditions
  <2>3. StageInv'
    BY <1>3, <2>2 DEF ReadOnly, Goes, CommandInv, StageInv, Stages, Sending, ReadStages
  <2> QED
    BY <2>1, <2>3 DEF CommandInv
<1>4. CASE ReadOnlyFails
  BY <1>4, Verdict, EndsKeeps DEF ReadOnlyFails
<1>5. CASE Judge
  <2>1. ~UnderWay
    BY <1>5, Verdict DEF Judge, CommandInv, StageInv
  <2> QED
    BY <1>5, <2>1, EndsKeeps DEF Judge
<1> QED
  BY <1>1, <1>2, <1>3, <1>4, <1>5 DEF Doctor

LEMMA OutsideKeeps ==
  ASSUME CommandInv, Outside
  PROVE  CommandInv'
<1>1. UNCHANGED <<stage, probing>> /\ stage # "over"
  BY DEF Outside, place
<1>2. CASE Statement
  <2>1. UnderWay /\ stmt # Nothing
    BY <1>2 DEF Statement, Begin, Set, Execute, Collect, Fails, UnderWay, CommandInv, WireInv, WireTypeOK, Nothing
  <2>2. stmt'.what = stmt.what /\ pool' = pool
    BY <1>2 DEF Statement, Begin, Set, Execute, Collect, Fails, CommandInv, WireInv, WireTypeOK
  <2>3. stage # "health" /\ stage \in Sending /\ stmt.what # "none"
    BY <2>1, Verdict DEF CommandInv, StageInv, WireInv, SilentInv, UnderWay
  <2>4. WireInv'
    BY <1>1, <1>2, StatementKeeps DEF CommandInv
  <2>5. StageInv'
    BY <1>1, <2>2, <2>3 DEF CommandInv, StageInv, Sending, ReadStages
  <2> QED
    BY <2>4, <2>5 DEF CommandInv
<1>3. CASE Weather \/ Interrupt
  <2>1. UNCHANGED <<engine, held, stmt, said, silent, pool>>
    BY <1>3 DEF Weather, Interrupt
  <2>2. server' \in Loads \cup {Mute, Gone}
    BY <1>3 DEF Weather, Interrupt, CommandInv, WireInv, WireTypeOK
  <2>3. cancelled' \in BOOLEAN
    BY <1>3, Zenon DEF Weather, Interrupt, CommandInv, WireInv, WireTypeOK
  <2>4. WireInv'
    BY <1>1, <2>1, <2>2, <2>3, WireAlone DEF CommandInv, WireInv, WireTypeOK, SilentInv
  <2>5. Health' = Health
    BY <2>1 DEF Health, Came, Classify, StopConditions
  <2>6. StageInv'
    BY <1>1, <2>1, <2>5 DEF CommandInv, StageInv
  <2> QED
    BY <2>4, <2>6 DEF CommandInv
<1> QED
  BY <1>2, <1>3 DEF Outside

LEMMA CommandKept ==
  ASSUME CommandInv, [Next]_vars
  PROVE  CommandInv'
<1>1. CASE UNCHANGED vars
  BY <1>1 DEF vars, wire, place, CommandInv, WireInv, WireTypeOK, HeldInv, SaidInv, SilentInv, Already, StageInv, UnderWay, Came,
     Health, Classify, StopConditions
<1> QED
  BY <1>1, WorkingKeeps, MovingKeeps, DoctorKeeps, OutsideKeeps DEF Next, Over

LEMMA CommandHolds == Spec => []CommandInv
BY CommandInitial, CommandKept, PTL DEF Spec

\* A statement of any weight is sent only to a server that has just said it has
\* room.
THEOREM RoomFirstHolds == Spec => []RoomFirst
<1>1. CommandInv => RoomFirst
  <2> SUFFICES ASSUME CommandInv, stmt.what = "work", UnderWay
               PROVE  said # None /\ (said.visible => said.free >= 2 /\ ~said.low) /\ ~said.pressed /\ said.waiting <= 5
    BY DEF RoomFirst, UnderWay
  <2>1. said # None /\ ~StopConditions(said) /\ said \in Reading
    BY DEF CommandInv, WireInv, SaidInv, WireTypeOK
  <2> QED
    BY <2>1 DEF StopConditions, MinAvailableGB, MaxWaiting, Reading
<1> QED
  BY <1>1, CommandHolds, PTL

\* No command sends more than four statements in a row that are not answered: a
\* sample that finds the server gone has it asked once more, and no more
\* (internal/engine's assertHealth and Health, internal/sample's fatal).
THEOREM GivesUpHolds == Spec => []GivesUp
<1>1. CommandInv => GivesUp
  BY DEF CommandInv, WireInv, SilentInv, GivesUp
<1> QED
  BY <1>1, CommandHolds, PTL

\* A connection is held by a statement under way and by nothing else, and the
\* pool is not open once the model is called.
THEOREM NothingHeldHolds == Spec => []NothingHeld
<1>1. CommandInv => NothingHeld
  BY DEF CommandInv, WireInv, HeldInv, StageInv, NothingHeld
<1> QED
  BY <1>1, CommandHolds, PTL
-----------------------------------------------------------------------------
(* What a command has to show for it.                                       *)

\* The tables a sample was tried of.
Tried == sampled \cup skipped
Sampling == {"sample", "describe", "write", "over"}
Fetched == {"split", "sample", "describe", "write"}

\* Every command has stages of its own, what it read is that of the stages it
\* has been through, and the tree is written last.
Course ==
  /\ cmd \in {"build", "dry", "doctor"} /\ limit \in Limits
  /\ turn \in Nat /\ probing \in BOOLEAN /\ failed \in BOOLEAN /\ written \in BOOLEAN /\ exit \in {None, "ok", "failed"}
  /\ stage \in {"auth", "read-only", "health"} => cmd = "doctor"
  /\ stage \in {"equip", "manifest", "plan"} => cmd # "doctor"
  /\ stage \in {"structure", "modules"} \cup Fetched => cmd = "build"
  /\ stage # "over" => exit = None /\ ~written
  /\ probing => stage = "sample"
Gained ==
  /\ missing \subseteq Objects /\ todo \subseteq Objects /\ bodies \subseteq Objects
  /\ read \subseteq Objects /\ silence \subseteq Objects
  /\ stage \notin {"structure", "modules", "over"} \cup Fetched => missing = {} /\ bodies = {}
  /\ stage = "modules" => \A o \in Keys : Place(o, Keys) <= turn * ModuleBatch => o \in bodies
  /\ stage \in Fetched => read = missing

\* What has been sampled is what comes first of what may be, a table a turn.
Cheapest ==
  /\ sampled \subseteq Plans /\ skipped \subseteq Plans
  /\ Cardinality(Tried) <= Count
  /\ \A t \in Tried, u \in Plans \ Tried : Before(t, u)
  /\ stage \notin Sampling => Tried = {}
  /\ stage = "sample" => turn = Cardinality(Tried) /\ (stmt # Nothing => turn < Count)
RunInv == CommandInv /\ Course /\ Gained /\ Cheapest /\ HonestExit

-----------------------------------------------------------------------------
(* Counting.                                                                *)

LEMMA ObjectsFinite ==
  ASSUME NEW T \in SUBSET Objects
  PROVE  IsFiniteSet(T) /\ Cardinality(T) \in Nat
BY ObjectsAssumption, FS_Subset, FS_CardinalityType

\* A set of numbers has a least.
LEMMA LeastOf ==
  ASSUME NEW T \in SUBSET Nat, T # {}
  PROVE  \E t \in T : \A u \in T : t <= u
<1> DEFINE R == OpToRel(<, Nat)
<1>1. PICK t \in T : \A u \in T : <<u, t>> \notin R
  <2> HIDE DEF R
  <2> IsWellFoundedOn(R, Nat)
    BY NatLessThanWellFounded DEF R
  <2> QED BY WFMin
<1>2. ASSUME NEW u \in T PROVE t <= u
  <2>1. <<u, t>> \notin R /\ u \in Nat /\ t \in Nat
    BY <1>1
  <2>2. ~(u < t)
    BY <2>1 DEF OpToRel
  <2> HIDE DEF R
  <2> QED BY <2>1, <2>2
<1> QED BY <1>2

LEMMA TablesOrdered ==
  ASSUME NEW t \in Tables, NEW u \in Tables
  PROVE  /\ ~Before(t, t)
         /\ Before(t, u) \/ Before(u, t) \/ t = u
         /\ \A v \in Tables : Before(t, u) /\ Before(u, v) => Before(t, v)
<1>1. \A v \in Tables : v \in Nat /\ Rows[v] \in Int /\ Complete(v) \in BOOLEAN
  BY ObjectsAssumption, CountsAssumption DEF Tables, Complete
<1> QED BY <1>1 DEF Before

\* Of some tables one comes first, the one with the fewest before it.
LEMMA FirstOf ==
  ASSUME NEW T \in SUBSET Tables, T # {}
  PROVE  \E t \in T : \A u \in T \ {t} : Before(t, u)
<1> DEFINE earlier(t) == {u \in T : Before(u, t)}
           places == {Cardinality(earlier(t)) : t \in T}
<1>1. \A t \in T : IsFiniteSet(earlier(t)) /\ Cardinality(earlier(t)) \in Nat
  BY ObjectsFinite DEF Tables
<1>2. places \in SUBSET Nat /\ places # {}
  BY <1>1
<1>3. PICK least \in places : \A n \in places : least <= n
  <2> HIDE DEF places
  <2> QED BY <1>2, LeastOf
<1>4. PICK t \in T : Cardinality(earlier(t)) = least
  BY <1>3
<1>5. ASSUME NEW u \in T, Before(u, t) PROVE FALSE
  <2>0. Cardinality(earlier(u)) \in Nat
    BY <1>1
  <2>1. earlier(u) \in SUBSET earlier(t)
    BY <1>5, TablesOrdered
  <2>2. u \in earlier(t) /\ u \notin earlier(u)
    BY <1>5, TablesOrdered
  <2>3. Cardinality(earlier(u)) <= least /\ Cardinality(earlier(u)) # least
    <3> HIDE DEF earlier
    <3> QED BY <1>1, <1>4, <2>1, <2>2, FS_Subset
  <2>4. least <= Cardinality(earlier(u))
    BY <1>3
  <2>5. least \in Nat
    BY <1>2, <1>3
  <2> HIDE DEF earlier, places
  <2> QED BY <2>0, <2>3, <2>4, <2>5
<1> QED BY <1>4, <1>5, TablesOrdered

LEMMA PlansKnown ==
  ASSUME Gained
  PROVE  Plans \in SUBSET Tables /\ IsFiniteSet(Plans) /\ Cardinality(Plans) \in Nat /\ Keys \in SUBSET Objects
<1>1. Plans \in SUBSET Tables /\ Plans \in SUBSET Objects /\ Keys \in SUBSET Objects
  BY DEF Gained, Plans, Keys, Tables
<1> QED BY <1>1, ObjectsFinite

\* A limit bounds what is sampled, and so does what there is.
LEMMA CountIs ==
  ASSUME Gained, Course
  PROVE  Count \in Nat /\ Count <= Cardinality(Plans) /\ (limit >= 0 => Count <= limit)
<1>1. limit \in Int
  BY CountsAssumption DEF Course
<1> QED BY <1>1, PlansKnown DEF Count

\* As long as the sample is not complete there is a table to try next, and it is
\* the first of those left.
LEMMA NextTableIs ==
  ASSUME Gained, Course, Cheapest, stage = "sample", turn < Count
  PROVE  NextTable \in Plans \ Tried /\ \A u \in Plans \ Tried : u # NextTable => Before(NextTable, u)
<1>1. Tried \in SUBSET Plans /\ turn = Cardinality(Tried)
  BY DEF Cheapest, Tried
<1>2. Plans # Tried
  BY <1>1, CountIs, PlansKnown DEF Course
<1>3. \E t \in Plans \ Tried : \A u \in (Plans \ Tried) \ {t} : Before(t, u)
  <2>1. Plans \ Tried \in SUBSET Tables /\ Plans \ Tried # {}
    BY <1>1, <1>2, PlansKnown
  <2> QED BY <2>1, FirstOf
<1>4. \E t \in Plans \ (sampled \cup skipped) : \A u \in Plans \ (sampled \cup skipped \cup {t}) : Before(t, u)
  BY <1>3 DEF Tried
<1>5. /\ NextTable \in Plans \ (sampled \cup skipped)
      /\ \A u \in Plans \ (sampled \cup skipped \cup {NextTable}) : Before(NextTable, u)
  BY <1>4 DEF NextTable
<1> QED BY <1>5 DEF Tried

\* Trying it keeps the order.
LEMMA TriedInOrder ==
  ASSUME Gained, Course, Cheapest, stage = "sample", turn < Count, UNCHANGED <<stage, limit, todo>>,
         sampled' \cup skipped' = Tried \cup {NextTable}, turn' = turn + 1, stmt' = Nothing
  PROVE  Cheapest'
<1>1. Plans' = Plans /\ Count' = Count
  BY DEF Plans, Count
<1>2. /\ NextTable \in Plans /\ NextTable \notin Tried
      /\ \A u \in Plans \ Tried : u # NextTable => Before(NextTable, u)
  BY NextTableIs
<1>3. Tried \in SUBSET Plans /\ turn = Cardinality(Tried)
  BY DEF Cheapest, Tried
<1>4. Tried' = Tried \cup {NextTable}
  BY DEF Tried
<1>5. Cardinality(Tried') = turn'
  BY <1>2, <1>3, <1>4, PlansKnown, FS_Subset, FS_AddElement
<1>6. turn' <= Count /\ turn \in Nat
  BY CountIs DEF Course
<1>7. sampled' \subseteq Plans /\ skipped' \subseteq Plans
  BY <1>2, <1>3, <1>4 DEF Tried
<1>8. \A t \in Tried', u \in Plans \ Tried' : Before(t, u)
  BY <1>2, <1>4 DEF Cheapest
<1> QED BY <1>1, <1>5, <1>6, <1>7, <1>8 DEF Cheapest, Before, Complete, Sampling

\* The last batch of bodies reaches the last of the modules.
LEMMA BatchesReach ==
  ASSUME NEW n \in Nat, NEW m \in Nat \ {0}
  PROVE  (n + m - 1) \div m \in Nat /\ n <= ((n + m - 1) \div m) * m
OBVIOUS

LEMMA AllAssembled ==
  ASSUME Gained, Course, stage = "modules", turn = Batches
  PROVE  {o \in missing : KindOf[o] = "module" => o \in bodies} = missing
<1>1. IsFiniteSet(Keys) /\ Cardinality(Keys) \in Nat
  BY PlansKnown, ObjectsFinite
<1>2. Cardinality(Keys) <= turn * ModuleBatch
  BY <1>1, BatchesReach, BatchAssumption DEF Batches
<1>3. ASSUME NEW o \in Keys PROVE o \in bodies
  <2>1. {p \in Keys : p <= o} \in SUBSET Keys
    OBVIOUS
  <2>2. Place(o, Keys) <= Cardinality(Keys) /\ Place(o, Keys) \in Nat
    BY <1>1, <2>1, FS_Subset, FS_CardinalityType DEF Place
  <2>3. turn * ModuleBatch \in Nat
    BY BatchAssumption DEF Course
  <2>4. Place(o, Keys) <= turn * ModuleBatch
    BY <1>1, <1>2, <2>2, <2>3
  <2> QED BY <2>4 DEF Gained
<1> QED BY <1>3 DEF Keys

-----------------------------------------------------------------------------
(* A step at a time.                                                        *)

\* Sending a statement, or waiting for one, gains nothing.
LEMMA SendingGains ==
  ASSUME RunInv, UNCHANGED <<asked, stage, turn, plans, gains, result>>,
         probing' \in BOOLEAN, probing' => stage = "sample",
         stmt' # Nothing => stmt # Nothing \/ turn < Wanted,
         stage # "over" \/ said' = said
  PROVE  Course' /\ Gained' /\ Cheapest' /\ HonestExit'
<1>1. Course' /\ Gained'
  BY DEF RunInv, asked, plans, gains, result, Course, Gained, Keys, Place
<1>2. Cheapest'
  BY DEF RunInv, asked, plans, gains, Cheapest, Plans, Tried, Count, Before, Complete, Wanted
<1>3. HonestExit'
  BY ExitAssumption DEF RunInv, Course, asked, plans, gains, result, HonestExit, StopConditions
<1> QED BY <1>1, <1>2, <1>3

\* A command that ends keeps what it has; one that says it has done its work has.
LEMMA EndingGains ==
  ASSUME RunInv, NEW how \in {"ok", "failed"}, Ends(how), UNCHANGED <<asked, plans, gains>>,
         silence' \subseteq Objects, failed' \in BOOLEAN, written' \in BOOLEAN, how = "ok" => HonestExit'
  PROVE  Course' /\ Gained' /\ Cheapest' /\ HonestExit'
<1>1. Course' /\ Gained'
  BY DEF RunInv, Ends, asked, plans, gains, Course, Gained, Fetched
<1>2. Cheapest'
  BY DEF RunInv, Ends, asked, plans, gains, Cheapest, Plans, Tried, Count, Before, Complete, Sampling
<1>3. HonestExit'
  BY DEF Ends, HonestExit
<1> QED BY <1>1, <1>2, <1>3

\* Going on gains nothing, but for what a stage is about.
LEMMA GoingGains ==
  ASSUME RunInv, NEW to \in Stages \ {"over"}, Goes(to), UNCHANGED <<asked, gains, written, exit, stmt>>, stmt = Nothing,
         Course', Gained', UNCHANGED todo \/ Tried = {},
         to \notin Sampling => Tried = {}, to = "sample" => Tried = {}
  PROVE  Course' /\ Gained' /\ Cheapest' /\ HonestExit'
<1>1. Cheapest'
  <2>1. CASE UNCHANGED todo
    BY <2>1, FS_EmptySet DEF RunInv, Goes, asked, gains, Cheapest, Plans, Tried, Count, Before, Complete
  <2>2. CASE Tried = {}
    <3>1. Tried' = {} /\ sampled' = {} /\ skipped' = {}
      BY <2>2 DEF Tried, gains
    <3>2. Count' \in Nat
      <4>1. Gained' /\ limit' \in Int
        BY CountsAssumption DEF RunInv, Course, asked
      <4>2. Cardinality(Plans') \in Nat
        <5>1. Plans' \in SUBSET Objects
          BY <4>1 DEF Gained, Plans, Tables
        <5> QED BY <5>1, ObjectsFinite
      <4> QED BY <4>1, <4>2 DEF Count
    <3> QED BY <3>1, <3>2, FS_EmptySet DEF Goes, Cheapest
  <2> QED BY <2>1, <2>2
<1>2. HonestExit'
  BY ExitAssumption DEF Course, Goes, HonestExit
<1> QED BY <1>1, <1>2

LEMMA WorkingRuns ==
  ASSUME RunInv, Working
  PROVE  Course' /\ Gained' /\ Cheapest' /\ HonestExit'
<1>0. /\ Course /\ Gained /\ Cheapest /\ StageInv /\ stage \in Stages /\ "over" \notin ReadStages
      /\ silence \subseteq Objects /\ failed \in BOOLEAN /\ written \in BOOLEAN
  BY DEF RunInv, CommandInv, StageInv, ReadStages, Gained, Course
<1>1. Sent("health") # Nothing /\ Sent("alive") # Nothing /\ Sent("work") # Nothing
  BY DEF Sent, Nothing
<1>2. CASE Ask
  <2>1. stage # "over" /\ turn < Wanted /\ probing' \in BOOLEAN /\ (probing' => stage = "sample")
    BY <1>0, <1>2 DEF Ask, place, Course
  <2> QED BY <1>2, <2>1, SendingGains DEF Ask, place
<1>3. CASE AskAgain \/ Proceed
  <2>1. stmt # Nothing /\ stage # "over"
    BY <1>0, <1>3 DEF AskAgain, AskAlive, Proceed, Health, Came, Nothing, StageInv, Sending, ReadStages
  <2>2. probing' \in BOOLEAN /\ (probing' => stage = "sample")
    BY <1>0, <1>3 DEF AskAgain, Proceed, place, Course
  <2> QED BY <1>3, <2>1, <2>2, SendingGains DEF AskAgain, Proceed, place
<1>4. CASE Probe
  <2>1. stmt # Nothing /\ stage # "over" /\ probing' \in BOOLEAN
    BY <1>4 DEF Probe, Health, Came, Nothing
  <2> QED BY <1>4, <2>1, SendingGains DEF Probe
<1>5. CASE Halt \/ Failed \/ Fatal
  <2>1. Ends("failed") /\ UNCHANGED <<asked, plans, gains, silence, failed, written>>
    BY <1>5 DEF Halt, Failed, Fatal
  <2> QED BY <1>0, <2>1, EndingGains
<1>6. CASE Answered
  <2>1. stmt # Nothing /\ stage \in ReadStages /\ stmt' = Nothing
    BY <1>0, <1>6 DEF Answered, Came, Nothing, StageInv, Send
  <2>2. Course'
    BY <1>0, <1>6 DEF Answered, asked, result, Course
  <2>3. HonestExit'
    BY <1>0, <2>1, <2>2, ExitAssumption, <1>6 DEF Answered, Course, HonestExit
  <2>4. CASE stage = "sample"
    <3>1. turn < Count /\ turn' = turn + 1 /\ sampled' = sampled \cup {NextTable} /\ bodies' = bodies
      BY <1>0, <1>6, <2>1, <2>4 DEF Answered, Cheapest
    <3>2. Cheapest'
      BY <1>0, <1>6, <2>1, <2>4, <3>1, TriedInOrder DEF Answered, asked, plans, Tried
    <3>3. Gained'
      BY <1>0, <1>6, <2>4, <3>1 DEF Answered, plans, result, Gained, Fetched
    <3> QED BY <2>2, <2>3, <3>2, <3>3
  <2>5. CASE stage = "modules"
    <3>1. bodies' = bodies \cup Batch(turn + 1) /\ turn' = turn + 1 /\ sampled' = sampled
      BY <1>6, <2>5 DEF Answered
    <3>2. Keys' = Keys /\ Keys \subseteq Objects
      BY <1>0, <1>6, PlansKnown DEF Answered, plans, Keys
    <3>3. ASSUME NEW o \in Keys, Place(o, Keys) <= (turn + 1) * ModuleBatch PROVE o \in bodies'
      <4>1. Place(o, Keys) \in Nat
        <5>1. {p \in Keys : p <= o} \in SUBSET Objects
          BY <3>2
        <5> QED BY <5>1, ObjectsFinite DEF Place
      <4>2. turn * ModuleBatch \in Nat /\ turn + 1 - 1 = turn
        BY <1>0, BatchAssumption DEF Course
      <4>3. CASE Place(o, Keys) <= turn * ModuleBatch
        BY <1>0, <2>5, <3>1, <4>3 DEF Gained
      <4>4. CASE Place(o, Keys) > turn * ModuleBatch
        <5> DEFINE b == turn + 1
        <5>0. turn \in Nat
          BY <1>0 DEF Course
        <5>1. b - 1 = turn
          BY <5>0
        <5>2. Place(o, Keys) > (b - 1) * ModuleBatch
          BY <4>4, <5>1
        <5>3. Place(o, Keys) <= b * ModuleBatch
          BY <3>3
        <5>4. o \in Batch(b)
          <6> HIDE DEF b
          <6> QED BY <3>3, <5>2, <5>3 DEF Batch
        <5> QED BY <3>1, <5>4
      <4> QED BY <4>1, <4>2, <4>3, <4>4
    <3>4. Gained'
      <4>1. Batch(turn + 1) \subseteq Objects
        BY <3>2 DEF Batch
      <4> QED BY <1>0, <1>6, <2>5, <3>1, <3>2, <3>3, <4>1 DEF Answered, plans, result, Gained, Fetched, Place
    <3>5. Cheapest'
      BY <1>0, <1>6, <2>5, <3>1 DEF Answered, asked, plans, Cheapest, Plans, Tried, Count, Before, Complete, Sampling
    <3> QED BY <2>2, <2>3, <3>4, <3>5
  <2>6. CASE stage \notin {"sample", "modules"}
    <3>1. Gained'
      BY <1>0, <1>6, <2>6 DEF Answered, plans, result, Gained
    <3>2. Cheapest'
      BY <1>0, <1>6, <2>6 DEF Answered, asked, plans, Cheapest, Plans, Tried, Count, Before, Complete
    <3> QED BY <2>2, <2>3, <3>1, <3>2
  <2> QED BY <2>4, <2>5, <2>6
<1>7. CASE Skip
  <2>1. stage = "sample" /\ stmt # Nothing /\ stmt' = Nothing
    <3>1. stage = "sample"
      BY <1>0, <1>7, Zenon DEF Skip, Course
    <3>2. stmt # Nothing
      BY <1>7 DEF Skip, Health, Came, Nothing
    <3>3. stmt' = Nothing
      BY <1>7 DEF Skip, Send
    <3> QED BY <3>1, <3>2, <3>3
  <2>2. turn < Count
    BY <1>0, <2>1 DEF Cheapest
  <2>3. Course'
    <3>1. turn' \in Nat /\ UNCHANGED <<cmd, limit, stage, failed, written, exit>>
      BY <1>0, <1>7 DEF Skip, asked, result, Course
    <3>2. probing' \in BOOLEAN /\ ~probing'
      BY <1>7, Zenon DEF Skip
    <3> QED BY <1>0, <3>1, <3>2, Zenon DEF Course
  <2>4. Gained'
    BY <1>0, <1>7, <2>1 DEF Skip, plans, result, Gained, Fetched
  <2>5. Cheapest'
    BY <1>0, <1>7, <2>1, <2>2, TriedInOrder DEF Skip, asked, plans, Tried
  <2>6. HonestExit'
    BY <1>0, <1>7, <2>1, <2>3, ExitAssumption DEF Skip, Course, HonestExit
  <2> QED BY <2>3, <2>4, <2>5, <2>6
<1> QED BY <1>2, <1>3, <1>4, <1>5, <1>6, <1>7 DEF Working

LEMMA MovingRuns ==
  ASSUME RunInv, Moving
  PROVE  Course' /\ Gained' /\ Cheapest' /\ HonestExit'
<1>0. Course /\ Gained /\ Cheapest /\ StageInv /\ silence \subseteq Objects /\ failed \in BOOLEAN /\ written \in BOOLEAN
  BY DEF RunInv, CommandInv, Gained, Course
<1>1. stage \notin Sending => stmt = Nothing
  BY <1>0 DEF StageInv
<1>2. stage \notin Sampling => Tried = {}
  BY <1>0 DEF Cheapest
<1>3. CASE Resolve \/ OpenPool \/ Equip \/ Listed \/ Structured
  <2>1. Course'
    <3>1. turn' = 0 /\ UNCHANGED <<cmd, limit, failed, written, exit>>
      BY <1>3 DEF Resolve, OpenPool, Equip, Listed, Structured, Goes, asked, result
    <3>2. probing' = FALSE
      BY <1>3, Zenon DEF Resolve, OpenPool, Equip, Listed, Structured, Goes
    <3>3. /\ stage' \in {"auth", "read-only", "health"} => cmd = "doctor"
          /\ stage' \in {"equip", "manifest", "plan"} => cmd # "doctor"
          /\ stage' \in {"structure", "modules"} \cup Fetched => cmd = "build"
          /\ exit = None /\ ~written
      BY <1>0, <1>3 DEF Resolve, OpenPool, Equip, Listed, Structured, Done, Goes, Course, Fetched
    <3> QED BY <1>0, <3>1, <3>2, <3>3 DEF Course
  <2>9. Gained'
    <3>1. UNCHANGED <<plans, gains, silence>> /\ turn' = 0
      BY <1>3 DEF Resolve, OpenPool, Equip, Listed, Structured, Goes, result
    <3>2. CASE Resolve \/ OpenPool \/ Equip \/ Listed
      BY <1>0, <3>1, <3>2 DEF Resolve, OpenPool, Equip, Listed, Done, Goes, plans, gains, Gained, Fetched
    <3>3. CASE Structured
      <4>1. ASSUME NEW o \in Keys, Place(o, Keys) <= 0 PROVE FALSE
        <5> DEFINE upto == {p \in Keys : p <= o}
        <5>1. upto \in SUBSET Objects /\ o \in upto
          <6>1. Keys \in SUBSET Objects
            BY <1>0, PlansKnown
          <6>2. o \in Nat
            BY <6>1, ObjectsAssumption
          <6>3. o <= o
            BY <6>2
          <6> QED BY <6>1, <6>3
        <5>2. Cardinality(upto) \in Nat /\ Cardinality(upto) # 0
          BY <5>1, ObjectsFinite, FS_EmptySet
        <5> QED BY <4>1, <5>2 DEF Place
      <4>2. 0 * ModuleBatch = 0
        BY BatchAssumption
      <4> QED BY <1>0, <3>1, <3>3, <4>1, <4>2 DEF Structured, Done, Goes, plans, gains, Gained, Fetched, Keys, Place
    <3> QED BY <1>3, <3>2, <3>3
  <2>2. stmt = Nothing /\ stage \notin Sampling /\ UNCHANGED <<asked, gains, written, exit, stmt, todo>>
    BY <1>1, <1>3 DEF Resolve, OpenPool, Equip, Listed, Structured, Done, Quiet, wire, plans, result, Sending,
       ReadStages, Sampling
  <2> QED BY <1>2, <1>3, <2>1, <2>9, <2>2, GoingGains DEF Resolve, OpenPool, Equip, Listed, Structured, Stages
<1>4. CASE GiveUp
  BY <1>0, <1>4, EndingGains DEF GiveUp
<1>5. CASE Report
  <2>1. HonestExit'
    BY <1>0, <1>2, <1>5 DEF Report, asked, plans, gains, Course, Gained, Fetched, HonestExit, Tried, Sampling
  <2> QED BY <1>0, <1>5, <2>1, EndingGains DEF Report
<1>6. CASE Plan
  <2>1. missing' \subseteq Objects
    BY <1>6, InputsAssumption DEF Plan
  <2>2. Course' /\ Gained'
    <3>1. Course'
      BY <1>0, <1>6 DEF Plan, Goes, asked, result, Course, Fetched
    <3>2. Gained'
      BY <1>0, <1>6, <2>1 DEF Plan, Goes, gains, result, Gained, Fetched
    <3> QED BY <3>1, <3>2
  <2>3. stmt = Nothing /\ stage \notin Sampling /\ UNCHANGED <<asked, gains, written, exit, stmt, todo>>
    BY <1>1, <1>6 DEF Plan, Quiet, wire, result, Sending, ReadStages, Sampling
  <2> QED BY <1>2, <1>6, <2>2, <2>3, GoingGains DEF Plan, Stages
<1>7. CASE Assemble
  <2>1. stmt = Nothing /\ stage \notin Sampling /\ UNCHANGED <<asked, bodies, sampled, skipped, written, exit, stmt, todo>>
    BY <1>7 DEF Assemble, Done, Quiet, wire, plans, result, Sampling
  <2>2. read' = missing /\ missing' = missing
    BY <1>0, <1>7, AllAssembled DEF Assemble, Done, Wanted, plans
  <2>3. Course' /\ Gained'
    <3>1. stage = "modules" /\ stage' = "split" /\ turn' = 0 /\ UNCHANGED <<cmd, limit, missing, todo, result>>
      BY <1>7 DEF Assemble, Done, Goes, asked, plans
    <3>2. probing' = FALSE
      BY <1>7, Zenon DEF Assemble, Goes
    <3>3. Course'
      BY <1>0, <3>1, <3>2 DEF result, Course, Fetched
    <3>4. Gained'
      BY <1>0, <2>1, <2>2, <3>1 DEF result, Gained, Fetched
    <3> QED BY <3>3, <3>4
  <2>4. Cheapest'
    BY <1>0, <1>7, <2>1 DEF Assemble, Goes, asked, Cheapest, Plans, Tried, Count, Before, Complete, Sampling
  <2>5. HonestExit'
    BY <2>3, <1>7, ExitAssumption DEF Assemble, Goes, Course, HonestExit
  <2> QED BY <2>3, <2>4, <2>5
<1>8. CASE Split
  <2>1. todo' \subseteq Objects
    BY <1>8, InputsAssumption DEF Split
  <2>2. Course' /\ Gained'
    BY <1>0, <1>8, <2>1 DEF Split, Goes, asked, gains, result, Course, Gained, Fetched
  <2>3. stmt = Nothing /\ stage \notin Sampling /\ UNCHANGED <<asked, gains, written, exit, stmt>>
    BY <1>1, <1>8 DEF Split, Quiet, wire, result, Sending, ReadStages, Sampling
  <2> QED BY <1>2, <1>8, <2>2, <2>3, GoingGains DEF Split, Stages
<1>9. CASE Release
  <2>1. stmt = Nothing /\ stage = "sample" /\ UNCHANGED <<asked, plans, gains, silence, failed, written, stmt>>
    BY <1>9 DEF Release, Done
  <2>2. CASE Goes("describe") /\ UNCHANGED exit
    <3>1. Course' /\ Gained'
      BY <1>0, <2>1, <2>2 DEF Goes, asked, plans, gains, Course, Gained, Fetched
    <3> QED BY <2>1, <2>2, <3>1, GoingGains DEF plans, Stages, Sampling
  <2>3. CASE stage' = "over" /\ turn' = 0 /\ probing' = FALSE /\ exit' = "failed"
    <3>1. Ends("failed")
      BY <1>9, <2>1, <2>3 DEF Release, Ends
    <3> QED BY <1>0, <2>1, <3>1, EndingGains
  <2> QED BY <1>9, <2>2, <2>3 DEF Release
<1>10. CASE Describe
  <2>1. silence' \subseteq Objects /\ failed' \in BOOLEAN
    BY <1>0, <1>10 DEF Describe, Gained
  <2>2. Course' /\ Gained'
    BY <1>0, <1>10, <2>1 DEF Describe, Goes, asked, plans, gains, Course, Gained, Fetched
  <2>3. stmt = Nothing /\ UNCHANGED <<asked, gains, written, exit, stmt, todo>>
    BY <1>1, <1>10 DEF Describe, Quiet, wire, plans, Sending, ReadStages
  <2> QED BY <1>10, <2>2, <2>3, GoingGains DEF Describe, Stages, Sampling
<1>11. CASE Write
  <2>1. PICK how \in {"failed", Outcome} : Ends(how)
    BY <1>11 DEF Write
  <2>2. how \in {"ok", "failed"} /\ written' \in BOOLEAN /\ UNCHANGED <<asked, plans, gains, silence, failed>>
    BY <1>11 DEF Write, Outcome
  <2>3. how = "ok" => HonestExit'
    BY <1>0, <1>11, <2>2 DEF Write, Outcome, asked, plans, gains, Course, Gained, Fetched, HonestExit
  <2> QED BY <1>0, <2>1, <2>2, <2>3, EndingGains
<1> QED BY <1>3, <1>4, <1>5, <1>6, <1>7, <1>8, <1>9, <1>10, <1>11 DEF Moving

LEMMA DoctorRuns ==
  ASSUME RunInv, Doctor
  PROVE  Course' /\ Gained' /\ Cheapest' /\ HonestExit'
<1>0. Course /\ Gained /\ Cheapest /\ StageInv /\ silence \subseteq Objects /\ failed \in BOOLEAN /\ written \in BOOLEAN
  BY DEF RunInv, CommandInv, Gained, Course
<1>1. stage \notin Sampling => Tried = {}
  BY <1>0 DEF Cheapest
<1>2. CASE Verify
  <2>1. stage = "auth" /\ stage' = "read-only" /\ turn' = 0 /\ UNCHANGED <<cmd, limit, plans, gains, result, stmt>>
    BY <1>2 DEF Verify, Goes, Quiet, wire, asked
  <2>2. stmt = Nothing
    BY <1>0, <2>1 DEF StageInv, Sending, ReadStages
  <2>3. probing' = FALSE
    BY <1>2, Zenon DEF Verify, Goes
  <2>4. Course'
    BY <1>0, <2>1, <2>3 DEF result, Course, Fetched
  <2>5. Gained'
    BY <1>0, <2>1 DEF plans, gains, result, Gained, Fetched
  <2> QED BY <1>1, <1>2, <2>1, <2>2, <2>4, <2>5, GoingGains DEF Verify, asked, plans, result, Stages, Sampling
<1>3. CASE AskDoctor
  <2>1. stage = "read-only" /\ stage \notin ReadStages /\ UNCHANGED <<asked, place, plans, gains, result>>
    BY <1>3 DEF AskDoctor, ReadStages
  <2>2. probing' \in BOOLEAN /\ (probing' => stage = "sample")
    BY <1>0, <2>1, Zenon DEF Course, place
  <2>3. Course' /\ Gained' /\ HonestExit'
    BY <1>0, <2>1, <2>2, ExitAssumption DEF asked, place, plans, gains, result, Course, Gained, Fetched, HonestExit
  <2>4. Cheapest'
    BY <1>0, <2>1 DEF asked, place, plans, gains, Cheapest, Plans, Tried, Count, Before, Complete
  <2> QED BY <2>3, <2>4
<1>4. CASE ReadOnly
  <2>1. stage = "read-only" /\ stage' = "health" /\ turn' = 0 /\ UNCHANGED <<cmd, limit, plans, gains, result>>
    BY <1>4 DEF ReadOnly, Goes, asked
  <2>2. probing' = FALSE
    BY <1>4, Zenon DEF ReadOnly, Goes
  <2>3. Course'
    BY <1>0, <2>1, <2>2 DEF result, Course, Fetched
  <2>4. Gained'
    BY <1>0, <2>1 DEF plans, gains, result, Gained, Fetched
  <2>5. Cheapest'
    BY <1>0, <2>1 DEF plans, gains, Cheapest, Plans, Tried, Count, Before, Complete, Sampling
  <2>6. HonestExit'
    BY <2>1, <2>3, ExitAssumption DEF Course, HonestExit
  <2> QED BY <2>3, <2>4, <2>5, <2>6
<1>5. CASE ReadOnlyFails
  BY <1>0, <1>5, EndingGains DEF ReadOnlyFails
<1>6. CASE Judge
  <2> DEFINE how == IF Health = "room" THEN "ok" ELSE "failed"
  <2>1. Ends(how) /\ stage = "health" /\ UNCHANGED <<asked, plans, gains, silence, failed, written>>
    BY <1>6 DEF Judge
  <2>2. how = "ok" => HonestExit'
    <3> SUFFICES ASSUME Health = "room" PROVE HonestExit'
      OBVIOUS
    <3>1. Came("health", "rows") /\ Classify(stmt.reading) = "room"
      BY DEF Health
    <3>2. said = stmt.reading /\ said # None /\ ~StopConditions(said)
      BY <3>1 DEF RunInv, CommandInv, WireInv, SaidInv, Classify
    <3>3. said' = said /\ cmd' = "doctor"
      BY <1>0, <2>1 DEF Ends, asked, Course
    <3> QED BY <3>2, <3>3 DEF HonestExit, StopConditions
  <2> QED BY <1>0, <2>1, <2>2, EndingGains
<1> QED BY <1>2, <1>3, <1>4, <1>5, <1>6 DEF Doctor

LEMMA OutsideRuns ==
  ASSUME RunInv, Outside
  PROVE  Course' /\ Gained' /\ Cheapest' /\ HonestExit'
<1>1. stage # "over" /\ UNCHANGED <<asked, stage, turn, probing, plans, gains, result>>
  BY DEF Outside, place
<1>2. probing' \in BOOLEAN /\ (probing' => stage = "sample")
  BY <1>1 DEF RunInv, Course
<1>3. stmt' # Nothing => stmt # Nothing
  BY DEF Outside, Statement, Begin, Set, Execute, Collect, Fails, Weather, Interrupt, Nothing
<1> QED BY <1>1, <1>2, <1>3, SendingGains

LEMMA RunInitial ==
  Init => RunInv
<1> SUFFICES ASSUME Init PROVE RunInv
  OBVIOUS
<1>1. CommandInv
  BY CommandInitial
<1>2. Course
  <2>1. probing = FALSE /\ failed = FALSE /\ written = FALSE
    BY Zenon DEF Init
  <2> QED BY <2>1 DEF Init, Course, Fetched
<1>3. Gained
  BY DEF Init, Gained, Fetched
<1>4. Cheapest
  <2>1. sampled = {} /\ skipped = {} /\ stage = "resolve" /\ Tried = {}
    BY DEF Init, Tried
  <2>2. Count \in Nat
    BY <1>2, <1>3, CountIs
  <2> QED BY <2>1, <2>2, FS_EmptySet DEF Cheapest
<1>5. HonestExit
  BY ExitAssumption DEF Init, HonestExit
<1> QED BY <1>1, <1>2, <1>3, <1>4, <1>5 DEF RunInv

LEMMA RunKept ==
  ASSUME RunInv, [Next]_vars
  PROVE  RunInv'
<1>1. CommandInv'
  BY CommandKept DEF RunInv
<1>2. CASE UNCHANGED vars
  <2>1. UNCHANGED <<asked, stage, turn, probing, plans, gains, result, stmt, said>>
    BY <1>2 DEF vars, wire, place
  <2>2. probing' \in BOOLEAN /\ (probing' => stage = "sample")
    BY <2>1 DEF RunInv, Course
  <2> QED BY <1>1, <2>1, <2>2, SendingGains DEF RunInv
<1> QED BY <1>1, <1>2, WorkingRuns, MovingRuns, DoctorRuns, OutsideRuns DEF Next, Over, RunInv

LEMMA RunHolds == Spec => []RunInv
BY RunInitial, RunKept, PTL DEF Spec

\* Whatever is answered or fails when, what a command carries is well formed, and
\* what it means to sample next is a table.
THEOREM TypesHold == Spec => []TypeOK
<1>1. RunInv => TypeOK
  <2> SUFFICES ASSUME RunInv PROVE TypeOK
    OBVIOUS
  <2>1. WireTypeOK /\ stage \in Stages
    BY DEF RunInv, CommandInv, WireInv, StageInv
  <2>2. sampled \subseteq Tables /\ skipped \subseteq Tables
    BY DEF RunInv, Cheapest, Plans
  <2> QED BY <2>1, <2>2 DEF RunInv, Course, Gained, TypeOK
<1> QED BY <1>1, RunHolds, PTL

\* A command that reports success did what it was asked, for any number of
\* objects, batches and tables, whatever failed, was skipped or was interrupted
\* on the way: the batches of bodies reach the last module.
THEOREM HonestExitHolds == Spec => []HonestExit
<1>1. RunInv => HonestExit
  BY DEF RunInv
<1> QED BY <1>1, RunHolds, PTL

\* A limit on samples takes the tables with the fewest rows, and takes none from
\* which nothing may be read.
THEOREM CheapestFirstHolds == Spec => []CheapestFirst
<1>1. RunInv => CheapestFirst
  <2> SUFFICES ASSUME RunInv PROVE CheapestFirst
    OBVIOUS
  <2> DEFINE useful == {t \in todo : KindOf[t] = "table" /\ \E c \in Columns[t] : c \notin Personal \cup Opaque}
  <2>1. useful = Plans
    BY DEF RunInv, Gained, Plans, Tables, Project
  <2>2. Tried \subseteq Plans
    BY DEF RunInv, Cheapest, Tried
  <2>3. limit >= 0 => Cardinality(Tried) <= limit
    <3>1. Cardinality(Tried) <= Count /\ Count \in Nat /\ (limit >= 0 => Count <= limit) /\ limit \in Int
      BY CountIs, CountsAssumption DEF RunInv, Cheapest, Course
    <3>2. Cardinality(Tried) \in Nat
      BY <2>2, PlansKnown, FS_Subset, FS_CardinalityType DEF RunInv
    <3> QED BY <3>1, <3>2
  <2>4. ASSUME NEW t \in Tried, NEW u \in Plans \ Tried
        PROVE  Rows[t] < Rows[u] \/ (Rows[t] = Rows[u] /\ t < u)
    <3>1. Before(t, u)
      BY DEF RunInv, Cheapest
    <3>2. t \in Tables /\ u \in Tables
      BY <2>2, PlansKnown DEF RunInv
    <3>3. Rows[t] \in Int /\ Rows[u] \in Int /\ SampleRows \in Nat
      BY <3>2, CountsAssumption
    <3> QED BY <3>1, <3>3 DEF Before, Complete
  <2>5. sampled \cup skipped = Tried
    BY DEF Tried
  <2> HIDE DEF useful
  <2>6. /\ Tried \subseteq useful /\ (limit >= 0 => Cardinality(Tried) <= limit)
        /\ \A t \in Tried, u \in useful \ Tried : Rows[t] < Rows[u] \/ (Rows[t] = Rows[u] /\ t < u)
    BY <2>1, <2>2, <2>3, <2>4
  <2> QED BY <2>5, <2>6 DEF CheapestFirst, useful
<1> QED BY <1>1, RunHolds, PTL

-----------------------------------------------------------------------------
(* What a build counts on.                                                  *)

\* A step of a command is a step of the promise, or none of its business.
Kept == Promise!Plan \/ Promise!Fetch \/ Promise!Split \/ Promise!Sample \/ Promise!Write \/ Promise!Stop \/ UNCHANGED Promise!vars

\* What a step between two stages of one phase, or one that ends the command,
\* comes to.
LEMMA SamePhase ==
  ASSUME Phase' = Phase, UNCHANGED <<missing, todo, read, sampled, written>>
  PROVE  Kept
BY DEF Kept, Promise!vars

LEMMA Stopping ==
  ASSUME stage \in Stages \ {"over"}, stage' = "over", UNCHANGED <<missing, todo, read, sampled, written>>
  PROVE  Kept
BY DEF Kept, Promise!Stop, Phase, Stages

LEMMA StepKept ==
  ASSUME RunInv, [Next]_vars
  PROVE  Kept
<1>0. Course /\ Gained /\ Cheapest /\ StageInv /\ stage \in Stages
  BY DEF RunInv, CommandInv, StageInv
<1>1. CASE UNCHANGED stage /\ UNCHANGED <<missing, todo, read, sampled, written>>
  BY <1>1, SamePhase DEF Phase
<1>2. CASE Ask \/ AskAgain \/ Proceed \/ Probe \/ Skip \/ AskDoctor \/ Outside \/ Over \/ UNCHANGED vars
  <2>1. UNCHANGED <<stage, missing, todo, read, sampled, written>>
    BY <1>2 DEF Ask, AskAgain, Proceed, Probe, Skip, AskDoctor, Outside, Over, vars, place, plans, gains, result
  <2> QED BY <1>1, <2>1
<1>3. CASE Halt \/ Failed \/ Fatal \/ GiveUp \/ Report \/ ReadOnlyFails \/ Judge
  <2>1. stage' = "over" /\ UNCHANGED <<missing, todo, read, sampled, written>>
    BY <1>3 DEF Halt, Failed, Fatal, GiveUp, Report, ReadOnlyFails, Judge, Ends, plans, gains
  <2>2. stage # "over"
    BY <1>0, <1>3 DEF Halt, Failed, Fatal, GiveUp, Report, ReadOnlyFails, Judge, ReadStages, Came, Course,
       StageInv, Sending, Nothing
  <2> QED BY <1>0, <2>1, <2>2, Stopping
<1>4. CASE Answered
  <2>1. UNCHANGED <<stage, missing, todo, read, written>>
    BY <1>4 DEF Answered, plans, result
  <2>2. CASE stage = "sample"
    <3>1. stmt # Nothing
      BY <1>4 DEF Answered, Came, Nothing
    <3>2. NextTable \in Plans
      BY <1>0, <2>2, <3>1, NextTableIs DEF Cheapest
    <3>3. sampled' \in SUBSET todo /\ sampled \subseteq sampled'
      BY <1>0, <1>4, <2>2, <3>2 DEF Answered, Cheapest, Plans
    <3> QED BY <2>1, <2>2, <3>3 DEF Kept, Promise!Sample, Phase
  <2>3. CASE stage # "sample"
    BY <1>1, <1>4, <2>1, <2>3 DEF Answered
  <2> QED BY <2>2, <2>3
<1>5. CASE Resolve \/ OpenPool \/ Equip \/ Listed \/ Structured \/ Verify \/ ReadOnly
  <2>1. UNCHANGED <<missing, todo, read, sampled, written>>
    BY <1>5 DEF Resolve, OpenPool, Equip, Listed, Structured, Verify, ReadOnly, plans, gains, result
  <2>2. Phase' = Phase
    BY <1>5 DEF Resolve, OpenPool, Equip, Listed, Structured, Verify, ReadOnly, Done, Goes, Phase
  <2> QED BY <2>1, <2>2, SamePhase
<1>6. CASE Plan
  BY <1>6, InputsAssumption DEF Plan, Goes, gains, result, Kept, Promise!Plan, Phase
<1>7. CASE Assemble
  <2>1. read' = missing
    BY <1>0, <1>7, AllAssembled DEF Assemble, Done, Wanted
  <2> QED BY <1>7, <2>1 DEF Assemble, Done, Goes, plans, result, Kept, Promise!Fetch, Phase
<1>8. CASE Split
  BY <1>8, InputsAssumption DEF Split, Goes, gains, result, Kept, Promise!Split, Phase
<1>9. CASE Release
  <2>1. stage = "sample" /\ UNCHANGED <<missing, todo, read, sampled, written>>
    BY <1>9 DEF Release, Done, plans, gains
  <2>2. CASE Goes("describe")
    <3>1. sampled \subseteq todo
      BY <1>0 DEF Cheapest, Plans
    <3> QED BY <2>1, <2>2, <3>1 DEF Goes, Kept, Promise!Sample, Phase
  <2>3. CASE stage' = "over"
    BY <2>1, <2>3, <1>0, Stopping
  <2> QED BY <1>9, <2>2, <2>3 DEF Release
<1>10. CASE Describe
  <2>1. Phase' = Phase /\ UNCHANGED <<missing, todo, read, sampled, written>>
    BY <1>10 DEF Describe, Goes, plans, gains, Phase
  <2> QED BY <2>1, SamePhase
<1>11. CASE Write
  <2>1. stage = "write" /\ stage' = "over" /\ UNCHANGED <<missing, todo, read, sampled>>
    BY <1>11 DEF Write, Ends, plans, gains
  <2>2. written' = TRUE
    BY <1>11, Zenon DEF Write
  <2> QED BY <2>1, <2>2 DEF Kept, Promise!Write, Phase
<1> QED BY <1>2, <1>3, <1>4, <1>5, <1>6, <1>7, <1>8, <1>9, <1>10, <1>11 DEF Next, Working, Moving, Doctor

\* A command that reads a server is a run of what a build counts on of it:
\* everything it wanted is read before it writes, only tables it was about to
\* describe are sampled, and one that stops early writes nothing.
THEOREM ReadsImplementFetching == Spec => ImplementsFetching
<1>1. Init => Promise!Init
  BY DEF Init, Promise!Init, Phase
<1>2. RunInv /\ [Next]_vars =>
        [Promise!Plan \/ Promise!Fetch \/ Promise!Split \/ Promise!Sample \/ Promise!Write \/ Promise!Stop]_Promise!vars
  BY StepKept DEF Kept
<1> QED BY <1>1, <1>2, RunHolds, PTL DEF Spec, ImplementsFetching, Promise!Spec
-----------------------------------------------------------------------------
(* How long a command can go on.                                            *)

\* A turn is begun only for what is still to be sent, and none is lost.
Turns ==
  /\ turn \in Nat /\ turn <= Wanted
  /\ stage \in ReadStages /\ stmt # Nothing => turn < Wanted

Nearer ==
  \/ Ahead' < Ahead
  \/ Ahead' = Ahead /\ ToSend' < ToSend
  \/ Ahead' = Ahead /\ ToSend' = ToSend /\ Pending' < Pending

LEMMA SourcesCounted ==
  Cardinality(Sources) \in Nat
<1> DEFINE A == {"columns"}
           B == A \cup {"indexes"}
           C == B \cup {"foreignKeys"}
           D == C \cup {"parameters"}
           E == D \cup {"synonyms"}
<1>1. IsFiniteSet(A)
  BY FS_Singleton
<1>2. IsFiniteSet(D)
  <2>1. IsFiniteSet(B)
    BY <1>1, FS_AddElement
  <2>2. IsFiniteSet(C)
    <3> HIDE DEF B
    <3> QED BY <2>1, FS_AddElement
  <2> HIDE DEF C
  <2> QED BY <2>2, FS_AddElement
<1>3. IsFiniteSet(E)
  <2> HIDE DEF D
  <2> QED BY <1>2, FS_AddElement
<1>4. Sources = D \/ Sources = E
  BY DEF Sources, SqlServerSources, PostgresSources
<1> QED BY <1>2, <1>3, <1>4, FS_CardinalityType

\* There is no end of a stage that cannot be reached.
LEMMA WantedCounted ==
  ASSUME Gained, Course
  PROVE  Wanted \in Nat
<1>1. Batches \in Nat
  <2>1. Cardinality(Keys) \in Nat
    BY PlansKnown, ObjectsFinite
  <2> QED BY <2>1, BatchesReach, BatchAssumption DEF Batches
<1> QED BY <1>1, SourcesCounted, CountIs DEF Wanted

LEMMA WantedAfter == (Gained /\ Course => Wanted \in Nat)'
<1>1. Gained /\ Course => Wanted \in Nat
  BY WantedCounted
<1> QED BY <1>1, PTL

\* What is under way is so many steps from its answer.
LEMMA PendingCounted ==
  ASSUME CommandInv
  PROVE  Questions \in 0 .. 5 /\ Steps \in 0 .. 6 /\ Pending \in Nat
BY DEF CommandInv, WireInv, WireTypeOK, Questions, Steps, Pending

LEMMA StepsCounted ==
  ASSUME WireInv, Statement
  PROVE  stmt'.what = stmt.what /\ Steps \in Nat /\ Steps' \in Nat /\ Steps' < Steps
<1> DEFINE Stmts == [what: Whats, at: {"sent", "begun", "cursor", "rows", "failed"}, set: 0 .. 3, reading: Reading \cup {None}]
<1>0. stmt \in Stmts /\ Settings[engine] \in {0, 3}
  BY EnginesAssumption DEF WireInv, WireTypeOK, Settings, Whats
<1>1. CASE Begin
  <2>1. stmt'.what = stmt.what /\ stmt'.at = "begun" /\ stmt'.set = stmt.set /\ stmt.at = "sent"
    BY <1>0, <1>1 DEF Begin
  <2> QED BY <1>0, <2>1 DEF Steps
<1>2. CASE Set
  <2>1. stmt'.what = stmt.what /\ stmt'.at = "begun" /\ stmt'.set = stmt.set + 1 /\ stmt.at = "begun" /\ stmt.set < 3
    BY <1>0, <1>2 DEF Set
  <2> QED BY <1>0, <2>1 DEF Steps
<1>3. CASE Execute
  <2>1. stmt'.what = stmt.what /\ stmt'.at = "cursor" /\ stmt.at \in {"sent", "begun"}
    BY <1>0, <1>3 DEF Execute
  <2> QED BY <1>0, <2>1 DEF Steps
<1>4. CASE Collect
  <2> DEFINE got == IF stmt.what # "health" \/ server = Mute THEN None ELSE Parsed(server)
  <2>1. stmt' = [stmt EXCEPT !.at = "rows", !.reading = got] /\ stmt.at = "cursor"
    BY <1>4 DEF Collect
  <2> HIDE DEF got
  <2>2. stmt'.what = stmt.what /\ stmt'.at = "rows"
    BY <1>0, <2>1
  <2> QED BY <1>0, <2>1, <2>2 DEF Steps
<1>5. CASE Fails
  <2>1. stmt'.what = stmt.what /\ stmt'.at = "failed" /\ stmt.at \in {"sent", "begun", "cursor"}
    BY <1>0, <1>5 DEF Fails
  <2> QED BY <1>0, <2>1 DEF Steps
<1> QED BY <1>1, <1>2, <1>3, <1>4, <1>5 DEF Statement

LEMMA FewerSteps ==
  ASSUME NEW q \in Nat, NEW s \in Nat, NEW t \in Nat, t < s
  PROVE  7 * q + t < 7 * q + s
OBVIOUS

\* On to a later stage, or to the end.
LEMMA OnCounts ==
  ASSUME RunInv', turn' = 0, Ahead' < Ahead, stage' \in ReadStages => stmt' = Nothing
  PROVE  Turns' /\ Nearer
<1>1. Wanted' \in Nat
  BY WantedAfter DEF RunInv
<1> QED BY <1>1 DEF Turns, Nearer

\* An answer to what a turn was for.
LEMMA TurnCounts ==
  ASSUME RunInv, Turns, stage \in ReadStages, stmt # Nothing, UNCHANGED <<engine, asked, stage, plans>>,
         turn' = turn + 1, stmt' = Nothing
  PROVE  Turns' /\ Nearer
<1>1. Wanted' = Wanted /\ Wanted \in Nat
  BY WantedCounted DEF RunInv, asked, plans, Wanted, Sources, Batches, Keys, Count, Plans
<1>2. Ahead' = Ahead
  BY DEF Ahead
<1> QED BY <1>1, <1>2 DEF Turns, Nearer, ToSend

\* A step towards it.
LEMMA StatementCounts ==
  ASSUME RunInv, Turns, UNCHANGED <<engine, asked, stage, turn, plans>>, Pending' < Pending,
         stage \in ReadStages /\ stmt' # Nothing => turn < Wanted
  PROVE  Turns' /\ Nearer
<1>1. Wanted' = Wanted
  BY DEF asked, plans, Wanted, Sources, Batches, Keys, Count, Plans
<1>2. Ahead' = Ahead
  BY DEF Ahead
<1> QED BY <1>1, <1>2 DEF Turns, Nearer, ToSend

LEMMA WorkingCounts ==
  ASSUME RunInv, RunInv', Turns, Working
  PROVE  Turns' /\ Nearer
<1>1. stage \in Stages /\ (stmt.what = "work" \/ probing => stage \in ReadStages) /\ CommandInv
  BY DEF RunInv, CommandInv, StageInv
<1>2. CASE Ask \/ AskAgain \/ Proceed \/ Probe
  <2>1. UNCHANGED <<engine, asked, stage, turn, plans>>
    BY <1>2 DEF Ask, AskAgain, AskAlive, Proceed, Probe, Send, place
  <2>2. stage \in ReadStages /\ stmt' # Nothing => turn < Wanted
    BY <1>2 DEF Ask, AskAgain, AskAlive, Proceed, Probe, Health, Came, Nothing, Turns
  <2>3. Pending' < Pending
    <3>1. CASE Ask
      BY <3>1 DEF Ask, place, Send, Sent, Nothing, Pending, Questions, Steps
    <3>2. CASE AskAgain
      BY <3>2 DEF AskAgain, AskAlive, Came, place, Send, Sent, Pending, Questions, Steps
    <3>3. CASE Proceed
      BY <3>3 DEF Proceed, Health, Came, place, Send, Sent, Pending, Questions, Steps, Classify
    <3>4. CASE Probe
      BY <3>4 DEF Probe, Health, Came, Send, Sent, Pending, Questions, Steps, Classify
    <3> QED BY <1>2, <3>1, <3>2, <3>3, <3>4
  <2> QED BY <2>1, <2>2, <2>3, StatementCounts
<1>3. CASE Halt \/ Failed \/ Fatal
  <2>1. Ends("failed") /\ stage \in ReadStages
    BY <1>1, <1>3 DEF Halt, Failed, Fatal, Came
  <2>2. turn' = 0 /\ Ahead' < Ahead /\ stmt' = Nothing
    BY <2>1 DEF Ends, Ahead, ReadStages
  <2> QED BY <2>2, OnCounts
<1>4. CASE Answered \/ Skip
  <2>1. stage \in ReadStages /\ stmt # Nothing
    BY <1>1, <1>4 DEF Answered, Skip, Came, Health, Nothing
  <2>2. UNCHANGED <<engine, asked, stage, plans>> /\ turn' = turn + 1 /\ stmt' = Nothing
    BY <1>4 DEF Answered, Skip, Send
  <2> QED BY <2>1, <2>2, TurnCounts
<1> QED BY <1>2, <1>3, <1>4 DEF Working

LEMMA MovingCounts ==
  ASSUME RunInv, RunInv', Turns, Moving \/ Doctor
  PROVE  Turns' /\ Nearer
<1>1. stage \notin Sending => stmt = Nothing
  BY DEF RunInv, CommandInv, StageInv
<1>2. CASE AskDoctor
  <2>1. UNCHANGED <<engine, asked, stage, turn, plans>> /\ stage \notin ReadStages
    BY <1>2 DEF AskDoctor, Send, place, ReadStages
  <2>2. Pending' < Pending
    BY <1>2 DEF AskDoctor, place, Send, Sent, Nothing, Pending, Questions, Steps
  <2> QED BY <2>1, <2>2, StatementCounts
<1>3. CASE Resolve \/ OpenPool \/ Equip \/ Listed \/ Plan \/ Structured \/ Assemble \/ Split \/ Describe \/ Verify \/ ReadOnly
  <2>0. turn' = 0
    BY <1>3 DEF Resolve, OpenPool, Equip, Listed, Plan, Structured, Assemble, Split, Describe, Verify, ReadOnly, Goes
  <2>1. Ahead' < Ahead
    <3>1. CASE Resolve \/ OpenPool \/ Equip \/ Listed \/ Plan
      BY <3>1 DEF Resolve, OpenPool, Equip, Listed, Plan, Done, Goes, Ahead
    <3>2. CASE Structured \/ Assemble \/ Split \/ Describe
      <4>1. \/ stage = "structure" /\ stage' = "modules"
            \/ stage = "modules" /\ stage' = "split"
            \/ stage = "split" /\ stage' = "sample"
            \/ stage = "describe" /\ stage' = "write"
        BY <3>2, Zenon DEF Structured, Assemble, Split, Describe, Done, Goes
      <4> QED BY <4>1 DEF Ahead
    <3>3. CASE Verify \/ ReadOnly
      BY <3>3 DEF Verify, ReadOnly, Goes, Ahead
    <3> QED BY <1>3, <3>1, <3>2, <3>3
  <2>2. stage' \in ReadStages => stmt' = Nothing
    BY <1>1, <1>3 DEF Resolve, OpenPool, Equip, Listed, Plan, Structured, Assemble, Split, Describe, Verify, ReadOnly, Done,
       Goes, Quiet, wire, Sending, ReadStages
  <2> QED BY <2>0, <2>1, <2>2, OnCounts
<1>4. CASE GiveUp \/ Report \/ Write \/ ReadOnlyFails \/ Judge
  <2>1. \E how : Ends(how)
    BY <1>4 DEF GiveUp, Report, Write, ReadOnlyFails, Judge
  <2>2. turn' = 0 /\ stmt' = Nothing /\ stage' = "over"
    BY <2>1 DEF Ends
  <2>3. Ahead' < Ahead
    BY <1>4, <2>2 DEF GiveUp, Report, Write, ReadOnlyFails, Judge, Ahead
  <2> QED BY <2>2, <2>3, OnCounts
<1>5. CASE Release
  <2>1. turn' = 0 /\ Ahead' < Ahead /\ stmt' = Nothing
    BY <1>5 DEF Release, Done, Goes, Ahead
  <2> QED BY <2>1, OnCounts
<1> QED BY <1>2, <1>3, <1>4, <1>5 DEF Moving, Doctor

LEMMA OutsideCounts ==
  ASSUME RunInv, Turns, Outside
  PROVE  Turns' /\ (Statement => Nearer)
<1>1. UNCHANGED <<engine, asked, stage, turn, probing, plans>>
  BY DEF Outside, Statement, Begin, Set, Execute, Collect, Fails, Weather, Interrupt, place
<1>2. CASE Statement
  <2>1. stmt.at \in {"sent", "begun", "cursor"} /\ stmt.what \in Whats \ {"none"}
    BY <1>2 DEF Statement, Begin, Set, Execute, Collect, Fails, RunInv, CommandInv, WireInv, WireTypeOK, SilentInv, Whats
  <2>2. Pending' < Pending
    <3>1. stmt'.what = stmt.what /\ Steps \in Nat /\ Steps' \in Nat /\ Steps' < Steps
      BY <1>2, StepsCounted DEF RunInv, CommandInv
    <3>2. Questions' = Questions /\ Questions \in Nat
      BY <1>1, <3>1, PendingCounted DEF Questions, RunInv
    <3>3. Pending = 7 * Questions + Steps /\ Pending' = 7 * Questions' + Steps'
      BY DEF Pending
    <3>4. Steps \in Nat /\ Steps' \in Nat /\ Steps' < Steps /\ Questions \in Nat /\ Questions' = Questions
      BY <3>1, <3>2
    <3> QED BY <3>3, <3>4, FewerSteps
  <2>3. stage \in ReadStages => turn < Wanted
    BY <2>1 DEF Turns, Nothing
  <2> QED BY <1>1, <2>2, <2>3, StatementCounts
<1>3. CASE Weather \/ Interrupt
  <2>1. stmt' = stmt
    BY <1>3 DEF Weather, Interrupt
  <2>2. Wanted' = Wanted
    BY <1>1 DEF asked, plans, Wanted, Sources, Batches, Keys, Count, Plans
  <2>3. Turns'
    BY <1>1, <2>1, <2>2 DEF Turns
  <2> QED BY <1>2, <2>3
<1> QED BY <1>2, <1>3 DEF Outside

LEMMA TurnsInitial ==
  ASSUME Init
  PROVE  Turns
<1>1. Wanted = 0 /\ turn = 0 /\ stage \notin ReadStages
  BY DEF Init, Wanted, ReadStages
<1> QED BY <1>1 DEF Turns

\* Only the server's and the user's steps bring a command no nearer to its end.
LEMMA MoveCounts ==
  ASSUME RunInv, RunInv', Turns, [Next]_vars
  PROVE  Turns' /\ (UNCHANGED <<server, cancelled>> => UNCHANGED vars \/ Nearer)
<1>1. CASE UNCHANGED vars
  <2>1. UNCHANGED <<stage, turn, stmt, engine, limit, missing, todo>>
    BY <1>1 DEF vars, wire, asked, place, plans
  <2>2. Wanted' = Wanted
    BY <2>1 DEF Wanted, Sources, Batches, Keys, Count, Plans
  <2> QED BY <1>1, <2>1, <2>2 DEF Turns
<1>2. CASE Outside
  <2>1. UNCHANGED server /\ UNCHANGED cancelled => Statement
    <3>1. Weather => server' # server
      BY DEF Weather
    <3>2. Interrupt => cancelled' # cancelled
      <4> SUFFICES ASSUME Interrupt, cancelled' = cancelled PROVE FALSE
        OBVIOUS
      <4>1. cancelled = TRUE /\ ~cancelled
        BY Zenon DEF Interrupt
      <4> QED BY <4>1, Zenon
    <3> QED BY <1>2, <3>1, <3>2, Zenon DEF Outside
  <2> QED BY <1>2, <2>1, OutsideCounts
<1> QED BY <1>1, <1>2, WorkingCounts, MovingCounts DEF Next, Over

\* No command goes on for ever: whatever fails when, each of its steps is nearer
\* to the end, in statements to send, in steps of the one under way or in stages
\* (cmd/index.go, internal/index, internal/sample and the health guard).
THEOREM EveryMoveCountsHolds == Spec => EveryMoveCounts
<1> DEFINE Counts == UNCHANGED <<server, cancelled>> =>
                       ToSend \in Nat /\ Pending \in Nat /\ Nearer
<1>1. RunInv /\ Turns => ToSend \in Nat /\ Pending \in Nat
  <2>1. RunInv => Wanted \in Nat
    BY WantedCounted DEF RunInv
  <2> QED BY <2>1, PendingCounted DEF RunInv, Turns, ToSend
<1>2. (RunInv /\ Turns) /\ RunInv' /\ [Next]_vars => Turns' /\ [Counts]_vars
  BY <1>1, MoveCounts
<1>3. [][Counts]_vars => EveryMoveCounts
  <2>1. [Counts]_vars => [UNCHANGED <<server, cancelled>> =>
       /\ ToSend \in Nat /\ Pending \in Nat
       /\ \/ Ahead' < Ahead
          \/ Ahead' = Ahead /\ ToSend' < ToSend
          \/ Ahead' = Ahead /\ ToSend' = ToSend /\ Pending' < Pending]_vars
    BY DEF Nearer
  <2> QED BY <2>1, PTL DEF EveryMoveCounts
<1>4. Init => Turns
  BY TurnsInitial
<1> HIDE DEF Counts
<1> QED BY <1>2, <1>3, <1>4, RunHolds, PTL DEF Spec
=============================================================================
