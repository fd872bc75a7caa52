--------------------------- MODULE SettingsProofs ---------------------------
(* Proofs about Settings, for any number of processes, entries and profiles. *)
EXTENDS Settings, TLAPS

(* What a command carries, but for whether another disturbed it. *)
Alike(c, d) ==
  /\ c.pc = d.pc /\ c.op = d.op /\ c.entry = d.entry /\ c.next = d.next
  /\ c.plain = d.plain /\ c.secret = d.secret /\ c.env = d.env /\ c.seen = d.seen

(* Starting a command gives its process the command asked for, and leaves     *)
(* every other process at what it was doing.                                  *)
LEMMA Began ==
  ASSUME NEW p \in Procs, NEW does \in Command, proc \in [Procs -> Command], Begin(p, does)
  PROVE  /\ proc' \in [Procs -> Command]
         /\ Alike(proc'[p], does)
         /\ \A q \in Procs \ {p} : Alike(proc'[q], proc[q])
<1> DEFINE Free  == \A o \in Others(p) : ~Disturbs(proc[o], does)
           Of(q) == IF q = p THEN [does EXCEPT !.apart = Free]
                    ELSE IF q \in Others(p) /\ Disturbs(does, proc[q]) THEN [proc[q] EXCEPT !.apart = FALSE]
                    ELSE proc[q]
<1>1. proc' = [q \in Procs |-> Of(q)]
  BY DEF Begin
<1>2. ASSUME NEW q \in Procs PROVE Of(q) \in Command /\ Alike(Of(q), IF q = p THEN does ELSE proc[q])
  <2>1. proc[q] \in Command /\ Free \in BOOLEAN
    OBVIOUS
  <2>2. \A c \in Command, a \in BOOLEAN :
          [c EXCEPT !.apart = a] \in Command /\ Alike([c EXCEPT !.apart = a], c)
    BY DEF Command, Alike
  <2>3. \A c \in Command : Alike(c, c)
    BY DEF Alike
  <2> HIDE DEF Command, Free
  <2>4. CASE q = p
    BY <2>1, <2>2, <2>4
  <2>5. CASE q # p
    BY <2>1, <2>2, <2>3, <2>5
  <2> QED BY <2>4, <2>5
<1> HIDE DEF Of
<1> QED BY <1>1, <1>2

(* A process that goes on changes nothing but where it is. *)
LEMMA Went ==
  ASSUME NEW p \in Procs, NEW pc \in {"idle", "get", "ask", "set", "drop", "again", "forget",
                                      "read", "truncate", "write", "save"},
         proc \in [Procs -> Command], Goes(p, pc)
  PROVE  /\ proc' \in [Procs -> Command]
         /\ proc'[p] = [proc[p] EXCEPT !.pc = pc]
         /\ \A q \in Procs \ {p} : proc'[q] = proc[q]
<1>1. proc' = [proc EXCEPT ![p] = [proc[p] EXCEPT !.pc = pc]]
  BY DEF Goes
<1>2. [proc[p] EXCEPT !.pc = pc] \in Command
  BY DEF Command
<1> QED BY <1>1, <1>2

LEMMA IdleTyped == Idle \in Command /\ Empty \in Config /\ NoFile \in File
<1>1. NoFile \in File
  BY DEF NoFile, File
<1>2. Empty \in Config
  BY DEF Empty, Config, Auths
<1> QED BY <1>1, <1>2 DEF Idle, Command

LEMMA Ended ==
  ASSUME NEW p \in Procs, proc \in [Procs -> Command], Ends(p)
  PROVE  /\ proc' \in [Procs -> Command]
         /\ proc'[p] = Idle
         /\ \A q \in Procs \ {p} : proc'[q] = proc[q]
BY IdleTyped DEF Ends

-----------------------------------------------------------------------------
(* The copies of the configuration a command may save are configurations.    *)
LEMMA CopiesTyped ==
  ASSUME config \in Config
  PROVE  /\ \A e \in Entries, auth \in Auths : [config EXCEPT !.auth[e] = auth] \in Config
         /\ Create(config) \cup Switch(config) \cup RemoveProfile(config) \cup SetFallback(config)
              \subseteq Config
<1>1. /\ config.auth \in [Entries -> Auths]
      /\ config.binds \in [Profiles -> {None} \cup (Connections \X Backends)]
      /\ config.current \in Profiles \cup {None} /\ config.fallback \in {"never", "plaintext"}
  BY DEF Config
<1>2. ASSUME NEW e \in Entries, NEW auth \in Auths PROVE [config EXCEPT !.auth[e] = auth] \in Config
  BY <1>1 DEF Config
<1>3. Create(config) \subseteq Config
  BY <1>1 DEF Create, Config
<1>4. Switch(config) \subseteq Config
  BY <1>1 DEF Switch, Config
<1>5. RemoveProfile(config) \subseteq Config
  <2>1. ASSUME NEW p \in Profiles, NEW cfg,
               cfg = [config EXCEPT !.binds[p] = None, !.current = IF @ = p THEN None ELSE @]
        PROVE  cfg \in Config
    <3>1. cfg = [config EXCEPT !.binds = [config.binds EXCEPT ![p] = None],
                   !.current = IF config.current = p THEN None ELSE config.current]
      BY <2>1 DEF Config
    <3>2. [config.binds EXCEPT ![p] = None] \in [Profiles -> {None} \cup (Connections \X Backends)]
      BY <1>1
    <3>3. (IF config.current = p THEN None ELSE config.current) \in Profiles \cup {None}
      BY <1>1
    <3> QED BY <3>1, <3>2, <3>3 DEF Config
  <2> QED BY <2>1 DEF RemoveProfile
<1>6. SetFallback(config) \subseteq Config
  BY <1>1, SaidAssumption DEF SetFallback, Config
<1> QED BY <1>2, <1>3, <1>4, <1>5, <1>6

(* The command each way of starting gives a process.                         *)
Started(does) ==
  \/ \E e \in Entries, auth \in Auths \ {"undefined"} : \E given \in Given(e, auth), plain \in OptedIn :
       does = [Idle EXCEPT !.op = "add", !.entry = e, !.pc = Stores(given), !.secret = given.secret,
                 !.env = given.env, !.plain = plain, !.next = [config EXCEPT !.auth[e] = auth]]
  \/ \E e \in Entries, force \in Forces, plain \in OptedIn :
       /\ config.auth[e] # "undefined" /\ (Users(config, e) = {} \/ force)
       /\ does = [Idle EXCEPT !.op = "remove", !.entry = e, !.pc = "forget", !.plain = plain,
                    !.next = [config EXCEPT !.auth[e] = "undefined"]]
  \/ \E next \in Create(config) \cup Switch(config) \cup RemoveProfile(config) \cup SetFallback(config) :
       does = [Idle EXCEPT !.pc = "save", !.next = next]
  \/ \E e \in Entries : does = [Idle EXCEPT !.op = "use", !.entry = e, !.pc = "get"]

LEMMA StartedTyped ==
  ASSUME config \in Config, NEW does, Started(does)
  PROVE  does \in Command /\ Equipped(does)
<1>1. /\ Idle.pc = "idle" /\ Idle.op = "edit" /\ Idle.entry = None /\ Idle.secret = None
      /\ Idle \in Command
  BY IdleTyped DEF Idle
<1>2. CASE \E e \in Entries, auth \in Auths \ {"undefined"} : \E given \in Given(e, auth), plain \in OptedIn :
             does = [Idle EXCEPT !.op = "add", !.entry = e, !.pc = Stores(given), !.secret = given.secret,
                       !.env = given.env, !.plain = plain, !.next = [config EXCEPT !.auth[e] = auth]]
  <2>1. PICK e \in Entries, auth \in Auths \ {"undefined"} : \E given \in Given(e, auth), plain \in OptedIn :
             does = [Idle EXCEPT !.op = "add", !.entry = e, !.pc = Stores(given), !.secret = given.secret,
                       !.env = given.env, !.plain = plain, !.next = [config EXCEPT !.auth[e] = auth]]
    BY <1>2
  <2>2. PICK given \in Given(e, auth), plain \in OptedIn :
             does = [Idle EXCEPT !.op = "add", !.entry = e, !.pc = Stores(given), !.secret = given.secret,
                       !.env = given.env, !.plain = plain, !.next = [config EXCEPT !.auth[e] = auth]]
    BY <2>1
  <2>3. given.secret \in {None} \cup Secrets /\ given.env \in BOOLEAN /\ plain \in BOOLEAN
    <3>1. Typed[e] \subseteq Secrets /\ plain \in BOOLEAN
      BY DEF Secrets, OptedIn
    <3>2. \/ given \in [secret: Typed[e], env: {FALSE}]
          \/ given = [secret |-> None, env |-> FALSE]
          \/ given \in [secret: Typed[e], env: {TRUE}]
      BY DEF Given
    <3>3. CASE given = [secret |-> None, env |-> FALSE]
      BY <3>1, <3>3
    <3>4. CASE given \in [secret: Typed[e], env: {FALSE}]
      BY <3>1, <3>4
    <3>5. CASE given \in [secret: Typed[e], env: {TRUE}]
      BY <3>1, <3>5
    <3> QED BY <3>2, <3>3, <3>4, <3>5
  <2>4. /\ Stores(given) \in {"save", "set"} /\ (Stores(given) = "set" => given.secret # None)
    BY DEF Stores
  <2>5. [config EXCEPT !.auth[e] = auth] \in Config
    BY CopiesTyped
  <2>6. e # None
    BY NoneAssumption
  <2> QED BY <1>1, <2>2, <2>3, <2>4, <2>5, <2>6 DEF Command, Equipped
<1>3. CASE \E e \in Entries, force \in Forces, plain \in OptedIn :
             /\ config.auth[e] # "undefined" /\ (Users(config, e) = {} \/ force)
             /\ does = [Idle EXCEPT !.op = "remove", !.entry = e, !.pc = "forget", !.plain = plain,
                          !.next = [config EXCEPT !.auth[e] = "undefined"]]
  <2>1. PICK e \in Entries, plain \in OptedIn :
             does = [Idle EXCEPT !.op = "remove", !.entry = e, !.pc = "forget", !.plain = plain,
                       !.next = [config EXCEPT !.auth[e] = "undefined"]]
    BY <1>3
  <2>2. [config EXCEPT !.auth[e] = "undefined"] \in Config
    BY CopiesTyped DEF Auths
  <2>3. e # None /\ plain \in BOOLEAN
    BY NoneAssumption DEF OptedIn
  <2> QED BY <1>1, <2>1, <2>2, <2>3 DEF Command, Equipped
<1>4. CASE \E next \in Create(config) \cup Switch(config) \cup RemoveProfile(config) \cup SetFallback(config) :
             does = [Idle EXCEPT !.pc = "save", !.next = next]
  BY <1>1, <1>4, CopiesTyped DEF Command, Equipped
<1>5. CASE \E e \in Entries : does = [Idle EXCEPT !.op = "use", !.entry = e, !.pc = "get"]
  BY <1>1, <1>5, NoneAssumption DEF Command, Equipped
<1> QED BY <1>2, <1>3, <1>4, <1>5 DEF Started

LEMMA StartIsStarted ==
  ASSUME NEW p \in Procs, Start(p)
  PROVE  /\ \E does : Started(does) /\ Begin(p, does)
         /\ told' = told \/ \E e \in Entries : told' = [told EXCEPT ![e] = None]
<1>1. CASE StartAdd(p)
  BY <1>1 DEF StartAdd, Started
<1>2. CASE StartRemove(p)
  BY <1>2 DEF StartRemove, Started
<1>3. CASE StartEdit(p)
  BY <1>3 DEF StartEdit, Started
<1>4. CASE StartUse(p)
  BY <1>4 DEF StartUse, Started
<1> QED BY <1>1, <1>2, <1>3, <1>4 DEF Start

-----------------------------------------------------------------------------
(* Types.                                                                    *)
LEMMA TypeInit == Init => TypeOK
<1> SUFFICES ASSUME Init PROVE TypeOK
  OBVIOUS
<1>1. config \in Config /\ file \in File
  BY IdleTyped DEF Init
<1>2. keychain \in [Entries -> {None} \cup Item]
  <2>1. {i \in Item : ~i.own} \subseteq Item
    OBVIOUS
  <2> QED BY <2>1 DEF Init
<1>3. proc \in [Procs -> Command] /\ \A p \in Procs : proc[p] = Idle
  BY IdleTyped DEF Init
<1>4. Equipped(Idle)
  BY DEF Equipped, Idle
<1>5. told \in [Entries -> {None, Gone} \cup Secrets]
  BY DEF Init
<1> QED BY <1>1, <1>2, <1>3, <1>4, <1>5 DEF Init, TypeOK

(* Saying that one process has ended, or is somewhere else, keeps its type.   *)
LEMMA EndsTyped ==
  ASSUME NEW p \in Procs, TypeOK, Ends(p)
  PROVE  proc' \in [Procs -> Command] /\ \A q \in Procs : Equipped(proc'[q])
<1>1. Equipped(Idle)
  BY DEF Equipped, Idle
<1> QED BY <1>1, Ended DEF TypeOK

LEMMA GoesTyped ==
  ASSUME NEW p \in Procs, TypeOK, proc[p].pc \notin {"idle", "save"},
         NEW pc \in {"get", "ask", "drop", "again", "read", "truncate", "write", "save"},
         pc \in {"drop", "again"} => proc[p].pc \in {"set", "drop"}, Goes(p, pc)
  PROVE  proc' \in [Procs -> Command] /\ \A q \in Procs : Equipped(proc'[q])
<1>1. proc \in [Procs -> Command] /\ \A q \in Procs : Equipped(proc[q])
  BY DEF TypeOK
<1>2. /\ proc' \in [Procs -> Command] /\ proc'[p] = [proc[p] EXCEPT !.pc = pc]
      /\ \A q \in Procs \ {p} : proc'[q] = proc[q]
  BY <1>1, Went
<1>3. proc[p] \in Command /\ Equipped(proc[p])
  BY <1>1
<1>4. proc'[p].pc = pc /\ proc'[p].entry = proc[p].entry /\ proc'[p].secret = proc[p].secret
  BY <1>2, <1>3 DEF Command
<1>5. Equipped(proc'[p])
  BY <1>3, <1>4 DEF Equipped
<1> QED BY <1>1, <1>2, <1>5

LEMMA EntryNamed ==
  ASSUME NEW p \in Procs, TypeOK, proc[p].pc \notin {"idle", "save"}
  PROVE  proc[p].entry \in Entries
<1>1. proc[p] \in Command /\ Equipped(proc[p])
  BY DEF TypeOK
<1> QED BY <1>1 DEF Command, Equipped

LEMMA TypeStep == TypeOK /\ [Next]_vars => TypeOK'
<1> SUFFICES ASSUME TypeOK, [Next]_vars PROVE TypeOK'
  OBVIOUS
<1> DEFINE ProcOK == proc \in [Procs -> Command] /\ \A p \in Procs : Equipped(proc[p])
           HistoryOK == /\ told \in [Entries -> {None, Gone} \cup Secrets]
                        /\ dropped \subseteq Entries /\ refused \subseteq Entries \X Secrets
<1>0. /\ config \in Config /\ keychain \in [Entries -> {None} \cup Item] /\ file \in File
      /\ ProcOK /\ HistoryOK
  BY DEF TypeOK
<1> HIDE DEF ProcOK, HistoryOK
<1>1. ASSUME NEW p \in Procs, Start(p) PROVE TypeOK'
  <2>1. PICK does : Started(does) /\ Begin(p, does)
    BY <1>1, StartIsStarted
  <2>2. does \in Command /\ Equipped(does)
    BY <1>0, <2>1, StartedTyped
  <2>3. /\ proc' \in [Procs -> Command] /\ Alike(proc'[p], does)
        /\ \A q \in Procs \ {p} : Alike(proc'[q], proc[q])
    BY <1>0, <2>1, <2>2, Began DEF ProcOK
  <2>4. \A c, d : Alike(c, d) /\ Equipped(d) => Equipped(c)
    BY DEF Alike, Equipped
  <2>5. \A q \in Procs : Equipped(proc'[q])
    BY <1>0, <2>2, <2>3, <2>4 DEF ProcOK
  <2>6. told' \in [Entries -> {None, Gone} \cup Secrets]
    <3>1. told' = told \/ \E e \in Entries : told' = [told EXCEPT ![e] = None]
      BY <1>1, StartIsStarted
    <3> QED BY <1>0, <3>1 DEF HistoryOK
  <2> QED BY <1>0, <2>1, <2>3, <2>5, <2>6 DEF Begin, TypeOK, HistoryOK
<1>2. ASSUME NEW p \in Procs, Keeps(p) PROVE TypeOK'
  <2>0. proc[p].pc \notin {"idle", "save"} /\ proc[p].entry \in Entries
    <3>1. proc[p].pc \notin {"idle", "save"}
      BY <1>2 DEF Keeps, Get, Approve, SetItem, RefuseOwner, DropItem, Refuse, Forget
    <3> QED BY <3>1, EntryNamed
  <2>1. CASE Get(p)
    <3>1. ProcOK'
      BY <2>0, <2>1, EndsTyped, GoesTyped DEF Get, ProcOK
    <3> QED BY <1>0, <2>1, <3>1 DEF Get, history, HistoryOK, ProcOK, TypeOK
  <2>2. CASE Approve(p)
    <3>1. keychain[proc[p].entry].secret \in Secrets
      BY <1>0, <2>0, <2>2 DEF Approve, Item
    <3>2. PICK s \in Secrets : proc' = [proc EXCEPT ![p] = [proc[p] EXCEPT !.pc = "set", !.secret = s]]
      BY <2>2, <3>1 DEF Approve
    <3>3. proc[p] \in Command /\ s # None
      BY <1>0, NoneAssumption DEF ProcOK
    <3>4. /\ [proc[p] EXCEPT !.pc = "set", !.secret = s] \in Command
          /\ [proc[p] EXCEPT !.pc = "set", !.secret = s].entry # None
          /\ [proc[p] EXCEPT !.pc = "set", !.secret = s].secret # None
      BY <2>0, <3>3, NoneAssumption DEF Command
    <3>5. ProcOK'
      BY <1>0, <3>2, <3>4 DEF ProcOK, Equipped
    <3> QED BY <1>0, <2>2, <3>5 DEF Approve, history, HistoryOK, ProcOK, TypeOK
  <2>3. CASE SetItem(p)
    <3>1. ProcOK'
      BY <2>0, <2>3, EndsTyped, GoesTyped DEF SetItem, ProcOK
    <3>2. proc[p].secret \in Secrets
      BY <1>0, <2>3 DEF SetItem, ProcOK, Equipped, Command
    <3>3. keychain' \in [Entries -> {None} \cup Item]
      <4>1. [secret |-> proc[p].secret, own |-> TRUE] \in Item
        BY <3>2 DEF Item
      <4> QED BY <1>0, <2>0, <2>3, <4>1 DEF SetItem
    <3>4. HistoryOK'
      BY <1>0, <2>3 DEF SetItem, HistoryOK
    <3> QED BY <1>0, <2>3, <3>1, <3>3, <3>4 DEF SetItem, HistoryOK, ProcOK, TypeOK
  <2>4. CASE RefuseOwner(p)
    <3>1. ProcOK'
      BY <2>0, <2>4, GoesTyped DEF RefuseOwner, ProcOK
    <3> QED BY <1>0, <2>4, <3>1 DEF RefuseOwner, history, HistoryOK, ProcOK, TypeOK
  <2>5. CASE DropItem(p)
    <3>1. ProcOK'
      BY <2>0, <2>5, GoesTyped DEF DropItem, ProcOK
    <3>2. keychain' \in [Entries -> {None} \cup Item] /\ HistoryOK'
      BY <1>0, <2>0, <2>5 DEF DropItem, HistoryOK
    <3> QED BY <1>0, <2>5, <3>1, <3>2 DEF DropItem, HistoryOK, ProcOK, TypeOK
  <2>6. CASE Refuse(p)
    <3>1. AfterRefusal(proc[p]) \in {"idle", "read", "save"}
      BY DEF AfterRefusal
    <3>2. ProcOK'
      BY <2>0, <2>6, <3>1, EndsTyped, GoesTyped DEF Refuse, ProcOK
    <3>3. proc[p].secret \in Secrets
      BY <1>0, <2>6 DEF Refuse, ProcOK, Equipped, Command
    <3>4. HistoryOK'
      BY <1>0, <2>0, <2>6, <3>3 DEF Refuse, HistoryOK
    <3> QED BY <1>0, <2>6, <3>2, <3>4 DEF Refuse, HistoryOK, ProcOK, TypeOK
  <2>7. CASE Forget(p)
    <3>1. AfterKept(proc[p]) \in {"idle", "read"}
      BY DEF AfterKept
    <3>2. ProcOK'
      BY <2>0, <2>7, <3>1, EndsTyped, GoesTyped DEF Forget, ProcOK
    <3>3. keychain' \in [Entries -> {None} \cup Item]
      BY <1>0, <2>7 DEF Forget
    <3> QED BY <1>0, <2>7, <3>2, <3>3 DEF Forget, history, HistoryOK, ProcOK, TypeOK
  <2> QED BY <1>2, <2>1, <2>2, <2>3, <2>4, <2>5, <2>6, <2>7 DEF Keeps
<1>3. ASSUME NEW p \in Procs, ReadFile(p) PROVE TypeOK'
  <2>1. proc[p] \in Command /\ proc[p].entry # None /\ proc[p].pc = "read"
    BY <1>0, <1>3 DEF ReadFile, ProcOK, Equipped
  <2>2. PICK pc \in {"save", "truncate"} : proc' = [proc EXCEPT ![p] = [proc[p] EXCEPT !.seen = file, !.pc = pc]]
    BY <1>3 DEF ReadFile
  <2>3. /\ [proc[p] EXCEPT !.seen = file, !.pc = pc] \in Command
        /\ Equipped([proc[p] EXCEPT !.seen = file, !.pc = pc])
    BY <1>0, <2>1 DEF Command, Equipped
  <2>4. ProcOK'
    BY <1>0, <2>2, <2>3 DEF ProcOK
  <2> QED BY <1>0, <1>3, <2>4 DEF ReadFile, history, HistoryOK, ProcOK, TypeOK
<1>4. ASSUME NEW p \in Procs, TruncateFile(p) PROVE TypeOK'
  <2>1. ProcOK'
    BY <1>4, GoesTyped DEF TruncateFile, ProcOK
  <2> QED BY <1>0, <1>4, <2>1, IdleTyped DEF TruncateFile, history, HistoryOK, ProcOK, TypeOK
<1>5. ASSUME NEW p \in Procs, WriteFile(p) PROVE TypeOK'
  <2>1. ProcOK'
    BY <1>5, GoesTyped DEF WriteFile, ProcOK
  <2>2. file' \in File
    <3>1. proc[p].seen \in File /\ proc[p].secret \in {None} \cup Secrets
      BY <1>0 DEF ProcOK, Command
    <3> QED BY <1>5, <3>1 DEF WriteFile, File
  <2> QED BY <1>0, <1>5, <2>1, <2>2 DEF WriteFile, history, HistoryOK, ProcOK, TypeOK
<1>6. ASSUME NEW p \in Procs, Save(p) PROVE TypeOK'
  <2>1. ProcOK'
    BY <1>6, EndsTyped DEF Save, ProcOK
  <2>2. proc[p].next \in Config /\ proc[p].secret \in {None} \cup Secrets
    BY <1>0 DEF ProcOK, Command
  <2>3. HistoryOK'
    BY <1>0, <1>6, <2>2 DEF Save, HistoryOK
  <2> QED BY <1>0, <1>6, <2>1, <2>2, <2>3 DEF Save, HistoryOK, ProcOK, TypeOK
<1>7. ASSUME NEW p \in Procs, Stop(p) PROVE TypeOK'
  <2>1. ProcOK'
    BY <1>7, EndsTyped DEF Stop, ProcOK
  <2> QED BY <1>0, <1>7, <2>1 DEF Stop, history, HistoryOK, ProcOK, TypeOK
<1>8. CASE Upgrade
  <2>1. ASSUME NEW e \in Entries, keychain[e] # None PROVE [keychain[e] EXCEPT !.own = FALSE] \in Item
    BY <1>0, <2>1 DEF Item
  <2>2. keychain' \in [Entries -> {None} \cup Item]
    BY <1>8, <2>1 DEF Upgrade
  <2> QED BY <1>0, <1>8, <2>2 DEF Upgrade, history, HistoryOK, ProcOK, TypeOK
<1>9. CASE UNCHANGED vars
  BY <1>0, <1>9 DEF vars, history, HistoryOK, ProcOK, TypeOK
<1> QED BY <1>1, <1>2, <1>3, <1>4, <1>5, <1>6, <1>7, <1>8, <1>9 DEF Next, Writes

(* Whatever commands run at once, what they carry and store is well formed: in *)
(* particular no store is ever asked to hold an empty secret.                  *)
THEOREM TypesHold == Spec => []TypeOK
BY TypeInit, TypeStep, PTL DEF Spec

-----------------------------------------------------------------------------
(* Bindings. What a command will save stands as long as what it loaded did,  *)
(* so the last of any number of writers leaves bindings that stand.          *)
BindInv == BindingsStand /\ \A p \in Procs : Stands(proc[p].next)

LEMMA EmptyStands == Stands(Empty) /\ Idle.next = Empty
BY DEF Stands, Empty, Idle

LEMMA CopiesStand ==
  ASSUME config \in Config, Stands(config)
  PROVE  /\ \A e \in Entries, auth \in Auths \ {"undefined"} : Stands([config EXCEPT !.auth[e] = auth])
         /\ \A e \in Entries : Users(config, e) = {} => Stands([config EXCEPT !.auth[e] = "undefined"])
         /\ \A cfg \in Create(config) \cup Switch(config) \cup RemoveProfile(config) \cup SetFallback(config) :
              Stands(cfg)
<1>1. /\ config.auth \in [Entries -> Auths]
      /\ config.binds \in [Profiles -> {None} \cup (Connections \X Backends)]
      /\ config.current \in Profiles \cup {None}
  BY DEF Config
<1>2. \A p \in Profiles : config.binds[p] # None => config.binds[p][1] \in Entries /\ config.binds[p][2] \in Entries
  BY <1>1 DEF Entries
<1>3. ASSUME NEW e \in Entries, NEW auth, NEW cfg, cfg = [config EXCEPT !.auth[e] = auth]
      PROVE  /\ cfg.binds = config.binds /\ cfg.current = config.current
             /\ cfg.auth[e] = auth /\ \A f \in Entries \ {e} : cfg.auth[f] = config.auth[f]
  BY <1>1, <1>3 DEF Config
<1>4. ASSUME NEW e \in Entries, NEW auth \in Auths \ {"undefined"} PROVE Stands([config EXCEPT !.auth[e] = auth])
  BY <1>2, <1>3 DEF Stands
<1>5. ASSUME NEW e \in Entries, Users(config, e) = {} PROVE Stands([config EXCEPT !.auth[e] = "undefined"])
  <2>1. \A p \in Profiles : config.binds[p] # None => config.binds[p][1] # e /\ config.binds[p][2] # e
    BY <1>5 DEF Users
  <2> QED BY <1>2, <1>3, <2>1 DEF Stands
<1>6. ASSUME NEW cfg \in Create(config) PROVE Stands(cfg)
  <2>1. PICK p \in Profiles, c \in {c \in Connections : config.auth[c] # "undefined"},
             b \in {b \in Backends : config.auth[b] # "undefined"} : cfg = [config EXCEPT !.binds[p] = <<c, b>>]
    BY <1>6 DEF Create
  <2>2. cfg.auth = config.auth /\ cfg.current = config.current /\ cfg.binds[p] = <<c, b>>
        /\ \A q \in Profiles \ {p} : cfg.binds[q] = config.binds[q]
    BY <1>1, <2>1 DEF Config
  <2>3. <<c, b>> # None
    BY NoneAssumption
  <2> QED BY <1>1, <2>2, <2>3 DEF Stands
<1>7. ASSUME NEW cfg \in Switch(config) PROVE Stands(cfg)
  BY <1>1, <1>7 DEF Switch, Stands, Config
<1>8. ASSUME NEW cfg \in RemoveProfile(config) PROVE Stands(cfg)
  <2>1. PICK p \in Profiles : cfg = [config EXCEPT !.binds[p] = None, !.current = IF @ = p THEN None ELSE @]
    BY <1>8 DEF RemoveProfile
  <2>2. cfg.auth = config.auth /\ cfg.binds[p] = None
        /\ cfg.current = (IF config.current = p THEN None ELSE config.current)
        /\ \A q \in Profiles \ {p} : cfg.binds[q] = config.binds[q]
    BY <1>1, <2>1 DEF Config
  <2> QED BY <1>1, <2>2 DEF Stands
<1>9. ASSUME NEW cfg \in SetFallback(config) PROVE Stands(cfg)
  BY <1>1, <1>9 DEF SetFallback, Stands, Config
<1> QED BY <1>4, <1>5, <1>6, <1>7, <1>8, <1>9

LEMMA StartedStands ==
  ASSUME TRUE \notin Forces, config \in Config, Stands(config), NEW does, Started(does)
  PROVE  Stands(does.next)
<1>1. /\ Idle.next = Empty /\ Stands(Empty)
      /\ \A next : [Idle EXCEPT !.pc = "save", !.next = next].next = next
  BY EmptyStands DEF Idle
<1>2. CASE \E e \in Entries, auth \in Auths \ {"undefined"} : does.next = [config EXCEPT !.auth[e] = auth]
  BY <1>2, CopiesStand
<1>3. CASE \E e \in Entries : Users(config, e) = {} /\ does.next = [config EXCEPT !.auth[e] = "undefined"]
  BY <1>3, CopiesStand
<1>4. CASE does.next \in Create(config) \cup Switch(config) \cup RemoveProfile(config) \cup SetFallback(config)
  BY <1>4, CopiesStand
<1>5. CASE does.next = Empty
  BY <1>1, <1>5
<1>6. \/ \E e \in Entries, auth \in Auths \ {"undefined"} : does.next = [config EXCEPT !.auth[e] = auth]
      \/ \E e \in Entries : Users(config, e) = {} /\ does.next = [config EXCEPT !.auth[e] = "undefined"]
      \/ does.next \in Create(config) \cup Switch(config) \cup RemoveProfile(config) \cup SetFallback(config)
      \/ does.next = Empty
  <2>1. \A force \in Forces : force = FALSE
    BY SaidAssumption
  <2> QED BY <2>1 DEF Started, Idle
<1> QED BY <1>2, <1>3, <1>4, <1>5, <1>6

LEMMA BindInit == Init => BindInv
<1> SUFFICES ASSUME Init PROVE BindInv
  OBVIOUS
<1>1. config = Empty /\ \A p \in Procs : proc[p] = Idle
  BY DEF Init
<1> QED BY <1>1, EmptyStands DEF BindInv, BindingsStand

(* Past its start a command keeps what it will save, until it ends.           *)
LEMMA NextKept ==
  ASSUME NEW p \in Procs, TypeOK, Keeps(p) \/ Writes(p) \/ Stop(p)
  PROVE  \A q \in Procs : proc'[q].next \in {proc[q].next, Empty}
<1>1. proc \in [Procs -> Command] /\ proc[p] \in Command
  BY DEF TypeOK
<1>2. Ends(p) => \A q \in Procs : proc'[q].next \in {proc[q].next, Empty}
  BY <1>1, Ended, EmptyStands
<1>3. \A pc : Goes(p, pc) => \A q \in Procs : proc'[q].next \in {proc[q].next, Empty}
  BY <1>1 DEF Goes, Command
<1>4. Approve(p) => \A q \in Procs : proc'[q].next \in {proc[q].next, Empty}
  BY <1>1 DEF Approve, Command
<1>5. ReadFile(p) => \A q \in Procs : proc'[q].next \in {proc[q].next, Empty}
  BY <1>1 DEF ReadFile, Command
<1>6. Keeps(p) => Approve(p) \/ Ends(p) \/ \E pc : Goes(p, pc)
  BY DEF Keeps, Get, SetItem, RefuseOwner, DropItem, Refuse, Forget
<1>7. Writes(p) \/ Stop(p) => ReadFile(p) \/ Ends(p) \/ \E pc : Goes(p, pc)
  BY DEF Writes, TruncateFile, WriteFile, Save, Stop
<1> QED BY <1>2, <1>3, <1>4, <1>5, <1>6, <1>7

LEMMA BindStep == TRUE \notin Forces /\ TypeOK /\ BindInv /\ [Next]_vars => BindInv'
<1> SUFFICES ASSUME TRUE \notin Forces, TypeOK, BindInv, [Next]_vars PROVE BindInv'
  OBVIOUS
<1>0. /\ config \in Config /\ proc \in [Procs -> Command]
      /\ Stands(config) /\ \A p \in Procs : Stands(proc[p].next)
  BY DEF TypeOK, BindInv, BindingsStand
<1>1. ASSUME NEW p \in Procs, Start(p) PROVE BindInv'
  <2>1. PICK does : Started(does) /\ Begin(p, does)
    BY <1>1, StartIsStarted
  <2>2. Stands(does.next) /\ does \in Command
    BY <1>0, <2>1, StartedStands, StartedTyped
  <2>3. Alike(proc'[p], does) /\ \A q \in Procs \ {p} : Alike(proc'[q], proc[q])
    BY <1>0, <2>1, <2>2, Began
  <2>4. \A q \in Procs : Stands(proc'[q].next)
    BY <1>0, <2>2, <2>3 DEF Alike
  <2> QED BY <1>0, <2>1, <2>4 DEF Begin, BindInv, BindingsStand
<1>2. ASSUME NEW p \in Procs, Keeps(p) \/ Writes(p) \/ Stop(p) PROVE BindInv'
  <2>1. \A q \in Procs : Stands(proc'[q].next)
    BY <1>0, <1>2, NextKept, EmptyStands
  <2>2. config' \in {config, proc[p].next}
    BY <1>2 DEF Keeps, Get, Approve, SetItem, RefuseOwner, DropItem, Refuse, Forget,
                Writes, ReadFile, TruncateFile, WriteFile, Save, Stop
  <2> QED BY <1>0, <2>1, <2>2 DEF BindInv, BindingsStand
<1>3. CASE Upgrade \/ UNCHANGED vars
  BY <1>0, <1>3 DEF Upgrade, vars, BindInv, BindingsStand
<1> QED BY <1>1, <1>2, <1>3 DEF Next

(* Unless removals are forced, every binding in the configuration stands,     *)
(* whichever of the processes that edit it at once saves last.                *)
THEOREM BindingsStandHolds == TRUE \notin Forces => (Spec => []BindingsStand)
<1> SUFFICES ASSUME TRUE \notin Forces PROVE Spec => []BindingsStand
  OBVIOUS
<1>1. BindInv /\ TypeOK /\ [Next]_vars => BindInv'
  BY BindStep
<1>2. BindInv => BindingsStand
  BY DEF BindInv
<1> QED BY <1>1, <1>2, BindInit, TypesHold, PTL DEF Spec

-----------------------------------------------------------------------------
(* The plaintext file. Whoever is about to write it writes back what he read  *)
(* of it and, beside that, either nothing or a secret he was refused.         *)
Known(secrets, ref) == \A e \in Entries : secrets[e] # None => <<e, secrets[e]>> \in ref

Excused(c, ref) ==
  /\ Known(c.seen, ref)
  /\ c.pc \in {"get", "ask", "set", "drop", "again"} => c.op \in {"add", "use"}
  /\ c.pc = "forget" => c.secret = None
  /\ c.pc \in {"read", "truncate", "write"} /\ c.secret # None => <<c.entry, c.secret>> \in ref

FileInv == Known(file, refused) /\ \A p \in Procs : Excused(proc[p], refused)

LEMMA IdleExcused == \A ref : Known(NoFile, ref) /\ Excused(Idle, ref)
<1>1. \A ref : Known(NoFile, ref)
  BY DEF Known, NoFile
<1> QED BY <1>1 DEF Excused, Idle

LEMMA FileInit == Init => FileInv
<1> SUFFICES ASSUME Init PROVE FileInv
  OBVIOUS
<1>1. file = NoFile /\ \A p \in Procs : proc[p] = Idle
  BY DEF Init
<1> QED BY <1>1, IdleExcused DEF FileInv

LEMMA StartedExcused ==
  ASSUME NEW does, Started(does)
  PROVE  \A ref : Excused(does, ref)
<1>1. /\ does.seen = NoFile
      /\ does.pc \in {"set", "save", "forget", "get"}
      /\ does.pc \in {"set", "get"} => does.op \in {"add", "use"}
      /\ does.pc = "forget" => does.secret = None
  <2>1. ASSUME NEW e, NEW auth, NEW given, NEW plain,
               does = [Idle EXCEPT !.op = "add", !.entry = e, !.pc = Stores(given), !.secret = given.secret,
                         !.env = given.env, !.plain = plain, !.next = [config EXCEPT !.auth[e] = auth]]
        PROVE  does.seen = NoFile /\ does.pc \in {"set", "save"} /\ does.op = "add"
    <3>1. Stores(given) \in {"set", "save"}
      BY DEF Stores
    <3> QED BY <2>1, <3>1 DEF Idle
  <2>2. ASSUME NEW e, NEW plain, NEW next,
               does = [Idle EXCEPT !.op = "remove", !.entry = e, !.pc = "forget", !.plain = plain, !.next = next]
        PROVE  does.seen = NoFile /\ does.pc = "forget" /\ does.secret = None
    BY <2>2 DEF Idle
  <2>3. ASSUME NEW next, does = [Idle EXCEPT !.pc = "save", !.next = next]
        PROVE  does.seen = NoFile /\ does.pc = "save"
    BY <2>3 DEF Idle
  <2>4. ASSUME NEW e, does = [Idle EXCEPT !.op = "use", !.entry = e, !.pc = "get"]
        PROVE  does.seen = NoFile /\ does.pc = "get" /\ does.op = "use"
    BY <2>4 DEF Idle
  <2>5. CASE \E e \in Entries, auth \in Auths \ {"undefined"} : \E given \in Given(e, auth), plain \in OptedIn :
               does = [Idle EXCEPT !.op = "add", !.entry = e, !.pc = Stores(given), !.secret = given.secret,
                         !.env = given.env, !.plain = plain, !.next = [config EXCEPT !.auth[e] = auth]]
    <3>1. PICK e \in Entries, auth \in Auths \ {"undefined"} : \E given \in Given(e, auth), plain \in OptedIn :
               does = [Idle EXCEPT !.op = "add", !.entry = e, !.pc = Stores(given), !.secret = given.secret,
                         !.env = given.env, !.plain = plain, !.next = [config EXCEPT !.auth[e] = auth]]
      BY <2>5
    <3>2. PICK given \in Given(e, auth), plain \in OptedIn :
               does = [Idle EXCEPT !.op = "add", !.entry = e, !.pc = Stores(given), !.secret = given.secret,
                         !.env = given.env, !.plain = plain, !.next = [config EXCEPT !.auth[e] = auth]]
      BY <3>1
    <3>3. does.seen = NoFile /\ does.pc \in {"set", "save"} /\ does.op = "add"
      BY <2>1, <3>2
    <3> QED BY <3>3
  <2>6. CASE \E e \in Entries, plain \in OptedIn :
               does = [Idle EXCEPT !.op = "remove", !.entry = e, !.pc = "forget", !.plain = plain,
                         !.next = [config EXCEPT !.auth[e] = "undefined"]]
    <3>1. PICK e \in Entries, plain \in OptedIn :
               does = [Idle EXCEPT !.op = "remove", !.entry = e, !.pc = "forget", !.plain = plain,
                         !.next = [config EXCEPT !.auth[e] = "undefined"]]
      BY <2>6
    <3>2. does.seen = NoFile /\ does.pc = "forget" /\ does.secret = None
      BY <2>2, <3>1
    <3> QED BY <3>2
  <2>7. CASE \E next \in Create(config) \cup Switch(config) \cup RemoveProfile(config) \cup SetFallback(config) :
               does = [Idle EXCEPT !.pc = "save", !.next = next]
    BY <2>3, <2>7
  <2>8. CASE \E e \in Entries : does = [Idle EXCEPT !.op = "use", !.entry = e, !.pc = "get"]
    BY <2>4, <2>8
  <2> QED BY <2>5, <2>6, <2>7, <2>8 DEF Started
<1> QED BY <1>1, IdleExcused DEF Excused

(* A refusal is remembered, so what was excused stays excused.                *)
LEMMA ExcuseLasts ==
  ASSUME NEW ref, NEW more, ref \subseteq more
  PROVE  /\ \A s : Known(s, ref) => Known(s, more)
         /\ \A c : Excused(c, ref) => Excused(c, more)
BY DEF Excused, Known

LEMMA FileStep == TypeOK /\ FileInv /\ [Next]_vars => FileInv'
<1> SUFFICES ASSUME TypeOK, FileInv, [Next]_vars PROVE FileInv'
  OBVIOUS
<1>0. /\ proc \in [Procs -> Command] /\ file \in File /\ config \in Config
      /\ Known(file, refused) /\ \A p \in Procs : Excused(proc[p], refused)
  BY DEF TypeOK, FileInv
<1>1. ASSUME NEW p \in Procs, Start(p) PROVE FileInv'
  <2>1. PICK does : Started(does) /\ Begin(p, does)
    BY <1>1, StartIsStarted
  <2>2. Excused(does, refused) /\ does \in Command
    BY <1>0, <2>1, StartedExcused, StartedTyped
  <2>3. Alike(proc'[p], does) /\ \A q \in Procs \ {p} : Alike(proc'[q], proc[q])
    BY <1>0, <2>1, <2>2, Began
  <2>4. \A c, d : Alike(c, d) /\ Excused(d, refused) => Excused(c, refused)
    BY DEF Alike, Excused
  <2>5. \A q \in Procs : Excused(proc'[q], refused)
    BY <1>0, <2>2, <2>3, <2>4
  <2> QED BY <1>0, <2>1, <2>5 DEF Begin, FileInv
<1>2. ASSUME NEW p \in Procs, Ends(p), file' = file, refused \subseteq refused' PROVE FileInv'
  <2>1. proc'[p] = Idle /\ \A q \in Procs \ {p} : proc'[q] = proc[q]
    BY <1>0, <1>2, Ended
  <2>2. \A q \in Procs : Excused(proc'[q], refused')
    BY <1>0, <1>2, <2>1, IdleExcused, ExcuseLasts
  <2> QED BY <1>0, <1>2, <2>2, ExcuseLasts DEF FileInv
<1>3. ASSUME NEW p \in Procs, NEW pc \in {"ask", "drop", "again", "truncate", "write", "save"},
             pc \in {"ask", "drop", "again"} => proc[p].pc \in {"get", "set", "drop"},
             pc \in {"truncate", "write"} => proc[p].pc \in {"read", "truncate"},
             Goes(p, pc), Known(file', refused), refused \subseteq refused'
      PROVE  FileInv'
  <2>1. /\ proc'[p] = [proc[p] EXCEPT !.pc = pc] /\ \A q \in Procs \ {p} : proc'[q] = proc[q]
    BY <1>0, <1>3, Went
  <2>2. Excused(proc[p], refused) /\ proc[p] \in Command
    BY <1>0
  <2>3. /\ proc'[p].pc = pc /\ proc'[p].op = proc[p].op /\ proc'[p].entry = proc[p].entry
        /\ proc'[p].secret = proc[p].secret /\ proc'[p].seen = proc[p].seen
    BY <2>1, <2>2 DEF Command
  <2>4. Excused(proc'[p], refused)
    BY <1>3, <2>2, <2>3 DEF Excused
  <2>5. \A q \in Procs : Excused(proc'[q], refused')
    BY <1>0, <1>3, <2>1, <2>4, ExcuseLasts
  <2> QED BY <1>3, <2>5, ExcuseLasts DEF FileInv
<1>4. ASSUME NEW p \in Procs, Get(p) \/ SetItem(p) \/ RefuseOwner(p) \/ DropItem(p) PROVE FileInv'
  BY <1>0, <1>2, <1>3, <1>4 DEF Get, SetItem, RefuseOwner, DropItem, history
<1>5. ASSUME NEW p \in Procs, Approve(p) PROVE FileInv'
  <2>1. PICK s : proc' = [proc EXCEPT ![p] = [proc[p] EXCEPT !.pc = "set", !.secret = s]]
    BY <1>5 DEF Approve
  <2>2. proc[p] \in Command /\ Excused(proc[p], refused) /\ proc[p].pc = "ask"
    BY <1>0, <1>5 DEF Approve
  <2>3. proc'[p].pc = "set" /\ proc'[p].op = proc[p].op /\ proc'[p].seen = proc[p].seen
    BY <1>0, <2>1, <2>2 DEF Command
  <2>4. Excused(proc'[p], refused)
    BY <2>2, <2>3 DEF Excused
  <2> QED BY <1>0, <1>5, <2>1, <2>4 DEF Approve, FileInv, history
<1>6. ASSUME NEW p \in Procs, Refuse(p) PROVE FileInv'
  <2>1. proc[p] \in Command /\ Excused(proc[p], refused) /\ proc[p].pc \in {"set", "drop", "again"}
    BY <1>0, <1>6 DEF Refuse
  <2>2. file' = file /\ refused \subseteq refused'
    BY <1>6 DEF Refuse
  <2>3. CASE AfterRefusal(proc[p]) = "idle"
    BY <1>2, <1>6, <2>2, <2>3 DEF Refuse
  <2>4. CASE AfterRefusal(proc[p]) = "save"
    BY <1>0, <1>3, <1>6, <2>2, <2>4 DEF Refuse
  <2>5. CASE AfterRefusal(proc[p]) = "read"
    <3>1. proc[p].op = "add" /\ proc[p].plain
      BY <2>1, <2>5 DEF AfterRefusal, Excused
    <3>2. <<proc[p].entry, proc[p].secret>> \in refused'
      BY <1>6, <3>1 DEF Refuse
    <3>3. proc'[p] = [proc[p] EXCEPT !.pc = "read"] /\ \A q \in Procs \ {p} : proc'[q] = proc[q]
      BY <1>0, <1>6, <2>5, Went DEF Refuse
    <3>4. /\ proc'[p].pc = "read" /\ proc'[p].seen = proc[p].seen
          /\ proc'[p].entry = proc[p].entry /\ proc'[p].secret = proc[p].secret
      BY <2>1, <3>3 DEF Command
    <3>5. Known(proc[p].seen, refused')
      BY <2>1, <2>2, ExcuseLasts DEF Excused
    <3>6. Excused(proc'[p], refused')
      BY <3>2, <3>4, <3>5 DEF Excused
    <3> QED BY <1>0, <2>2, <3>3, <3>6, ExcuseLasts DEF FileInv
  <2>6. AfterRefusal(proc[p]) \in {"idle", "save", "read"}
    BY DEF AfterRefusal
  <2> QED BY <2>3, <2>4, <2>5, <2>6
<1>7. ASSUME NEW p \in Procs, Forget(p) PROVE FileInv'
  <2>1. proc[p] \in Command /\ Excused(proc[p], refused) /\ proc[p].pc = "forget" /\ proc[p].secret = None
    BY <1>0, <1>7 DEF Forget, Excused
  <2>2. file' = file /\ refused' = refused
    BY <1>7 DEF Forget, history
  <2>3. CASE Ends(p)
    BY <1>2, <2>2, <2>3
  <2>4. CASE Goes(p, "save")
    BY <1>0, <1>3, <2>2, <2>4
  <2>5. CASE Goes(p, "read")
    <3>1. proc'[p] = [proc[p] EXCEPT !.pc = "read"] /\ \A q \in Procs \ {p} : proc'[q] = proc[q]
      BY <1>0, <2>5, Went
    <3>2. proc'[p].pc = "read" /\ proc'[p].seen = proc[p].seen /\ proc'[p].secret = None
      BY <2>1, <3>1 DEF Command
    <3>3. Excused(proc'[p], refused)
      BY <2>1, <3>2 DEF Excused
    <3> QED BY <1>0, <2>2, <3>1, <3>3 DEF FileInv
  <2> QED BY <1>7, <2>3, <2>4, <2>5 DEF Forget, AfterKept
<1>8. ASSUME NEW p \in Procs, ReadFile(p) PROVE FileInv'
  <2>1. proc[p] \in Command /\ Excused(proc[p], refused) /\ proc[p].pc = "read"
    BY <1>0, <1>8 DEF ReadFile
  <2>2. PICK pc \in {"save", "truncate"} : proc' = [proc EXCEPT ![p] = [proc[p] EXCEPT !.seen = file, !.pc = pc]]
    BY <1>8 DEF ReadFile
  <2>3. /\ proc'[p].pc = pc /\ proc'[p].seen = file
        /\ proc'[p].entry = proc[p].entry /\ proc'[p].secret = proc[p].secret
    BY <1>0, <2>1, <2>2 DEF Command
  <2>4. Excused(proc'[p], refused)
    BY <1>0, <2>1, <2>3 DEF Excused
  <2> QED BY <1>0, <1>8, <2>2, <2>4 DEF ReadFile, FileInv, history
<1>9. ASSUME NEW p \in Procs, TruncateFile(p) PROVE FileInv'
  BY <1>3, <1>9, IdleExcused DEF TruncateFile, history
<1>10. ASSUME NEW p \in Procs, WriteFile(p) PROVE FileInv'
  <2>1. Known(file', refused)
    <3>1. Excused(proc[p], refused) /\ proc[p].seen \in File /\ proc[p].pc = "write"
      BY <1>0, <1>10 DEF WriteFile, Command
    <3> QED BY <1>10, <3>1 DEF WriteFile, Excused, Known, File
  <2> QED BY <1>0, <1>3, <1>10, <2>1 DEF WriteFile, history
<1>11. ASSUME NEW p \in Procs, Save(p) \/ Stop(p) PROVE FileInv'
  BY <1>2, <1>11 DEF Save, Stop, history
<1>12. CASE Upgrade \/ UNCHANGED vars
  BY <1>0, <1>12 DEF Upgrade, vars, history, FileInv
<1> QED BY <1>1, <1>4, <1>5, <1>6, <1>7, <1>8, <1>9, <1>10, <1>11, <1>12 DEF Next, Keeps, Writes

(* However many processes read, truncate and write the plaintext file at once, *)
(* it holds nothing the keychain did not refuse to somebody who had opted in.  *)
THEOREM NoSilentPlaintextHolds == Spec => []NoSilentPlaintext
<1>1. FileInv => NoSilentPlaintext
  BY DEF FileInv, Known, NoSilentPlaintext, Vouched
<1> QED BY <1>1, FileInit, FileStep, TypesHold, PTL DEF Spec

-----------------------------------------------------------------------------
(* What was reported. A report stands until a command about its entry starts: *)
(* a command under way keeps to every report, or is about that entry and      *)
(* silences it.                                                               *)
Storing  == {"get", "ask", "set", "drop", "again"}
FileWork == {"read", "truncate", "write"}

(* What a command under way will do about an entry with a report: leave a     *)
(* stored one defined, with the secret it has; find nothing of a removed one. *)
Minds(c, e, report) ==
  /\ report # Gone /\ c.op # "use" => c.next.auth[e] = "secret"
  /\ c.op = "use" /\ c.entry = e =>
       IF report = Gone THEN c.pc = "get" ELSE c.pc \in {"set", "drop", "again"} => c.secret = report
Sound(c, reports) == c.pc # "idle" =>
  /\ c.op \in {"add", "remove"} => c.entry \in Entries /\ reports[c.entry] = None
  /\ c.op = "use" => c.pc \in Storing
  /\ c.pc \in Storing => c.op \in {"add", "use"}
  /\ c.pc = "forget" => c.op = "remove"
  /\ c.pc \in FileWork => c.plain
  /\ \A e \in Entries : reports[e] # None => Minds(c, e, reports[e])

(* What is stored of an entry with a report.                                  *)
Answers(e) ==
  IF told[e] = Gone THEN keychain[e] = None
  ELSE e \in dropped \/ (keychain[e] # None /\ keychain[e].secret = told[e])
Stored ==
  /\ \A e \in Entries : told[e] # None => (told[e] # Gone => config.auth[e] = "secret") /\ Answers(e)
  /\ \A e \in dropped : keychain[e] = None

(* A command nobody disturbed: what it is about to report is so, and nobody   *)
(* is there who could make it untrue.                                         *)
Apart(p) == proc[p].apart =>
  /\ proc[p].pc # "idle"
  /\ \A q \in Procs \ {p} : proc[q].pc # "idle" => ~Disturbs(proc[q], proc[p])
  /\ proc[p].pc = "save" /\ ~proc[p].plain =>
       /\ proc[p].op = "remove" => keychain[proc[p].entry] = None
       /\ proc[p].op = "add" /\ ~proc[p].env /\ proc[p].secret # None =>
            keychain[proc[p].entry] # None /\ keychain[proc[p].entry].secret = proc[p].secret

ToldInv == Stored /\ \A p \in Procs : Sound(proc[p], told) /\ Apart(p)

LEMMA ToldInit == Init => ToldInv
<1> SUFFICES ASSUME Init PROVE ToldInv
  OBVIOUS
<1>1. \A p \in Procs : proc[p].pc = "idle" /\ proc[p].apart = FALSE
  BY DEF Init, Idle
<1> QED BY <1>1 DEF Init, ToldInv, Stored, Sound, Apart

(* A start silences at most the reports about its own entry.                  *)
LEMMA Silenced ==
  ASSUME NEW c, NEW reports, NEW fewer,
         \A e \in Entries : fewer[e] \in {reports[e], None}, Sound(c, reports)
  PROVE  Sound(c, fewer)
BY DEF Sound, Minds

(* The command a process starts with.                                         *)
LEMMA StartSound ==
  ASSUME TypeOK, Stored, NEW p \in Procs, Start(p)
  PROVE  /\ \A e \in Entries : told'[e] \in {told[e], None}
         /\ \E does \in Command :
              /\ Begin(p, does) /\ Sound(does, told')
              /\ does.pc = "save" /\ ~does.plain => does.op # "remove" /\ (does.op = "add" => does.secret = None)
              /\ does.pc # "idle"
<1>0. config \in Config /\ told \in [Entries -> {None, Gone} \cup Secrets]
  BY DEF TypeOK
<1>1. \A e \in Entries : told'[e] \in {told[e], None}
  BY <1>0, StartIsStarted
<1>2. ASSUME NEW does, Started(does) PROVE does \in Command
  BY <1>0, <1>2, StartedTyped
<1>3. CASE StartAdd(p)
  <2>1. PICK e \in Entries, auth \in Auths \ {"undefined"} :
          /\ told' = [told EXCEPT ![e] = None]
          /\ \E given \in Given(e, auth), plain \in OptedIn :
               Begin(p, [Idle EXCEPT !.op = "add", !.entry = e, !.pc = Stores(given), !.secret = given.secret,
                 !.env = given.env, !.plain = plain, !.next = [config EXCEPT !.auth[e] = auth]])
    BY <1>3 DEF StartAdd
  <2>2. PICK given \in Given(e, auth), plain \in OptedIn :
          Begin(p, [Idle EXCEPT !.op = "add", !.entry = e, !.pc = Stores(given), !.secret = given.secret,
            !.env = given.env, !.plain = plain, !.next = [config EXCEPT !.auth[e] = auth]])
    BY <2>1
  <2> DEFINE does == [Idle EXCEPT !.op = "add", !.entry = e, !.pc = Stores(given), !.secret = given.secret,
                        !.env = given.env, !.plain = plain, !.next = [config EXCEPT !.auth[e] = auth]]
  <2>3. Started(does)
    BY <2>2 DEF Started
  <2>4. /\ does.op = "add" /\ does.entry = e /\ does.pc = Stores(given) /\ does.secret = given.secret
        /\ does.next = [config EXCEPT !.auth[e] = auth]
    BY DEF Idle
  <2>5. does.pc \in {"save", "set"} /\ (does.pc = "save" => does.secret = None)
    BY <2>4 DEF Stores
  <2>6. \A f \in Entries : told'[f] # None => f # e /\ told'[f] = told[f] /\ does.next.auth[f] = config.auth[f]
    BY <1>0, <2>1, <2>4 DEF Config
  <2> HIDE DEF does
  <2>7. Sound(does, told')
    BY <1>0, <2>1, <2>4, <2>5, <2>6 DEF Stored, Sound, Minds, Storing, FileWork
  <2>8. Begin(p, does)
    BY <2>2 DEF does
  <2> QED BY <1>1, <1>2, <2>3, <2>4, <2>5, <2>7, <2>8
<1>4. CASE StartRemove(p)
  <2>1. PICK e \in Entries, force \in Forces, plain \in OptedIn :
          /\ config.auth[e] # "undefined" /\ (Users(config, e) = {} \/ force)
          /\ Begin(p, [Idle EXCEPT !.op = "remove", !.entry = e, !.pc = "forget", !.plain = plain,
                         !.next = [config EXCEPT !.auth[e] = "undefined"]])
          /\ told' = [told EXCEPT ![e] = None]
    BY <1>4 DEF StartRemove
  <2> DEFINE does == [Idle EXCEPT !.op = "remove", !.entry = e, !.pc = "forget", !.plain = plain,
                        !.next = [config EXCEPT !.auth[e] = "undefined"]]
  <2>2. Started(does)
    BY <2>1 DEF Started
  <2>3. /\ does.op = "remove" /\ does.entry = e /\ does.pc = "forget"
        /\ does.next = [config EXCEPT !.auth[e] = "undefined"]
    BY DEF Idle
  <2>4. \A f \in Entries : told'[f] # None => f # e /\ told'[f] = told[f] /\ does.next.auth[f] = config.auth[f]
    BY <1>0, <2>1, <2>3 DEF Config
  <2>5. Begin(p, does)
    BY <2>1
  <2> HIDE DEF does
  <2>6. Sound(does, told')
    BY <1>0, <2>1, <2>3, <2>4 DEF Stored, Sound, Minds, Storing, FileWork
  <2> QED BY <1>1, <1>2, <2>2, <2>3, <2>5, <2>6
<1>5. CASE StartEdit(p)
  <2>1. PICK next \in Create(config) \cup Switch(config) \cup RemoveProfile(config) \cup SetFallback(config) :
          Begin(p, [Idle EXCEPT !.pc = "save", !.next = next])
    BY <1>5 DEF StartEdit
  <2> DEFINE does == [Idle EXCEPT !.pc = "save", !.next = next]
  <2>2. Started(does) /\ told' = told
    BY <1>5 DEF Started, StartEdit
  <2>3. does.op = "edit" /\ does.pc = "save" /\ does.next = next
    BY DEF Idle
  <2>4. next.auth = config.auth
    <3>1. config.auth \in [Entries -> Auths]
      BY <1>0 DEF Config
    <3>2. ASSUME NEW b, NEW q, next = [config EXCEPT !.binds = b, !.current = q] PROVE next.auth = config.auth
      BY <1>0, <3>2 DEF Config
    <3>3. CASE next \in Create(config) \cup Switch(config) \cup SetFallback(config)
      BY <1>0, <3>3 DEF Create, Switch, SetFallback, Config
    <3>4. CASE next \in RemoveProfile(config)
      <4>1. PICK q \in Profiles : next = [config EXCEPT !.binds[q] = None, !.current = IF @ = q THEN None ELSE @]
        BY <3>4 DEF RemoveProfile
      <4>2. next = [config EXCEPT !.binds = [config.binds EXCEPT ![q] = None],
                      !.current = IF config.current = q THEN None ELSE config.current]
        BY <1>0, <4>1 DEF Config
      <4> QED BY <3>2, <4>2
    <3> QED BY <3>3, <3>4
  <2>5. Begin(p, does)
    BY <2>1
  <2> HIDE DEF does
  <2>6. Sound(does, told')
    BY <2>2, <2>3, <2>4 DEF Stored, Sound, Minds, Storing, FileWork
  <2> QED BY <1>1, <1>2, <2>2, <2>3, <2>5, <2>6
<1>6. CASE StartUse(p)
  <2>1. PICK e \in Entries : config.auth[e] = "secret" /\ Begin(p, [Idle EXCEPT !.op = "use", !.entry = e, !.pc = "get"])
    BY <1>6 DEF StartUse
  <2> DEFINE does == [Idle EXCEPT !.op = "use", !.entry = e, !.pc = "get"]
  <2>2. Started(does) /\ told' = told
    BY <1>6 DEF Started, StartUse
  <2>3. does.op = "use" /\ does.pc = "get" /\ does.entry = e
    BY DEF Idle
  <2>4. Begin(p, does)
    BY <2>1
  <2> HIDE DEF does
  <2>5. Sound(does, told')
    BY <2>1, <2>2, <2>3 DEF Stored, Sound, Minds, Storing, FileWork
  <2> QED BY <1>1, <1>2, <2>2, <2>3, <2>4, <2>5
<1> QED BY <1>3, <1>4, <1>5, <1>6 DEF Start

Elsewhere(p) == \A e \in Entries : e # proc[p].entry => keychain'[e] = keychain[e]

(* A command that goes on changes nobody's mind, nor what a command it does   *)
(* not disturb is about to report.                                            *)
LEMMA OthersTold ==
  ASSUME TypeOK, ToldInv, NEW p \in Procs, proc[p].pc # "idle",
         proc' \in [Procs -> Command], \A q \in Procs \ {p} : proc'[q] = proc[q], told' = told,
         proc'[p].pc # "idle" => proc'[p].entry = proc[p].entry, Elsewhere(p),
         Sound(proc'[p], told), Stored', Apart(p)'
  PROVE  ToldInv'
<1>1. ASSUME NEW q \in Procs, q # p PROVE Sound(proc'[q], told') /\ Apart(q)'
  <2>1. proc'[q] = proc[q] /\ Sound(proc[q], told) /\ Apart(q)
    BY <1>1 DEF ToldInv
  <2>2. proc[q].apart => ~Disturbs(proc[p], proc[q]) /\ (proc'[p].pc = "idle" \/ ~Disturbs(proc'[p], proc[q]))
    BY <1>1, <2>1 DEF Apart, Disturbs
  <2>3. proc[q].apart => proc[q].op = "remove" /\ proc[q].entry \in Entries /\ proc[q].entry # proc[p].entry
    BY <1>1, <2>1 DEF Apart, Disturbs, Sound
  <2>4. proc[q].apart => keychain'[proc[q].entry] = keychain[proc[q].entry]
    BY <2>3 DEF Elsewhere
  <2> QED BY <1>1, <2>1, <2>2, <2>3, <2>4 DEF Apart
<1> QED BY <1>1 DEF ToldInv

LEMMA EndsTold ==
  ASSUME TypeOK, ToldInv, NEW p \in Procs, proc[p].pc # "idle", Ends(p), told' = told, Elsewhere(p), Stored'
  PROVE  ToldInv'
<1>1. proc' \in [Procs -> Command] /\ proc'[p] = Idle /\ \A q \in Procs \ {p} : proc'[q] = proc[q]
  BY Ended DEF TypeOK
<1>2. Idle.pc = "idle" /\ Idle.apart = FALSE
  BY DEF Idle
<1>3. Sound(proc'[p], told) /\ Apart(p)'
  BY <1>1, <1>2 DEF Sound, Apart
<1> QED BY <1>1, <1>2, <1>3, OthersTold

(* Going on to work of the same kind, or to the end of it.                    *)
LEMMA GoesTold ==
  ASSUME TypeOK, ToldInv, NEW p \in Procs, proc[p].pc # "idle",
         NEW pc \in {"ask", "drop", "again", "read", "truncate", "write", "save"}, Goes(p, pc), told' = told,
         Elsewhere(p), Stored', pc \in Storing => told[proc[p].entry] # Gone,
         pc \in Storing => proc[p].pc \in Storing,
         pc \in {"drop", "again"} => proc[p].pc \in {"set", "drop", "again"},
         pc \notin Storing => proc[p].op # "use",
         pc \in FileWork => proc[p].plain,
         pc = "save" /\ ~proc[p].plain =>
           /\ proc[p].op = "remove" => keychain'[proc[p].entry] = None
           /\ proc[p].op = "add" /\ ~proc[p].env =>
                keychain'[proc[p].entry] # None /\ keychain'[proc[p].entry].secret = proc[p].secret
  PROVE  ToldInv'
<1> DEFINE c == proc[p]
           d == proc'[p]
<1>1. proc' \in [Procs -> Command] /\ d = [c EXCEPT !.pc = pc] /\ \A q \in Procs \ {p} : proc'[q] = proc[q]
  BY Went DEF TypeOK
<1>2. c \in Command /\ Sound(c, told) /\ Apart(p)
  BY DEF TypeOK, ToldInv
<1>3. /\ d.pc = pc /\ d.op = c.op /\ d.entry = c.entry /\ d.next = c.next /\ d.plain = c.plain
      /\ d.secret = c.secret /\ d.env = c.env /\ d.apart = c.apart
  BY <1>1, <1>2 DEF Command
<1>4. Sound(d, told)
  <2> HIDE DEF c, d
  <2>1. \A e \in Entries : told[e] # None => Minds(c, e, told[e])
    BY <1>2 DEF Sound, c
  <2>2. \A e \in Entries : told[e] # None => Minds(d, e, told[e])
    BY <1>2, <1>3, <2>1 DEF Minds, Sound, c, Storing
  <2> QED BY <1>2, <1>3, <2>2 DEF Sound, c, Storing, FileWork
<1>5. Apart(p)'
  BY <1>1, <1>2, <1>3 DEF Apart, Disturbs
<1> QED BY <1>1, <1>3, <1>4, <1>5, OthersTold

LEMMA StartTold ==
  ASSUME TypeOK, ToldInv, NEW p \in Procs, Start(p)
  PROVE  ToldInv'
<1>0. proc \in [Procs -> Command] /\ Stored /\ \A q \in Procs : Sound(proc[q], told) /\ Apart(q)
  BY DEF TypeOK, ToldInv
<1>1. \A e \in Entries : told'[e] \in {told[e], None}
  BY <1>0, StartSound
<1>2. PICK does \in Command :
        /\ Begin(p, does) /\ Sound(does, told')
        /\ does.pc = "save" /\ ~does.plain => does.op # "remove" /\ (does.op = "add" => does.secret = None)
        /\ does.pc # "idle"
  BY <1>0, StartSound
<1>3. Alike(proc'[p], does) /\ \A q \in Procs \ {p} : Alike(proc'[q], proc[q])
  BY <1>0, <1>2, Began
<1>4. UNCHANGED <<config, keychain, dropped>> /\ proc[p].pc = "idle"
  BY <1>2 DEF Begin
<1>5. Stored'
  BY <1>0, <1>1, <1>4 DEF Stored, Answers
<1>6. \A c, d : Alike(c, d) /\ Sound(d, told') => Sound(c, told')
  BY DEF Alike, Sound, Minds
<1>7. \A q \in Procs : Sound(proc'[q], told')
  <2>1. \A q \in Procs : Sound(proc[q], told')
    BY <1>0, <1>1, Silenced
  <2> QED BY <1>2, <1>3, <1>6, <2>1
<1>8. ASSUME NEW q \in Procs \ {p} PROVE Apart(q)'
  <2> SUFFICES ASSUME proc'[q].apart PROVE Apart(q)'
    BY DEF Apart
  <2>1. proc'[q] = IF q \in Others(p) /\ Disturbs(does, proc[q]) THEN [proc[q] EXCEPT !.apart = FALSE] ELSE proc[q]
    BY <1>2 DEF Begin
  <2>2. proc'[q] = proc[q] /\ ~(q \in Others(p) /\ Disturbs(does, proc[q]))
    BY <1>0, <2>1 DEF Command
  <2>3. Apart(q) /\ proc[q].apart /\ proc[q].pc # "idle"
    BY <1>0, <2>2 DEF Apart
  <2>4. ~Disturbs(proc'[p], proc[q])
    BY <1>3, <2>2, <2>3 DEF Alike, Disturbs, Others
  <2>5. \A r \in Procs \ {p, q} : proc'[r].pc # "idle" => ~Disturbs(proc'[r], proc[q])
    BY <1>3, <2>3 DEF Apart, Alike, Disturbs
  <2> QED BY <1>4, <2>2, <2>3, <2>4, <2>5 DEF Apart
<1>9. Apart(p)'
  <2> SUFFICES ASSUME proc'[p].apart PROVE Apart(p)'
    BY DEF Apart
  <2>1. \A o \in Others(p) : ~Disturbs(proc[o], does)
    <3> DEFINE Free == \A o \in Others(p) : ~Disturbs(proc[o], does)
    <3>1. proc'[p] = [does EXCEPT !.apart = Free]
      BY <1>0, <1>2 DEF Begin
    <3> HIDE DEF Free
    <3>2. proc'[p].apart = Free
      BY <3>1 DEF Command
    <3> QED BY <3>2 DEF Free
  <2>2. proc'[p].pc # "idle"
    BY <1>2, <1>3 DEF Alike
  <2>3. \A q \in Procs \ {p} : proc'[q].pc # "idle" => ~Disturbs(proc'[q], proc'[p])
    BY <1>3, <2>1 DEF Alike, Disturbs, Others
  <2>4. proc'[p].pc = "save" /\ ~proc'[p].plain => proc'[p].op # "remove" /\ (proc'[p].op = "add" => proc'[p].secret = None)
    BY <1>2, <1>3 DEF Alike
  <2> QED BY <2>2, <2>3, <2>4 DEF Apart
<1> QED BY <1>5, <1>7, <1>8, <1>9 DEF ToldInv

LEMMA KeepsTold ==
  ASSUME TypeOK, ToldInv, NEW p \in Procs, Keeps(p)
  PROVE  ToldInv'
<1> DEFINE c == proc[p]
<1>0. /\ proc \in [Procs -> Command] /\ c \in Command /\ Stored /\ Sound(c, told) /\ Apart(p)
      /\ keychain \in [Entries -> {None} \cup Item] /\ told \in [Entries -> {None, Gone} \cup Secrets]
      /\ dropped \subseteq Entries
  BY DEF TypeOK, ToldInv
<1>1. c.pc \notin {"idle", "save"} /\ c.entry \in Entries
  <2>1. c.pc \notin {"idle", "save"}
    BY DEF Keeps, Get, Approve, SetItem, RefuseOwner, DropItem, Refuse, Forget
  <2> QED BY <2>1, EntryNamed
<1>2. c.pc \in Storing =>
        (c.op = "add" /\ told[c.entry] = None) \/ (c.op = "use" /\ (c.pc # "get" => told[c.entry] # Gone))
  BY <1>0, <1>1, NoneAssumption DEF Sound, Minds
<1>3. UNCHANGED <<config, keychain, told, dropped>> => Stored'
  BY <1>0 DEF Stored, Answers
<1>10. keychain' = keychain => Elsewhere(p)
  BY DEF Elsewhere
<1>4. CASE Get(p) \/ RefuseOwner(p)
  <2>1. Stored' /\ told' = told /\ c.pc \in {"get", "set"} /\ Elsewhere(p)
    BY <1>3, <1>4, <1>10 DEF Get, RefuseOwner, history
  <2>2. Ends(p) \/ (Goes(p, "ask") /\ keychain[c.entry] # None) \/ (Goes(p, "drop") /\ c.pc = "set")
    BY <1>4 DEF Get, RefuseOwner
  <2>3. keychain[c.entry] # None \/ c.pc = "set" => told[c.entry] # Gone
    BY <1>0, <1>1, <1>2, NoneAssumption DEF Stored, Answers, Storing
  <2> QED BY <1>1, <2>1, <2>2, <2>3, EndsTold, GoesTold DEF Storing, FileWork
<1>5. CASE Approve(p)
  <2>1. /\ proc' = [proc EXCEPT ![p] = [c EXCEPT !.pc = "set", !.secret = keychain[c.entry].secret]]
        /\ c.pc = "ask" /\ keychain[c.entry] # None /\ UNCHANGED <<config, keychain, told, dropped>>
    BY <1>5 DEF Approve, history
  <2>2. keychain[c.entry].secret \in Secrets
    BY <1>0, <1>1, <2>1 DEF Item
  <2> DEFINE d == proc'[p]
  <2>3. /\ d.pc = "set" /\ d.op = c.op /\ d.entry = c.entry /\ d.next = c.next /\ d.plain = c.plain
        /\ d.secret = keychain[c.entry].secret /\ d.apart = c.apart
    BY <1>0, <2>1 DEF Command
  <2>4. proc' \in [Procs -> Command] /\ \A q \in Procs \ {p} : proc'[q] = proc[q]
    <3>1. [c EXCEPT !.pc = "set", !.secret = keychain[c.entry].secret] \in Command
      BY <1>0, <2>2 DEF Command
    <3> QED BY <1>0, <2>1, <3>1
  <2>5. Sound(d, told)
    <3>1. c.op = "use" /\ told[c.entry] # None => keychain[c.entry].secret = told[c.entry]
      BY <1>0, <1>1, <1>2, <2>1 DEF Stored, Answers, Storing
    <3>4. c.op = "use" => told[c.entry] # Gone
      BY <1>2, <2>1 DEF Storing
    <3>2. \A e \in Entries : told[e] # None => Minds(c, e, told[e])
      BY <1>0, <2>1 DEF Sound
    <3> HIDE DEF c, d
    <3>3. \A e \in Entries : told[e] # None => Minds(d, e, told[e])
      BY <2>3, <3>1, <3>2, <3>4 DEF Minds
    <3> QED BY <1>0, <2>1, <2>3, <3>3 DEF Sound, Storing, FileWork
  <2>6. Apart(p)'
    BY <1>0, <2>3, <2>4 DEF Apart, Disturbs
  <2> QED BY <1>1, <1>3, <1>10, <2>1, <2>3, <2>4, <2>5, <2>6, OthersTold
<1>6. CASE SetItem(p)
  <2>1. /\ keychain' = [keychain EXCEPT ![c.entry] = [secret |-> c.secret, own |-> TRUE]]
        /\ dropped' = dropped \ {c.entry} /\ UNCHANGED <<config, told>> /\ c.pc \in {"set", "again"}
        /\ IF c.op = "add" THEN Goes(p, "save") ELSE Ends(p)
    BY <1>6 DEF SetItem
  <2>2. c.secret \in Secrets
    BY <1>0, <2>1 DEF TypeOK, Equipped, Command
  <2>3. keychain'[c.entry] # None /\ keychain'[c.entry].secret = c.secret
    <3>1. [secret |-> c.secret, own |-> TRUE] \in Item
      BY <2>2 DEF Item
    <3> QED BY <1>0, <1>1, <2>1, <3>1, ItemAssumption
  <2>4. told[c.entry] # None => told[c.entry] # Gone /\ c.secret = told[c.entry]
    BY <1>0, <1>1, <1>2, <2>1 DEF Sound, Minds, Storing
  <2>5. \A e \in Entries : e # c.entry => keychain'[e] = keychain[e] /\ (e \in dropped' <=> e \in dropped)
    BY <1>0, <2>1
  <2>6. Stored'
    <3>1. \A e \in Entries : told[e] # None => Answers(e)'
      BY <1>0, <2>1, <2>3, <2>4, <2>5 DEF Stored, Answers
    <3>2. \A e \in dropped' : keychain'[e] = None
      BY <1>0, <2>1, <2>5 DEF Stored
    <3> QED BY <1>0, <2>1, <3>1, <3>2 DEF Stored
  <2>9. Elsewhere(p)
    BY <2>5 DEF Elsewhere
  <2>7. CASE c.op = "add"
    BY <1>1, <2>1, <2>3, <2>6, <2>7, <2>9, GoesTold DEF Storing, FileWork
  <2>8. CASE c.op # "add"
    BY <1>1, <2>1, <2>6, <2>8, <2>9, EndsTold
  <2> QED BY <2>7, <2>8
<1>7. CASE DropItem(p)
  <2>1. /\ keychain' = [keychain EXCEPT ![c.entry] = None] /\ dropped' = dropped \cup {c.entry}
        /\ UNCHANGED <<config, told>> /\ c.pc = "drop" /\ Goes(p, "again")
    BY <1>7 DEF DropItem
  <2>3. told[c.entry] # Gone
    BY <1>1, <1>2, <2>1, NoneAssumption DEF Storing
  <2>4. Elsewhere(p)
    BY <1>0, <2>1 DEF Elsewhere
  <2>2. Stored'
    <3>2. \A e \in Entries : e # c.entry => keychain'[e] = keychain[e]
      BY <1>0, <2>1
    <3>3. keychain'[c.entry] = None
      BY <1>0, <1>1, <2>1
    <3> QED BY <1>0, <2>1, <2>3, <3>2, <3>3 DEF Stored, Answers
  <2> QED BY <1>1, <2>1, <2>2, <2>3, <2>4, GoesTold DEF Storing, FileWork
<1>8. CASE Refuse(p)
  <2>1. UNCHANGED <<config, keychain, told, dropped>> /\ c.pc \in {"set", "drop", "again"}
    BY <1>8 DEF Refuse
  <2>2. CASE AfterRefusal(c) = "idle"
    BY <1>1, <1>3, <1>8, <1>10, <2>1, <2>2, EndsTold DEF Refuse
  <2>3. CASE AfterRefusal(c) = "read"
    <3>1. Goes(p, "read") /\ c.op # "use" /\ c.plain
      BY <1>8, <2>3 DEF Refuse, AfterRefusal
    <3> QED BY <1>1, <1>3, <1>10, <2>1, <3>1, GoesTold DEF Storing, FileWork
  <2>4. CASE AfterRefusal(c) = "save"
    <3>1. Goes(p, "save") /\ c.op # "use" /\ c.env
      BY <1>8, <2>4 DEF Refuse, AfterRefusal
    <3>2. c.op = "add"
      BY <1>2, <2>1, <3>1 DEF Storing
    <3> QED BY <1>1, <1>3, <1>10, <2>1, <3>1, <3>2, GoesTold DEF Storing, FileWork
  <2>5. AfterRefusal(c) \in {"idle", "read", "save"}
    BY DEF AfterRefusal
  <2> QED BY <2>2, <2>3, <2>4, <2>5
<1>9. CASE Forget(p)
  <2>1. c.pc = "forget" /\ c.op = "remove" /\ told[c.entry] = None /\ UNCHANGED <<config, told, dropped>>
    BY <1>0, <1>9 DEF Forget, Sound, history
  <2>2. keychain' \in {keychain, [keychain EXCEPT ![c.entry] = None]}
    BY <1>9 DEF Forget
  <2>3. Stored'
    <3>1. \A e \in Entries : keychain'[e] = keychain[e] \/ (e = c.entry /\ keychain'[e] = None)
      BY <1>0, <1>1, <2>2
    <3> QED BY <1>0, <2>1, <3>1 DEF Stored, Answers
  <2>6. Elsewhere(p)
    BY <1>0, <2>2 DEF Elsewhere
  <2>4. \/ Ends(p)
        \/ Goes(p, "read") /\ c.plain
        \/ Goes(p, "save") /\ ~c.plain /\ keychain' = [keychain EXCEPT ![c.entry] = None]
    BY <1>9 DEF Forget, AfterKept
  <2>5. CASE Goes(p, "save") /\ ~c.plain /\ keychain' = [keychain EXCEPT ![c.entry] = None]
    <3>1. keychain'[c.entry] = None
      BY <1>0, <1>1, <2>5
    <3> QED BY <1>1, <2>1, <2>3, <2>5, <2>6, <3>1, GoesTold DEF Storing, FileWork
  <2> QED BY <1>1, <2>1, <2>3, <2>4, <2>5, <2>6, EndsTold, GoesTold DEF Storing, FileWork
<1> QED BY <1>4, <1>5, <1>6, <1>7, <1>8, <1>9 DEF Keeps

LEMMA WritesTold ==
  ASSUME TypeOK, ToldInv, NEW p \in Procs, Writes(p) \/ Stop(p)
  PROVE  ToldInv'
<1> DEFINE c == proc[p]
<1>0. /\ proc \in [Procs -> Command] /\ c \in Command /\ Stored /\ Sound(c, told) /\ Apart(p)
      /\ told \in [Entries -> {None, Gone} \cup Secrets]
  BY DEF TypeOK, ToldInv
<1>1. UNCHANGED <<config, keychain, told, dropped>> => Stored'
  BY <1>0 DEF Stored, Answers
<1>7. keychain' = keychain => Elsewhere(p)
  BY DEF Elsewhere
<1>2. c.pc \in FileWork => c.plain /\ c.op # "use"
  BY <1>0 DEF Sound, FileWork, Storing
<1>3. CASE TruncateFile(p) \/ WriteFile(p)
  <2>1. /\ UNCHANGED <<config, keychain, told, dropped>> /\ c.pc \in FileWork /\ c.pc # "idle"
        /\ Goes(p, "write") \/ Goes(p, "save")
    BY <1>3 DEF TruncateFile, WriteFile, history, FileWork
  <2> QED BY <1>1, <1>2, <1>7, <2>1, GoesTold DEF Storing, FileWork
<1>4. CASE ReadFile(p)
  <2>1. PICK pc \in {"save", "truncate"} : proc' = [proc EXCEPT ![p] = [c EXCEPT !.seen = file, !.pc = pc]]
    BY <1>4 DEF ReadFile
  <2>2. UNCHANGED <<config, keychain, told, dropped>> /\ c.pc = "read"
    BY <1>4 DEF ReadFile, history
  <2> DEFINE d == proc'[p]
  <2>3. /\ d.pc = pc /\ d.op = c.op /\ d.entry = c.entry /\ d.next = c.next /\ d.plain = c.plain
        /\ d.secret = c.secret /\ d.apart = c.apart
    BY <1>0, <2>1 DEF Command
  <2>4. proc' \in [Procs -> Command] /\ \A q \in Procs \ {p} : proc'[q] = proc[q]
    <3>1. [c EXCEPT !.seen = file, !.pc = pc] \in Command
      BY <1>0 DEF Command, TypeOK
    <3> QED BY <1>0, <2>1, <3>1
  <2>5. Sound(d, told)
    <3>1. \A e \in Entries : told[e] # None => Minds(c, e, told[e])
      BY <1>0, <2>2 DEF Sound
    <3>3. c.op # "use"
      BY <1>2, <2>2 DEF FileWork
    <3> HIDE DEF c, d
    <3>2. \A e \in Entries : told[e] # None => Minds(d, e, told[e])
      BY <2>3, <3>1, <3>3 DEF Minds
    <3> QED BY <1>0, <1>2, <2>2, <2>3, <3>2 DEF Sound, Storing, FileWork
  <2>6. Apart(p)'
    BY <1>0, <1>2, <2>2, <2>3, <2>4 DEF Apart, Disturbs, FileWork
  <2> QED BY <1>1, <1>7, <2>2, <2>3, <2>4, <2>5, <2>6, OthersTold
<1>5. CASE Stop(p)
  <2>1. UNCHANGED <<config, keychain, told, dropped>> /\ c.pc # "idle" /\ Ends(p)
    BY <1>5 DEF Stop, history
  <2> QED BY <1>1, <1>7, <2>1, EndsTold
<1>6. CASE Save(p)
  <2>1. c.pc = "save" /\ config' = c.next /\ Ends(p) /\ UNCHANGED <<keychain, dropped>>
    BY <1>6 DEF Save
  <2>2. \A e \in Entries : told[e] # None => (told[e] # Gone => config'.auth[e] = "secret")
    BY <1>0, <2>1 DEF Sound, Minds, Storing
  <2>3. CASE told' = told
    <3>1. Stored'
      BY <1>0, <2>1, <2>2, <2>3 DEF Stored, Answers
    <3> QED BY <1>7, <2>1, <2>3, <3>1, EndsTold
  <2>4. CASE told' # told
    <3>1. /\ c.apart /\ ~c.plain
          /\ \/ c.op = "remove" /\ told' = [told EXCEPT ![c.entry] = Gone]
             \/ /\ c.op = "add" /\ ~c.env /\ c.next.auth[c.entry] = "secret"
                /\ told' = [told EXCEPT ![c.entry] = c.secret]
      BY <1>6, <2>4 DEF Save
    <3>2. c.entry \in Entries
      BY <1>0, <2>1, <3>1 DEF Sound
    <3>3. c.secret # None => c.secret # Gone
      BY <1>0, NoneAssumption DEF Command
    <3>0. PICK e \in Entries : e = c.entry
      BY <3>2
    <3>4. told'[e] # None => (told'[e] # Gone => config'.auth[e] = "secret") /\ Answers(e)'
      <4>1. CASE c.op = "remove"
        <5>1. told'[e] = Gone /\ keychain'[e] = None
          BY <1>0, <2>1, <3>0, <3>1, <4>1 DEF Apart
        <5> QED BY <5>1 DEF Answers
      <4>2. CASE c.op = "add"
        <5>1. told'[e] = c.secret
          BY <1>0, <3>0, <3>1, <4>2
        <5>2. c.secret # None => keychain'[e] # None /\ keychain'[e].secret = c.secret
          BY <1>0, <2>1, <3>0, <3>1, <4>2 DEF Apart
        <5> QED BY <2>1, <3>0, <3>1, <3>3, <4>2, <5>1, <5>2 DEF Answers
      <4> QED BY <3>1, <4>1, <4>2
    <3>5. \A f \in Entries : f # e => told'[f] = told[f]
      BY <1>0, <3>0, <3>1
    <3>6. Stored'
      <4>1. \A f \in Entries : told'[f] # None => (told'[f] # Gone => config'.auth[f] = "secret") /\ Answers(f)'
        BY <1>0, <2>1, <2>2, <3>4, <3>5 DEF Stored, Answers
      <4> QED BY <1>0, <2>1, <4>1 DEF Stored
    <3>7. proc'[p] = Idle /\ Idle.pc = "idle" /\ ~Idle.apart /\ \A q \in Procs \ {p} : proc'[q] = proc[q]
      BY <1>0, <2>1, Ended DEF Idle
    <3>8. \A q \in Procs \ {p} : proc[q].pc # "idle" => told'[e] = Gone /\ proc[q].entry # e
      BY <1>0, <3>0, <3>1 DEF Apart, Disturbs
    <3>9. ASSUME NEW q \in Procs, q # p PROVE Sound(proc'[q], told') /\ Apart(q)'
      <4>1. Sound(proc[q], told) /\ Apart(q)
        BY DEF ToldInv
      <4>2. proc[q].pc # "idle" => Sound(proc[q], told')
        <5> SUFFICES ASSUME proc[q].pc # "idle" PROVE Sound(proc[q], told')
          OBVIOUS
        <5>1. \A f \in Entries : told'[f] # None => Minds(proc[q], f, told'[f])
          BY <3>5, <3>8, <3>9, <4>1 DEF Sound, Minds
        <5> QED BY <3>5, <3>8, <3>9, <4>1, <5>1 DEF Sound
      <4>3. \A r \in Procs : proc'[r].pc # "idle" => proc'[r] = proc[r]
        BY <3>7
      <4> QED BY <2>1, <3>7, <3>9, <4>1, <4>2, <4>3 DEF Sound, Apart
    <3> QED BY <3>6, <3>7, <3>9 DEF ToldInv, Sound, Apart
  <2> QED BY <2>3, <2>4
<1> QED BY <1>3, <1>4, <1>5, <1>6 DEF Writes

LEMMA ToldStep == TypeOK /\ ToldInv /\ [Next]_vars => ToldInv'
<1> SUFFICES ASSUME TypeOK, ToldInv, [Next]_vars PROVE ToldInv'
  OBVIOUS
<1>1. CASE Upgrade
  <2>1. \A e \in Entries : /\ keychain'[e] = None <=> keychain[e] = None
                           /\ keychain[e] # None => keychain'[e].secret = keychain[e].secret
    <3>1. ASSUME NEW e \in Entries
          PROVE  /\ keychain'[e] = None <=> keychain[e] = None
                 /\ keychain[e] # None => keychain'[e].secret = keychain[e].secret
      <4>1. keychain'[e] = IF keychain[e] = None THEN None ELSE [keychain[e] EXCEPT !.own = FALSE]
        BY <1>1 DEF Upgrade
      <4>2. keychain[e] # None => keychain[e] \in Item
        BY DEF TypeOK
      <4>3. \A i \in Item : [i EXCEPT !.own = FALSE] \in Item /\ [i EXCEPT !.own = FALSE].secret = i.secret
        BY DEF Item
      <4> HIDE DEF Item
      <4> QED BY <4>1, <4>2, <4>3, ItemAssumption
    <3> QED BY <3>1
  <2>2. \A p \in Procs : proc[p].pc = "idle" /\ proc' = proc /\ UNCHANGED <<config, told, dropped>>
    BY <1>1 DEF Upgrade, history
  <2>3. Stored'
    <3>1. UNCHANGED <<config, told, dropped>> /\ dropped \subseteq Entries
      BY <1>1 DEF Upgrade, history, TypeOK
    <3> QED BY <2>1, <3>1 DEF ToldInv, Stored, Answers
  <2> QED BY <2>2, <2>3 DEF ToldInv, Sound, Apart
<1>2. CASE UNCHANGED vars
  BY <1>2 DEF vars, history, ToldInv, Stored, Answers, Apart
<1> QED BY <1>1, <1>2, StartTold, KeepsTold, WritesTold DEF Next

(* An `add` beside which no other command ran, with no file and no secret     *)
(* from the environment in play, reported success: until the next `add` or    *)
(* `remove` of its entry starts, the entry is defined and the keychain        *)
(* answers with that secret, or with nothing where a lookup let another build *)
(* delete the item to store it again and that was refused or cut short.       *)
THEOREM AddedStaysHolds == Spec => []AddedStays
<1>1. ToldInv => AddedStays
  <2> SUFFICES ASSUME ToldInv, NEW e \in Entries, told[e] \in Secrets
               PROVE  config.auth[e] = "secret" /\ Lookup(e, FALSE) = IF e \in dropped THEN None ELSE told[e]
    BY DEF AddedStays
  <2>1. told[e] # None /\ told[e] # Gone
    BY NoneAssumption
  <2> QED BY <2>1 DEF ToldInv, Stored, Answers, Lookup
<1> QED BY <1>1, ToldInit, ToldStep, TypesHold, PTL DEF Spec

(* A `remove` with no file in play, beside which no other command about its   *)
(* entry ran, reported success: until the next `add` or `remove` of the entry *)
(* starts, the keychain holds nothing of it, even if a command that had       *)
(* loaded the configuration before puts the entry back and lookups follow.    *)
THEOREM RemovedForGoodHolds == Spec => []RemovedForGood
<1>1. ToldInv => RemovedForGood
  BY NoneAssumption DEF ToldInv, Stored, Answers, RemovedForGood
<1> QED BY <1>1, ToldInit, ToldStep, TypesHold, PTL DEF Spec
=============================================================================
