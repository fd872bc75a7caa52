------------------------------ MODULE Settings ------------------------------
(***************************************************************************)
(* The commands that define what dbmap connects to (cmd/connection.go,     *)
(* backend.go, profile.go, config.go), over the configuration file         *)
(* (internal/config) and the secret stores (internal/credentials): the     *)
(* environment, the OS keychain and, if one opted in, a file.              *)
(*                                                                         *)
(* Several dbmap processes may run at once.  Each loads the configuration  *)
(* when it starts, works on its copy, and replaces the file as a whole.    *)
(***************************************************************************)
EXTENDS FiniteSets

CONSTANTS
  None,
  Gone,         \* history: a removal was reported
  Connections, Backends, Profiles,   \* names of each
  Typed,        \* per entry: the secrets one may give for it
  Said,         \* what flag and environment say of plaintext: yes, no, nothing
  Fallbacks,    \* what `config set secrets.fallback` is given
  Forces,       \* whether --force may be given
  Procs

Entries == Connections \cup Backends
Secrets == UNION {Typed[e] : e \in Entries}

ASSUME NamesAssumption == Connections \cap Backends = {}
ASSUME NoneAssumption ==
  None # Gone /\ {None, Gone} \cap (Entries \cup Profiles \cup Secrets \cup (Connections \X Backends)) = {}
ASSUME SaidAssumption ==
  /\ Said \subseteq {"yes", "no", "nothing"} /\ Fallbacks \subseteq {"never", "plaintext"}
  /\ Forces \subseteq BOOLEAN

\* An entry is not defined, carries no secret (a ticket, a local binary), or does.
Auths  == {"undefined", "secretless", "secret"}
Config == [auth: [Entries -> Auths], binds: [Profiles -> {None} \cup (Connections \X Backends)],
           current: Profiles \cup {None}, fallback: {"never", "plaintext"}]
Item   == [secret: Secrets, own: BOOLEAN]   \* own: bound to the build that runs now
File   == [Entries -> {None} \cup Secrets]
ASSUME ItemAssumption == None \notin Item

\* A command on its way: what it was asked, the configuration it will save, the
\* secret it carries, what it read of the file, and (history) whether no other has
\* disturbed it.
Command == [pc: {"idle", "get", "ask", "set", "drop", "again", "forget", "read", "truncate", "write", "save"},
            op: {"add", "remove", "edit", "use"}, entry: {None} \cup Entries, next: Config,
            plain: BOOLEAN, secret: {None} \cup Secrets, env: BOOLEAN, seen: File, apart: BOOLEAN]

VARIABLES
  config,    \* config.yml
  keychain,  \* per entry: an Item or None
  file,      \* per entry: a secret or None; credentials.yml
  proc,      \* per process: the command it runs
  \* history, for the properties only
  told,      \* per entry: the secret of a reported add, Gone after a reported removal
  dropped,   \* entries whose item was deleted to be stored again, and was not
  refused    \* <<entry, secret>> the keychain refused to a process that opted in

history == <<told, dropped, refused>>
vars    == <<config, keychain, file, proc, history>>

NoFile == [e \in Entries |-> None]
Empty  == [auth |-> [e \in Entries |-> "undefined"], binds |-> [p \in Profiles |-> None],
           current |-> None, fallback |-> "never"]
Idle   == [pc |-> "idle", op |-> "edit", entry |-> None, next |-> Empty, plain |-> FALSE,
           secret |-> None, env |-> FALSE, seen |-> NoFile, apart |-> FALSE]

\* A keychain may hold items an earlier installation stored.
Init ==
  /\ config = Empty /\ file = NoFile /\ proc = [p \in Procs |-> Idle]
  /\ keychain \in [Entries -> {None} \cup {i \in Item : ~i.own}]
  /\ told = [e \in Entries |-> None] /\ dropped = {} /\ refused = {}

-----------------------------------------------------------------------------
(* A command starts: it loads the configuration, settles its flags and edits *)
(* its copy.                                                                 *)

Others(p) == {q \in Procs \ {p} : proc[q].pc # "idle"}

\* A removal is disturbed by commands about its own entry, the others by any.
Disturbs(d, c) == c.op = "remove" => d.entry = c.entry

Begin(p, does) ==
  /\ proc[p].pc = "idle"
  /\ proc' = [q \in Procs |->
       IF q = p THEN [does EXCEPT !.apart = \A o \in Others(p) : ~Disturbs(proc[o], does)]
       ELSE IF q \in Others(p) /\ Disturbs(does, proc[q]) THEN [proc[q] EXCEPT !.apart = FALSE] ELSE proc[q]]
  /\ UNCHANGED <<config, keychain, file, dropped, refused>>

\* Whether the file may be used: the flag, the environment, the configuration.
OptedIn == {said = "yes" \/ (said = "nothing" /\ config.fallback = "plaintext") : said \in Said}

\* What `add` is given: a secret from a person or from the environment; where
\* none is needed the environment is not asked.
Given(e, auth) ==
  [secret : Typed[e], env : {FALSE}]
  \cup IF auth = "secretless" THEN {[secret |-> None, env |-> FALSE]} ELSE [secret : Typed[e], env : {TRUE}]

\* Mutant: an empty secret is stored like another.
StoresAll(given) == "set"

Stores(given) == IF given.secret = None THEN "save" ELSE "set"

StartAdd(p) == \E e \in Entries, auth \in Auths \ {"undefined"} : \E given \in Given(e, auth), plain \in OptedIn :
  /\ Begin(p, [Idle EXCEPT !.op = "add", !.entry = e, !.pc = Stores(given), !.secret = given.secret,
                 !.env = given.env, !.plain = plain, !.next = [config EXCEPT !.auth[e] = auth]])
  /\ told' = [told EXCEPT ![e] = None]

\* Mutant: only the current profile looked at.
UsersCurrent(cfg, e) ==
  {p \in Profiles : p = cfg.current /\ cfg.binds[p] # None /\ e \in {cfg.binds[p][1], cfg.binds[p][2]}}

Users(cfg, e) == {p \in Profiles : cfg.binds[p] # None /\ e \in {cfg.binds[p][1], cfg.binds[p][2]}}

StartRemove(p) == \E e \in Entries, force \in Forces, plain \in OptedIn :
  /\ config.auth[e] # "undefined" /\ (Users(config, e) = {} \/ force)
  /\ Begin(p, [Idle EXCEPT !.op = "remove", !.entry = e, !.pc = "forget", !.plain = plain,
                 !.next = [config EXCEPT !.auth[e] = "undefined"]])
  /\ told' = [told EXCEPT ![e] = None]

Create(cfg) ==
  {[cfg EXCEPT !.binds[p] = <<c, b>>] : p \in Profiles,
     c \in {c \in Connections : cfg.auth[c] # "undefined"}, b \in {b \in Backends : cfg.auth[b] # "undefined"}}
Switch(cfg) == {[cfg EXCEPT !.current = p] : p \in {p \in Profiles : cfg.binds[p] # None} \cup {None}}
RemoveProfile(cfg) ==
  {[cfg EXCEPT !.binds[p] = None, !.current = IF @ = p THEN None ELSE @]
     : p \in {p \in Profiles : cfg.binds[p] # None}}
SetFallback(cfg) == {[cfg EXCEPT !.fallback = f] : f \in Fallbacks}

\* profile create, switch and remove, config set
StartEdit(p) == \E next \in Create(config) \cup Switch(config) \cup RemoveProfile(config) \cup SetFallback(config) :
  /\ Begin(p, [Idle EXCEPT !.pc = "save", !.next = next])
  /\ UNCHANGED told

\* index and doctor want the secret of a defined entry; where the environment
\* supplies it they ask no further.
StartUse(p) == \E e \in {e \in Entries : config.auth[e] = "secret"} :
  /\ Begin(p, [Idle EXCEPT !.op = "use", !.entry = e, !.pc = "get"])
  /\ UNCHANGED told

-----------------------------------------------------------------------------
(* The steps of a command.                                                  *)

Goes(p, pc) == proc' = [proc EXCEPT ![p].pc = pc]
Ends(p)     == proc' = [proc EXCEPT ![p] = Idle]

\* A read that is answered, or refused, ends; for an item another build stored it
\* may ask, if somebody is there.
Get(p) ==
  /\ proc[p].pc = "get"
  /\ \/ Ends(p)
     \/ /\ keychain[proc[p].entry] # None /\ ~keychain[proc[p].entry].own
        /\ Goes(p, "ask")
  /\ UNCHANGED <<config, keychain, file, history>>

\* An item released through the dialog is stored again by this build.
Approve(p) ==
  /\ proc[p].pc = "ask" /\ keychain[proc[p].entry] # None
  /\ proc' = [proc EXCEPT ![p].pc = "set", ![p].secret = keychain[proc[p].entry].secret]
  /\ UNCHANGED <<config, keychain, file, history>>

SetItem(p) ==
  /\ proc[p].pc \in {"set", "again"}
  /\ keychain' = [keychain EXCEPT ![proc[p].entry] = [secret |-> proc[p].secret, own |-> TRUE]]
  /\ dropped' = dropped \ {proc[p].entry}
  /\ IF proc[p].op = "add" THEN Goes(p, "save") ELSE Ends(p)
  /\ UNCHANGED <<config, file, told, refused>>

\* The keychain does not let this build replace another's item: it is deleted
\* first, and stored again.
RefuseOwner(p) ==
  /\ proc[p].pc = "set" /\ keychain[proc[p].entry] # None /\ ~keychain[proc[p].entry].own
  /\ Goes(p, "drop")
  /\ UNCHANGED <<config, keychain, file, history>>
DropItem(p) ==
  /\ proc[p].pc = "drop" /\ keychain[proc[p].entry] # None
  /\ keychain' = [keychain EXCEPT ![proc[p].entry] = None]
  /\ dropped' = dropped \cup {proc[p].entry}
  /\ Goes(p, "again")
  /\ UNCHANGED <<config, file, told, refused>>

\* Mutants: a refusal is a warning whatever gave the secret; the file is fallen
\* back on unasked.
RefusedWarned(c) == IF c.op = "use" THEN "idle" ELSE IF c.plain THEN "read" ELSE "save"
RefusedToFile(c) == IF c.op = "use" THEN "idle" ELSE "read"

\* What a command does when the keychain refuses to store: a read goes on
\* without, an add falls back to the file if one opted in, warns if the
\* environment supplies the secret again, and fails otherwise.
AfterRefusal(c) ==
  IF c.op = "use" THEN "idle" ELSE IF c.plain THEN "read" ELSE IF c.env THEN "save" ELSE "idle"

Refuse(p) ==
  /\ proc[p].pc \in {"set", "drop", "again"}
  /\ IF AfterRefusal(proc[p]) = "idle" THEN Ends(p) ELSE Goes(p, AfterRefusal(proc[p]))
  /\ refused' = IF proc[p].plain /\ proc[p].op = "add"
                THEN refused \cup {<<proc[p].entry, proc[p].secret>>} ELSE refused
  /\ UNCHANGED <<config, keychain, file, told, dropped>>

\* Mutant: a keychain that refuses a deletion is not reported at all.
AfterKeptItem(c) == IF c.plain THEN "read" ELSE "save"

\* With a file in use, a keychain that refuses to delete is not reported.
AfterKept(c) == IF c.plain THEN "read" ELSE "idle"

Forget(p) ==
  /\ proc[p].pc = "forget"
  /\ \/ /\ keychain' = [keychain EXCEPT ![proc[p].entry] = None]
        /\ Goes(p, IF proc[p].plain THEN "read" ELSE "save")
     \/ /\ UNCHANGED keychain
        /\ IF AfterKept(proc[p]) = "idle" THEN Ends(p) ELSE Goes(p, AfterKept(proc[p]))
  /\ UNCHANGED <<config, file, history>>

\* The file is read, edited in memory, truncated and written.
ReadFile(p) ==
  /\ proc[p].pc = "read"
  /\ proc' = [proc EXCEPT ![p].seen = file,
                ![p].pc = IF proc[p].op = "remove" /\ file[proc[p].entry] = None THEN "save" ELSE "truncate"]
  /\ UNCHANGED <<config, keychain, file, history>>
TruncateFile(p) ==
  /\ proc[p].pc = "truncate" /\ file' = NoFile
  /\ Goes(p, "write")
  /\ UNCHANGED <<config, keychain, history>>
WriteFile(p) ==
  /\ proc[p].pc = "write" /\ file' = [proc[p].seen EXCEPT ![proc[p].entry] = proc[p].secret]
  /\ Goes(p, "save")
  /\ UNCHANGED <<config, keychain, history>>

\* The configuration is replaced as a whole, and the command reports success.
Save(p) ==
  /\ proc[p].pc = "save" /\ config' = proc[p].next
  /\ Ends(p)
  /\ told' = IF ~proc[p].apart THEN told
             ELSE IF proc[p].op = "remove" /\ ~proc[p].plain THEN [told EXCEPT ![proc[p].entry] = Gone]
             ELSE IF proc[p].op = "add" /\ ~proc[p].plain /\ ~proc[p].env /\ proc[p].next.auth[proc[p].entry] = "secret"
             THEN [told EXCEPT ![proc[p].entry] = proc[p].secret] ELSE told
  /\ UNCHANGED <<keychain, file, dropped, refused>>

\* A probe, a validation or a write fails, somebody cancels, or the process is
\* killed: the command ends where it is.
Stop(p) ==
  /\ proc[p].pc # "idle"
  /\ Ends(p)
  /\ UNCHANGED <<config, keychain, file, history>>

\* The binary is replaced: to the keychain it is another program now.
Upgrade ==
  /\ \A p \in Procs : proc[p].pc = "idle"
  /\ keychain' = [e \in Entries |-> IF keychain[e] = None THEN None ELSE [keychain[e] EXCEPT !.own = FALSE]]
  /\ UNCHANGED <<config, file, proc, history>>

Start(p) == StartAdd(p) \/ StartRemove(p) \/ StartEdit(p) \/ StartUse(p)
Keeps(p) == Get(p) \/ Approve(p) \/ SetItem(p) \/ RefuseOwner(p) \/ DropItem(p) \/ Refuse(p) \/ Forget(p)
Writes(p) == ReadFile(p) \/ TruncateFile(p) \/ WriteFile(p) \/ Save(p)
Next == Upgrade \/ \E p \in Procs : Start(p) \/ Keeps(p) \/ Writes(p) \/ Stop(p)

Spec == Init /\ [][Next]_vars

-----------------------------------------------------------------------------
\* What `Store.Get` answers if nothing refuses and the environment is silent.
Lookup(e, plain) ==
  IF keychain[e] # None THEN keychain[e].secret ELSE IF plain THEN file[e] ELSE None

\* A command at work on a store has an entry, and a secret if it is to store one.
Equipped(c) ==
  /\ c.pc \notin {"idle", "save"} => c.entry # None
  /\ c.pc \in {"set", "drop", "again"} => c.secret # None

TypeOK ==
  /\ config \in Config /\ keychain \in [Entries -> {None} \cup Item] /\ file \in File
  /\ proc \in [Procs -> Command]
  /\ \A p \in Procs : Equipped(proc[p])
  /\ told \in [Entries -> {None, Gone} \cup Secrets]
  /\ dropped \subseteq Entries /\ refused \subseteq Entries \X Secrets

Stands(cfg) ==
  /\ \A p \in Profiles : cfg.binds[p] # None =>
       cfg.auth[cfg.binds[p][1]] # "undefined" /\ cfg.auth[cfg.binds[p][2]] # "undefined"
  /\ cfg.current # None => cfg.binds[cfg.current] # None

\* Unless somebody forces a removal, every profile in the file binds entries
\* that are in it, and the current profile is one of them: however many
\* processes edit at once, whichever of them saves last.
BindingsStand == Stands(config)

\* An `add` beside which no other command ran, which had not opted in to the file
\* and not taken its secret from the environment, reported success.  Until the next
\* `add` or `remove` of the entry starts, the entry is defined and the keychain
\* answers with that secret, never with an older one, whatever was stored before
\* and whatever fails later.  It answers nothing only where a lookup let an
\* upgraded build delete the item to store it again, and that was refused or cut
\* short.
AddedStays ==
  \A e \in Entries : told[e] \in Secrets =>
    /\ config.auth[e] = "secret"
    /\ Lookup(e, FALSE) = IF e \in dropped THEN None ELSE told[e]

Vouched(secrets) == \A e \in Entries : secrets[e] # None => <<e, secrets[e]>> \in refused

\* "There is no silent fallback to a plaintext file": what it holds the keychain
\* refused, to somebody who had opted in.
NoSilentPlaintext == Vouched(file)

\* A `remove` that had not opted in to the file reported success, and no other
\* command about its entry ran beside it.  Until the next `add` or `remove` of the
\* entry starts, the keychain holds nothing under its name: not even when a
\* command about something else, which had loaded the configuration before, saves
\* the entry back and lookups of it follow.
RemovedForGood == \A e \in Entries : told[e] = Gone => keychain[e] = None
=============================================================================
