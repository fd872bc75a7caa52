-------------------------------- MODULE Trees --------------------------------
(***************************************************************************)
(* The index trees one machine can read (plugins/dbmap/scripts): those     *)
(* built here (module Roster) and those a team publishes in a git          *)
(* repository and this machine clones.  A registry, one JSON file, says    *)
(* where they are; commands edit it and bring clones up to date, and a     *)
(* session that starts may be reminded of a tree that has grown old.       *)
(***************************************************************************)
EXTENDS Roster, FiniteSets

CONSTANTS
  Names,       \* of registered roots; the clone of a remote is at its root's name
  Remotes,     \* git repositories
  Repo,        \* the tree in the repository the session runs in, found unregistered
  Hours,       \* what a person may ask to be reminded after
  Installed,   \* roots an earlier session may have registered and synced
  Enclosed,    \* whether the clones lie inside a git repository of somebody's
  MaxCommands  \* bound on the commands and builds of a behaviour

Root(name, path, remote) == [name |-> name, path |-> path, remote |-> remote]
\* A remote is cloned under its root's name, a tree built here is where it is.
RemoteRoots == {Root(n, n, r) : n \in Names, r \in Remotes}
Roots == RemoteRoots \cup {Root(n, l, None) : n \in Names, l \in Local}

\* A checkout is whole; partial, with files missing that a reset brings back;
\* locked, so that a fetch succeeds in it and a reset does not; or torn, with no
\* repository left in it. With it goes what was fetched last.
Checkouts == [state: {"whole", "partial", "locked", "torn"}, origin: Remotes, rows: Rosters \cup {None},
              fetched: SUBSET (Rosters \cup {None})]
Checkout(state, origin, rows) == [state |-> state, origin |-> origin, rows |-> rows, fetched |-> {}]

ASSUME PlacesAssumption == Names \cap Local = {} /\ Repo \in Local
ASSUME NoneAssumption == None \notin Names \cup Local \cup Remotes \cup Roots \cup Checkouts
ASSUME InstalledAssumption == Installed \subseteq Roots
ASSUME HoursAssumption == Hours \subseteq Nat \ {0} /\ None \notin Nat
ASSUME EnclosedAssumption == Enclosed \in BOOLEAN
ASSUME CommandsAssumption == MaxCommands \in Nat

VARIABLES
  registry,    \* roots.json: whether it parses, the rows in whatever order that name
               \* a root, those broken that no longer do, and the reminder
  clones,      \* per name: the checkout in clones/
  published,   \* per remote: the roster at its head, None for no index in it
  cmd,         \* per process: the command it runs
  left,        \* commands that may still be given
  \* history, for the properties only
  asked,       \* the root each name was last registered as
  spoiled,     \* names whose row a hand broke and a command about another dropped
  raced,       \* an edit was saved while another was under way
  crossed      \* processes whose sync ran beside another

plugin == <<registry, clones, published, cmd, left, asked, spoiled, raced, crossed>>
vars   == <<rosters, plugin>>

-----------------------------------------------------------------------------
\* What a command has to do. An edit holds the registry as it read it.
NoCommand == [what |-> "none"]
Edit(change) == [what |-> "edit", change |-> change, file |-> registry]
Sync(roots) == [what |-> "sync", todo |-> roots, root |-> None, at |-> "next", pulled |-> {}, since |-> published]
Idle(p) == build[p].at = "none" /\ cmd[p] = NoCommand

Changes == [do: {"add"}, root: Roots] \cup [do: {"remove"}, name: Names] \cup [do: {"remind"}, hours: Hours \cup {None}]

\* Registering a name again replaces it. What is written are the rows that name
\* a root: a broken one is not carried over.
About(change) == CASE change.do = "add" -> change.root.name [] change.do = "remove" -> change.name [] OTHER -> None
Without(file, name) == {r \in file.roots : r.name # name}
Edited(file, change) ==
  [whole |-> TRUE, broken |-> {},
   roots |-> Without(file, About(change)) \cup IF change.do = "add" THEN {change.root} ELSE {},
   remind |-> IF change.do = "remind" THEN change.hours ELSE file.remind]

TreesInit ==
  /\ published = [r \in Remotes |-> None]
  /\ \E root \in Installed \cup {None} :
       /\ registry = [whole |-> TRUE, roots |-> {root} \ {None}, broken |-> {}, remind |-> None]
       /\ clones = [n \in Names |-> IF root # None /\ n = root.path THEN Checkout("whole", root.remote, None) ELSE None]
       /\ asked = [n \in Names |-> IF root # None /\ n = root.name THEN root ELSE None]
  /\ cmd = [p \in Procs |-> NoCommand] /\ left = MaxCommands
  /\ spoiled = {} /\ raced = FALSE /\ crossed = {}
Init == RosterInit /\ TreesInit

Given == left > 0 /\ left' = left - 1

-----------------------------------------------------------------------------
(* What a person or a team does, beside commands.                           *)

\* A team builds a database into its tree and pushes it.
Publish(r, d) ==
  /\ published' = [published EXCEPT ![r] = [Rows(@) EXCEPT ![d] = now]]
  /\ UNCHANGED <<rosters, registry, clones, cmd, left, asked, spoiled, raced, crossed>>

\* A hand edit leaves the file no valid JSON, or a row in it no name or no path;
\* and a later one mends what an earlier one broke.
HandEdit ==
  /\ \/ registry' = [registry EXCEPT !.whole = ~@]
     \/ \E r \in registry.roots : registry' = [registry EXCEPT !.roots = @ \ {r}, !.broken = @ \cup {r}]
     \/ \E r \in registry.broken : registry' = [registry EXCEPT !.roots = @ \cup {r}, !.broken = @ \ {r}]
  /\ UNCHANGED <<rosters, clones, published, cmd, left, asked, spoiled, raced, crossed>>

-----------------------------------------------------------------------------
(* add, remove, remind: read, edit, write a new file, rename it.            *)

\* A file that cannot be parsed, and a name to remove that is not in it, end
\* the command. Mutant: an unreadable file edited as an empty one.
StartLenient(p, change) ==
  LET read == IF registry.whole THEN registry ELSE [whole |-> TRUE, roots |-> {}, broken |-> {}, remind |-> None]
  IN /\ Idle(p) /\ Given
     /\ cmd' = [cmd EXCEPT ![p] = [Edit(change) EXCEPT !.file = read]]
     /\ UNCHANGED <<rosters, registry, clones, published, asked, spoiled, raced, crossed>>
StartEdit(p, change) ==
  /\ Idle(p) /\ Given
  /\ registry.whole
  /\ change.do = "remove" => \E r \in registry.roots : r.name = change.name
  /\ cmd' = [cmd EXCEPT ![p] = Edit(change)]
  /\ UNCHANGED <<rosters, registry, clones, published, asked, spoiled, raced, crossed>>

Save(p) ==
  /\ cmd[p].what = "edit"
  /\ registry' = Edited(cmd[p].file, cmd[p].change)
  /\ asked' = LET c == cmd[p].change
              IN CASE c.do = "add"    -> [asked EXCEPT ![c.root.name] = c.root]
                   [] c.do = "remove" -> [asked EXCEPT ![c.name] = None]
                   [] OTHER -> asked
  /\ spoiled' = (spoiled \cup {r.name : r \in cmd[p].file.broken}) \ {About(cmd[p].change)}
  /\ raced' = (raced \/ \E q \in Procs \ {p} : cmd[q].what = "edit")
  /\ cmd' = [cmd EXCEPT ![p] = NoCommand]
  /\ UNCHANGED <<rosters, clones, published, left, crossed>>

-----------------------------------------------------------------------------
(* sync: the roots with a remote, one after another.                        *)

\* Of a sync that was killed the git it had started may be left: it ends what it
\* is at, and nobody waits for it.
Syncing(p) == cmd[p].what = "sync"
Orphan(p) == cmd[p].what = "git"
Running(p) == Syncing(p) \/ Orphan(p)
Current(p) == cmd[p].root
Here(p) == clones[Current(p).path]
Pulling(p, at) == Running(p) /\ cmd[p].at = at

Fails(p) == cmd' = [cmd EXCEPT ![p] = NoCommand]
Goes(p, at) == IF Syncing(p) THEN cmd' = [cmd EXCEPT ![p].at = at] ELSE Fails(p)
Pulled(p) ==
  IF Syncing(p) THEN cmd' = [cmd EXCEPT ![p].at = "next", ![p].pulled = @ \cup {Current(p)}] ELSE Fails(p)
Leaves(p, checkout) == clones' = [clones EXCEPT ![Current(p).path] = checkout]
Apart == UNCHANGED <<rosters, registry, published, left, asked, spoiled, raced, crossed>>

\* All published trees or one; an unreadable registry reads as one without any.
\* Mutant: every root.
Candidates(wanted) == {r \in registry.roots : r.name \in wanted}
Published(wanted) == {r \in registry.roots : r.remote # None /\ r.name \in wanted}
StartSync(p, wanted) ==
  LET others == {q \in Procs : Running(q)}
  IN /\ Idle(p) /\ Given
     /\ registry.whole /\ Published(wanted) # {}
     /\ cmd' = [cmd EXCEPT ![p] = Sync(Published(wanted))]
     /\ crossed' = IF others = {} THEN crossed \ {p} ELSE crossed \cup others \cup {p}
     /\ UNCHANGED <<rosters, registry, clones, published, asked, spoiled, raced>>

Turn(p) ==
  /\ Syncing(p) /\ cmd[p].at = "next"
  /\ \E r \in cmd[p].todo : cmd' = [cmd EXCEPT ![p].todo = @ \ {r}, ![p].root = r, ![p].at = "pull"]
  /\ UNCHANGED clones /\ Apart

\* A checkout is fetched from the remote it was cloned from. A fetch may fail for
\* any reason: the network, the remote, a branch that is gone, a broken checkout.
Fetch(p) ==
  /\ Pulling(p, "pull") /\ Here(p) # None /\ Here(p).state # "torn"
  /\ Leaves(p, [Here(p) EXCEPT !.fetched = {published[Here(p).origin]}])
  /\ Goes(p, "reset") /\ Apart
FetchFails(p) ==
  /\ Pulling(p, "pull") /\ Here(p) # None
  /\ Goes(p, "remove")
  /\ UNCHANGED clones /\ Apart

\* Mutant: back to what it was cloned or reset to last.
Resets(c) == c # None /\ c.state \in {"whole", "partial"}
ResetToHead(p) ==
  /\ Pulling(p, "reset") /\ Resets(Here(p))
  /\ Leaves(p, [Here(p) EXCEPT !.state = "whole"])
  /\ Pulled(p) /\ Apart
Reset(p) ==
  /\ Pulling(p, "reset") /\ Resets(Here(p))
  /\ \E rows \in Here(p).fetched : Leaves(p, [Here(p) EXCEPT !.state = "whole", !.rows = rows])
  /\ Pulled(p) /\ Apart
\* A reset that fails ends the command, as does a clone below.
ResetFails(p) == Pulling(p, "reset") /\ Fails(p) /\ UNCHANGED clones /\ Apart

\* In a directory that is no repository git takes the one around it for the
\* checkout, and fetches and resets that.
Strays(c) == Enclosed /\ c # None /\ c.state = "torn"
FetchStray(p) == Pulling(p, "pull") /\ Strays(Here(p)) /\ Goes(p, "reset") /\ UNCHANGED clones /\ Apart
ResetStray(p) == Pulling(p, "reset") /\ Strays(Here(p)) /\ Pulled(p) /\ UNCHANGED clones /\ Apart

RemoveCheckout(p) == Pulling(p, "remove") /\ Leaves(p, None) /\ Goes(p, "clone") /\ Apart

\* A clone wants its directory not to be there, and removes it if it fails.
StartClone(p) ==
  /\ Syncing(p) /\ cmd[p].at \in {"pull", "clone"}
  /\ Here(p) = None
  /\ Leaves(p, Checkout("partial", Current(p).remote, None))
  /\ Goes(p, "cloning") /\ Apart
Clone(p) ==
  /\ Pulling(p, "cloning") /\ Here(p) # None
  /\ Leaves(p, Checkout("whole", Current(p).remote, published[Current(p).remote]))
  /\ Pulled(p) /\ Apart
CloneFails(p) ==
  /\ \/ Pulling(p, "cloning") /\ Leaves(p, None)
     \/ Pulling(p, "clone") /\ Here(p) # None /\ UNCHANGED clones
  /\ Fails(p) /\ Apart

Finish(p) ==
  /\ Syncing(p) /\ cmd[p].at = "next" /\ cmd[p].todo = {}
  /\ Fails(p)
  /\ UNCHANGED clones /\ Apart

\* What a kill may leave of a checkout: of a clone nothing, or what it had come
\* to; of a removal what it had still to remove; of a reset some files of either
\* state, or its lock.
Left(c, states, kept) == {[c EXCEPT !.state = w[1], !.rows = w[2]] : w \in states \X kept}
Wrecks(at, c) ==
  CASE at = "cloning" -> {None} \cup Left(c, {"partial", "torn"}, {None}) \cup Left(c, {"locked"}, {None, published[c.origin]})
    [] at = "remove"  -> Left(c, IF c.state = "torn" THEN {"torn"} ELSE {"partial", "torn", c.state} \ {"whole"}, {None, c.rows})
    [] at = "reset" /\ Resets(c) -> Left(c, {"partial", "locked"}, c.fetched \cup {c.rows})
    [] OTHER -> {c}

\* Killed with the git it waits for, or that git alone once it is left.
Die(p) ==
  /\ cmd[p] # NoCommand
  /\ IF Running(p) /\ cmd[p].at # "next" /\ Here(p) # None
     THEN \E c \in Wrecks(cmd[p].at, Here(p)) : Leaves(p, c)
     ELSE UNCHANGED clones
  /\ Fails(p) /\ Apart

\* Killed alone, and its git goes on.
DieAlone(p) ==
  /\ Syncing(p) /\ cmd[p].at \in {"pull", "reset", "cloning"} /\ Here(p) # None
  /\ cmd' = [cmd EXCEPT ![p].what = "git"]
  /\ UNCHANGED clones /\ Apart

-----------------------------------------------------------------------------
Step(p) ==
  \/ \E c \in Changes : StartEdit(p, c)
  \/ Save(p)
  \/ \E wanted \in {Names} \cup {{n} : n \in Names} : StartSync(p, wanted)
  \/ Turn(p) \/ Fetch(p) \/ FetchFails(p) \/ FetchStray(p) \/ Reset(p) \/ ResetFails(p) \/ ResetStray(p)
  \/ RemoveCheckout(p) \/ StartClone(p) \/ Clone(p) \/ CloneFails(p) \/ Finish(p) \/ Die(p) \/ DieAlone(p)

\* A build is given to an idle process; what it does to the roster is Roster's.
Build(p) ==
  /\ IF build[p].at = "none" THEN Idle(p) /\ Given ELSE UNCHANGED left
  /\ RosterStep(p)
  /\ UNCHANGED <<registry, clones, published, cmd, asked, spoiled, raced, crossed>>
Time == Tick /\ UNCHANGED plugin

Next ==
  \/ Time \/ HandEdit
  \/ \E r \in Remotes, d \in Databases : Publish(r, d)
  \/ \E p \in Procs : Step(p) \/ Build(p)

Spec == Init /\ [][Next]_vars

-----------------------------------------------------------------------------
(* What a session is told when it starts.                                   *)

RosterAt(path) == IF path \in Local THEN tree[path] ELSE IF clones[path] = None THEN None ELSE clones[path].rows
IsTree(path) == RosterAt(path) # None

\* The trees this machine can read: the one found, and the registered ones, each
\* path once.
Found == IF IsTree(Repo) THEN {Repo} ELSE {}
Trees == Found \cup IF registry.whole THEN {r.path : r \in registry.roots} ELSE {}

Known(path) == {d \in Databases : IsTree(path) /\ RosterAt(path)[d] \notin {0, Undated}}
\* A tree is as old as its stalest database. Mutant: as its freshest.
Newest(path) == CHOOSE d \in Known(path) : \A e \in Known(path) : RosterAt(path)[d] >= RosterAt(path)[e]
Oldest(path) == CHOOSE d \in Known(path) : \A e \in Known(path) : RosterAt(path)[d] <= RosterAt(path)[e]
Age(path) == now - RosterAt(path)[Oldest(path)]

Silence == [says |-> "nothing"]
\* One message, or of several trees equally in want of one either.
Messages ==
  LET unsynced == {r.path : r \in {q \in registry.roots : q.remote # None /\ ~IsTree(q.path)}}
      aged == {t \in Trees : Known(t) # {}}
      worst == {t \in aged : \A u \in aged : Age(u) <= Age(t)}
  IN IF ~registry.whole \/ registry.remind = None THEN {Silence}
     ELSE IF unsynced # {} THEN [says: {"unfetched"}, path: unsynced]
     ELSE IF aged = {} \/ \E t \in worst : Age(t) < registry.remind THEN {Silence}
     ELSE {[says |-> "old", path |-> t, of |-> Oldest(t)] : t \in worst}

-----------------------------------------------------------------------------
Registries == [whole: BOOLEAN, roots: SUBSET Roots, broken: SUBSET Roots, remind: Hours \cup {None}]
Edits == [what: {"edit"}, change: Changes, file: Registries]
Syncs ==
  [what: {"sync", "git"}, todo: SUBSET RemoteRoots, root: RemoteRoots \cup {None}, pulled: SUBSET RemoteRoots,
   at: {"next", "pull", "reset", "remove", "clone", "cloning"}, since: [Remotes -> Rosters \cup {None}]]

TypeOK ==
  /\ RosterTypeOK
  /\ registry \in Registries
  /\ clones \in [Names -> Checkouts \cup {None}]
  /\ published \in [Remotes -> Rosters \cup {None}]
  /\ cmd \in [Procs -> Edits \cup Syncs \cup {NoCommand}]
  /\ \A p \in Procs : (Syncing(p) /\ cmd[p].at # "next") \/ Orphan(p) => Current(p) # None
  /\ left \in 0 .. MaxCommands /\ asked \in [Names -> Roots \cup {None}] /\ spoiled \subseteq Names
  /\ raced \in BOOLEAN /\ crossed \subseteq Procs

\* "A malformed file is an error the caller must see, because the write path
\* would otherwise rewrite it from the empty default and drop every root": as
\* long as no two commands edited the registry at once, it holds what the last
\* command about each name left there, once, whatever was killed, and whatever
\* hands broke and mended, when they did. But a row broken by hand when a command
\* about another name reads the file is gone: of that name the registry has none
\* until it is registered again.
NothingDropped == ~raced =>
  \A n \in Names :
    {r \in registry.roots \cup registry.broken : r.name = n} = IF n \in spoiled THEN {} ELSE {asked[n]} \ {None}

\* "Brings one root's checkout to the remote's current state": each root a sync
\* says it has pulled is a whole checkout no older than what the repository it
\* was cloned from had published when the sync began, though earlier syncs died
\* anywhere and fetches failed; unless another sync, or the git one left behind,
\* ran at the same time, or the clones lie inside a repository, which git takes
\* for the checkout where a kill has left a directory without one.
NoOlder(roster, than) == than # None => roster # None /\ \A d \in Databases : roster[d] >= than[d]
PulledIsPublished ==
  \A p \in Procs \ crossed : Syncing(p) =>
    \A r \in cmd[p].pulled :
      LET c == clones[r.path]
      IN Strays(c) \/ (c # None /\ c.state = "whole" /\ NoOlder(c.rows, cmd[p].since[c.origin]))

\* The reminder, where one is wanted, is silent only if every remote that was
\* registered has an index here, and every database built into a tree it can
\* read, or published to one, was so within the hours asked for; and the database
\* it names is the one whose last build is the longest past. (A tree that two
\* builds met at may have lost rows, one being written is empty, and a row padded
\* has lost its stamp. A root it calls unfetched may have been fetched, and hold
\* no index.)
RemindsTruly == ~raced /\ registry.whole /\ registry.remind # None =>
  LET wanted == {asked[n] : n \in Names \ spoiled} \ ({None} \cup registry.broken)
      missing == {r.path : r \in {w \in wanted : w.remote # None /\ ~IsTree(w.path)}}
      sound == {path \in {Repo} \cup {r.path : r \in wanted} : path \in Local => path \notin clashed /\ Settled(path)}
      since(t) == IF t[1] \in Local THEN Row(t[1], t[2], t[1] \in narrow) ELSE Rows(RosterAt(t[1]))[t[2]]
      dated == {t \in sound \X Databases : since(t) \notin {0, Undated}}
  IN \A m \in Messages :
     CASE m.says = "nothing" -> missing = {} /\ \A t \in dated : now - since(t) < registry.remind
       [] m.says = "unfetched" -> m.path \in missing
       [] m.says = "old" -> m.path \in sound =>
            LET t == <<m.path, m.of>>
            IN t \in dated /\ now - since(t) >= registry.remind /\ \A u \in dated : since(t) <= since(u)

\* "One directory per root name, so two teams' trees never share a checkout":
\* what a sync says it has pulled for a root comes from the remote the root
\* names.
PulledFromItsRemote ==
  \A p \in Procs \ crossed : Syncing(p) =>
    \A r \in cmd[p].pulled : clones[r.path] # None /\ clones[r.path].origin = r.remote
=============================================================================
