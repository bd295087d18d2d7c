---- MODULE Profiles ----
(***************************************************************************)
(* The configuration files of the CLI, shared by concurrent invocations:   *)
(* the global config.json, one directory per profile with its config.json, *)
(* and the advisory lock file next to each of them.  Every update takes    *)
(* the lock, loads, changes and replaces the file; a reader takes no lock. *)
(* The lock file of a profile lives in the profile's directory, so it is   *)
(* deleted, renamed and created anew with it: a directory is modelled as   *)
(* an object of its own, which a name points to.                           *)
(*                                                                         *)
(* A profile's config is the set of its fields that have a value.          *)
(***************************************************************************)
EXTENDS Naturals, FiniteSets

CONSTANTS Procs,       \* invocations
          Names,       \* profile names; "default" is DEFAULT_PROFILE
          Plans,       \* the commands the invocations run, a set of functions
          Roots,       \* the sets of profiles that may exist at the start
          Together,    \* pairs of commands that may run at the same time
          MaxDirs,     \* bound: directories ever created
          MaxFaults    \* bound: invocations that die and writes that fail

\* "none" stands for nobody: it is no invocation.
ASSUME ProcsAssumption == "none" \notin Procs

VARIABLES
  root,      \* whether the profiles directory exists
  dirOf,     \* the directory a profile name points to
  conf,      \* the content of each directory
  holder,    \* who holds the lock file of each directory
  global,    \* the global config: active_profile and first_run_hint_seen
  gholder,   \* who holds the global config's lock
  creds,     \* the profile names under which credentials are stored
  cmd,       \* the command of each invocation
  pc,        \* where it is
  locked,    \* the directory whose lock file it has opened
  seen,      \* the config it has loaded
  gseen,     \* the global config it has loaded
  dirs,      \* directories created so far
  faults,    \* invocations that died and writes that failed
  initial,   \* history: the directories there at the start
  committed  \* history: invocations that have replaced the global config

vars == <<root, dirOf, conf, holder, global, gholder, creds, cmd, pc, locked, seen,
          gseen, dirs, faults, initial, committed>>
tree == <<root, dirOf, dirs, initial>>
locks == <<holder, gholder, locked>>
globals == <<global, gholder, gseen, committed>>
profile == <<conf, holder, locked, seen>>

None == "none"
NoDir == 0
Dirs == 1..MaxDirs
Fields == {"namespace", "client_id"}
\* An empty directory, and one without a config.json, are told apart: rename
\* replaces the first and not the second.
Bare == {"bare"}
NoFile == {"no file"}
Stored(d) == conf[d] \intersect Fields

Writers == {"set", "login", "logout"}        \* config set, persist_login, logout_profile
Lifecycle == {"create", "use", "delete", "rename"}
Ops == Writers \union Lifecycle \union {"resolve", "hint"}
Commands == [op : Ops, name : Names, to : Names]

\* A configuration the program can start from: the profiles that exist are known
\* names, and there is a directory for each of them.
ASSUME RootsAssumption ==
  /\ "default" \in Names /\ Plans \subseteq [Procs -> Commands]
  /\ MaxDirs \in Nat /\ MaxFaults \in Nat
  /\ \A r \in Roots : r \subseteq Names /\ IsFiniteSet(r) /\ Cardinality(r) <= MaxDirs

\* Delete and rename move directories under the lock files in them.  The code asks
\* that they run alone; only the hint, which every command may set, runs beside.
ASSUME TogetherAssumption ==
  \A a \in {"delete", "rename"}, b \in Ops : {a, b} \in Together => b = "hint"

Ended == {"done", "failed", "dead"}
Running(p) == pc[p] \notin Ended \union {"idle"}

TypeOK ==
  /\ root \in BOOLEAN /\ dirs \in 0..MaxDirs /\ faults \in 0..MaxFaults /\ initial \subseteq Dirs
  /\ dirOf \in [Names -> Dirs \union {NoDir}]
  /\ conf \in [Dirs -> (SUBSET Fields) \union {Bare, NoFile}]
  /\ holder \in [Dirs -> Procs \union {None}] /\ gholder \in Procs \union {None}
  /\ global \in [active : Names \union {None}, hint : BOOLEAN]
  /\ creds \subseteq Names
  /\ cmd \in [Procs -> Commands]
  /\ pc \in [Procs -> {"idle", "start", "mkdir", "default lock", "default save", "lock",
                       "wait", "default wait", "load", "save", "creds", "remove", "move", "global lock",
                       "global load", "global save"} \union Ended]
  /\ locked \in [Procs -> Dirs \union {NoDir}]
  /\ seen \in [Procs -> SUBSET Fields]
  /\ gseen \in [Procs -> [active : Names \union {None}, hint : BOOLEAN]]
  /\ committed \subseteq Procs

Init ==
  /\ \E r \in Roots :
       \E f \in [r -> 1..Cardinality(r)] :
         /\ \A m, n \in r : f[m] = f[n] => m = n
         /\ root = (r # {}) /\ dirs = Cardinality(r) /\ creds = r
         /\ dirOf = [n \in Names |-> IF n \in r THEN f[n] ELSE NoDir]
         /\ conf = [d \in Dirs |-> IF d <= dirs THEN Fields ELSE Bare]
         /\ global \in [active : r \union {None}, hint : {FALSE}]
  /\ holder = [d \in Dirs |-> None] /\ gholder = None
  /\ cmd \in Plans
  /\ pc = [p \in Procs |-> "idle"]
  /\ locked = [p \in Procs |-> NoDir]
  /\ seen = [p \in Procs |-> {}]
  /\ gseen = [p \in Procs |-> [active |-> None, hint |-> FALSE]]
  /\ faults = 0 /\ initial = 1..dirs /\ committed = {}

Goto(p, l) == pc' = [pc EXCEPT ![p] = l]
Name(p) == IF cmd[p].op = "resolve" THEN "default" ELSE cmd[p].name
Exists(n) == dirOf[n] # NoDir

(***************************************************************************)
(* The commands up to their first write                                    *)
(***************************************************************************)

\* An invocation starts.  The profile commands "are not designed for concurrent
\* invocation": two commands overlap only when Together has their pair.
Start(p) ==
  /\ pc[p] = "idle"
  /\ \A q \in Procs : Running(q) => {cmd[p].op, cmd[q].op} \in Together
  /\ Goto(p, "start")
  /\ UNCHANGED <<tree, conf, locks, global, creds, cmd, seen, gseen, faults, committed>>

\* The checks a command begins with.
Begin(p) ==
  /\ pc[p] = "start"
  /\ Goto(p,
       CASE cmd[p].op = "set" -> IF Exists(Name(p)) THEN "lock" ELSE "mkdir"
         [] cmd[p].op \in {"login", "logout"} -> "lock"
         [] cmd[p].op = "create" -> IF Exists(Name(p)) THEN "failed" ELSE "mkdir"
         [] cmd[p].op = "use" -> IF Exists(Name(p)) THEN "global lock" ELSE "failed"
         [] cmd[p].op = "delete" -> IF Exists(Name(p)) THEN "creds" ELSE "failed"
         [] cmd[p].op = "rename" ->
              IF Exists(Name(p)) /\ ~Exists(cmd[p].to) THEN "move" ELSE "failed"
         [] cmd[p].op = "hint" -> IF global.hint THEN "done" ELSE "global lock"
         \* resolve_profile_name without a flag or AGS_PROFILE
         [] cmd[p].op = "resolve" ->
              IF global.active # None THEN "done" ELSE IF root THEN "failed" ELSE "mkdir")
  /\ UNCHANGED <<tree, conf, locks, global, creds, cmd, seen, gseen, faults, committed>>

\* create_dir_restricted: every missing directory of the path, or nothing.
MakeDir(n) ==
  IF Exists(n) THEN UNCHANGED tree
  ELSE /\ dirs < MaxDirs
       /\ dirs' = dirs + 1 /\ root' = TRUE /\ UNCHANGED initial
       /\ dirOf' = [dirOf EXCEPT ![n] = dirs + 1]

\* ensure_profile_exists, first half: the directory.
CreateDir(p) ==
  /\ pc[p] = "mkdir"
  /\ MakeDir(Name(p))
  /\ Goto(p, "default lock")
  /\ UNCHANGED <<conf, locks, global, creds, cmd, seen, gseen, faults, committed>>

(***************************************************************************)
(* The lock, and the replacement of a profile's config                     *)
(***************************************************************************)

\* ConfigStore::lock: the directory is made if it is not there, and the lock file
\* in it is opened,
Open(p) ==
  /\ pc[p] \in {"lock", "default lock"}
  /\ MakeDir(Name(p))
  /\ LET d == dirOf'[Name(p)] IN
       /\ locked' = [locked EXCEPT ![p] = d]
       /\ conf' = [conf EXCEPT ![d] = IF @ = Bare THEN NoFile ELSE @]
  /\ Goto(p, IF pc[p] = "lock" THEN "wait" ELSE "default wait")
  /\ UNCHANGED <<holder, globals, creds, cmd, seen, faults>>

\* Mutant: the lock is not exclusive.
LockShared(p) ==
  /\ pc[p] \in {"wait", "default wait"}
  /\ holder' = [holder EXCEPT ![locked[p]] = p]
  /\ Goto(p, IF pc[p] = "wait" THEN "load" ELSE "default save")
  /\ UNCHANGED <<tree, conf, locked, globals, creds, cmd, seen, faults>>

\* and the lock of that file is waited for.
Lock(p) ==
  /\ pc[p] \in {"wait", "default wait"}
  /\ holder[locked[p]] = None
  /\ holder' = [holder EXCEPT ![locked[p]] = p]
  /\ Goto(p, IF pc[p] = "wait" THEN "load" ELSE "default save")
  /\ UNCHANGED <<tree, conf, locked, globals, creds, cmd, seen, faults>>

\* The file at the path, or the default when there is none.
Load(p) ==
  /\ pc[p] = "load"
  /\ seen' = [seen EXCEPT ![p] = IF Exists(Name(p)) THEN Stored(dirOf[Name(p)]) ELSE {}]
  /\ Goto(p, "save")
  /\ UNCHANGED <<tree, conf, locks, global, creds, cmd, gseen, faults, committed>>

Unlock(p) ==
  /\ holder' = [holder EXCEPT ![locked[p]] = None]
  /\ locked' = [locked EXCEPT ![p] = NoDir]

\* The change each writer makes to the config it loaded.
Change(c, fields) ==
  CASE c.op = "set" -> fields \union {"namespace"}
    [] c.op = "login" -> fields \union {"client_id"}
    [] c.op = "logout" -> fields \ {"client_id"}
    [] OTHER -> fields

\* A write fails, or an invocation dies.
Fault == faults < MaxFaults /\ faults' = faults + 1

\* write_file_restricted: a temporary file in the directory replaces config.json,
\* or the write fails and leaves it; the lock is released either way.
Replace(p, fields, next) ==
  /\ \/ /\ Exists(Name(p))
        /\ conf' = [conf EXCEPT ![dirOf[Name(p)]] = fields]
        /\ Goto(p, next)
        /\ UNCHANGED faults
     \/ /\ IF Exists(Name(p)) THEN Fault ELSE UNCHANGED faults
        /\ Goto(p, "failed") /\ UNCHANGED conf
  /\ Unlock(p)

Save(p) ==
  /\ pc[p] = "save"
  /\ Replace(p, Change(cmd[p], seen[p]), "done")
  /\ UNCHANGED <<tree, globals, creds, cmd, seen>>

\* ensure_profile_exists, second half: ProfileConfig::default().save().
SaveDefault(p) ==
  /\ pc[p] = "default save"
  /\ Replace(p, {}, CASE cmd[p].op = "set" -> "lock"
                      [] cmd[p].op = "create" -> "done"
                      [] OTHER -> "global lock")
  /\ UNCHANGED <<tree, globals, creds, cmd, seen>>

(***************************************************************************)
(* Deleting and renaming a profile                                         *)
(***************************************************************************)

\* The stored secret and tokens: deleted, or moved to the new name.
MoveCredentials(p) ==
  /\ pc[p] = "creds"
  /\ \/ /\ creds' = IF cmd[p].op = "rename" /\ Name(p) \in creds
                      THEN (creds \ {Name(p)}) \union {cmd[p].to}
                      ELSE creds \ {Name(p)}
        /\ UNCHANGED faults
     \/ Fault /\ UNCHANGED creds             \* only a warning
  /\ Goto(p, IF cmd[p].op = "rename" THEN "global lock" ELSE "remove")
  /\ UNCHANGED <<tree, conf, locks, global, cmd, seen, gseen, committed>>

\* remove_dir_all
RemoveDir(p) ==
  /\ pc[p] = "remove"
  /\ dirOf' = [dirOf EXCEPT ![Name(p)] = NoDir]
  /\ Goto(p, IF Exists(Name(p)) THEN "global lock" ELSE "failed")
  /\ UNCHANGED <<root, dirs, initial, conf, locks, global, creds, cmd, seen, gseen, faults, committed>>

\* std::fs::rename: an empty directory at the new name is replaced.
MoveDir(p) ==
  /\ pc[p] = "move"
  /\ \/ /\ Exists(Name(p))
        /\ Exists(cmd[p].to) => conf[dirOf[cmd[p].to]] = Bare
        /\ dirOf' = [dirOf EXCEPT ![cmd[p].to] = dirOf[Name(p)], ![Name(p)] = NoDir]
        /\ Goto(p, "creds")
     \/ /\ ~Exists(Name(p)) \/ (Exists(cmd[p].to) /\ conf[dirOf[cmd[p].to]] # Bare)
        /\ Goto(p, "failed") /\ UNCHANGED dirOf
  /\ UNCHANGED <<root, dirs, initial, conf, locks, global, creds, cmd, seen, gseen, faults, committed>>

(***************************************************************************)
(* The global config                                                       *)
(***************************************************************************)

\* Mutant: rename leaves the pointer at the old name.
GlobalChangeKeepsOld(c, g) ==
  CASE c.op = "use" -> [g EXCEPT !.active = c.name]
    [] c.op = "resolve" -> [g EXCEPT !.active = "default"]
    [] c.op = "delete" -> [g EXCEPT !.active = IF @ = c.name THEN None ELSE @]
    [] c.op = "rename" -> g
    [] OTHER -> [g EXCEPT !.hint = TRUE]

\* The closure each command passes to GlobalConfig::update.
GlobalChange(c, g) ==
  CASE c.op = "use" -> [g EXCEPT !.active = c.name]
    [] c.op = "resolve" -> [g EXCEPT !.active = "default"]
    [] c.op = "delete" -> [g EXCEPT !.active = IF @ = c.name THEN None ELSE @]
    [] c.op = "rename" -> [g EXCEPT !.active = IF @ = c.name THEN c.to ELSE @]
    [] OTHER -> [g EXCEPT !.hint = TRUE]

\* Mutant: the update does not wait for the lock.
GlobalLockSkipped(p) ==
  /\ pc[p] = "global lock"
  /\ gholder' = p
  /\ Goto(p, "global load")
  /\ UNCHANGED <<tree, profile, global, creds, cmd, gseen, faults, committed>>

GlobalLock(p) ==
  /\ pc[p] = "global lock" /\ gholder = None
  /\ gholder' = p
  /\ Goto(p, "global load")
  /\ UNCHANGED <<tree, profile, global, creds, cmd, gseen, faults, committed>>

GlobalLoad(p) ==
  /\ pc[p] = "global load"
  /\ gseen' = [gseen EXCEPT ![p] = global]
  /\ Goto(p, "global save")
  /\ UNCHANGED <<tree, profile, global, gholder, creds, cmd, faults, committed>>

\* The file is replaced, or the write fails: a warning for delete and rename,
\* ignored for the hint.
GlobalSave(p) ==
  /\ pc[p] = "global save"
  /\ \/ /\ global' = GlobalChange(cmd[p], gseen[p]) /\ committed' = committed \union {p}
        /\ Goto(p, "done") /\ UNCHANGED faults
     \/ /\ Fault /\ UNCHANGED <<global, committed>>
        /\ Goto(p, IF cmd[p].op \in {"use", "resolve"} THEN "failed" ELSE "done")
  /\ gholder' = None
  /\ UNCHANGED <<tree, profile, gseen, creds, cmd>>

\* An invocation dies; the operating system releases its locks.
Crash(p) ==
  /\ Running(p) /\ Fault
  /\ Goto(p, "dead")
  /\ holder' = [d \in Dirs |-> IF holder[d] = p THEN None ELSE holder[d]]
  /\ locked' = [locked EXCEPT ![p] = NoDir]
  /\ gholder' = IF gholder = p THEN None ELSE gholder
  /\ UNCHANGED <<tree, conf, global, creds, cmd, seen, gseen, committed>>

Step(p) ==
  \/ Begin(p) \/ CreateDir(p) \/ Open(p) \/ Lock(p) \/ Load(p) \/ Save(p) \/ SaveDefault(p)
  \/ MoveCredentials(p) \/ RemoveDir(p) \/ MoveDir(p)
  \/ GlobalLock(p) \/ GlobalLoad(p) \/ GlobalSave(p)

Next == \E p \in Procs : Start(p) \/ Step(p) \/ Crash(p)

Spec == Init /\ [][Next]_vars

(***************************************************************************)
(* Properties                                                              *)
(***************************************************************************)

\* GlobalConfig::update is atomic for every command, whatever runs beside it and
\* whoever dies when: the global config changes only by one invocation's whole
\* change of the current value, once per invocation.
Atomic == INSTANCE AtomicConfig WITH Clients <- Procs, Apply <- GlobalChange,
                                     value <- global, update <- cmd
GlobalAtomic == Atomic!Spec

\* A write to the config of a profile that was there before the writers started
\* makes the writer's own change and keeps the fields the others have written
\* ("preserving unrelated fields"), whoever dies and whichever write fails.
FieldsPreserved ==
  [][\A d \in initial :
       conf'[d] # conf[d] => \E p \in Procs : conf'[d] = Change(cmd[p], conf[d])]_vars

\* Once every command has ended, and no write failed, the active profile is one
\* that exists: delete clears the pointer, rename moves it, and a concurrent
\* writer of the global config does not bring the old one back.
ActiveExists ==
  (\A p \in Procs : ~Running(p)) /\ faults = 0 /\ global.active # None
    => Exists(global.active)
====
