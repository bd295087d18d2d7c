---- MODULE ProfilesProofs ----
(***************************************************************************)
(* Proofs about Profiles, for any set of invocations, any profile names,   *)
(* any commands and any number of crashes and failed writes.               *)
(***************************************************************************)
EXTENDS Profiles, FiniteSetTheorems, TLAPS

Movers == {"delete", "rename"}
AtGlobal == {"global lock", "global load", "global save"}
AtDefault == {"mkdir", "default lock", "default wait", "default save"}
AtLock == {"wait", "load", "save", "default wait", "default save"}
Inside == {"load", "save", "default save"}

\* Which command can be where.
Placed ==
  \A p \in Procs :
    /\ pc[p] \in AtDefault => cmd[p].op \in {"set", "create", "resolve"}
    /\ pc[p] \in {"lock", "wait", "load", "save"} => cmd[p].op \in Writers
    /\ pc[p] = "creds" => cmd[p].op \in Movers
    /\ pc[p] = "remove" => cmd[p].op = "delete"
    /\ pc[p] = "move" => cmd[p].op = "rename" /\ cmd[p].to # cmd[p].name
    /\ pc[p] \in AtGlobal => cmd[p].op \in {"use", "resolve", "hint"} \union Movers

\* The global lock is held by whoever is between it and the save, the value that
\* was loaded is still the current one, and an invocation commits at its end.
GlobalExclusive ==
  /\ \A p \in Procs : pc[p] \in {"global load", "global save"} => gholder = p
  /\ \A p \in Procs : pc[p] = "global save" => gseen[p] = global
  /\ \A p \in Procs : p \in committed => pc[p] \in Ended

\* Beside a delete or a rename only the hint runs.
Alone ==
  \A p, q \in Procs :
    p # q /\ Running(p) /\ Running(q) /\ cmd[p].op \in Movers => cmd[q].op = "hint"

\* Two names do not share a directory, and directories are numbered as they are made.
Tree ==
  /\ \A m, n \in Names : dirOf[m] = dirOf[n] /\ dirOf[m] # NoDir => m = n
  /\ \A n \in Names : dirOf[n] <= dirs
  /\ \A d \in initial : 1 <= d /\ d <= dirs
  /\ ~root => initial = {}

\* A writer that has opened the lock file is in the directory its profile names,
\* holds that lock once past it, and has loaded what is still in the file.
Exclusive(p) ==
  /\ pc[p] \in AtLock => locked[p] = dirOf[Name(p)] /\ locked[p] # NoDir
  /\ pc[p] \in Inside => holder[locked[p]] = p
  /\ pc[p] = "save" => seen[p] = Stored(dirOf[Name(p)])
WriterExclusive == \A p \in Procs : Exclusive(p)

\* The profiles there at the start have a config, which no default replaces.
InitialKept ==
  /\ \A d \in initial : conf[d] \subseteq Fields
  /\ \A p \in Procs : pc[p] \in AtDefault => dirOf[Name(p)] \notin initial

\* The profile that a command is about to make the active one exists.
TargetExists ==
  \A p \in Procs :
    /\ pc[p] \in AtGlobal /\ cmd[p].op \in {"use", "resolve"} => Exists(Name(p))
    /\ pc[p] \in AtGlobal \union {"creds"} /\ cmd[p].op = "rename" => Exists(cmd[p].to)

\* A command that has taken a profile's directory away and not yet told the global
\* config.
Takes(p, n) ==
  /\ cmd[p].name = n
  /\ \/ cmd[p].op = "delete" /\ pc[p] \in AtGlobal
     \/ cmd[p].op = "rename" /\ pc[p] \in AtGlobal \union {"creds"}
Pending(n) == \E p \in Procs : Takes(p, n)

\* The active profile is missing only while the command that removed it still runs.
ActiveOrPending ==
  faults = 0 /\ global.active # None => Exists(global.active) \/ Pending(global.active)

Inv ==
  /\ TypeOK /\ Placed /\ GlobalExclusive /\ Alone /\ Tree /\ WriterExclusive /\ InitialKept
  /\ TargetExists /\ ActiveOrPending

----------------------------------------------------------------------------


Labels == {"idle", "start", "mkdir", "default lock", "default save", "lock", "wait",
           "default wait", "load", "save", "creds", "remove", "move", "global lock",
           "global load", "global save", "done", "failed", "dead"}

\* The bounds are numbers.
LEMMA Bounds == MaxDirs \in Nat /\ MaxFaults \in Nat
BY RootsAssumption

\* A fault is counted.
LEMMA FaultTyped ==
  ASSUME faults \in 0..MaxFaults, Fault
  PROVE  faults' \in 0..MaxFaults /\ faults' # 0
BY Bounds DEF Fault

\* A jump to a label keeps the program counters typed.
LEMMA GotoTyped ==
  ASSUME pc \in [Procs -> Labels], NEW p \in Procs, NEW l \in Labels, Goto(p, l)
  PROVE  pc' \in [Procs -> Labels]
BY DEF Goto

\* The program counters are labels.
LEMMA PcTyped == TypeOK => pc \in [Procs -> Labels]
BY DEF TypeOK, Labels, Ended

\* What a command is, and the profile it is about.
LEMMA CommandFacts ==
  ASSUME TypeOK, NEW p \in Procs
  PROVE  /\ cmd[p].op \in Ops /\ cmd[p].name \in Names /\ cmd[p].to \in Names
         /\ Name(p) \in Names
         /\ cmd[p].op # "resolve" => Name(p) = cmd[p].name
BY RootsAssumption DEF TypeOK, Commands, Name

\* Where the checks of a command lead, and what they have found.
LEMMA BeginFacts ==
  ASSUME TypeOK, NEW p \in Procs, Begin(p)
  PROVE  \E l \in {"lock", "mkdir", "failed", "global lock", "creds", "move", "done"} :
           /\ Goto(p, l)
           /\ l = "lock" => cmd[p].op \in Writers
           /\ l = "mkdir" => \/ cmd[p].op \in {"set", "create"} /\ ~Exists(Name(p))
                             \/ cmd[p].op = "resolve" /\ ~root
           /\ l = "global lock" => \/ cmd[p].op = "use" /\ Exists(Name(p))
                                   \/ cmd[p].op = "hint"
           /\ l = "creds" => cmd[p].op = "delete"
           /\ l = "move" => /\ cmd[p].op = "rename" /\ Exists(Name(p)) /\ ~Exists(cmd[p].to)
<1> USE CommandFacts DEF Begin, Writers
<1>1. CASE cmd[p].op = "set" BY <1>1
<1>2. CASE cmd[p].op \in {"login", "logout"} BY <1>2
<1>3. CASE cmd[p].op = "create" BY <1>3
<1>4. CASE cmd[p].op = "use" BY <1>4
<1>5. CASE cmd[p].op = "delete" BY <1>5
<1>6. CASE cmd[p].op = "rename" BY <1>6
<1>7. CASE cmd[p].op = "hint" BY <1>7
<1>8. CASE cmd[p].op = "resolve" BY <1>8
<1> QED BY <1>1, <1>2, <1>3, <1>4, <1>5, <1>6, <1>7, <1>8 DEF Ops, Lifecycle

\* The checks change nothing else.
LEMMA BeginQuiet ==
  ASSUME NEW p \in Procs, Begin(p)
  PROVE  UNCHANGED <<root, dirOf, conf, holder, global, gholder, creds, cmd, locked, seen, gseen,
                     dirs, faults, initial, committed>>
BY DEF Begin, tree, locks

\* Making a directory: the profile has one afterwards, a new one if it had none,
\* and no other profile's directory moves.
LEMMA MakeDirFacts ==
  ASSUME TypeOK, NEW n \in Names, MakeDir(n)
  PROVE  /\ dirs' \in 0..MaxDirs /\ root' \in BOOLEAN /\ initial' = initial
         /\ dirOf' \in [Names -> Dirs \union {NoDir}]
         /\ dirOf'[n] \in Dirs
         /\ \A m \in Names : m # n => dirOf'[m] = dirOf[m]
         /\ \/ dirOf[n] # NoDir /\ dirOf' = dirOf /\ dirs' = dirs /\ root' = root
            \/ dirOf[n] = NoDir /\ dirOf'[n] = dirs + 1 /\ dirs' = dirs + 1 /\ root' = TRUE
<1>1. CASE Exists(n) BY <1>1 DEF TypeOK, MakeDir, Exists, tree
<1>2. CASE ~Exists(n)
  <2>1. /\ dirs < MaxDirs /\ dirs' = dirs + 1 /\ root' = TRUE /\ initial' = initial
        /\ dirOf' = [dirOf EXCEPT ![n] = dirs + 1]
    BY <1>2 DEF MakeDir
  <2>2. dirs + 1 \in Dirs /\ dirs' \in 0..MaxDirs 
    <3>1. dirs \in 0..MaxDirs BY DEF TypeOK
    <3> QED BY <2>1, <3>1, Bounds DEF Dirs
  <2> QED BY <1>2, <2>1, <2>2 DEF TypeOK, Exists
<1> QED BY <1>1, <1>2

\* Replacing a config, or failing to: the lock is given back in either case.
LEMMA ReplaceFacts ==
  ASSUME TypeOK, NEW p \in Procs, NEW fields \in SUBSET Fields, NEW next \in Labels,
         Replace(p, fields, next)
  PROVE  /\ faults' \in 0..MaxFaults /\ (faults' = 0 => faults = 0)
         /\ \/ /\ Exists(Name(p)) /\ conf' = [conf EXCEPT ![dirOf[Name(p)]] = fields]
               /\ Goto(p, next)
            \/ conf' = conf /\ Goto(p, "failed")
         /\ conf' \in [Dirs -> (SUBSET Fields) \union {Bare, NoFile}]
         /\ holder' = [holder EXCEPT ![locked[p]] = None]
         /\ locked' = [locked EXCEPT ![p] = NoDir]
<1> USE CommandFacts DEF Replace, Unlock, Exists
<1>1. faults' \in 0..MaxFaults /\ (faults' = 0 => faults = 0)
  <2>1. faults' = faults \/ Fault OBVIOUS
  <2> QED BY <2>1, FaultTyped DEF TypeOK
<1>2. conf' \in [Dirs -> (SUBSET Fields) \union {Bare, NoFile}] BY DEF TypeOK
<1> QED BY <1>1, <1>2

\* The fields a writer saves are fields.
LEMMA ChangeTyped ==
  ASSUME NEW c \in Commands, NEW fields \in SUBSET Fields
  PROVE  Change(c, fields) \in SUBSET Fields
BY DEF Change, Fields

\* The updated global config is one.
Configs == [active : Names \union {None}, hint : BOOLEAN]
LEMMA GlobalChangeTyped ==
  ASSUME NEW c \in Commands, NEW g \in Configs
  PROVE  GlobalChange(c, g) \in Configs
<1> USE RootsAssumption DEF Commands, Configs, GlobalChange
<1>1. CASE c.op = "use" BY <1>1
<1>2. CASE c.op = "resolve" BY <1>2
<1>3. CASE c.op = "delete" BY <1>3
<1>4. CASE c.op = "rename" BY <1>4
<1>5. CASE c.op \notin {"use", "resolve", "delete", "rename"} BY <1>5
<1> QED BY <1>1, <1>2, <1>3, <1>4, <1>5

\* Every step keeps the types.
LEMMA TypeOKNext ==
  ASSUME TypeOK, [Next]_vars
  PROVE  TypeOK'
<1> USE ProcsAssumption DEF Name
<1>1. ASSUME NEW p \in Procs, Start(p) PROVE TypeOK'
  BY <1>1 DEF Start, Running, Goto, tree, locks, globals, profile, vars, TypeOK
<1>2. ASSUME NEW p \in Procs, Begin(p) PROVE TypeOK'
  <2>1. PICK l \in Labels : Goto(p, l) BY <1>2, BeginFacts DEF Labels
  <2>2. pc' \in [Procs -> Labels] BY <2>1, PcTyped, GotoTyped
  <2> QED BY <1>2, <2>2, BeginQuiet DEF TypeOK, Labels, Ended
<1>3. ASSUME NEW p \in Procs, CreateDir(p) PROVE TypeOK'
  <2>1. MakeDir(Name(p)) BY <1>3 DEF CreateDir
  <2>2. pc' \in [Procs -> Labels] BY <1>3, GotoTyped DEF TypeOK, Labels, Ended, CreateDir
  <2>3. UNCHANGED <<conf, holder, global, gholder, creds, cmd, locked, seen, gseen, faults,
                    committed>>
    BY <1>3 DEF CreateDir, locks
  <2> QED BY <2>1, <2>2, <2>3, MakeDirFacts, CommandFacts DEF TypeOK, Labels, Ended
<1>4. ASSUME NEW p \in Procs, Open(p) PROVE TypeOK'
  <2>1. MakeDir(Name(p)) BY <1>4 DEF Open
  <2>2. pc' \in [Procs -> Labels] BY <1>4, GotoTyped DEF TypeOK, Labels, Ended, Open
  <2>3. UNCHANGED <<holder, global, gholder, creds, cmd, seen, gseen, faults, committed>>
    BY <1>4 DEF Open, globals
  <2>4. dirOf'[Name(p)] \in Dirs BY <2>1, MakeDirFacts, CommandFacts
  <2>5. /\ locked' = [locked EXCEPT ![p] = dirOf'[Name(p)]]
        /\ conf' = [conf EXCEPT ![dirOf'[Name(p)]] = IF @ = Bare THEN NoFile ELSE @]
    BY <1>4 DEF Open
  <2>6. locked' \in [Procs -> Dirs \union {NoDir}] BY <2>4, <2>5 DEF TypeOK
  <2>7. conf' \in [Dirs -> (SUBSET Fields) \union {Bare, NoFile}] BY <2>4, <2>5 DEF TypeOK
  <2> QED BY <2>1, <2>2, <2>3, <2>6, <2>7, MakeDirFacts, CommandFacts DEF TypeOK, Labels, Ended
<1>5. ASSUME NEW p \in Procs, Lock(p) PROVE TypeOK'
  BY <1>5 DEF Lock, Goto, tree, locks, globals, profile, vars, TypeOK
<1>6. ASSUME NEW p \in Procs, Load(p) PROVE TypeOK'
  BY <1>6 DEF Load, Stored, Exists, Goto, tree, locks, globals, profile, vars, TypeOK
<1>7. ASSUME NEW p \in Procs, Save(p) PROVE TypeOK'
  <2>1. Change(cmd[p], seen[p]) \in SUBSET Fields BY ChangeTyped DEF TypeOK
  <2>2. /\ Replace(p, Change(cmd[p], seen[p]), "done")
        /\ UNCHANGED <<root, dirOf, dirs, initial, global, gholder, gseen, committed, creds,
                       cmd, seen>>
    BY <1>7 DEF Save, tree, globals
  <2> HIDE DEF Change
  <2>3. /\ faults' \in 0..MaxFaults
        /\ conf' \in [Dirs -> (SUBSET Fields) \union {Bare, NoFile}]
        /\ holder' = [holder EXCEPT ![locked[p]] = None] /\ locked' = [locked EXCEPT ![p] = NoDir]
        /\ Goto(p, "done") \/ Goto(p, "failed")
    BY <2>1, <2>2, ReplaceFacts DEF Labels
  <2>4. pc' \in [Procs -> Labels] BY <2>3, GotoTyped DEF TypeOK, Labels, Ended
  <2>5. /\ holder' \in [Dirs -> Procs \union {None}]
        /\ locked' \in [Procs -> Dirs \union {NoDir}]
    BY <2>3 DEF TypeOK
  <2> QED BY <2>2, <2>3, <2>4, <2>5 DEF TypeOK, Labels, Ended
<1>8. ASSUME NEW p \in Procs, SaveDefault(p) PROVE TypeOK'
  <2>1. PICK next \in Labels :
           /\ Replace(p, {}, next)
           /\ UNCHANGED <<root, dirOf, dirs, initial, global, gholder, gseen, committed, creds,
                          cmd, seen>>
    BY <1>8 DEF SaveDefault, tree, globals, Labels
  <2>2. /\ faults' \in 0..MaxFaults
        /\ conf' \in [Dirs -> (SUBSET Fields) \union {Bare, NoFile}]
        /\ holder' = [holder EXCEPT ![locked[p]] = None] /\ locked' = [locked EXCEPT ![p] = NoDir]
        /\ Goto(p, next) \/ Goto(p, "failed")
    BY <2>1, ReplaceFacts
  <2>3. pc' \in [Procs -> Labels]
    <3>1. "failed" \in Labels BY DEF Labels
    <3> QED BY <2>2, <3>1, PcTyped, GotoTyped
  <2>4. /\ holder' \in [Dirs -> Procs \union {None}]
        /\ locked' \in [Procs -> Dirs \union {NoDir}]
    BY <2>2 DEF TypeOK
  <2> QED BY <2>1, <2>2, <2>3, <2>4 DEF TypeOK, Labels, Ended
<1>9. ASSUME NEW p \in Procs, MoveCredentials(p) PROVE TypeOK'
  <2>1. pc' \in [Procs -> Labels] BY <1>9, GotoTyped DEF TypeOK, Labels, Ended, MoveCredentials
  <2>2. /\ UNCHANGED <<root, dirOf, dirs, initial, conf, holder, gholder, locked, global, cmd,
                       seen,
                       gseen, committed>>
        /\ faults' = faults \/ Fault
    BY <1>9 DEF MoveCredentials, tree, locks
  <2>3. creds' \subseteq Names
    <3>1. creds \subseteq Names BY DEF TypeOK
    <3>2. \/ creds' = creds \/ creds' = creds \ {Name(p)}
          \/ creds' = (creds \ {Name(p)}) \union {cmd[p].to}
      BY <1>9 DEF MoveCredentials
    <3> QED BY <3>1, <3>2, CommandFacts
  <2>4. faults' \in 0..MaxFaults BY <2>2, FaultTyped DEF TypeOK
  <2> QED BY <2>1, <2>2, <2>3, <2>4 DEF TypeOK, Labels, Ended
<1>10. ASSUME NEW p \in Procs, RemoveDir(p) PROVE TypeOK'
  <2>1. pc' \in [Procs -> Labels] BY <1>10, GotoTyped DEF TypeOK, Labels, Ended, RemoveDir
  <2>2. /\ UNCHANGED <<root, dirs, initial, conf, holder, gholder, locked, global, creds, cmd,
                       seen,
                       gseen, faults, committed>>
        /\ dirOf' \in [Names -> Dirs \union {NoDir}]
    BY <1>10 DEF RemoveDir, locks, TypeOK
  <2> QED BY <2>1, <2>2 DEF TypeOK, Labels, Ended
<1>11. ASSUME NEW p \in Procs, MoveDir(p) PROVE TypeOK'
  <2>1. pc' \in [Procs -> Labels] BY <1>11, GotoTyped DEF TypeOK, Labels, Ended, MoveDir
  <2>2. /\ UNCHANGED <<root, dirs, initial, conf, holder, gholder, locked, global, creds, cmd,
                       seen,
                       gseen, faults, committed>>
    BY <1>11 DEF MoveDir, locks
  <2>3. dirOf' \in [Names -> Dirs \union {NoDir}] BY <1>11, CommandFacts DEF MoveDir, TypeOK
  <2> QED BY <2>1, <2>2, <2>3 DEF TypeOK, Labels, Ended
<1>12. ASSUME NEW p \in Procs, GlobalLock(p) PROVE TypeOK'
  BY <1>12 DEF GlobalLock, Goto, tree, locks, globals, profile, vars, TypeOK
<1>13. ASSUME NEW p \in Procs, GlobalLoad(p) PROVE TypeOK'
  BY <1>13 DEF GlobalLoad, Goto, tree, locks, globals, profile, vars, TypeOK
<1>14. ASSUME NEW p \in Procs, GlobalSave(p) PROVE TypeOK'
  <2>1. pc' \in [Procs -> Labels] BY <1>14, GotoTyped DEF TypeOK, Labels, Ended, GlobalSave
  <2>2. GlobalChange(cmd[p], gseen[p]) \in Configs BY GlobalChangeTyped DEF TypeOK, Configs
  <2>3. /\ UNCHANGED <<root, dirOf, dirs, initial, conf, holder, locked, creds, cmd, seen, gseen>>
        /\ gholder' = None
        /\ faults' = faults \/ Fault
        /\ committed' = committed \/ committed' = committed \union {p}
        /\ global' = global \/ global' = GlobalChange(cmd[p], gseen[p])
    BY <1>14 DEF GlobalSave, tree, profile
  <2>5. faults' \in 0..MaxFaults /\ committed' \subseteq Procs BY <2>3, FaultTyped DEF TypeOK
  <2>4. global' \in [active : Names \union {None}, hint : BOOLEAN]
    <3>1. global \in Configs BY DEF TypeOK, Configs
    <3>2. global' \in Configs BY <2>2, <2>3, <3>1
    <3> QED BY <3>2 DEF Configs
  <2> QED BY <2>1, <2>3, <2>4, <2>5 DEF TypeOK, Labels, Ended
<1>15. ASSUME NEW p \in Procs, Crash(p) PROVE TypeOK'
  <2>1. pc' \in [Procs -> Labels] BY <1>15, GotoTyped DEF TypeOK, Labels, Ended, Crash
  <2>2. /\ UNCHANGED <<root, dirOf, dirs, initial, conf, global, creds, cmd, seen, gseen,
                       committed>>
        /\ gholder' \in Procs \union {None}
        /\ locked' \in [Procs -> Dirs \union {NoDir}]
    BY <1>15 DEF Crash, tree, TypeOK
  <2>3. holder' \in [Dirs -> Procs \union {None}] BY <1>15 DEF Crash, TypeOK
  <2>4. faults' \in 0..MaxFaults BY <1>15, FaultTyped DEF Crash, TypeOK
  <2> QED BY <2>1, <2>2, <2>3, <2>4 DEF TypeOK, Labels, Ended
<1>16. CASE UNCHANGED vars
  BY <1>16 DEF TypeOK, vars
<1> QED BY <1>1, <1>2, <1>3, <1>4, <1>5, <1>6, <1>7, <1>8, <1>9, <1>10, <1>11, <1>12, <1>13,
           <1>14, <1>15, <1>16 DEF Next, Step

\* Every step keeps the commands in their places.
LEMMA PlacedNext ==
  ASSUME TypeOK, Placed, [Next]_vars
  PROVE  Placed'
<1>1. ASSUME NEW p \in Procs, Start(p) PROVE Placed'
  BY <1>1 DEF Start, Running, Goto, tree, locks, globals, profile, vars, TypeOK, Placed,
     AtDefault, AtGlobal, Movers, Ended, Writers, Ops, Lifecycle, Commands
<1>2. ASSUME NEW p \in Procs, Begin(p) PROVE Placed'
  <2>1. PICK l \in Labels :
           /\ Goto(p, l)
           /\ l \notin {"wait", "load", "save", "default lock", "default wait", "default save",
                        "remove", "global load", "global save"}
           /\ l = "lock" => cmd[p].op \in Writers
           /\ l = "mkdir" => cmd[p].op \in {"set", "create", "resolve"}
           /\ l = "global lock" => cmd[p].op \in {"use", "hint"}
           /\ l = "creds" => cmd[p].op = "delete"
           /\ l = "move" => cmd[p].op = "rename" /\ cmd[p].to # cmd[p].name
    BY <1>2, BeginFacts, CommandFacts DEF Labels
  <2> QED BY <1>2, <2>1, BeginQuiet DEF TypeOK, Placed, Goto, AtDefault, AtGlobal, Movers
<1>3. ASSUME NEW p \in Procs, CreateDir(p) PROVE Placed'
  BY <1>3 DEF CreateDir, MakeDir, Exists, Goto, tree, locks, globals, profile, vars, TypeOK,
     Placed, AtDefault, AtGlobal, Movers, Ended, Writers, Ops, Lifecycle, Commands
<1>4. ASSUME NEW p \in Procs, Open(p) PROVE Placed'
  BY <1>4 DEF Open, MakeDir, Exists, Goto, tree, locks, globals, profile, vars, TypeOK, Placed,
     AtDefault, AtGlobal, Movers, Ended, Writers, Ops, Lifecycle, Commands
<1>5. ASSUME NEW p \in Procs, Lock(p) PROVE Placed'
  BY <1>5 DEF Lock, Goto, tree, locks, globals, profile, vars, TypeOK, Placed, AtDefault,
     AtGlobal, Movers, Ended, Writers, Ops, Lifecycle, Commands
<1>6. ASSUME NEW p \in Procs, Load(p) PROVE Placed'
  BY <1>6 DEF Load, Stored, Exists, Goto, tree, locks, globals, profile, vars, TypeOK, Placed,
     AtDefault, AtGlobal, Movers, Ended, Writers, Ops, Lifecycle, Commands
<1>7. ASSUME NEW p \in Procs, Save(p) PROVE Placed'
  <2>1. (Goto(p, "done") \/ Goto(p, "failed")) /\ cmd' = cmd BY <1>7 DEF Save, Replace
  <2>2. \A q \in Procs : pc'[q] = pc[q] \/ pc'[q] \in Ended BY <2>1 DEF TypeOK, Goto, Ended
  <2> QED BY <2>1, <2>2 DEF Placed, AtDefault, AtGlobal, Ended
<1>8. ASSUME NEW p \in Procs, SaveDefault(p) PROVE Placed'
  <2>1. PICK l \in {"lock", "done", "global lock", "failed"} :
           /\ Goto(p, l) /\ cmd' = cmd
           /\ l = "lock" => cmd[p].op = "set"
           /\ l = "global lock" => cmd[p].op = "resolve"
    BY <1>8 DEF SaveDefault, Replace, Placed, AtDefault
  <2> QED BY <2>1 DEF TypeOK, Placed, Goto, AtDefault, AtGlobal, Writers
<1>9. ASSUME NEW p \in Procs, MoveCredentials(p) PROVE Placed'
  BY <1>9 DEF MoveCredentials, Fault, Goto, tree, locks, globals, profile, vars, TypeOK,
     Placed, AtDefault, AtGlobal, Movers, Ended, Writers, Ops, Lifecycle, Commands
<1>10. ASSUME NEW p \in Procs, RemoveDir(p) PROVE Placed'
  BY <1>10 DEF RemoveDir, Goto, tree, locks, globals, profile, vars, TypeOK, Placed, AtDefault,
     AtGlobal, Movers, Ended, Writers, Ops, Lifecycle, Commands
<1>11. ASSUME NEW p \in Procs, MoveDir(p) PROVE Placed'
  <2>1. (Goto(p, "creds") \/ Goto(p, "failed")) /\ cmd' = cmd /\ pc[p] = "move" BY <1>11 DEF MoveDir
  <2>2. \A q \in Procs : \/ pc'[q] = pc[q] \/ pc'[q] \in Ended
                         \/ pc'[q] = "creds" /\ pc[q] = "move"
    BY <2>1 DEF TypeOK, Goto, Ended
  <2> QED BY <2>1, <2>2 DEF Placed, AtDefault, AtGlobal, Ended, Movers
<1>12. ASSUME NEW p \in Procs, GlobalLock(p) PROVE Placed'
  BY <1>12 DEF GlobalLock, Goto, tree, locks, globals, profile, vars, TypeOK, Placed,
     AtDefault, AtGlobal, Movers, Ended, Writers, Ops, Lifecycle, Commands
<1>13. ASSUME NEW p \in Procs, GlobalLoad(p) PROVE Placed'
  BY <1>13 DEF GlobalLoad, Goto, tree, locks, globals, profile, vars, TypeOK, Placed,
     AtDefault, AtGlobal, Movers, Ended, Writers, Ops, Lifecycle, Commands
<1>14. ASSUME NEW p \in Procs, GlobalSave(p) PROVE Placed'
  <2>1. (Goto(p, "done") \/ Goto(p, "failed")) /\ cmd' = cmd BY <1>14 DEF GlobalSave
  <2>2. \A q \in Procs : pc'[q] = pc[q] \/ pc'[q] \in Ended BY <2>1 DEF TypeOK, Goto, Ended
  <2> QED BY <2>1, <2>2 DEF Placed, AtDefault, AtGlobal, Ended
<1>15. ASSUME NEW p \in Procs, Crash(p) PROVE Placed'
  BY <1>15 DEF Crash, Fault, Running, Goto, tree, locks, globals, profile, vars, TypeOK,
     Placed, AtDefault, AtGlobal, Movers, Ended, Writers, Ops, Lifecycle, Commands
<1>16. CASE UNCHANGED vars
  BY <1>16 DEF TypeOK, Placed, AtDefault, AtGlobal, Movers, Ended, Writers, Ops, Lifecycle,
     Commands, vars
<1> QED BY <1>1, <1>2, <1>3, <1>4, <1>5, <1>6, <1>7, <1>8, <1>9, <1>10, <1>11, <1>12, <1>13,
           <1>14, <1>15, <1>16 DEF Next, Step

\* Every step keeps the global config exclusive.
LEMMA GlobalExclusiveNext ==
  ASSUME TypeOK, GlobalExclusive, [Next]_vars
  PROVE  GlobalExclusive'
<1> USE ProcsAssumption DEF None
<1>1. ASSUME NEW p \in Procs, Start(p) PROVE GlobalExclusive'
  BY <1>1 DEF Start, Running, Goto, tree, locks, globals, profile, vars, TypeOK,
     GlobalExclusive, Ended, Running
<1>2. ASSUME NEW p \in Procs, Begin(p) PROVE GlobalExclusive'
  <2>1. PICK l \in {"lock", "mkdir", "failed", "global lock", "creds", "move", "done"} : Goto(p, l)
    BY <1>2, BeginFacts
  <2>2. pc[p] = "start" BY <1>2 DEF Begin
  <2> QED BY <1>2, <2>1, <2>2, BeginQuiet DEF TypeOK, GlobalExclusive, Goto, Ended
<1>3. ASSUME NEW p \in Procs, CreateDir(p) PROVE GlobalExclusive'
  BY <1>3 DEF CreateDir, MakeDir, Exists, Goto, tree, locks, globals, profile, vars, TypeOK,
     GlobalExclusive, Ended, Running
<1>4. ASSUME NEW p \in Procs, Open(p) PROVE GlobalExclusive'
  BY <1>4 DEF Open, MakeDir, Exists, Goto, tree, locks, globals, profile, vars, TypeOK,
     GlobalExclusive, Ended, Running
<1>5. ASSUME NEW p \in Procs, Lock(p) PROVE GlobalExclusive'
  BY <1>5 DEF Lock, Goto, tree, locks, globals, profile, vars, TypeOK, GlobalExclusive, Ended,
     Running
<1>6. ASSUME NEW p \in Procs, Load(p) PROVE GlobalExclusive'
  BY <1>6 DEF Load, Stored, Exists, Goto, tree, locks, globals, profile, vars, TypeOK,
     GlobalExclusive, Ended, Running
<1>7. ASSUME NEW p \in Procs, Save(p) PROVE GlobalExclusive'
  BY <1>7 DEF Save, Replace, Fault, Exists, Unlock, Goto, tree, locks, globals, profile, vars,
     TypeOK, GlobalExclusive, Ended, Running
<1>8. ASSUME NEW p \in Procs, SaveDefault(p) PROVE GlobalExclusive'
  BY <1>8 DEF SaveDefault, Replace, Fault, Exists, Unlock, Goto, tree, locks, globals, profile,
     vars, TypeOK, GlobalExclusive, Ended, Running
<1>9. ASSUME NEW p \in Procs, MoveCredentials(p) PROVE GlobalExclusive'
  BY <1>9 DEF MoveCredentials, Fault, Goto, tree, locks, globals, profile, vars, TypeOK,
     GlobalExclusive, Ended, Running
<1>10. ASSUME NEW p \in Procs, RemoveDir(p) PROVE GlobalExclusive'
  BY <1>10 DEF RemoveDir, Goto, tree, locks, globals, profile, vars, TypeOK, GlobalExclusive,
     Ended, Running
<1>11. ASSUME NEW p \in Procs, MoveDir(p) PROVE GlobalExclusive'
  BY <1>11 DEF MoveDir, Exists, Goto, tree, locks, globals, profile, vars, TypeOK,
     GlobalExclusive, Ended, Running
<1>12. ASSUME NEW p \in Procs, GlobalLock(p) PROVE GlobalExclusive'
  BY <1>12 DEF GlobalLock, Goto, tree, locks, globals, profile, vars, TypeOK, GlobalExclusive,
     Ended, Running
<1>13. ASSUME NEW p \in Procs, GlobalLoad(p) PROVE GlobalExclusive'
  BY <1>13 DEF GlobalLoad, Goto, tree, locks, globals, profile, vars, TypeOK, GlobalExclusive,
     Ended, Running
<1>14. ASSUME NEW p \in Procs, GlobalSave(p) PROVE GlobalExclusive'
  BY <1>14 DEF GlobalSave, Fault, Goto, tree, locks, globals, profile, vars, TypeOK,
     GlobalExclusive, Ended, Running
<1>15. ASSUME NEW p \in Procs, Crash(p) PROVE GlobalExclusive'
  BY <1>15 DEF Crash, Fault, Running, Goto, tree, locks, globals, profile, vars, TypeOK,
     GlobalExclusive, Ended, Running
<1>16. CASE UNCHANGED vars
  BY <1>16 DEF TypeOK, GlobalExclusive, Ended, Running, vars
<1> QED BY <1>1, <1>2, <1>3, <1>4, <1>5, <1>6, <1>7, <1>8, <1>9, <1>10, <1>11, <1>12, <1>13,
           <1>14, <1>15, <1>16 DEF Next, Step


----------------------------------------------------------------------------
\* A step is taken by an invocation that runs, and moves no other.
LEMMA StepMoves ==
  ASSUME TypeOK, NEW p \in Procs, Step(p) \/ Crash(p)
  PROVE  /\ cmd' = cmd /\ Running(p)
         /\ \A q \in Procs : q # p => pc'[q] = pc[q]
<1>1. ASSUME NEW l \in Labels, Goto(p, l) PROVE \A q \in Procs : q # p => pc'[q] = pc[q]
  BY <1>1 DEF Goto, TypeOK
<1>2. CASE Begin(p) \/ CreateDir(p) \/ Open(p) \/ Lock(p) \/ Load(p)
  BY <1>2 DEF Begin, CreateDir, Open, Lock, Load, Running, Ended, Goto, TypeOK
<1>3. CASE Save(p) \/ SaveDefault(p)
  BY <1>3 DEF Save, SaveDefault, Replace, Running, Ended, Goto, TypeOK
<1>4. CASE MoveCredentials(p) \/ RemoveDir(p) \/ MoveDir(p)
  BY <1>4 DEF MoveCredentials, RemoveDir, MoveDir, Running, Ended, Goto, TypeOK
<1>5. CASE GlobalLock(p) \/ GlobalLoad(p) \/ GlobalSave(p)
  BY <1>5 DEF GlobalLock, GlobalLoad, GlobalSave, Running, Ended, Goto, TypeOK
<1>6. CASE Crash(p) BY <1>6 DEF Crash, Goto, TypeOK
<1> QED BY <1>2, <1>3, <1>4, <1>5, <1>6 DEF Step

\* Every step keeps the commands that move directories alone.
LEMMA AloneNext ==
  ASSUME TypeOK, Alone, [Next]_vars
  PROVE  Alone'
<1>1. ASSUME NEW p \in Procs, Start(p) PROVE Alone'
  <2>1. /\ cmd' = cmd /\ pc[p] = "idle"
        /\ \A q \in Procs : Running(q) => {cmd[p].op, cmd[q].op} \in Together
        /\ \A q \in Procs : q # p => pc'[q] = pc[q]
    BY <1>1 DEF Start, Goto, TypeOK
  <2>2. \A q \in Procs : q # p => (Running(q)' <=> Running(q)) BY <2>1 DEF Running
  <2>3. SUFFICES ASSUME NEW r \in Procs, NEW q \in Procs, r # q, Running(r)', Running(q)',
                        cmd[r].op \in Movers
                 PROVE  cmd[q].op = "hint"
    BY <2>1 DEF Alone
  <2>4. CASE r = p BY <2>1, <2>2, <2>3, <2>4, CommandFacts, TogetherAssumption DEF Movers
  <2>5. CASE q = p
    <3>1. {cmd[r].op, cmd[q].op} \in Together
      <4>1. {cmd[p].op, cmd[r].op} \in Together BY <2>1, <2>2, <2>3, <2>5
      <4>2. {cmd[p].op, cmd[r].op} = {cmd[r].op, cmd[p].op} OBVIOUS
      <4> QED BY <2>5, <4>1, <4>2
    <3> QED BY <2>3, <3>1, CommandFacts, TogetherAssumption DEF Movers
  <2>6. CASE r # p /\ q # p BY <2>2, <2>3, <2>6 DEF Alone
  <2> QED BY <2>4, <2>5, <2>6
<1>2. ASSUME NEW p \in Procs, Step(p) \/ Crash(p) PROVE Alone'
  <2>1. \A q \in Procs : Running(q)' => Running(q) BY <1>2, StepMoves DEF Running
  <2> QED BY <1>2, <2>1, StepMoves DEF Alone
<1>3. CASE UNCHANGED vars BY <1>3 DEF vars, Alone, Running
<1> QED BY <1>1, <1>2, <1>3 DEF Next

\* Nobody else is at a lock, or about to name the active profile, while a delete or
\* a rename runs.
LEMMA MoversAlone ==
  ASSUME TypeOK, Placed, Alone, NEW p \in Procs, Running(p), cmd[p].op \in Movers,
         NEW q \in Procs, q # p
  PROVE  /\ pc[q] \notin AtLock \union AtDefault \union {"lock", "creds"}
         /\ pc[q] \in AtGlobal => cmd[q].op = "hint"
<1>1. ASSUME pc[q] \in AtLock \union AtDefault \union AtGlobal \union {"lock", "creds"}
      PROVE  cmd[q].op = "hint"
  BY <1>1 DEF Alone, Running, Ended, AtLock, AtDefault, AtGlobal
<1> QED BY <1>1 DEF Placed, Movers, Writers, AtLock, AtDefault, AtGlobal

\* The steps that leave the directories where they are.
LEMMA TreeKept ==
  ASSUME NEW p \in Procs,
         \/ Start(p) \/ Begin(p) \/ Lock(p) \/ Load(p) \/ Save(p) \/ SaveDefault(p)
         \/ MoveCredentials(p) \/ GlobalLock(p) \/ GlobalLoad(p) \/ GlobalSave(p) \/ Crash(p)
  PROVE  UNCHANGED <<root, dirOf, dirs, initial>>
BY DEF Start, Begin, Lock, Load, Save, SaveDefault, MoveCredentials, GlobalLock, GlobalLoad,
  GlobalSave, Crash, tree

\* A rename moves the directory to a name that had none, or an empty one.
LEMMA MoveDirFacts ==
  ASSUME TypeOK, Placed, NEW p \in Procs, MoveDir(p)
  PROVE  /\ Running(p) /\ cmd[p].op = "rename" /\ cmd[p].to # Name(p)
         /\ UNCHANGED <<root, dirs, initial, conf, global, cmd, faults>>
         /\ \/ /\ pc' = [pc EXCEPT ![p] = "creds"] /\ dirOf[Name(p)] # NoDir
               /\ dirOf' = [n \in Names |-> IF n = Name(p) THEN NoDir
                                            ELSE IF n = cmd[p].to THEN dirOf[Name(p)] ELSE dirOf[n]]
            \/ pc' = [pc EXCEPT ![p] = "failed"] /\ dirOf' = dirOf
<1>1. pc[p] = "move" BY DEF MoveDir
<1>2. cmd[p].op = "rename" /\ cmd[p].to # Name(p) BY <1>1, CommandFacts DEF Placed
<1>3. Running(p) BY <1>1 DEF Running, Ended
<1>4. CASE /\ Exists(Name(p)) /\ Goto(p, "creds")
           /\ dirOf' = [dirOf EXCEPT ![cmd[p].to] = dirOf[Name(p)], ![Name(p)] = NoDir]
  BY <1>2, <1>3, <1>4, CommandFacts DEF MoveDir, Exists, Goto, TypeOK
<1>5. CASE Goto(p, "failed") /\ dirOf' = dirOf
  BY <1>2, <1>3, <1>5 DEF MoveDir, Goto
<1> QED BY <1>4, <1>5 DEF MoveDir

\* Directories are numbers.
LEMMA TreeNumbers ==
  ASSUME TypeOK
  PROVE  dirs \in Nat /\ initial \subseteq Nat /\ dirOf \in [Names -> Nat] /\ NoDir \in Nat
<1>1. /\ dirs \in 0..MaxDirs /\ initial \subseteq Dirs
      /\ dirOf \in [Names -> Dirs \union {NoDir}]
  BY DEF TypeOK
<1>2. Dirs \subseteq Nat /\ NoDir \in Nat BY Bounds DEF Dirs, NoDir
<1>3. dirs \in Nat BY <1>1, Bounds
<1>4. dirOf \in [Names -> Nat] BY <1>1, <1>2
<1> QED BY <1>1, <1>2, <1>3, <1>4

\* Every step keeps the tree.
LEMMA TreeNext ==
  ASSUME TypeOK, Placed, Tree, [Next]_vars
  PROVE  Tree'
<1>1. ASSUME NEW p \in Procs, CreateDir(p) \/ Open(p) PROVE Tree'
  <2>1. MakeDir(Name(p)) /\ Name(p) \in Names BY <1>1, CommandFacts DEF CreateDir, Open
  <2>2. dirs \in Nat /\ initial \subseteq Nat /\ dirOf \in [Names -> Nat] BY TreeNumbers
  <2>3. CASE dirOf' = dirOf /\ dirs' = dirs /\ root' = root
    BY <2>1, <2>3, MakeDirFacts DEF Tree
  <2>4. CASE dirOf'[Name(p)] = dirs + 1 /\ dirs' = dirs + 1 /\ root' = TRUE
    <3>1. initial' = initial /\ \A m \in Names : m # Name(p) => dirOf'[m] = dirOf[m]
      BY <2>1, MakeDirFacts
    <3>2. \A m \in Names : m # Name(p) => dirOf'[m] # dirs + 1 BY <2>2, <3>1 DEF Tree
    <3> QED BY <2>1, <2>2, <2>4, <3>1, <3>2 DEF Tree
  <2> QED BY <2>1, <2>3, <2>4, MakeDirFacts
<1>2. ASSUME NEW p \in Procs, RemoveDir(p) PROVE Tree'
  <2>1. /\ dirOf' = [dirOf EXCEPT ![Name(p)] = NoDir] /\ Name(p) \in Names
        /\ UNCHANGED <<root, dirs, initial>>
    BY <1>2, CommandFacts DEF RemoveDir
  <2> QED BY <2>1, TreeNumbers DEF Tree, NoDir
<1>3. ASSUME NEW p \in Procs, MoveDir(p) PROVE Tree'
  <2>1. dirs \in Nat /\ dirOf \in [Names -> Nat] BY TreeNumbers
  <2>2. UNCHANGED <<root, dirs, initial>> BY <1>3, MoveDirFacts
  <2>3. CASE dirOf' = dirOf BY <2>2, <2>3 DEF Tree
  <2>4. CASE dirOf' = [n \in Names |-> IF n = Name(p) THEN NoDir
                                       ELSE IF n = cmd[p].to THEN dirOf[Name(p)] ELSE dirOf[n]]
    BY <2>1, <2>2, <2>4, CommandFacts DEF Tree, NoDir
  <2> QED BY <1>3, <2>3, <2>4, MoveDirFacts
<1>4. CASE UNCHANGED <<root, dirOf, dirs, initial>> BY <1>4 DEF Tree
<1>5. CASE UNCHANGED vars BY <1>4, <1>5 DEF vars
<1> QED BY <1>1, <1>2, <1>3, <1>4, <1>5, TreeKept DEF Next, Step

\* The steps that touch neither the configs and locks of profiles nor what a writer
\* has loaded.
LEMMA ProfileKept ==
  ASSUME TypeOK, NEW p \in Procs,
         \/ Start(p) \/ Begin(p) \/ CreateDir(p) \/ MoveCredentials(p) \/ GlobalLock(p)
         \/ GlobalLoad(p) \/ GlobalSave(p)
  PROVE  /\ UNCHANGED <<conf, holder, locked, seen, cmd>>
         /\ pc'[p] \notin AtLock
         /\ \A q \in Procs : q # p => pc'[q] = pc[q]
<1>1. CASE Begin(p)
  <2>1. PICK l \in {"lock", "mkdir", "failed", "global lock", "creds", "move", "done"} : Goto(p, l)
    BY <1>1, BeginFacts
  <2> QED BY <1>1, <2>1, BeginQuiet DEF Goto, AtLock, TypeOK
<1>2. CASE Start(p) \/ CreateDir(p) \/ MoveCredentials(p)
  BY <1>2 DEF Start, CreateDir, MoveCredentials, locks, Goto, AtLock, TypeOK
<1>3. CASE GlobalLock(p) \/ GlobalLoad(p) \/ GlobalSave(p)
  BY <1>3 DEF GlobalLock, GlobalLoad, GlobalSave, profile, Goto, AtLock, TypeOK
<1> QED BY <1>1, <1>2, <1>3

\* A profile that has a directory keeps it, unless a delete or a rename takes it.
LEMMA DirsStay ==
  ASSUME TypeOK, NEW p \in Procs,
         \/ Start(p) \/ Begin(p) \/ CreateDir(p) \/ Open(p) \/ Lock(p) \/ Load(p) \/ Save(p)
         \/ SaveDefault(p) \/ MoveCredentials(p) \/ GlobalLock(p) \/ GlobalLoad(p)
         \/ GlobalSave(p) \/ Crash(p)
  PROVE  /\ \A n \in Names : dirOf[n] # NoDir => dirOf'[n] = dirOf[n]
         /\ initial' = initial
<1>1. CASE CreateDir(p) \/ Open(p)
  <2>1. MakeDir(Name(p)) BY <1>1 DEF CreateDir, Open
  <2> QED BY <2>1, MakeDirFacts, CommandFacts
<1>2. CASE ~(CreateDir(p) \/ Open(p)) BY <1>2, TreeKept
<1> QED BY <1>1, <1>2

\* What keeps a writer's claim, while others take their steps.
LEMMA ExclusiveKept ==
  ASSUME TypeOK, NEW q \in Procs, Exclusive(q),
         UNCHANGED <<pc[q], locked[q], seen[q], cmd[q]>>,
         \A n \in Names : dirOf[n] # NoDir => dirOf'[n] = dirOf[n],
         pc[q] \in Inside => holder'[locked[q]] = holder[locked[q]],
         pc[q] = "save" => conf'[dirOf[Name(q)]] \intersect Fields = Stored(dirOf[Name(q)])
  PROVE  Exclusive(q)'
<1>1. Name(q)' = Name(q) /\ Name(q) \in Names BY CommandFacts DEF Name
<1>2. ASSUME pc[q] \in AtLock
      PROVE  locked[q] = dirOf[Name(q)] /\ locked[q] # NoDir /\ dirOf'[Name(q)'] = dirOf[Name(q)]
  BY <1>1, <1>2 DEF Exclusive
<1>3. pc[q] \in Inside \/ pc[q] = "save" => pc[q] \in AtLock BY DEF Inside, AtLock
<1>4. ASSUME pc[q] = "save" PROVE seen'[q] = Stored(dirOf[Name(q)])'
  BY <1>1, <1>2, <1>3, <1>4 DEF Exclusive, Stored
<1> QED BY <1>1, <1>2, <1>3, <1>4 DEF Exclusive

\* Nothing is claimed before the lock file is opened.
LEMMA ExclusiveIdle == ASSUME NEW q, pc'[q] \notin AtLock PROVE Exclusive(q)'
BY DEF Exclusive, AtLock, Inside

\* Every step keeps the writers of a config apart.
LEMMA WriterExclusiveNext ==
  ASSUME TypeOK, Placed, Alone, Tree, WriterExclusive, [Next]_vars
  PROVE  WriterExclusive'
<1> USE DEF WriterExclusive
<1>1. ASSUME NEW p \in Procs,
             \/ Start(p) \/ Begin(p) \/ CreateDir(p) \/ MoveCredentials(p) \/ GlobalLock(p)
             \/ GlobalLoad(p) \/ GlobalSave(p)
      PROVE  WriterExclusive'
  <2>1. /\ UNCHANGED <<conf, holder, locked, seen, cmd>>
        /\ pc'[p] \notin AtLock
        /\ \A q \in Procs : q # p => pc'[q] = pc[q]
    BY <1>1, ProfileKept
  <2>2. \A n \in Names : dirOf[n] # NoDir => dirOf'[n] = dirOf[n] BY <1>1, DirsStay
  <2>3. ASSUME NEW q \in Procs, q # p PROVE Exclusive(q)'
    BY <2>1, <2>2, <2>3, ExclusiveKept DEF Stored
  <2> QED BY <2>1, <2>3, ExclusiveIdle
<1>2. ASSUME NEW p \in Procs, Open(p) PROVE WriterExclusive'
  <2>1. /\ MakeDir(Name(p)) /\ UNCHANGED <<holder, cmd, seen>>
        /\ locked' = [locked EXCEPT ![p] = dirOf'[Name(p)]]
        /\ pc'[p] \in {"wait", "default wait"}
        /\ \A q \in Procs : q # p => pc'[q] = pc[q]
    BY <1>2 DEF Open, Goto, TypeOK
  <2>2. dirOf'[Name(p)] \in Dirs BY <2>1, MakeDirFacts, CommandFacts
  <2>3. dirOf'[Name(p)] # NoDir BY <2>2, Bounds DEF Dirs, NoDir
  <2>4. \A d \in Dirs : Stored(d)' = Stored(d)
    BY <1>2, <2>2 DEF Open, Stored, Bare, NoFile, Fields, TypeOK
  <2>5. \A n \in Names : dirOf[n] # NoDir => dirOf'[n] = dirOf[n] BY <1>2, DirsStay
  <2>6. \A q \in Procs : q # p => locked'[q] = locked[q] BY <2>1 DEF TypeOK
  <2>7. locked'[p] = dirOf'[Name(p)] BY <2>1 DEF TypeOK
  <2>8. Exclusive(p)'
    <3>1. Name(p)' = Name(p) BY <2>1 DEF Name
    <3> QED BY <2>1, <2>3, <2>7, <3>1 DEF Exclusive, Inside
  <2>9. ASSUME NEW q \in Procs, q # p PROVE Exclusive(q)'
    <3>1. ASSUME pc[q] = "save" PROVE dirOf[Name(q)] \in Dirs
      BY <3>1, CommandFacts DEF Exclusive, AtLock, TypeOK
    <3>2. pc[q] = "save" => conf'[dirOf[Name(q)]] \intersect Fields = Stored(dirOf[Name(q)])
      BY <2>4, <3>1 DEF Stored
    <3> QED BY <2>1, <2>5, <2>6, <2>9, <3>2, ExclusiveKept
  <2> QED BY <2>8, <2>9
<1>3. ASSUME NEW p \in Procs, Lock(p) PROVE WriterExclusive'
  <2>1. /\ UNCHANGED <<conf, locked, seen, cmd, dirOf>> /\ holder[locked[p]] = None
        /\ pc[p] \in AtLock /\ locked[p] \in Dirs \union {NoDir}
        /\ pc'[p] \in {"load", "default save"}
        /\ \A q \in Procs : q # p => pc'[q] = pc[q]
    BY <1>3 DEF Lock, tree, Goto, AtLock, TypeOK
  <2>2. locked[p] \in Dirs BY <2>1 DEF Exclusive
  <2>3. holder'[locked[p]] = p /\ \A d \in Dirs : d # locked[p] => holder'[d] = holder[d]
    BY <1>3, <2>2 DEF Lock, TypeOK
  <2>4. \A q \in Procs : pc[q] \in Inside => locked[q] \in Dirs /\ locked[q] # locked[p]
    <3> SUFFICES ASSUME NEW q \in Procs, pc[q] \in Inside
                 PROVE  locked[q] \in Dirs /\ locked[q] # locked[p]
      OBVIOUS
    <3>1. pc[q] \in AtLock BY DEF Inside, AtLock
    <3>2. locked[q] # NoDir /\ holder[locked[q]] = q BY <3>1 DEF Exclusive
    <3> QED BY <2>1, <3>2, ProcsAssumption DEF TypeOK, None
  <2>6. ASSUME NEW q \in Procs, q # p PROVE Exclusive(q)'
    BY <2>1, <2>3, <2>4, <2>6, ExclusiveKept DEF Stored
  <2>7. Exclusive(p)'
    <3>1. Name(p)' = Name(p) BY <2>1 DEF Name
    <3> QED BY <2>1, <2>3, <3>1 DEF Exclusive
  <2> QED BY <2>6, <2>7
<1>4. ASSUME NEW p \in Procs, Load(p) PROVE WriterExclusive'
  <2>1. /\ UNCHANGED <<conf, holder, locked, cmd, dirOf>> /\ pc[p] = "load" /\ pc'[p] = "save"
        /\ \A q \in Procs : q # p => pc'[q] = pc[q]
        /\ seen'[p] = IF Exists(Name(p)) THEN Stored(dirOf[Name(p)]) ELSE {}
        /\ \A q \in Procs : q # p => seen'[q] = seen[q]
    BY <1>4 DEF Load, tree, locks, Goto, TypeOK
  <2>2. ASSUME NEW q \in Procs, q # p PROVE Exclusive(q)'
    BY <2>1, <2>2, ExclusiveKept DEF Stored
  <2>3. Exclusive(p)'
    <3>1. Name(p)' = Name(p) BY <2>1 DEF Name
    <3> QED BY <2>1, <3>1 DEF Exclusive, AtLock, Inside, Stored, Exists
  <2> QED BY <2>2, <2>3
<1>5. ASSUME NEW p \in Procs, Save(p) \/ SaveDefault(p) PROVE WriterExclusive'
  <2>1. /\ UNCHANGED <<dirOf, cmd, seen>> /\ pc[p] \in Inside /\ pc'[p] \notin AtLock
        /\ \A q \in Procs : q # p => pc'[q] = pc[q]
        /\ conf' = conf \/ \E v : conf' = [conf EXCEPT ![dirOf[Name(p)]] = v]
        /\ holder' = [holder EXCEPT ![locked[p]] = None]
        /\ locked' = [locked EXCEPT ![p] = NoDir]
    <3>1. CASE Save(p)
      BY <3>1 DEF Save, Replace, Unlock, tree, Goto, TypeOK, Inside, AtLock
    <3>2. CASE SaveDefault(p)
      BY <3>2 DEF SaveDefault, Replace, Unlock, tree, Goto, TypeOK, Inside, AtLock
    <3> QED BY <1>5, <3>1, <3>2
  <2>2. locked[p] = dirOf[Name(p)] /\ holder[locked[p]] = p
    BY <2>1 DEF Exclusive, Inside, AtLock
  <2>3. \A q \in Procs : q # p => locked'[q] = locked[q] BY <2>1 DEF TypeOK
  <2>4. ASSUME NEW q \in Procs, q # p, pc[q] \in Inside
        PROVE  /\ locked[q] # locked[p] /\ holder'[locked[q]] = q
               /\ conf'[dirOf[Name(q)]] \intersect Fields = Stored(dirOf[Name(q)])
    <3>1. /\ locked[q] = dirOf[Name(q)] /\ locked[q] # NoDir /\ holder[locked[q]] = q
      BY <2>4 DEF Exclusive, Inside, AtLock
    <3>2. locked[q] # locked[p] BY <2>2, <2>4, <3>1
    <3>3. locked[q] \in Dirs BY <3>1 DEF TypeOK
    <3>4. holder'[locked[q]] = q BY <2>1, <3>1, <3>2, <3>3 DEF TypeOK
    <3>5. conf'[locked[q]] = conf[locked[q]] BY <2>1, <2>2, <3>2, <3>3 DEF TypeOK
    <3> QED BY <3>1, <3>2, <3>4, <3>5 DEF Stored
  <2>5. ASSUME NEW q \in Procs, q # p PROVE Exclusive(q)'
    <3>1. pc[q] \in Inside => holder'[locked[q]] = holder[locked[q]]
      BY <2>4, <2>5 DEF Exclusive
    <3>2. pc[q] = "save" => conf'[dirOf[Name(q)]] \intersect Fields = Stored(dirOf[Name(q)])
      BY <2>4, <2>5 DEF Inside
    <3> QED BY <2>1, <2>3, <2>5, <3>1, <3>2, ExclusiveKept
  <2> QED BY <2>1, <2>5, ExclusiveIdle
<1>6. ASSUME NEW p \in Procs, RemoveDir(p) \/ MoveDir(p) PROVE WriterExclusive'
  <2>1. Running(p) /\ cmd[p].op \in Movers
    BY <1>6 DEF RemoveDir, MoveDir, Running, Ended, Placed, Movers
  <2>2. \A q \in Procs : q # p => pc'[q] \notin AtLock
    BY <1>6, <2>1, MoversAlone, StepMoves DEF Step
  <2>3. pc'[p] \notin AtLock BY <1>6 DEF RemoveDir, MoveDir, Goto, TypeOK, AtLock
  <2> QED BY <2>2, <2>3, ExclusiveIdle
<1>7. ASSUME NEW p \in Procs, Crash(p) PROVE WriterExclusive'
  <2>1. /\ UNCHANGED <<conf, seen, cmd, dirOf>> /\ pc'[p] = "dead"
        /\ \A q \in Procs : q # p => pc'[q] = pc[q] /\ locked'[q] = locked[q]
        /\ \A d \in Dirs : holder[d] # p => holder'[d] = holder[d]
    BY <1>7 DEF Crash, tree, Goto, TypeOK
  <2>2. ASSUME NEW q \in Procs, q # p, pc[q] \in Inside PROVE holder'[locked[q]] = q
    <3>1. locked[q] # NoDir /\ holder[locked[q]] = q BY <2>2 DEF Exclusive, Inside, AtLock
    <3>2. locked[q] \in Dirs BY <3>1 DEF TypeOK
    <3> QED BY <2>1, <2>2, <3>1, <3>2
  <2>3. ASSUME NEW q \in Procs, q # p PROVE Exclusive(q)'
    <3>1. pc[q] \in Inside => holder'[locked[q]] = holder[locked[q]]
      BY <2>2, <2>3 DEF Exclusive
    <3> QED BY <2>1, <2>3, <3>1, ExclusiveKept DEF Stored
  <2> QED BY <2>1, <2>3, ExclusiveIdle DEF AtLock
<1>8. CASE UNCHANGED vars
  BY <1>8 DEF vars, Exclusive, Stored, Name
<1> QED BY <1>1, <1>2, <1>3, <1>4, <1>5, <1>6, <1>7, <1>8 DEF Next, Step

\* Every step keeps the configs of the profiles there at the start.
LEMMA InitialKeptNext ==
  ASSUME TypeOK, Placed, Alone, Tree, WriterExclusive, InitialKept, [Next]_vars
  PROVE  InitialKept'
<1> DEFINE Configured == \A d \in initial : conf[d] \subseteq Fields
           Fresh(q) == pc[q] \in AtDefault => dirOf[Name(q)] \notin initial
<1>1. Configured /\ \A q \in Procs : Fresh(q) BY DEF InitialKept
<1>2. ASSUME NEW p \in Procs, Step(p) \/ Start(p) \/ Crash(p), ~RemoveDir(p), ~MoveDir(p)
      PROVE  \A q \in Procs : q # p => Fresh(q)'
  <2> SUFFICES ASSUME NEW q \in Procs, q # p, pc'[q] \in AtDefault
               PROVE  dirOf'[Name(q)'] \notin initial'
    OBVIOUS
  <2>1. pc'[q] = pc[q] /\ cmd' = cmd BY <1>2, StepMoves DEF Start, Goto, TypeOK
  <2>2. Name(q)' = Name(q) /\ Name(q) \in Names BY <2>1, CommandFacts DEF Name
  <2>3. dirOf[Name(q)] \notin initial /\ initial' = initial BY <1>1, <1>2, <2>1, DirsStay DEF Step
  <2>4. dirOf'[Name(q)] = dirOf[Name(q)] \/ dirOf'[Name(q)] = dirs + 1
    <3>1. CASE CreateDir(p) \/ Open(p)
      <4>1. MakeDir(Name(p)) BY <3>1 DEF CreateDir, Open
      <4> QED BY <2>2, <4>1, MakeDirFacts, CommandFacts
    <3>2. CASE ~(CreateDir(p) \/ Open(p)) BY <1>2, <3>2, TreeKept DEF Step
    <3> QED BY <3>1, <3>2
  <2>5. dirs + 1 \notin initial BY TreeNumbers DEF Tree
  <2> QED BY <2>2, <2>3, <2>4, <2>5
<1>3. ASSUME NEW p \in Procs,
             \/ Start(p) \/ Begin(p) \/ CreateDir(p) \/ MoveCredentials(p) \/ GlobalLock(p)
             \/ GlobalLoad(p) \/ GlobalSave(p)
      PROVE  InitialKept'
  <2>1. Configured' BY <1>1, <1>3, ProfileKept, DirsStay
  <2>2. Fresh(p)'
    <3>1. CASE Begin(p)
      <4>1. /\ UNCHANGED <<dirOf, initial, cmd>>
            /\ pc'[p] \in AtDefault => ~Exists(Name(p)) \/ ~root
        <5>1. PICK l \in Labels :
                 /\ Goto(p, l)
                 /\ l = "mkdir" => ~Exists(Name(p)) \/ ~root
                 /\ l \notin {"default lock", "default wait", "default save"}
          BY <3>1, BeginFacts DEF Labels
        <5> QED BY <3>1, <5>1, BeginQuiet DEF Goto, TypeOK, AtDefault
      <4>2. Name(p)' = Name(p) BY <4>1 DEF Name
      <4>3. NoDir \notin initial BY TreeNumbers DEF Tree, NoDir
      <4> QED BY <4>1, <4>2, <4>3 DEF Exists, Tree
    <3>2. CASE CreateDir(p)
      <4>1. MakeDir(Name(p)) /\ cmd' = cmd /\ pc[p] = "mkdir" BY <3>2 DEF CreateDir
      <4>2. dirOf[Name(p)] \notin initial BY <1>1, <4>1 DEF AtDefault
      <4>3. /\ dirOf'[Name(p)] = dirOf[Name(p)] \/ dirOf'[Name(p)] = dirs + 1
            /\ initial' = initial
        BY <4>1, MakeDirFacts, CommandFacts
      <4>4. dirs + 1 \notin initial BY TreeNumbers DEF Tree
      <4>5. Name(p)' = Name(p) BY <4>1 DEF Name
      <4> QED BY <4>2, <4>3, <4>4, <4>5
    <3>3. CASE ~(Begin(p) \/ CreateDir(p))
      <4>1. pc'[p] \notin AtDefault
        BY <1>3, <3>3 DEF Start, MoveCredentials, GlobalLock, GlobalLoad, GlobalSave, Goto,
           TypeOK,
          AtDefault
      <4> QED BY <4>1
    <3> QED BY <3>1, <3>2, <3>3
  <2>3. ~RemoveDir(p) /\ ~MoveDir(p)
    BY <1>3 DEF Start, Begin, CreateDir, MoveCredentials, GlobalLock, GlobalLoad, GlobalSave,
      RemoveDir, MoveDir
  <2>4. Step(p) \/ Start(p) \/ Crash(p) BY <1>3 DEF Step
  <2> QED BY <1>2, <2>1, <2>2, <2>3, <2>4 DEF InitialKept
<1>4. ASSUME NEW p \in Procs, Open(p) PROVE InitialKept'
  <2>1. /\ MakeDir(Name(p)) /\ cmd' = cmd /\ pc[p] \in {"lock", "default lock"}
        /\ conf' = [conf EXCEPT ![dirOf'[Name(p)]] = IF @ = Bare THEN NoFile ELSE @]
        /\ pc'[p] = IF pc[p] = "lock" THEN "wait" ELSE "default wait"
    BY <1>4 DEF Open, Goto, TypeOK
  <2>2. /\ dirOf'[Name(p)] = dirOf[Name(p)] \/ dirOf'[Name(p)] = dirs + 1
        /\ initial' = initial /\ dirOf'[Name(p)] \in Dirs
    BY <2>1, MakeDirFacts, CommandFacts
  <2>3. Bare \notin SUBSET Fields BY DEF Bare, Fields
  <2>4. Configured'
    <3>1. \A d \in initial : d \in Dirs BY DEF TypeOK
    <3>2. \A d \in initial : conf'[d] = conf[d] BY <1>1, <2>1, <2>2, <2>3, <3>1 DEF TypeOK
    <3> QED BY <1>1, <2>2, <3>2
  <2>5. Fresh(p)'
    <3>1. dirs + 1 \notin initial BY TreeNumbers DEF Tree
    <3>2. Name(p)' = Name(p) BY <2>1 DEF Name
    <3>3. pc'[p] \in AtDefault => dirOf[Name(p)] \notin initial BY <1>1, <2>1 DEF AtDefault
    <3> QED BY <2>2, <3>1, <3>2, <3>3
  <2>6. ~RemoveDir(p) /\ ~MoveDir(p) BY <2>1 DEF RemoveDir, MoveDir
  <2> QED BY <1>2, <1>4, <2>4, <2>5, <2>6 DEF InitialKept, Step
<1>5. ASSUME NEW p \in Procs, Lock(p) \/ Load(p) \/ Crash(p) PROVE InitialKept'
  <2>1. /\ UNCHANGED <<conf, initial, dirOf, cmd>>
        /\ pc'[p] \in AtDefault => pc[p] \in AtDefault
    BY <1>5 DEF Lock, Load, Crash, tree, Goto, TypeOK, AtDefault
  <2>2. Configured' BY <1>1, <2>1
  <2>3. Name(p)' = Name(p) BY <2>1 DEF Name
  <2>4. Fresh(p)' BY <1>1, <2>1, <2>3
  <2>5. ~RemoveDir(p) /\ ~MoveDir(p)
    BY <1>5 DEF Lock, Load, Crash, RemoveDir, MoveDir, Goto, TypeOK
  <2> QED BY <1>2, <1>5, <2>2, <2>4, <2>5 DEF InitialKept, Step
<1>6. ASSUME NEW p \in Procs, Save(p) \/ SaveDefault(p) PROVE InitialKept'
  <2>1. /\ conf' = conf \/ \E v \in SUBSET Fields : conf' = [conf EXCEPT ![dirOf[Name(p)]] = v]
        /\ initial' = initial /\ pc'[p] \notin AtDefault
    <3>1. CASE Save(p)
      <4>1. Change(cmd[p], seen[p]) \in SUBSET Fields BY ChangeTyped DEF TypeOK
      <4>2. /\ conf' = conf \/ conf' = [conf EXCEPT ![dirOf[Name(p)]] = Change(cmd[p], seen[p])]
        BY <3>1 DEF Save, Replace
      <4>3. initial' = initial BY <3>1 DEF Save, tree
      <4>4. pc'[p] \notin AtDefault BY <3>1 DEF Save, Replace, Goto, TypeOK, AtDefault
      <4> QED BY <4>1, <4>2, <4>3, <4>4
    <3>2. CASE SaveDefault(p)
      <4>1. conf' = conf \/ conf' = [conf EXCEPT ![dirOf[Name(p)]] = {}]
        BY <3>2 DEF SaveDefault, Replace
      <4>2. initial' = initial BY <3>2 DEF SaveDefault, tree
      <4>3. pc'[p] \notin AtDefault BY <3>2 DEF SaveDefault, Replace, Goto, TypeOK, AtDefault
      <4> QED BY <4>1, <4>2, <4>3
    <3> QED BY <1>6, <3>1, <3>2
  <2>2. Configured' BY <1>1, <2>1 DEF TypeOK
  <2>3. ~RemoveDir(p) /\ ~MoveDir(p) BY <1>6 DEF Save, SaveDefault, RemoveDir, MoveDir
  <2> QED BY <1>2, <1>6, <2>1, <2>2, <2>3 DEF InitialKept, Step
<1>7. ASSUME NEW p \in Procs, RemoveDir(p) \/ MoveDir(p) PROVE InitialKept'
  <2>1. Running(p) /\ cmd[p].op \in Movers
    BY <1>7 DEF RemoveDir, MoveDir, Running, Ended, Placed, Movers
  <2>2. \A q \in Procs : q # p => pc'[q] \notin AtDefault
    BY <1>7, <2>1, MoversAlone, StepMoves DEF Step
  <2>3. pc'[p] \notin AtDefault BY <1>7 DEF RemoveDir, MoveDir, Goto, TypeOK, AtDefault
  <2>4. UNCHANGED <<conf, initial>> BY <1>7 DEF RemoveDir, MoveDir
  <2>5. Configured' BY <1>1, <2>4
  <2> QED BY <2>2, <2>3, <2>5 DEF InitialKept
<1>8. CASE UNCHANGED vars BY <1>8 DEF vars, InitialKept, Name
<1> QED BY <1>3, <1>4, <1>5, <1>6, <1>7, <1>8 DEF Next, Step

\* A profile that exists goes on existing, unless a delete or a rename takes it.
LEMMA ExistsStay ==
  ASSUME TypeOK, NEW p \in Procs, Step(p) \/ Start(p) \/ Crash(p), ~RemoveDir(p), ~MoveDir(p)
  PROVE  \A n \in Names : Exists(n) => Exists(n)'
BY DirsStay DEF Step, Exists

\* Every step keeps the targets of the pending changes to the global config.
LEMMA TargetExistsNext ==
  ASSUME TypeOK, Placed, Alone, TargetExists, [Next]_vars
  PROVE  TargetExists'
<1> DEFINE Target(q) ==
      /\ pc[q] \in AtGlobal /\ cmd[q].op \in {"use", "resolve"} => Exists(Name(q))
      /\ pc[q] \in AtGlobal \union {"creds"} /\ cmd[q].op = "rename" => Exists(cmd[q].to)
<1>1. \A q \in Procs : Target(q) BY DEF TargetExists
<1>2. ASSUME NEW p \in Procs, Step(p) \/ Start(p) \/ Crash(p) PROVE cmd' = cmd /\ \A q \in Procs : Name(q)' = Name(q)
  BY <1>2, StepMoves DEF Start, Name
<1>3. ASSUME NEW p \in Procs, Step(p) \/ Start(p) \/ Crash(p), ~RemoveDir(p), ~MoveDir(p)
      PROVE  /\ \A q \in Procs : q # p => Target(q)'
             /\ Exists(Name(p)) => Exists(Name(p))'
             /\ Exists(cmd[p].to) => Exists(cmd[p].to)'
  <2>1. \A q \in Procs : q # p => pc'[q] = pc[q] BY <1>3, StepMoves DEF Start, Goto, TypeOK
  <2>2. \A n \in Names : Exists(n) => Exists(n)' BY <1>3, ExistsStay
  <2>3. cmd' = cmd /\ \A q \in Procs : Name(q)' = Name(q) BY <1>2, <1>3
  <2>4. \A q \in Procs : Exists(Name(q)) => Exists(Name(q))'
    BY <2>2, <2>3, CommandFacts DEF Exists
  <2>5. \A q \in Procs : Exists(cmd[q].to) => Exists(cmd[q].to)'
    BY <2>2, <2>3, CommandFacts DEF Exists
  <2> QED BY <1>1, <2>1, <2>3, <2>4, <2>5
<1>4. ASSUME NEW p \in Procs, Begin(p) PROVE TargetExists'
  <2>1. Target(p)'
    <3>1. /\ pc'[p] \in AtGlobal => (cmd[p].op = "use" /\ Exists(Name(p))) \/ cmd[p].op = "hint"
          /\ pc'[p] = "creds" => cmd[p].op = "delete"
      BY <1>4, BeginFacts DEF Goto, TypeOK, AtGlobal
    <3>2. UNCHANGED <<cmd, dirOf>> BY <1>4, BeginQuiet
    <3>3. Exists(Name(p))' <=> Exists(Name(p)) BY <3>2 DEF Exists, Name
    <3> QED BY <3>1, <3>2, <3>3
  <2>2. ~RemoveDir(p) /\ ~MoveDir(p) BY <1>4 DEF Begin, RemoveDir, MoveDir
  <2> QED BY <1>3, <1>4, <2>1, <2>2 DEF TargetExists, Step
<1>5. ASSUME NEW p \in Procs,
             \/ Start(p) \/ CreateDir(p) \/ Open(p) \/ Lock(p) \/ Load(p) \/ Save(p)
             \/ Crash(p)
      PROVE  TargetExists'
  <2>1. pc'[p] \notin AtGlobal \union {"creds"}
    BY <1>5 DEF Start, CreateDir, Open, Lock, Load, Save, Replace, Crash, Goto, TypeOK, AtGlobal
  <2>2. ~RemoveDir(p) /\ ~MoveDir(p)
    <3>1. CASE Crash(p) BY <3>1 DEF Crash, RemoveDir, MoveDir, Goto, TypeOK
    <3>2. CASE ~Crash(p)
      BY <1>5, <3>2 DEF Start, CreateDir, Open, Lock, Load, Save, RemoveDir, MoveDir
    <3> QED BY <3>1, <3>2
  <2>3. Target(p)' BY <2>1
  <2> QED BY <1>3, <1>5, <2>2, <2>3 DEF TargetExists, Step
<1>6. ASSUME NEW p \in Procs, SaveDefault(p) PROVE TargetExists'
  <2>1. UNCHANGED <<dirOf, cmd>> /\ cmd[p].op \in {"set", "create", "resolve"}
    BY <1>6 DEF SaveDefault, tree, Placed, AtDefault
  <2>2. pc'[p] \in AtGlobal \union {"creds"} => Exists(Name(p))
    BY <1>6 DEF SaveDefault, Replace, Goto, TypeOK, AtGlobal
  <2>3. Exists(Name(p))' <=> Exists(Name(p)) BY <2>1 DEF Exists, Name
  <2>4. Target(p)' BY <2>1, <2>2, <2>3
  <2>5. ~RemoveDir(p) /\ ~MoveDir(p) BY <1>6 DEF SaveDefault, RemoveDir, MoveDir
  <2> QED BY <1>3, <1>6, <2>4, <2>5 DEF TargetExists, Step
<1>7. ASSUME NEW p \in Procs,
             MoveCredentials(p) \/ GlobalLock(p) \/ GlobalLoad(p) \/ GlobalSave(p)
      PROVE  TargetExists'
  <2>1. /\ UNCHANGED <<dirOf, cmd>>
        /\ \/ pc[p] \in AtGlobal
           \/ pc[p] = "creds" /\ cmd[p].op \in Movers
        /\ pc'[p] # "creds"
    <3>1. CASE MoveCredentials(p)
      BY <3>1 DEF MoveCredentials, tree, Goto, TypeOK, Placed
    <3>2. CASE GlobalLock(p) \/ GlobalLoad(p)
      BY <3>2 DEF GlobalLock, GlobalLoad, tree, Goto, TypeOK, AtGlobal
    <3>3. CASE GlobalSave(p) BY <3>3 DEF GlobalSave, tree, Goto, TypeOK, AtGlobal
    <3> QED BY <1>7, <3>1, <3>2, <3>3
  <2>2. Exists(Name(p))' <=> Exists(Name(p)) BY <2>1 DEF Exists, Name
  <2>3. Exists(cmd[p].to)' <=> Exists(cmd[p].to) BY <2>1 DEF Exists
  <2>4. Target(p)' BY <1>1, <2>1, <2>2, <2>3 DEF Movers
  <2>5. ~RemoveDir(p) /\ ~MoveDir(p)
    BY <1>7 DEF MoveCredentials, GlobalLock, GlobalLoad, GlobalSave, RemoveDir, MoveDir
  <2> QED BY <1>3, <1>7, <2>4, <2>5 DEF TargetExists, Step
<1>8. ASSUME NEW p \in Procs, RemoveDir(p) \/ MoveDir(p) PROVE TargetExists'
  <2>1. Running(p) /\ cmd[p].op \in Movers /\ cmd' = cmd
    BY <1>8 DEF RemoveDir, MoveDir, Running, Ended, Placed, Movers
  <2>2. ASSUME NEW q \in Procs, q # p PROVE Target(q)'
    BY <1>8, <2>1, <2>2, MoversAlone, StepMoves DEF Step
  <2>3. Target(p)'
    <3>1. CASE RemoveDir(p) BY <2>1, <3>1 DEF RemoveDir, Placed
    <3>2. CASE MoveDir(p)
      <4>1. \/ dirOf'[cmd[p].to] = dirOf[Name(p)] /\ dirOf[Name(p)] # NoDir
            \/ pc'[p] = "failed"
        BY <3>2, MoveDirFacts, CommandFacts DEF TypeOK
      <4>2. cmd[p].op = "rename" BY <3>2, MoveDirFacts
      <4> QED BY <2>1, <4>1, <4>2 DEF Exists, AtGlobal
    <3> QED BY <1>8, <3>1, <3>2
  <2> QED BY <2>2, <2>3 DEF TargetExists
<1>9. CASE UNCHANGED vars BY <1>9 DEF vars, TargetExists, Exists, Name
<1> QED BY <1>4, <1>5, <1>6, <1>7, <1>8, <1>9 DEF Next, Step

\* What each command makes of the pointer to the active profile.
LEMMA PointerFacts ==
  ASSUME NEW c \in Commands, NEW g \in Configs
  PROVE  /\ c.op = "use" => GlobalChange(c, g).active = c.name
         /\ c.op = "resolve" => GlobalChange(c, g).active = "default"
         /\ c.op = "delete" =>
              GlobalChange(c, g).active = IF g.active = c.name THEN None ELSE g.active
         /\ c.op = "rename" =>
              GlobalChange(c, g).active = IF g.active = c.name THEN c.to ELSE g.active
         /\ c.op = "hint" => GlobalChange(c, g).active = g.active
<1> USE DEF GlobalChange, Configs
<1>1. CASE c.op = "use" BY <1>1
<1>2. CASE c.op = "resolve" BY <1>2
<1>3. CASE c.op = "delete" BY <1>3
<1>4. CASE c.op = "rename" BY <1>4
<1>5. CASE c.op = "hint" BY <1>5
<1> QED BY <1>1, <1>2, <1>3, <1>4, <1>5

\* While a delete or a rename runs, no other command's change is pending.
LEMMA OnePending ==
  ASSUME TypeOK, Placed, Alone, NEW p \in Procs, Running(p), cmd[p].op \in Movers,
         NEW q \in Procs, NEW n, Takes(q, n)
  PROVE  q = p
BY MoversAlone DEF Takes

\* Every step keeps the active profile there, or its removal pending.
LEMMA ActiveOrPendingNext ==
  ASSUME TypeOK, Placed, GlobalExclusive, Alone, TargetExists, ActiveOrPending, [Next]_vars
  PROVE  ActiveOrPending'
<1> DEFINE n == global.active
<1>0. n \in Names \union {None} BY DEF TypeOK
<1>1. ASSUME NEW p \in Procs,
             \/ Start(p) \/ Begin(p) \/ CreateDir(p) \/ Open(p) \/ Lock(p) \/ Load(p) \/ Save(p)
             \/ SaveDefault(p) \/ MoveCredentials(p) \/ GlobalLock(p) \/ GlobalLoad(p)
      PROVE  ActiveOrPending'
  <2>1. global' = global
    BY <1>1 DEF Start, Begin, CreateDir, Open, Lock, Load, Save, SaveDefault, MoveCredentials,
      GlobalLock, GlobalLoad, globals
  <2>2. faults' = 0 => faults = 0
    <3>1. CASE faults' = faults BY <3>1
    <3>2. CASE Fault BY <3>2, FaultTyped DEF TypeOK
    <3> QED BY <1>1, <3>1, <3>2 DEF Start, Begin, CreateDir, Open, Lock, Load, Save, SaveDefault,
          Replace, MoveCredentials, GlobalLock, GlobalLoad
  <2>3. \A m \in Names : Exists(m) => Exists(m)' BY <1>1, DirsStay DEF Exists
  <2>4. cmd' = cmd /\ \A q \in Procs : q # p => pc'[q] = pc[q]
    BY <1>1, StepMoves DEF Step, Start, Goto, TypeOK
  <2>5. Takes(p, n) => Takes(p, n)'
    <3>1. CASE MoveCredentials(p)
      BY <2>1, <2>4, <3>1 DEF MoveCredentials, Takes, AtGlobal, Goto, TypeOK
    <3>2. CASE GlobalLock(p) \/ GlobalLoad(p)
      BY <2>1, <2>4, <3>2 DEF GlobalLock, GlobalLoad, Takes, AtGlobal, Goto, TypeOK
    <3>3. CASE ~(MoveCredentials(p) \/ GlobalLock(p) \/ GlobalLoad(p))
      <4>1. pc[p] \notin AtGlobal \union {"creds"}
        BY <1>1, <3>3 DEF Start, Begin, CreateDir, Open, Lock, Load, Save, SaveDefault, AtGlobal
      <4> QED BY <4>1 DEF Takes
    <3> QED BY <3>1, <3>2, <3>3
  <2>6. Pending(n) => Pending(n)'
    <3>1. \A q \in Procs : q # p /\ Takes(q, n) => Takes(q, n)' BY <2>1, <2>4 DEF Takes
    <3> QED BY <2>5, <3>1 DEF Pending
  <2>7. n' = n BY <2>1
  <2> QED BY <1>0, <2>1, <2>2, <2>3, <2>6, <2>7 DEF ActiveOrPending
<1>2. ASSUME NEW p \in Procs, RemoveDir(p) PROVE ActiveOrPending'
  <2>1. /\ UNCHANGED <<global, faults, cmd>> /\ pc[p] = "remove" /\ Running(p)
        /\ cmd[p].op = "delete" /\ Name(p) = cmd[p].name
        /\ dirOf' = [dirOf EXCEPT ![Name(p)] = NoDir]
        /\ Exists(Name(p)) => pc'[p] = "global lock"
    BY <1>2, CommandFacts DEF RemoveDir, Goto, Running, Ended, Placed, TypeOK
  <2>2. ~Pending(n) BY <2>1, OnePending DEF Pending, Takes, AtGlobal, Movers
  <2>3. CASE faults = 0 /\ n # None
    <3>1. Exists(n) /\ n \in Names BY <1>0, <2>2, <2>3 DEF ActiveOrPending
    <3>2. CASE n = Name(p)
      <4>1. Takes(p, n)' BY <2>1, <3>1, <3>2 DEF Takes, AtGlobal
      <4> QED BY <2>1, <4>1 DEF ActiveOrPending, Pending
    <3>3. CASE n # Name(p)
      <4>1. Exists(n)' BY <2>1, <3>1, <3>3 DEF Exists, TypeOK
      <4> QED BY <2>1, <4>1 DEF ActiveOrPending
    <3> QED BY <3>2, <3>3
  <2> QED BY <2>1, <2>3 DEF ActiveOrPending
<1>3. ASSUME NEW p \in Procs, MoveDir(p) PROVE ActiveOrPending'
  <2>1. /\ Running(p) /\ cmd[p].op = "rename" /\ UNCHANGED <<global, faults, cmd>>
        /\ pc[p] = "move" /\ Name(p) = cmd[p].name
    BY <1>3, MoveDirFacts, CommandFacts DEF MoveDir
  <2>2. ~Pending(n) BY <2>1, OnePending DEF Pending, Takes, AtGlobal, Movers
  <2>3. CASE faults = 0 /\ n # None
    <3>1. Exists(n) /\ n \in Names BY <1>0, <2>2, <2>3 DEF ActiveOrPending
    <3>2. \/ pc'[p] = "creds" /\ n = Name(p)
          \/ dirOf'[n] # NoDir
      <4>1. CASE dirOf' = dirOf BY <3>1, <4>1 DEF Exists
      <4>2. CASE /\ pc' = [pc EXCEPT ![p] = "creds"] /\ dirOf[Name(p)] # NoDir
                 /\ dirOf' = [m \in Names |-> IF m = Name(p) THEN NoDir
                                 ELSE IF m = cmd[p].to THEN dirOf[Name(p)] ELSE dirOf[m]]
        BY <3>1, <4>2 DEF Exists, TypeOK
      <4> QED BY <1>3, <4>1, <4>2, MoveDirFacts
    <3>3. CASE pc'[p] = "creds" /\ n = Name(p)
      <4>1. Takes(p, n)' BY <2>1, <3>3 DEF Takes
      <4> QED BY <2>1, <4>1 DEF ActiveOrPending, Pending
    <3>4. CASE dirOf'[n] # NoDir
      <4>1. Exists(n)' BY <2>1, <3>4 DEF Exists
      <4> QED BY <2>1, <4>1 DEF ActiveOrPending
    <3> QED BY <3>2, <3>3, <3>4
  <2> QED BY <2>1, <2>3 DEF ActiveOrPending
<1>4. ASSUME NEW p \in Procs, GlobalSave(p) PROVE ActiveOrPending'
  <2>1. /\ UNCHANGED <<dirOf, cmd>> /\ pc[p] = "global save" /\ Running(p)
        /\ \A q \in Procs : q # p => pc'[q] = pc[q]
    BY <1>4 DEF GlobalSave, tree, Running, Ended, Goto, TypeOK
  <2>2. CASE Fault BY <2>2, FaultTyped DEF ActiveOrPending, TypeOK
  <2>3. CASE global' = GlobalChange(cmd[p], gseen[p]) /\ faults' = faults
    <3>1. global' = GlobalChange(cmd[p], global) BY <2>1, <2>3 DEF GlobalExclusive
    <3>2. cmd[p] \in Commands /\ global \in Configs BY DEF TypeOK, Configs
    <3>3. cmd[p].op \in {"use", "resolve", "hint", "delete", "rename"}
      BY <2>1 DEF Placed, AtGlobal, Movers
    <3>4. CASE cmd[p].op \in {"use", "resolve"}
      <4>1. n' = Name(p) BY <3>1, <3>2, <3>4, PointerFacts DEF Name
      <4>2. Exists(Name(p)) BY <2>1, <3>4 DEF TargetExists, AtGlobal
      <4>3. Exists(n)' BY <2>1, <4>1, <4>2 DEF Exists
      <4> QED BY <4>3 DEF ActiveOrPending
    <3>5. CASE cmd[p].op = "hint"
      <4>1. n' = n BY <3>1, <3>2, <3>5, PointerFacts
      <4>2. \A q \in Procs : Takes(q, n) => Takes(q, n)' BY <2>1, <3>5, <4>1 DEF Takes
      <4>3. Pending(n) => Pending(n)' BY <4>2 DEF Pending
      <4>4. Exists(n) => Exists(n)' BY <2>1, <4>1 DEF Exists
      <4> QED BY <2>3, <4>1, <4>3, <4>4 DEF ActiveOrPending
    <3>6. CASE cmd[p].op \in Movers
      <4>1. CASE n = cmd[p].name
        <5>1. n' = None \/ (cmd[p].op = "rename" /\ n' = cmd[p].to)
          BY <3>1, <3>2, <3>6, <4>1, PointerFacts DEF Movers
        <5>2. cmd[p].op = "rename" => Exists(cmd[p].to) BY <2>1 DEF TargetExists, AtGlobal
        <5>3. n' # None => Exists(n)' BY <2>1, <5>1, <5>2 DEF Exists
        <5> QED BY <5>3 DEF ActiveOrPending
      <4>2. CASE n # cmd[p].name
        <5>1. n' = n BY <3>1, <3>2, <3>6, <4>2, PointerFacts DEF Movers
        <5>2. ~Pending(n) BY <2>1, <3>6, <4>2, OnePending DEF Pending, Takes
        <5>3. Exists(n) => Exists(n)' BY <2>1, <5>1 DEF Exists
        <5> QED BY <2>3, <5>1, <5>2, <5>3 DEF ActiveOrPending
      <4> QED BY <4>1, <4>2
    <3> QED BY <3>3, <3>4, <3>5, <3>6 DEF Movers
  <2> QED BY <1>4, <2>2, <2>3 DEF GlobalSave
<1>5. ASSUME NEW p \in Procs, Crash(p) PROVE ActiveOrPending'
  BY <1>5, FaultTyped DEF Crash, ActiveOrPending, TypeOK
<1>6. CASE UNCHANGED vars BY <1>6 DEF vars, ActiveOrPending, Exists, Pending, Takes
<1> QED BY <1>1, <1>2, <1>3, <1>4, <1>5, <1>6 DEF Next, Step

\* The first states satisfy the invariant.
LEMMA InitInv == Init => Inv
<1> SUFFICES ASSUME Init PROVE Inv OBVIOUS
<1>0. PICK r \in Roots :
         \E f \in [r -> 1..Cardinality(r)] :
           /\ \A m, n \in r : f[m] = f[n] => m = n
         /\ root = (r # {}) /\ dirs = Cardinality(r) /\ creds = r
           /\ dirOf = [n \in Names |-> IF n \in r THEN f[n] ELSE NoDir]
           /\ conf = [d \in Dirs |-> IF d <= dirs THEN Fields ELSE Bare]
           /\ global \in [active : r \union {None}, hint : {FALSE}]
  BY DEF Init
<1>1. PICK f \in [r -> 1..Cardinality(r)] :
         /\ \A m, n \in r : f[m] = f[n] => m = n
         /\ root = (r # {}) /\ dirs = Cardinality(r) /\ creds = r
         /\ dirOf = [n \in Names |-> IF n \in r THEN f[n] ELSE NoDir]
         /\ conf = [d \in Dirs |-> IF d <= dirs THEN Fields ELSE Bare]
         /\ global \in [active : r \union {None}, hint : {FALSE}]
  BY <1>0
<1>2. r \subseteq Names /\ Cardinality(r) \in Nat /\ Cardinality(r) <= MaxDirs
  BY RootsAssumption, FS_CardinalityType
<1>3. root \in BOOLEAN /\ dirs \in 0..MaxDirs /\ faults \in 0..MaxFaults /\ initial \subseteq Dirs
  BY <1>1, <1>2, Bounds DEF Init, Dirs
<1>4. dirOf \in [Names -> Dirs \union {NoDir}] BY <1>1, <1>2, Bounds DEF Dirs
<1>5. conf \in [Dirs -> (SUBSET Fields) \union {Bare, NoFile}] BY <1>1
<1>6. global \in [active : Names \union {None}, hint : BOOLEAN] BY <1>1, <1>2
<1>7. cmd \in [Procs -> Commands] BY RootsAssumption DEF Init
<1>8. TypeOK BY <1>1, <1>2, <1>3, <1>4, <1>5, <1>6, <1>7 DEF Init, TypeOK
<1>9. pc = [p \in Procs |-> "idle"] /\ faults = 0 /\ initial = 1..dirs /\ committed = {}
  BY DEF Init
<1>10. Placed /\ GlobalExclusive /\ Alone /\ WriterExclusive /\ TargetExists
  BY <1>9 DEF Placed, GlobalExclusive, Alone, Running, WriterExclusive, Exclusive, TargetExists,
    AtDefault, AtGlobal, AtLock, Inside
<1>11. \A n \in Names : \/ n \in r /\ dirOf[n] = f[n] /\ f[n] \in 1..dirs
                        \/ n \notin r /\ dirOf[n] = 0
  BY <1>1 DEF NoDir
<1>12. dirs \in Nat BY <1>1, <1>2
<1>13. Tree
  <2>1. ASSUME ~root PROVE initial = {}
    <3>1. r = {} BY <1>1, <2>1
    <3>2. dirs = 0 BY <1>1, <3>1, FS_EmptySet
    <3> QED BY <1>9, <3>2
  <2>2. \A m, n \in Names : dirOf[m] = dirOf[n] /\ dirOf[m] # NoDir => m = n
    BY <1>1, <1>11 DEF NoDir
  <2>3. \A n \in Names : dirOf[n] <= dirs BY <1>11, <1>12
  <2>4. \A d \in initial : 1 <= d /\ d <= dirs BY <1>9, <1>12
  <2> QED BY <2>1, <2>2, <2>3, <2>4 DEF Tree
<1>14. InitialKept
  <2>1. \A d \in initial : d \in Dirs /\ d <= dirs BY <1>3, <1>9, <1>12
  <2>2. \A d \in initial : conf[d] \subseteq Fields BY <1>1, <2>1
  <2> QED BY <1>9, <2>2 DEF InitialKept, AtDefault
<1>15. ActiveOrPending
  <2>1. global.active \in r \union {None} BY <1>1
  <2>2. \A n \in r : Exists(n) BY <1>2, <1>11, <1>12 DEF Exists, NoDir
  <2> QED BY <2>1, <2>2 DEF ActiveOrPending
<1> QED BY <1>8, <1>10, <1>13, <1>14, <1>15 DEF Inv

\* Every step preserves the invariant.
LEMMA NextInv == Inv /\ [Next]_vars => Inv'
<1> SUFFICES ASSUME Inv, [Next]_vars PROVE Inv' OBVIOUS
<1>1. TypeOK' /\ Placed' /\ GlobalExclusive' BY TypeOKNext, PlacedNext, GlobalExclusiveNext
                                                DEF Inv
<1>2. Alone' /\ Tree' BY AloneNext, TreeNext DEF Inv
<1>3. WriterExclusive' /\ InitialKept' BY WriterExclusiveNext, InitialKeptNext DEF Inv
<1>4. TargetExists' /\ ActiveOrPending' BY TargetExistsNext, ActiveOrPendingNext DEF Inv
<1> QED BY <1>1, <1>2, <1>3, <1>4 DEF Inv

\* The invariant holds throughout.
LEMMA SpecInv == Spec => []Inv
BY InitInv, NextInv, PTL DEF Spec

----------------------------------------------------------------------------
\* Every variable keeps to its set of values.
THEOREM ProfilesTypeCorrect == Spec => []TypeOK
<1>1. Inv => TypeOK BY DEF Inv
<1> QED BY <1>1, SpecInv, PTL

\* Each step of a command is one whole update of the global config, by a command
\* that has made none, or it leaves the config alone.
LEMMA AtomicStep ==
  ASSUME TypeOK, GlobalExclusive, [Next]_vars
  PROVE  [Atomic!Next]_<<global, cmd, committed>>
<1>1. CASE UNCHANGED <<global, committed>> /\ cmd' = cmd BY <1>1
<1>2. ASSUME NEW p \in Procs, GlobalSave(p) PROVE [Atomic!Next]_<<global, cmd, committed>>
  <2>1. CASE global' = GlobalChange(cmd[p], gseen[p]) /\ committed' = committed \union {p}
    <3>1. gseen[p] = global /\ p \notin committed
      BY <1>2 DEF GlobalSave, GlobalExclusive, Ended
    <3>2. Atomic!Commit(p) BY <1>2, <2>1, <3>1 DEF Atomic!Commit, GlobalSave
    <3> QED BY <3>2 DEF Atomic!Next
  <2>2. CASE UNCHANGED <<global, committed>> BY <1>2, <2>2 DEF GlobalSave
  <2> QED BY <1>2, <2>1, <2>2 DEF GlobalSave
<1>3. ASSUME NEW p \in Procs,
             \/ Start(p) \/ Begin(p) \/ CreateDir(p) \/ Open(p) \/ Lock(p) \/ Load(p) \/ Save(p)
             \/ SaveDefault(p) \/ MoveCredentials(p) \/ RemoveDir(p) \/ MoveDir(p)
             \/ GlobalLock(p) \/ GlobalLoad(p) \/ Crash(p)
      PROVE  UNCHANGED <<global, cmd, committed>>
  BY <1>3 DEF Start, Begin, CreateDir, Open, Lock, Load, Save, SaveDefault, MoveCredentials,
    RemoveDir, MoveDir, GlobalLock, GlobalLoad, Crash, globals
<1>4. CASE UNCHANGED vars BY <1>4 DEF vars
<1> QED BY <1>1, <1>2, <1>3, <1>4 DEF Next, Step

\* GlobalConfig::update is atomic: the files, the locks and the crashes implement one
\* value that changes by whole updates, each made once and of the latest value.
THEOREM UpdatesAreAtomic == Spec => GlobalAtomic
<1>1. Init => Atomic!Init BY DEF Init, Atomic!Init
<1>2. Inv /\ [Next]_vars => [Atomic!Next]_<<global, cmd, committed>> BY AtomicStep DEF Inv
<1> QED BY <1>1, <1>2, SpecInv, PTL DEF Spec, GlobalAtomic, Atomic!Spec, Atomic!vars

\* What one writer makes of a config that was there at the start.
LEMMA FieldsStep ==
  ASSUME Inv, [Next]_vars, NEW d \in initial, conf'[d] # conf[d]
  PROVE  \E p \in Procs : conf'[d] = Change(cmd[p], conf[d])
<1>0. d \in Dirs BY DEF Inv, TypeOK
<1>1. ASSUME NEW p \in Procs, Save(p)
      PROVE  conf'[d] = Change(cmd[p], conf[d])
  <2>1. conf' = [conf EXCEPT ![dirOf[Name(p)]] = Change(cmd[p], seen[p])] /\ pc[p] = "save"
    BY <1>1 DEF Save, Replace
  <2>2. d = dirOf[Name(p)] BY <1>0, <2>1 DEF Inv, TypeOK
  <2>3. seen[p] = Stored(d) BY <2>1, <2>2 DEF Inv, WriterExclusive, Exclusive
  <2>4. Stored(d) = conf[d] BY DEF Inv, InitialKept, Stored
  <2> QED BY <1>0, <2>1, <2>2, <2>3, <2>4 DEF Inv, TypeOK
<1>2. ASSUME NEW p \in Procs, SaveDefault(p) PROVE FALSE
  <2>1. conf' = conf \/ conf' = [conf EXCEPT ![dirOf[Name(p)]] = {}] BY <1>2
                                                                        DEF SaveDefault, Replace
  <2>2. d = dirOf[Name(p)] BY <1>0, <2>1 DEF Inv, TypeOK
  <2> QED BY <1>2, <2>2 DEF SaveDefault, Inv, InitialKept, AtDefault
<1>3. ASSUME NEW p \in Procs, Open(p) PROVE FALSE
  <2>1. MakeDir(Name(p)) /\ conf' = [conf EXCEPT ![dirOf'[Name(p)]] = IF @ = Bare THEN NoFile ELSE @]
    BY <1>3 DEF Open
  <2>2. dirOf'[Name(p)] \in Dirs BY <2>1, MakeDirFacts, CommandFacts DEF Inv
  <2>3. conf[d] = Bare BY <1>0, <2>1, <2>2 DEF Inv, TypeOK
  <2> QED BY <2>3 DEF Inv, InitialKept, Bare, Fields
<1>4. ASSUME NEW p \in Procs,
             \/ Start(p) \/ Begin(p) \/ CreateDir(p) \/ Lock(p) \/ Load(p) \/ MoveCredentials(p)
             \/ RemoveDir(p) \/ MoveDir(p) \/ GlobalLock(p) \/ GlobalLoad(p) \/ GlobalSave(p)
             \/ Crash(p)
      PROVE  FALSE
  BY <1>4 DEF Start, Begin, CreateDir, Lock, Load, MoveCredentials, RemoveDir, MoveDir,
    GlobalLock, GlobalLoad, GlobalSave, Crash, profile
<1>5. CASE UNCHANGED vars BY <1>5 DEF vars
<1> QED BY <1>1, <1>2, <1>3, <1>4, <1>5 DEF Next, Step

\* Concurrent config set, login and logout of a profile lose none of each other's
\* fields: each write is the writer's own change of what the one before left.
THEOREM WritersKeepFields == Spec => FieldsPreserved
<1>1. Inv /\ [Next]_vars =>
        [\A d \in initial :
           conf'[d] # conf[d] => \E p \in Procs : conf'[d] = Change(cmd[p], conf[d])]_vars
  BY FieldsStep
<1> QED BY <1>1, SpecInv, PTL DEF Spec, FieldsPreserved

\* Whatever profiles were created, renamed and deleted while hints were written and
\* profiles chosen, the active profile is one that exists when all have ended.
THEOREM ActiveProfileExists == Spec => []ActiveExists
<1>1. Inv => ActiveExists
  <2> SUFFICES ASSUME Inv, \A p \in Procs : ~Running(p), faults = 0, global.active # None
               PROVE  Exists(global.active)
    BY DEF ActiveExists
  <2>1. ~Pending(global.active) BY DEF Running, Ended, Pending, Takes, AtGlobal
  <2> QED BY <2>1 DEF Inv, ActiveOrPending
<1> QED BY <1>1, SpecInv, PTL

====
