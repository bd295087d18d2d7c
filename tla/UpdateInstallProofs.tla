------------------------ MODULE UpdateInstallProofs ------------------------
(***************************************************************************)
(* Proofs about UpdateInstall, for any number of invocations, any staleness *)
(* limit of two heartbeats or more and any number of starts.               *)
(***************************************************************************)
EXTENDS UpdateInstall, TLAPS

\* Where an invocation is before it renames its binary, while its binary is
\* under .old, and where it holds the lock with a binary in place.
Before == {"start", "create", "stat", "steal", "retry", "preserve", "rename"}
Renamed == {"prepare", "download", "run", "verify", "cleanup", "restore", "restore2"}
InPlace == {"preserve", "rename", "release"}

\* What an invocation remembers: the version it runs, what it renamed, and the
\* installer it spawned.
Memory ==
  \A p \in Procs :
    /\ Owns(p) => exe[p] = "prev"
    /\ pc[p] \in Before => kept[p] = None
    /\ child[p] # "none" => pc[p] \in {"run", "off"}
    /\ pc[p] # "release" => out[p] \notin {"installed", "restore_failed"}

\* The heartbeat of the lock's creator: a timer that sleeps has just written,
\* and one that has fired has missed no period, until one of its writes fails.
Beats ==
  /\ lock.by = None => lock = NoLock
  /\ \A p \in Procs : Holds(p) => beat[p] # "off"
  /\ \A p \in Procs : Holds(p) /\ lock.by = p /\ beat[p] # "failed" =>
       lock.age <= 1 /\ (beat[p] = "asleep" => lock.age = 0)

\* Until a lock is taken over, it excludes: one holder, one installer, and an
\* installer left behind leaves its lock behind as well.
Alone ==
  ~taken =>
    /\ \A p \in Procs : pc[p] # "retry"
    /\ \A p \in Procs : Holds(p) => lock # NoLock
    /\ \A p, q \in Procs : Holds(p) /\ Holds(q) => p = q
    /\ \A p \in Procs : child[p] # "none" /\ pc[p] = "off" =>
         lock # NoLock /\ \A q \in Procs : ~Holds(q)
    /\ \A p, q \in Procs : child[p] # "none" /\ child[q] # "none" => p = q

\* What the result of an invocation that has renamed its binary claims.
Report(p) ==
  /\ out[p] # "restore_failed"
  /\ out[p] = "installed" => bin = "new"
  /\ out[p] # "installed" => bin = kept[p]

\* Until a lock is taken over, the two files follow the holder's progress.
FilesInStep ==
  ~taken =>
    /\ lock = NoLock => bin \in Runnable
    /\ \A p \in Procs : pc[p] \in InPlace => bin \in Runnable
    /\ \A p \in Procs : pc[p] \in Renamed => old = kept[p] /\ old \in Runnable /\ bin # "prev"
    /\ \A p \in Procs : pc[p] \in {"prepare", "download"} => bin = None
    /\ \A p \in Procs : pc[p] = "cleanup" => bin = "new"
    /\ \A p \in Procs : child[p] \in {"running", "writing"} => bin \notin Runnable
    /\ \A p \in Procs : child[p] \in {"running", "writing"} => old \in Runnable

\* Until a lock is taken over, a report that is about to be made is true.
Reports ==
  ~taken => \A p \in Procs : pc[p] = "release" /\ kept[p] # None => Report(p)

\* Windows does not delete what runs: the version that every invocation was
\* started from stays at one of the two paths while one of them is alive.
RunningKept ==
  ~taken /\ windows =>
    \A p \in Procs : Alive(p) /\ exe[p] = "prev" => bin = "prev" \/ old = "prev"

Inv ==
  /\ TypeOK /\ Memory /\ Beats /\ Alone /\ RollbackKept /\ FilesInStep /\ Reports /\ RunningKept

\* A shell starts an invocation; Windows spares a copy that still runs.
LEMMA StartInv ==
  ASSUME Inv, NEW p \in Procs, Start(p) PROVE Inv'
<1> USE StaleAssumption, ProcsAssumption, StartsAssumption
    DEF Inv, Start, files, Goto, Fresh
<1>1. TypeOK' BY DEF TypeOK, Locked, Runnable, None, NoLock
<1>2. Memory' BY DEF Memory, Owns, Before, Locked, None, TypeOK
<1>3. Beats' BY DEF Beats, Holds, Locked, NoLock, None, TypeOK
<1>4. Alone' BY DEF Alone, Holds, Locked, TypeOK
<1>5. RollbackKept' BY DEF RollbackKept, Runnable, None, FilesInStep, Renamed, InPlace, TypeOK
<1>6. FilesInStep'
  <2>1. bin' = bin /\ lock' = lock /\ child' = child /\ taken' = taken /\ bin \in Runnable
    OBVIOUS
  <2>2. \A q \in Procs : pc'[q] \in Locked => q # p /\ pc'[q] = pc[q] /\ kept'[q] = kept[q]
    BY DEF TypeOK, Locked
  <2>3. ASSUME ~taken, NEW q \in Procs, pc[q] \in Renamed PROVE old' = old
    <3>1. Alive(q) /\ exe[q] = "prev"
      BY <2>3 DEF Alive, Memory, Owns, Renamed
    <3>2. windows => old = "prev"
      BY <2>3, <3>1 DEF RunningKept, FilesInStep
    <3>3. QED BY <3>1, <3>2 DEF InUse
  <2>4. QED BY <2>1, <2>2, <2>3 DEF FilesInStep, Renamed, InPlace, Locked
<1>7. Reports' BY DEF Reports, Report, TypeOK
<1>8. RunningKept'
  <2>1. SUFFICES ASSUME ~taken, windows, NEW q \in Procs, pc'[q] # "off", exe'[q] = "prev"
                 PROVE  bin = "prev" \/ old' = "prev"
    BY DEF RunningKept, Alive
  <2>2. CASE q = p BY <2>1, <2>2 DEF TypeOK
  <2>3. CASE q # p
    <3>1. Alive(q) /\ exe[q] = "prev" BY <2>1, <2>3 DEF TypeOK, Alive
    <3>2. QED BY <2>1, <3>1 DEF RunningKept, InUse
  <2>4. QED BY <2>2, <2>3
<1>9. QED BY <1>1, <1>2, <1>3, <1>4, <1>5, <1>6, <1>7, <1>8

\* An invocation that has nothing to do ends.
LEMMA TurnedDownInv ==
  ASSUME Inv, NEW p \in Procs, TurnedDown(p) PROVE Inv'
<1> USE StaleAssumption, ProcsAssumption, StartsAssumption
    DEF Inv, TurnedDown, files, Return, Goto, Fresh
<1>1. TypeOK' BY DEF TypeOK, Locked, Runnable, None, NoLock
<1>2. Memory' BY DEF Memory, Owns, Before, Locked, None, TypeOK
<1>3. Beats' BY DEF Beats, Holds, Locked, NoLock, None, TypeOK
<1>4. Alone'
  <2>1. \A q \in Procs : Holds(q)' => q # p /\ Holds(q)
    BY DEF TypeOK, Holds, Locked
  <2>2. \A q \in Procs : q # p => pc'[q] = pc[q]
    BY DEF TypeOK
  <2>3. child[p] = "none" /\ pc'[p] # "retry"
    BY DEF Memory, TypeOK
  <2>4. QED BY <2>1, <2>2, <2>3 DEF Alone
<1>5. RollbackKept' BY DEF RollbackKept, Runnable, None, FilesInStep, Renamed, InPlace, TypeOK
<1>6. FilesInStep' BY DEF FilesInStep, Renamed, InPlace, TypeOK
<1>7. Reports' BY DEF Reports, Report, TypeOK
<1>8. RunningKept' BY DEF RunningKept, Alive, TypeOK
<1>9. QED BY <1>1, <1>2, <1>3, <1>4, <1>5, <1>6, <1>7, <1>8

\* A confirmed upgrade goes for the lock.
LEMMA ConfirmedInv ==
  ASSUME Inv, NEW p \in Procs, Confirmed(p) PROVE Inv'
<1> USE StaleAssumption, ProcsAssumption, StartsAssumption
    DEF Inv, Confirmed, files, Goto, memory, signals
<1>1. TypeOK' BY DEF TypeOK, Locked, Runnable, None, NoLock
<1>2. Memory' BY DEF Memory, Owns, Before, Locked, None, TypeOK
<1>3. Beats' BY DEF Beats, Holds, Locked, NoLock, None, TypeOK
<1>4. Alone' BY DEF Alone, Holds, Locked, TypeOK
<1>5. RollbackKept' BY DEF RollbackKept, Runnable, None, FilesInStep, Renamed, InPlace, TypeOK
<1>6. FilesInStep' BY DEF FilesInStep, Renamed, InPlace, TypeOK
<1>7. Reports' BY DEF Reports, Report, TypeOK
<1>8. RunningKept' BY DEF RunningKept, Alive, TypeOK
<1>9. QED BY <1>1, <1>2, <1>3, <1>4, <1>5, <1>6, <1>7, <1>8

\* The first exclusive create.
LEMMA CreateInv ==
  ASSUME Inv, NEW p \in Procs, Create(p) PROVE Inv'
<1> USE StaleAssumption, ProcsAssumption, StartsAssumption
    DEF Inv, Create, files, Acquired, Goto, signals, history
<1>1. TypeOK' BY DEF TypeOK, Locked, Runnable, None, NoLock
<1>2. Memory' BY DEF Memory, Owns, Before, Locked, None, TypeOK
<1>3. Beats' BY DEF Beats, Holds, Locked, NoLock, None, TypeOK
<1>4. Alone'
  <2>1. ASSUME ~taken, lock = NoLock PROVE \A q \in Procs : ~Holds(q) /\ child[q] = "none"
    BY <2>1 DEF Alone, Memory, Holds, Locked
  <2>2. child[p] = "none" BY DEF Memory
  <2>3. \A q \in Procs : q # p => pc'[q] = pc[q] BY DEF TypeOK
  <2>4. CASE lock = NoLock
    <3>1. lock' # NoLock /\ pc'[p] = "preserve" BY <2>4, ProcsAssumption DEF NoLock, None, TypeOK
    <3>2. QED BY <2>1, <2>2, <2>3, <2>4, <3>1 DEF Alone, Holds
  <2>5. CASE lock # NoLock
    <3>1. pc'[p] = "stat" /\ lock' = lock BY <2>5 DEF TypeOK
    <3>2. QED BY <2>2, <2>3, <2>5, <3>1 DEF Alone, Holds, Locked
  <2>6. QED BY <2>4, <2>5
<1>5. RollbackKept' BY DEF RollbackKept, Runnable, None, FilesInStep, Renamed, InPlace, TypeOK
<1>6. FilesInStep' BY DEF FilesInStep, Renamed, InPlace, TypeOK
<1>7. Reports' BY DEF Reports, Report, TypeOK
<1>8. RunningKept' BY DEF RunningKept, Alive, TypeOK
<1>9. QED BY <1>1, <1>2, <1>3, <1>4, <1>5, <1>6, <1>7, <1>8

\* The age of a lock that is there already.
LEMMA JudgeAgeInv ==
  ASSUME Inv, NEW p \in Procs, JudgeAge(p) PROVE Inv'
<1> USE StaleAssumption, ProcsAssumption, StartsAssumption
    DEF Inv, JudgeAge, files, Return, Goto, Fresh, memory, signals
<1>1. TypeOK'
  <2>1. pc' \in [Procs -> Locked \union {"off", "start", "create", "stat", "steal", "retry"}]
    BY DEF TypeOK, Locked
  <2>2. exe' \in [Procs -> Runnable] /\ sigint' \in [Procs -> {"armed", "flushing", "rearmed"}]
    BY DEF TypeOK, Runnable
  <2>3. /\ cancel' \in [Procs -> BOOLEAN]
        /\ out' \in [Procs -> {None, "cancelled", "failed", "restore_failed", "installed"}]
    BY DEF TypeOK
  <2>4. kept' \in [Procs -> {None, "prev", "new", "bad"}]
    BY DEF TypeOK
  <2>5. beat' \in [Procs -> {"off", "asleep", "writing", "failed"}] /\ taken' \in BOOLEAN
    BY DEF TypeOK
  <2>6. lock' \in [age : 0..(StaleAfter + 1), by : Procs \union {None}]
    BY StaleAssumption DEF TypeOK, NoLock
  <2>7. UNCHANGED <<windows, bin, old, child, starts>> OBVIOUS
  <2>8. QED BY <2>1, <2>2, <2>3, <2>4, <2>5, <2>6, <2>7 DEF TypeOK
<1>2. Memory' BY DEF Memory, Owns, Before, Locked, None, TypeOK
<1>3. Beats' BY DEF Beats, Holds, Locked, NoLock, None, TypeOK
<1>4. Alone'
  <2>1. \A q \in Procs : Holds(q)' => q # p /\ Holds(q)
    BY DEF TypeOK, Holds, Locked
  <2>2. \A q \in Procs : q # p => pc'[q] = pc[q]
    BY DEF TypeOK
  <2>3. child[p] = "none" /\ pc'[p] # "retry"
    BY DEF Memory, TypeOK
  <2>4. QED BY <2>1, <2>2, <2>3 DEF Alone
<1>5. RollbackKept' BY DEF RollbackKept, Runnable, None, FilesInStep, Renamed, InPlace, TypeOK
<1>6. FilesInStep' BY DEF FilesInStep, Renamed, InPlace, TypeOK
<1>7. Reports' BY DEF Reports, Report, TypeOK
<1>8. RunningKept' BY DEF RunningKept, Alive, TypeOK
<1>9. QED BY <1>1, <1>2, <1>3, <1>4, <1>5, <1>6, <1>7, <1>8

\* A lock judged stale is moved away.
LEMMA StealInv ==
  ASSUME Inv, NEW p \in Procs, Steal(p) PROVE Inv'
<1> USE StaleAssumption, ProcsAssumption, StartsAssumption
    DEF Inv, Steal, files, Return, Goto, Fresh, memory, signals
<1>1. TypeOK'
  <2>1. pc' \in [Procs -> Locked \union {"off", "start", "create", "stat", "steal", "retry"}]
    BY DEF TypeOK, Locked
  <2>2. exe' \in [Procs -> Runnable] /\ sigint' \in [Procs -> {"armed", "flushing", "rearmed"}]
    BY DEF TypeOK, Runnable
  <2>3. /\ cancel' \in [Procs -> BOOLEAN]
        /\ out' \in [Procs -> {None, "cancelled", "failed", "restore_failed", "installed"}]
    BY DEF TypeOK
  <2>4. kept' \in [Procs -> {None, "prev", "new", "bad"}]
    BY DEF TypeOK
  <2>5. beat' \in [Procs -> {"off", "asleep", "writing", "failed"}] /\ taken' \in BOOLEAN
    BY DEF TypeOK
  <2>6. lock' \in [age : 0..(StaleAfter + 1), by : Procs \union {None}]
    BY StaleAssumption DEF TypeOK, NoLock
  <2>7. UNCHANGED <<windows, bin, old, child, starts>> OBVIOUS
  <2>8. QED BY <2>1, <2>2, <2>3, <2>4, <2>5, <2>6, <2>7 DEF TypeOK
<1>2. Memory' BY DEF Memory, Owns, Before, Locked, None, TypeOK
<1>3. Beats' BY DEF Beats, Holds, Locked, NoLock, None, TypeOK
<1>4. Alone'
  <2>1. CASE lock = NoLock
    <3>1. lock' = lock /\ taken' = taken /\ child' = child /\ pc' = [pc EXCEPT ![p] = "off"]
      BY <2>1
    <3>2. \A q \in Procs : Holds(q)' => q # p /\ Holds(q)
      BY <3>1 DEF TypeOK, Holds, Locked
    <3>3. \A q \in Procs : q # p => pc'[q] = pc[q] BY <3>1 DEF TypeOK
    <3>4. child[p] = "none" /\ pc'[p] # "retry" BY <3>1 DEF Memory, TypeOK
    <3>5. QED BY <3>1, <3>2, <3>3, <3>4 DEF Alone
  <2>2. CASE lock # NoLock BY <2>2 DEF Alone
  <2>3. QED BY <2>1, <2>2
<1>5. RollbackKept' BY DEF RollbackKept, Runnable, None, FilesInStep, Renamed, InPlace, TypeOK
<1>6. FilesInStep' BY DEF FilesInStep, Renamed, InPlace, TypeOK
<1>7. Reports' BY DEF Reports, Report, TypeOK
<1>8. RunningKept' BY DEF RunningKept, Alive, TypeOK
<1>9. QED BY <1>1, <1>2, <1>3, <1>4, <1>5, <1>6, <1>7, <1>8

\* The second exclusive create.
LEMMA RetryInv ==
  ASSUME Inv, NEW p \in Procs, Retry(p) PROVE Inv'
<1> USE StaleAssumption, ProcsAssumption, StartsAssumption
    DEF Inv, Retry, files, Acquired, Return, Goto, Fresh, memory, signals
<1>1. TypeOK'
  <2>1. pc' \in [Procs -> Locked \union {"off", "start", "create", "stat", "steal", "retry"}]
    BY DEF TypeOK, Locked
  <2>2. exe' \in [Procs -> Runnable] /\ sigint' \in [Procs -> {"armed", "flushing", "rearmed"}]
    BY DEF TypeOK, Runnable
  <2>3. /\ cancel' \in [Procs -> BOOLEAN]
        /\ out' \in [Procs -> {None, "cancelled", "failed", "restore_failed", "installed"}]
    BY DEF TypeOK
  <2>4. kept' \in [Procs -> {None, "prev", "new", "bad"}]
    BY DEF TypeOK
  <2>5. beat' \in [Procs -> {"off", "asleep", "writing", "failed"}] /\ taken' \in BOOLEAN
    BY DEF TypeOK
  <2>6. lock' \in [age : 0..(StaleAfter + 1), by : Procs \union {None}]
    BY StaleAssumption DEF TypeOK, NoLock
  <2>7. UNCHANGED <<windows, bin, old, child, starts>> OBVIOUS
  <2>8. QED BY <2>1, <2>2, <2>3, <2>4, <2>5, <2>6, <2>7 DEF TypeOK
<1>2. Memory' BY DEF Memory, Owns, Before, Locked, None, TypeOK
<1>3. Beats' BY DEF Beats, Holds, Locked, NoLock, None, TypeOK
<1>4. Alone' BY DEF Alone, Holds, Locked, TypeOK
<1>5. RollbackKept' BY DEF RollbackKept, Runnable, None, FilesInStep, Renamed, InPlace, TypeOK
<1>6. FilesInStep' BY DEF FilesInStep, Renamed, InPlace, TypeOK
<1>7. Reports' BY DEF Reports, Report, TypeOK
<1>8. RunningKept' BY DEF RunningKept, Alive, TypeOK
<1>9. QED BY <1>1, <1>2, <1>3, <1>4, <1>5, <1>6, <1>7, <1>8

\* The holder returns and removes the lock.
LEMMA ReleaseInv ==
  ASSUME Inv, NEW p \in Procs, Release(p) PROVE Inv'
<1> USE StaleAssumption, ProcsAssumption, StartsAssumption
    DEF Inv, Release, files, Goto, Fresh
<1>1. TypeOK' BY DEF TypeOK, Locked, Runnable, None, NoLock
<1>2. Memory' BY DEF Memory, Owns, Before, Locked, None, TypeOK
<1>3. Beats' BY DEF Beats, Holds, Locked, NoLock, None, TypeOK
<1>4. Alone'
  <2>1. ASSUME ~taken
        PROVE  \A q \in Procs :
                 (Holds(q) => q = p) /\ (child[q] # "none" => Holds(q) \/ pc[q] = "off")
    BY <2>1 DEF Alone, Memory, Holds, Locked
  <2>2. Holds(p) /\ child[p] = "none" BY DEF Memory, Holds, Locked
  <2>3. ASSUME ~taken PROVE \A q \in Procs : child[q] = "none"
    BY <2>1, <2>2, <2>3 DEF Alone
  <2>4. \A q \in Procs : pc'[q] = IF q = p THEN "off" ELSE pc[q] BY DEF TypeOK
  <2>5. QED BY <2>1, <2>3, <2>4 DEF Alone, Holds, Locked
<1>5. RollbackKept' BY DEF RollbackKept, Runnable, None, FilesInStep, Renamed, InPlace, TypeOK
<1>6. FilesInStep' BY DEF FilesInStep, Renamed, InPlace, TypeOK
<1>7. Reports' BY DEF Reports, Report, TypeOK
<1>8. RunningKept' BY DEF RunningKept, Alive, TypeOK
<1>9. QED BY <1>1, <1>2, <1>3, <1>4, <1>5, <1>6, <1>7, <1>8

\* The heartbeat rewrites the lock file.
LEMMA BeatWritesInv ==
  ASSUME Inv, NEW p \in Procs, BeatWrites(p) PROVE Inv'
<1> USE StaleAssumption, ProcsAssumption, StartsAssumption
    DEF Inv, BeatWrites, Rewritten, BeatOver, files, signals, history
<1>1. TypeOK' BY DEF TypeOK, Locked, Runnable, None, NoLock
<1>2. Memory' BY DEF Memory, Owns, Before, Locked, None, TypeOK
<1>3. Beats'
  <2>1. CASE Rewritten(p)
    <3>1. lock'.by \in Procs /\ lock'.age = 0
      BY <2>1 DEF Beats, NoLock, None, TypeOK
    <3>2. \A q \in Procs : Holds(q) => beat'[q] # "off"
      BY DEF Beats, Holds, Locked, Alive, TypeOK
    <3>3. lock'.by # None BY <3>1, ProcsAssumption DEF None
    <3>4. QED BY <3>1, <3>2, <3>3 DEF Beats, Holds
  <2>2. CASE UNCHANGED lock /\ beat' = [beat EXCEPT ![p] = IF Alive(p) THEN "failed" ELSE "off"]
    <3>1. Holds(p) => beat'[p] = "failed"
      BY <2>2 DEF Holds, Locked, Alive, TypeOK
    <3>2. \A q \in Procs : q # p => beat'[q] = beat[q]
      BY <2>2 DEF TypeOK
    <3>3. QED BY <2>2, <3>1, <3>2 DEF Beats, Holds
  <2>3. QED BY <2>1, <2>2
<1>4. Alone'
  <2>1. lock # NoLock => lock' # NoLock
    BY ProcsAssumption DEF Beats, NoLock, None, TypeOK
  <2>2. QED BY <2>1 DEF Alone, Holds
<1>5. RollbackKept' BY DEF RollbackKept, Runnable, None, FilesInStep, Renamed, InPlace, TypeOK
<1>6. FilesInStep'
  <2>1. lock' = NoLock => lock = NoLock
    BY ProcsAssumption DEF Beats, NoLock, None, TypeOK
  <2>2. QED BY <2>1 DEF FilesInStep
<1>7. Reports' BY DEF Reports, Report, TypeOK
<1>8. RunningKept' BY DEF RunningKept, Alive, TypeOK
<1>9. QED BY <1>1, <1>2, <1>3, <1>4, <1>5, <1>6, <1>7, <1>8

\* The leftover .old is removed.
LEMMA RemoveStaleOldInv ==
  ASSUME Inv, NEW p \in Procs, RemoveStaleOld(p) PROVE Inv'
<1> USE StaleAssumption, ProcsAssumption, StartsAssumption
    DEF Inv, RemoveStaleOld, files, Goto, signals, history
<1>1. TypeOK' BY DEF TypeOK, Locked, Runnable, None, NoLock
<1>2. Memory' BY DEF Memory, Owns, Before, Locked, None, TypeOK
<1>3. Beats' BY DEF Beats, Holds, Locked, NoLock, None, TypeOK
<1>4. Alone' BY DEF Alone, Holds, Locked, TypeOK
<1>5. RollbackKept' BY DEF RollbackKept, Runnable, None, FilesInStep, Renamed, InPlace, TypeOK
<1>6. FilesInStep'
  <2>1. ASSUME ~taken PROVE \A q \in Procs : pc[q] \in Locked => q = p
    BY <2>1 DEF Alone, Holds, Locked
  <2>2. ASSUME ~taken PROVE \A q \in Procs : child[q] = "none" \/ q = p
    BY <2>1, <2>2 DEF Alone, Holds, Locked, Memory
  <2>3. QED BY <2>1, <2>2 DEF FilesInStep, Renamed, InPlace, Locked, TypeOK, Memory
<1>7. Reports' BY DEF Reports, Report, TypeOK
<1>8. RunningKept' BY DEF RunningKept, Alive, InUse, TypeOK
<1>9. QED BY <1>1, <1>2, <1>3, <1>4, <1>5, <1>6, <1>7, <1>8

\* The binary is renamed to .old.
LEMMA RenameToOldInv ==
  ASSUME Inv, NEW p \in Procs, RenameToOld(p) PROVE Inv'
<1> USE StaleAssumption, ProcsAssumption, StartsAssumption
    DEF Inv, RenameToOld, files, Goto, signals
<1>1. TypeOK' BY DEF TypeOK, Locked, Runnable, None, NoLock
<1>2. Memory' BY DEF Memory, Owns, Before, Locked, None, TypeOK
<1>3. Beats' BY DEF Beats, Holds, Locked, NoLock, None, TypeOK
<1>4. Alone' BY DEF Alone, Holds, Locked, TypeOK
<1>5. RollbackKept' BY DEF RollbackKept, Runnable, None, FilesInStep, Renamed, InPlace, TypeOK
<1>6. FilesInStep'
  <2>1. ASSUME ~taken PROVE \A q \in Procs : pc[q] \in Locked => q = p
    BY <2>1 DEF Alone, Holds, Locked
  <2>2. ASSUME ~taken PROVE \A q \in Procs : child[q] = "none" \/ q = p
    BY <2>1, <2>2 DEF Alone, Holds, Locked, Memory
  <2>3. child[p] = "none" BY DEF Memory
  <2>4. CASE bin = None \/ (windows /\ InUse(old))
    <3>1. UNCHANGED <<bin, old, kept>> /\ pc' = [pc EXCEPT ![p] = "release"]
      BY <2>4
    <3>2. QED BY <2>1, <2>2, <2>3, <3>1 DEF FilesInStep, Renamed, InPlace, Locked, TypeOK
  <2>5. CASE bin # None /\ ~(windows /\ InUse(old))
    <3>1. /\ old' = bin /\ bin' = None /\ kept' = [kept EXCEPT ![p] = bin]
          /\ pc' = [pc EXCEPT ![p] = "prepare"]
      BY <2>5
    <3>2. Holds(p) BY DEF Holds, Locked
    <3>3. \A q \in Procs : pc'[q] \in Locked => (~taken => q = p) BY <2>1, <3>1 DEF TypeOK
    <3>4. ~taken => lock # NoLock /\ bin \in Runnable
      BY <3>2 DEF Alone, FilesInStep, InPlace
    <3>5. pc'[p] = "prepare" /\ kept'[p] = bin BY <3>1 DEF TypeOK
    <3>6. QED BY <2>2, <2>3, <3>1, <3>3, <3>4, <3>5
              DEF FilesInStep, Renamed, InPlace, Locked, None
  <2>6. QED BY <2>4, <2>5
<1>7. Reports'
  <2>1. ASSUME ~taken PROVE \A q \in Procs : pc[q] \in Locked => q = p
    BY <2>1 DEF Alone, Holds, Locked
  <2>2. ASSUME ~taken PROVE \A q \in Procs : child[q] = "none" \/ q = p
    BY <2>1, <2>2 DEF Alone, Holds, Locked, Memory
  <2>3. kept[p] = None BY DEF Memory, Before
  <2>4. \A q \in Procs : ~taken /\ pc'[q] = "release" => q = p /\ kept'[q] = None
    BY <2>1, <2>3 DEF TypeOK, Locked
  <2>5. QED BY <2>4 DEF Reports
<1>8. RunningKept'
  <2>1. UNCHANGED <<exe, windows, taken>> /\ \A q \in Procs : Alive(q)' = Alive(q)
    BY DEF Alive, TypeOK
  <2>2. CASE UNCHANGED <<bin, old>> BY <2>1, <2>2 DEF RunningKept
  <2>3. CASE old' = bin /\ ~(windows /\ InUse(old))
    BY <2>1, <2>3 DEF RunningKept, InUse
  <2>4. QED BY <2>2, <2>3
<1>9. QED BY <1>1, <1>2, <1>3, <1>4, <1>5, <1>6, <1>7, <1>8

\* The temporary directory and the HTTP client.
LEMMA PrepareInv ==
  ASSUME Inv, NEW p \in Procs, Prepare(p) PROVE Inv'
<1> USE StaleAssumption, ProcsAssumption, StartsAssumption
    DEF Inv, Prepare, files, Goto, GiveUp, signals, history
<1>1. TypeOK' BY DEF TypeOK, Locked, Runnable, None, NoLock
<1>2. Memory' BY DEF Memory, Owns, Before, Locked, None, TypeOK
<1>3. Beats' BY DEF Beats, Holds, Locked, NoLock, None, TypeOK
<1>4. Alone' BY DEF Alone, Holds, Locked, TypeOK
<1>5. RollbackKept' BY DEF RollbackKept, Runnable, None, FilesInStep, Renamed, InPlace, TypeOK
<1>6. FilesInStep' BY DEF FilesInStep, Renamed, InPlace, TypeOK
<1>7. Reports' BY DEF Reports, Report, TypeOK
<1>8. RunningKept' BY DEF RunningKept, Alive, TypeOK
<1>9. QED BY <1>1, <1>2, <1>3, <1>4, <1>5, <1>6, <1>7, <1>8

\* The installer script is fetched and spawned.
LEMMA DownloadInv ==
  ASSUME Inv, NEW p \in Procs, Download(p) PROVE Inv'
<1> USE StaleAssumption, ProcsAssumption, StartsAssumption
    DEF Inv, Download, files, Goto, GiveUp, signals, history
<1>1. TypeOK' BY DEF TypeOK, Locked, Runnable, None, NoLock
<1>2. Memory' BY DEF Memory, Owns, Before, Locked, None, TypeOK
<1>3. Beats' BY DEF Beats, Holds, Locked, NoLock, None, TypeOK
<1>4. Alone'
  <2>1. \A q \in Procs : Holds(q)' = Holds(q) BY DEF Holds, Locked, TypeOK
  <2>2. \A q \in Procs : pc'[q] \in {"off", "retry"} => q # p /\ pc'[q] = pc[q] BY DEF TypeOK
  <2>3. Holds(p) BY DEF Holds, Locked
  <2>4. ASSUME ~taken PROVE \A q \in Procs : child[q] = "none" \/ q = p
    BY <2>3, <2>4 DEF Alone, Holds, Locked, Memory
  <2>5. \A q \in Procs : q # p => child'[q] = child[q] BY DEF TypeOK
  <2>6. QED BY <2>1, <2>2, <2>4, <2>5 DEF Alone
<1>5. RollbackKept' BY DEF RollbackKept, Runnable, None, FilesInStep, Renamed, InPlace, TypeOK
<1>6. FilesInStep'
  <2>1. ASSUME ~taken PROVE \A q \in Procs : pc[q] \in Locked => q = p
    BY <2>1 DEF Alone, Holds, Locked
  <2>2. ASSUME ~taken PROVE \A q \in Procs : child[q] = "none" \/ q = p
    BY <2>1, <2>2 DEF Alone, Holds, Locked, Memory
  <2>3. UNCHANGED <<bin, old, kept, lock, taken>> OBVIOUS
  <2>4. \A q \in Procs : ~taken /\ pc'[q] \in Locked => q = p BY <2>1 DEF TypeOK
  <2>5. pc'[p] \in {"run", "restore"} /\ pc[p] \in Renamed BY DEF TypeOK, Renamed
  <2>6. \A q \in Procs : ~taken /\ child'[q] # "none" => q = p BY <2>2 DEF TypeOK
  <2>7. QED BY <2>3, <2>4, <2>5, <2>6 DEF FilesInStep, Renamed, InPlace, Locked, Runnable, None
<1>7. Reports' BY DEF Reports, Report, TypeOK
<1>8. RunningKept' BY DEF RunningKept, Alive, TypeOK
<1>9. QED BY <1>1, <1>2, <1>3, <1>4, <1>5, <1>6, <1>7, <1>8

\* The installer writes the binary, also after its parent has died.
LEMMA InstallerWritesInv ==
  ASSUME Inv, NEW p \in Procs, InstallerWrites(p) PROVE Inv'
<1> USE StaleAssumption, ProcsAssumption, StartsAssumption
    DEF Inv, InstallerWrites, files, signals, history
<1>1. TypeOK' BY DEF TypeOK, Locked, Runnable, None, NoLock
<1>2. Memory' BY DEF Memory, Owns, Before, Locked, None, TypeOK
<1>3. Beats' BY DEF Beats, Holds, Locked, NoLock, None, TypeOK
<1>4. Alone' BY DEF Alone, Holds, Locked, TypeOK
<1>5. RollbackKept' BY DEF RollbackKept, Runnable, None, FilesInStep, Renamed, InPlace, TypeOK
<1>6. FilesInStep'
  <2>1. ASSUME ~taken, NEW q \in Procs, pc[q] \in Locked PROVE q = p /\ pc[q] = "run"
    BY <2>1 DEF Alone, Holds, Locked, Memory
  <2>2. ASSUME ~taken PROVE \A q \in Procs : child[q] = "none" \/ q = p
    BY <2>2 DEF Alone
  <2>3. UNCHANGED <<pc, old, kept, lock, taken, out>> /\ bin' \in {"bad", "new"} OBVIOUS
  <2>4. ~taken => old \in Runnable /\ lock # NoLock
    BY DEF FilesInStep, Alone, Memory, Holds, Locked
  <2>5. child'[p] = "wrote" \/ bin' = "bad" BY DEF TypeOK
  <2>6. \A q \in Procs : q # p => child'[q] = child[q] BY DEF TypeOK
  <2>7. ASSUME ~taken, NEW q \in Procs, pc[q] \in Renamed
        PROVE old = kept[q] /\ pc[q] \notin {"prepare", "download", "cleanup"}
    BY <2>1, <2>7 DEF FilesInStep, Renamed, Locked
  <2>8. ASSUME ~taken PROVE \A q \in Procs : pc[q] \notin InPlace
    BY <2>1, <2>8 DEF InPlace, Locked
  <2>9. QED BY <2>2, <2>3, <2>4, <2>5, <2>6, <2>7, <2>8 DEF FilesInStep, Runnable, Renamed
<1>7. Reports'
  <2>1. ASSUME ~taken, NEW q \in Procs, pc[q] \in Locked PROVE q = p /\ pc[q] = "run"
    BY <2>1 DEF Alone, Holds, Locked, Memory
  <2>2. ASSUME ~taken PROVE \A q \in Procs : child[q] = "none" \/ q = p
    BY <2>2 DEF Alone
  <2>3. UNCHANGED <<pc, old, kept, lock, taken, out>> /\ bin' \in {"bad", "new"} OBVIOUS
  <2>4. QED BY <2>1, <2>3 DEF Reports, Locked
<1>8. RunningKept'
  <2>1. ~taken => bin # "prev" BY DEF FilesInStep, Runnable
  <2>2. QED BY <2>1 DEF RunningKept, Alive
<1>9. QED BY <1>1, <1>2, <1>3, <1>4, <1>5, <1>6, <1>7, <1>8

\* The installer ends.
LEMMA RunInstallerInv ==
  ASSUME Inv, NEW p \in Procs, RunInstaller(p) PROVE Inv'
<1> USE StaleAssumption, ProcsAssumption, StartsAssumption
    DEF Inv, RunInstaller, files, Goto, GiveUp, signals, history
<1>1. TypeOK' BY DEF TypeOK, Locked, Runnable, None, NoLock
<1>2. Memory'
  <2>1. child'[p] = "none" /\ \A q \in Procs : q # p => child'[q] = child[q] BY DEF TypeOK
  <2>2. pc'[p] \in {"restore", "verify"} /\ \A q \in Procs : q # p => pc'[q] = pc[q] BY DEF TypeOK
  <2>3. out'[p] \in {"failed", out[p]} /\ \A q \in Procs : q # p => out'[q] = out[q] BY DEF TypeOK
  <2>4. QED BY <2>1, <2>2, <2>3 DEF Memory, Owns, Before
<1>3. Beats' BY DEF Beats, Holds, Locked, NoLock, None, TypeOK
<1>4. Alone' BY DEF Alone, Holds, Locked, TypeOK
<1>5. RollbackKept' BY DEF RollbackKept, Runnable, None, FilesInStep, Renamed, InPlace, TypeOK
<1>6. FilesInStep' BY DEF FilesInStep, Renamed, InPlace, TypeOK
<1>7. Reports' BY DEF Reports, Report, TypeOK
<1>8. RunningKept' BY DEF RunningKept, Alive, TypeOK
<1>9. QED BY <1>1, <1>2, <1>3, <1>4, <1>5, <1>6, <1>7, <1>8

\* The new binary is asked for its version.
LEMMA VerifyInv ==
  ASSUME Inv, NEW p \in Procs, Verify(p) PROVE Inv'
<1> USE StaleAssumption, ProcsAssumption, StartsAssumption
    DEF Inv, Verify, files, Goto, GiveUp, Acceptable, signals, history
<1>1. TypeOK' BY DEF TypeOK, Locked, Runnable, None, NoLock
<1>2. Memory' BY DEF Memory, Owns, Before, Locked, None, TypeOK
<1>3. Beats' BY DEF Beats, Holds, Locked, NoLock, None, TypeOK
<1>4. Alone' BY DEF Alone, Holds, Locked, TypeOK
<1>5. RollbackKept' BY DEF RollbackKept, Runnable, None, FilesInStep, Renamed, InPlace, TypeOK
<1>6. FilesInStep' BY DEF FilesInStep, Renamed, InPlace, TypeOK
<1>7. Reports' BY DEF Reports, Report, TypeOK
<1>8. RunningKept' BY DEF RunningKept, Alive, TypeOK
<1>9. QED BY <1>1, <1>2, <1>3, <1>4, <1>5, <1>6, <1>7, <1>8

\* The cancellation wins.
LEMMA CancelledInv ==
  ASSUME Inv, NEW p \in Procs, Cancelled(p) PROVE Inv'
<1> USE StaleAssumption, ProcsAssumption, StartsAssumption
    DEF Inv, Cancelled, files, Goto, GiveUp, signals, history
<1>1. TypeOK' BY DEF TypeOK, Locked, Runnable, None, NoLock
<1>2. Memory' BY DEF Memory, Owns, Before, Locked, None, TypeOK
<1>3. Beats' BY DEF Beats, Holds, Locked, NoLock, None, TypeOK
<1>4. Alone' BY DEF Alone, Holds, Locked, TypeOK
<1>5. RollbackKept' BY DEF RollbackKept, Runnable, None, FilesInStep, Renamed, InPlace, TypeOK
<1>6. FilesInStep' BY DEF FilesInStep, Renamed, InPlace, TypeOK
<1>7. Reports' BY DEF Reports, Report, TypeOK
<1>8. RunningKept' BY DEF RunningKept, Alive, TypeOK
<1>9. QED BY <1>1, <1>2, <1>3, <1>4, <1>5, <1>6, <1>7, <1>8

\* The verified upgrade drops the rollback copy.
LEMMA CleanupInv ==
  ASSUME Inv, NEW p \in Procs, Cleanup(p) PROVE Inv'
<1> USE StaleAssumption, ProcsAssumption, StartsAssumption
    DEF Inv, Cleanup, files, Goto, signals, history
<1>1. TypeOK' BY DEF TypeOK, Locked, Runnable, None, NoLock
<1>2. Memory' BY DEF Memory, Owns, Before, Locked, None, TypeOK
<1>3. Beats' BY DEF Beats, Holds, Locked, NoLock, None, TypeOK
<1>4. Alone' BY DEF Alone, Holds, Locked, TypeOK
<1>5. RollbackKept' BY DEF RollbackKept, Runnable, None, FilesInStep, Renamed, InPlace, TypeOK
<1>6. FilesInStep'
  <2>1. ASSUME ~taken PROVE \A q \in Procs : pc[q] \in Locked => q = p
    BY <2>1 DEF Alone, Holds, Locked
  <2>2. ASSUME ~taken PROVE \A q \in Procs : child[q] = "none" \/ q = p
    BY <2>1, <2>2 DEF Alone, Holds, Locked, Memory
  <2>3. \A q \in Procs : ~taken /\ pc'[q] \in Locked => q = p BY <2>1 DEF TypeOK
  <2>4. pc'[p] = "release" /\ child[p] = "none" BY DEF TypeOK, Memory
  <2>5. ~taken => bin = "new" BY DEF FilesInStep
  <2>6. QED BY <2>2, <2>3, <2>4, <2>5 DEF FilesInStep, Renamed, InPlace, Locked, Runnable
<1>7. Reports'
  <2>1. ASSUME ~taken PROVE \A q \in Procs : pc[q] \in Locked => q = p
    BY <2>1 DEF Alone, Holds, Locked
  <2>2. ASSUME ~taken PROVE \A q \in Procs : child[q] = "none" \/ q = p
    BY <2>1, <2>2 DEF Alone, Holds, Locked, Memory
  <2>3. \A q \in Procs : ~taken /\ pc'[q] \in Locked => q = p BY <2>1 DEF TypeOK
  <2>4. out'[p] = "installed" BY DEF TypeOK
  <2>5. ~taken => bin = "new" BY DEF FilesInStep
  <2>6. QED BY <2>3, <2>4, <2>5 DEF Reports, Report, Locked
<1>8. RunningKept' BY DEF RunningKept, Alive, TypeOK
<1>9. QED BY <1>1, <1>2, <1>3, <1>4, <1>5, <1>6, <1>7, <1>8

\* The rollback copy is renamed back.
LEMMA RestoreInv ==
  ASSUME Inv, NEW p \in Procs, Restore(p) PROVE Inv'
<1> USE StaleAssumption, ProcsAssumption, StartsAssumption
    DEF Inv, Restore, files, RestoreRename, Goto, signals, history
<1>1. TypeOK' BY DEF TypeOK, Locked, Runnable, None, NoLock
<1>2. Memory' BY DEF Memory, Owns, Before, Locked, None, TypeOK
<1>3. Beats' BY DEF Beats, Holds, Locked, NoLock, None, TypeOK
<1>4. Alone' BY DEF Alone, Holds, Locked, TypeOK
<1>5. RollbackKept' BY DEF RollbackKept, Runnable, None, FilesInStep, Renamed, InPlace, TypeOK
<1>6. FilesInStep'
  <2>1. ASSUME ~taken PROVE \A q \in Procs : pc[q] \in Locked => q = p
    BY <2>1 DEF Alone, Holds, Locked
  <2>2. ASSUME ~taken PROVE \A q \in Procs : child[q] = "none" \/ q = p
    BY <2>1, <2>2 DEF Alone, Holds, Locked, Memory
  <2>3. \A q \in Procs : ~taken /\ pc'[q] \in Locked => q = p BY <2>1 DEF TypeOK, Locked
  <2>4. child[p] = "none" /\ Holds(p) BY DEF Memory, Holds, Locked
  <2>5. ~taken => old = kept[p] /\ old \in Runnable /\ lock # NoLock
    BY <2>4 DEF FilesInStep, Renamed, Alone
  <2>6. \/ pc'[p] = "restore2" /\ old' = old /\ bin' = None
        \/ pc'[p] = "release" /\ (old # None => bin' = old)
    BY DEF TypeOK
  <2>7. QED BY <2>2, <2>3, <2>4, <2>5, <2>6
            DEF FilesInStep, Renamed, InPlace, Locked, Runnable, None
<1>7. Reports'
  <2>1. ASSUME ~taken PROVE \A q \in Procs : pc[q] \in Locked => q = p
    BY <2>1 DEF Alone, Holds, Locked
  <2>2. ASSUME ~taken PROVE \A q \in Procs : child[q] = "none" \/ q = p
    BY <2>1, <2>2 DEF Alone, Holds, Locked, Memory
  <2>3. \A q \in Procs : ~taken /\ pc'[q] = "release" => q = p BY <2>1 DEF TypeOK, Locked
  <2>4. ~taken => old = kept[p] /\ old \in Runnable
    BY DEF FilesInStep, Renamed
  <2>5. pc'[p] = "release" /\ old # None => bin' = old /\ out' = out BY DEF TypeOK
  <2>6. out[p] \notin {"installed", "restore_failed"} BY DEF Memory
  <2>7. QED BY <2>3, <2>4, <2>5, <2>6 DEF Reports, Report, Runnable, None
<1>8. RunningKept'
  <2>1. UNCHANGED <<exe, windows, taken>> /\ \A q \in Procs : Alive(q)' = Alive(q)
    BY DEF Alive, TypeOK
  <2>2. ~taken => bin # "prev" BY DEF FilesInStep, Renamed
  <2>3. \/ bin' = None /\ old' = old
        \/ bin' = old
        \/ UNCHANGED <<bin, old>>
    OBVIOUS
  <2>4. QED BY <2>1, <2>2, <2>3 DEF RunningKept
<1>9. QED BY <1>1, <1>2, <1>3, <1>4, <1>5, <1>6, <1>7, <1>8

\* Ctrl-C.
LEMMA InterruptInv ==
  ASSUME Inv, NEW p \in Procs, Interrupt(p) PROVE Inv'
<1> USE StaleAssumption, ProcsAssumption, StartsAssumption
    DEF Inv, Interrupt, files, history
<1>1. TypeOK' BY DEF TypeOK, Locked, Runnable, None, NoLock
<1>2. Memory' BY DEF Memory, Owns, Before, Locked, None, TypeOK
<1>3. Beats' BY DEF Beats, Holds, Locked, NoLock, None, TypeOK
<1>4. Alone' BY DEF Alone, Holds, Locked, TypeOK
<1>5. RollbackKept' BY DEF RollbackKept, Runnable, None, FilesInStep, Renamed, InPlace, TypeOK
<1>6. FilesInStep' BY DEF FilesInStep, Renamed, InPlace, TypeOK
<1>7. Reports' BY DEF Reports, Report, TypeOK
<1>8. RunningKept' BY DEF RunningKept, Alive, TypeOK
<1>9. QED BY <1>1, <1>2, <1>3, <1>4, <1>5, <1>6, <1>7, <1>8

\* The process ends without a destructor.
LEMMA DieInv ==
  ASSUME Inv, NEW p \in Procs, Die(p) PROVE Inv'
<1> USE StaleAssumption, ProcsAssumption, StartsAssumption
    DEF Inv, Die, files, Goto, Fresh
<1>1. TypeOK' BY DEF TypeOK, Locked, Runnable, None, NoLock
<1>2. Memory' BY DEF Memory, Owns, Before, Locked, None, TypeOK
<1>3. Beats'
  <2>1. \A q \in Procs : Holds(q)' => q # p /\ Holds(q) /\ beat'[q] = beat[q]
    BY DEF Holds, Locked, TypeOK
  <2>2. QED BY <2>1 DEF Beats
<1>4. Alone'
  <2>1. \A q \in Procs : Holds(q)' => q # p /\ Holds(q) BY DEF Holds, Locked, TypeOK
  <2>2. \A q \in Procs : q # p => pc'[q] = pc[q] BY DEF TypeOK
  <2>3. pc'[p] = "off" BY DEF TypeOK
  <2>4. child[p] # "none" => Holds(p) BY DEF Memory, Holds, Locked, Alive
  <2>5. QED BY <2>1, <2>2, <2>3, <2>4 DEF Alone
<1>5. RollbackKept' BY DEF RollbackKept, Runnable, None, FilesInStep, Renamed, InPlace, TypeOK
<1>6. FilesInStep' BY DEF FilesInStep, Renamed, InPlace, TypeOK
<1>7. Reports' BY DEF Reports, Report, TypeOK
<1>8. RunningKept' BY DEF RunningKept, Alive, TypeOK
<1>9. QED BY <1>1, <1>2, <1>3, <1>4, <1>5, <1>6, <1>7, <1>8

\* An installer without a parent ends.
LEMMA OrphanEndsInv ==
  ASSUME Inv, NEW p \in Procs, OrphanEnds(p) PROVE Inv'
<1> USE StaleAssumption, ProcsAssumption, StartsAssumption
    DEF Inv, OrphanEnds, files, signals, history
<1>1. TypeOK' BY DEF TypeOK, Locked, Runnable, None, NoLock
<1>2. Memory'
  <2>1. child'[p] = "none" /\ \A q \in Procs : q # p => child'[q] = child[q] BY DEF TypeOK
  <2>2. QED BY <2>1 DEF Memory, Owns
<1>3. Beats' BY DEF Beats, Holds, Locked, NoLock, None, TypeOK
<1>4. Alone' BY DEF Alone, Holds, Locked, TypeOK
<1>5. RollbackKept' BY DEF RollbackKept, Runnable, None, FilesInStep, Renamed, InPlace, TypeOK
<1>6. FilesInStep' BY DEF FilesInStep, Renamed, InPlace, TypeOK
<1>7. Reports' BY DEF Reports, Report, TypeOK
<1>8. RunningKept' BY DEF RunningKept, Alive, TypeOK
<1>9. QED BY <1>1, <1>2, <1>3, <1>4, <1>5, <1>6, <1>7, <1>8

\* A heartbeat period passes, and every timer fires.
LEMMA TickInv ==
  ASSUME Inv, Tick PROVE Inv'
<1> USE StaleAssumption, ProcsAssumption, StartsAssumption
    DEF Inv, Tick, files, signals, history
<1>1. TypeOK' BY DEF TypeOK, Locked, Runnable, None, NoLock
<1>2. Memory' BY DEF Memory, Owns, Before, Locked, None, TypeOK
<1>3. Beats'
  <2>1. lock'.age = lock.age + 1 /\ lock'.by = lock.by /\ lock.age \in Nat /\ lock' # NoLock
    BY DEF TypeOK, NoLock
  <2>2. \A q \in Procs : Holds(q) =>
          \/ beat[q] = "asleep" /\ beat'[q] = "writing"
          \/ beat[q] = "failed" /\ beat'[q] = "failed"
    BY DEF Beats, TypeOK
  <2>3. lock.by # None BY DEF Beats
  <2>4. QED BY <2>1, <2>2, <2>3 DEF Beats, Holds
<1>4. Alone'
  <2>1. lock' # NoLock BY DEF NoLock, TypeOK
  <2>2. QED BY <2>1 DEF Alone, Holds
<1>5. RollbackKept' BY DEF RollbackKept, Runnable, None, FilesInStep, Renamed, InPlace, TypeOK
<1>6. FilesInStep'
  <2>1. lock' # NoLock BY DEF NoLock, TypeOK
  <2>2. QED BY <2>1 DEF FilesInStep
<1>7. Reports' BY DEF Reports, Report, TypeOK
<1>8. RunningKept' BY DEF RunningKept, Alive, TypeOK
<1>9. QED BY <1>1, <1>2, <1>3, <1>4, <1>5, <1>6, <1>7, <1>8

----------------------------------------------------------------------------
\* The first state satisfies the invariant.
LEMMA InitInv == Init => Inv
<1> SUFFICES ASSUME Init PROVE Inv OBVIOUS
<1> USE StaleAssumption, ProcsAssumption, StartsAssumption DEF Init
<1>1. TypeOK
  <2>1. /\ bin \in {None, "prev", "new", "bad"} /\ old \in {None, "prev", "new", "bad"}
        /\ lock \in [age : 0..(StaleAfter + 1), by : Procs \union {None}]
    BY DEF NoLock, None
  <2>2. /\ pc \in [Procs -> Locked \union {"off", "start", "create", "stat", "steal", "retry"}]
        /\ exe \in [Procs -> Runnable]
    BY DEF Runnable
  <2>3. /\ out \in [Procs -> {None, "cancelled", "failed", "restore_failed", "installed"}]
        /\ kept \in [Procs -> {None, "prev", "new", "bad"}]
    OBVIOUS
  <2>4. /\ windows \in BOOLEAN /\ taken \in BOOLEAN
        /\ starts \in 0..MaxStarts
    <3>1. windows \in BOOLEAN OBVIOUS
    <3>2. taken \in BOOLEAN OBVIOUS
    <3>3. starts = 0 OBVIOUS
    <3>4. 0 \in 0..MaxStarts BY StartsAssumption
    <3>5. QED BY <3>1, <3>2, <3>3, <3>4
  <2>5. /\ sigint \in [Procs -> {"armed", "flushing", "rearmed"}]
        /\ cancel \in [Procs -> BOOLEAN]
        /\ beat \in [Procs -> {"off", "asleep", "writing", "failed"}]
        /\ child \in [Procs -> {"none", "running", "writing", "wrote"}]
    OBVIOUS
  <2>6. QED BY <2>1, <2>2, <2>3, <2>4, <2>5 DEF TypeOK
<1>2. Memory /\ Beats BY DEF Memory, Owns, Before, Beats, Holds, Locked, NoLock, None
<1>3. Alone BY DEF Alone, Holds, Locked
<1>4. RollbackKept /\ FilesInStep
  BY DEF RollbackKept, FilesInStep, Runnable, Renamed, InPlace
<1>5. Reports /\ RunningKept BY DEF Reports, RunningKept, Alive
<1>6. QED BY <1>1, <1>2, <1>3, <1>4, <1>5 DEF Inv

\* A step that changes nothing keeps it.
LEMMA StutterInv == ASSUME Inv, UNCHANGED vars PROVE Inv'
<1> USE DEF Inv, vars
<1>1. TypeOK' BY DEF TypeOK
<1>2. Memory' /\ Beats' BY DEF Memory, Owns, Beats, Holds
<1>3. Alone' BY DEF Alone, Holds
<1>4. RollbackKept' /\ FilesInStep' BY DEF RollbackKept, FilesInStep
<1>5. Reports' /\ RunningKept' BY DEF Reports, Report, RunningKept, Alive
<1>6. QED BY <1>1, <1>2, <1>3, <1>4, <1>5

\* Every step keeps it.
LEMMA NextInv == Inv /\ [Next]_vars => Inv'
<1> SUFFICES ASSUME Inv, [Next]_vars PROVE Inv' OBVIOUS
<1>1. CASE UNCHANGED vars BY <1>1, StutterInv
<1>2. CASE Tick BY <1>2, TickInv
<1>3. ASSUME NEW p \in Procs, Command(p) PROVE Inv'
  BY <1>3, TurnedDownInv, ConfirmedInv, CreateInv, JudgeAgeInv, StealInv, RetryInv, ReleaseInv,
     RemoveStaleOldInv, RenameToOldInv, PrepareInv, DownloadInv, RunInstallerInv, VerifyInv,
     CancelledInv, CleanupInv, RestoreInv DEF Command
<1>4. ASSUME NEW p \in Procs,
             \/ Start(p) \/ BeatWrites(p) \/ InstallerWrites(p)
             \/ Interrupt(p) \/ Die(p) \/ OrphanEnds(p)
      PROVE  Inv'
  BY <1>4, StartInv, BeatWritesInv, InstallerWritesInv, InterruptInv, DieInv, OrphanEndsInv
<1>5. QED BY <1>1, <1>2, <1>3, <1>4 DEF Next

\* The invariant holds in every state of every behaviour.
LEMMA Invariant == Spec => []Inv
<1>1. QED BY InitInv, NextInv, PTL DEF Spec

\* Every variable of the model of `ags update --install` keeps its type: the age
\* of the lock never passes the staleness limit by more than one period.
THEOREM UpdateTypeCorrect == Spec => []TypeOK
<1>1. Inv => TypeOK BY DEF Inv
<1>2. QED BY <1>1, Invariant, PTL

\* preserve, restore and cleanup keep a binary that runs at binary_path or at
\* .old, for any number of concurrent invocations, wherever one is interrupted,
\* killed or fails, until a lock is taken over as stale.
THEOREM RollbackCopyKept == Spec => []RollbackKept
<1>1. Inv => RollbackKept BY DEF Inv
<1>2. QED BY <1>1, Invariant, PTL

\* Until a lock is taken over as stale, InstallLock excludes: what the comment
\* in InstallLock::acquire says of two installers holds that far.
THEOREM LockExcludes == Spec => [](~taken => OneInstaller)
<1>1. Inv => (~taken => OneInstaller) BY DEF Inv, Alone, OneInstaller
<1>2. QED BY <1>1, Invariant, PTL

\* An invocation that is about to return still knows what it renamed.
LEMMA OwnMemoryKept ==
  ASSUME TypeOK, Next, NEW p \in Procs, kept[p] # None, Holds(p), pc'[p] = "release"
  PROVE  kept'[p] = kept[p]
<1> USE DEF TypeOK, Holds, Locked
<1>1. CASE Tick BY <1>1 DEF Tick, history
<1>2. ASSUME NEW q \in Procs, Command(q) PROVE kept'[p] = kept[p]
  <2>1. CASE TurnedDown(q) \/ Confirmed(q) \/ Create(q)
    BY <2>1 DEF TurnedDown, Confirmed, Create, Return, Goto, Fresh, memory, history
  <2>2. CASE JudgeAge(q) \/ Steal(q) \/ Retry(q) \/ Release(q)
    BY <2>2 DEF JudgeAge, Steal, Retry, Release, Return, Goto, Fresh, memory
  <2>3. CASE RenameToOld(q)
    BY <2>3 DEF RenameToOld, Goto
  <2>4. CASE RemoveStaleOld(q) \/ Prepare(q) \/ Download(q) \/ RunInstaller(q)
    BY <2>4 DEF RemoveStaleOld, Prepare, Download, RunInstaller, history
  <2>5. CASE Verify(q) \/ Cancelled(q) \/ Cleanup(q) \/ Restore(q)
    BY <2>5 DEF Verify, Cancelled, Cleanup, Restore, history
  <2>6. QED BY <1>2, <2>1, <2>2, <2>3, <2>4, <2>5 DEF Command
<1>3. ASSUME NEW q \in Procs, Start(q) \/ Die(q) PROVE kept'[p] = kept[p]
  BY <1>3 DEF Start, Die, Goto, Fresh
<1>4. ASSUME NEW q \in Procs,
             BeatWrites(q) \/ InstallerWrites(q) \/ Interrupt(q) \/ OrphanEnds(q)
      PROVE  kept'[p] = kept[p]
  BY <1>4 DEF BeatWrites, InstallerWrites, Interrupt, OrphanEnds, history
<1>5. QED BY <1>1, <1>2, <1>3, <1>4 DEF Next

\* Only the rename of a stale lock takes one over.
LEMMA OnlyStealTakes ==
  ASSUME Next, taken' # taken PROVE \E q \in Procs : Steal(q)
<1>1. ASSUME NEW q \in Procs, Command(q) PROVE Steal(q)
  <2>1. ~(TurnedDown(q) \/ Confirmed(q) \/ Create(q) \/ JudgeAge(q) \/ Retry(q) \/ Release(q))
    BY DEF TurnedDown, Confirmed, Create, JudgeAge, Retry, Release, history
  <2>2. ~(RemoveStaleOld(q) \/ RenameToOld(q) \/ Prepare(q) \/ Download(q) \/ RunInstaller(q))
    BY DEF RemoveStaleOld, RenameToOld, Prepare, Download, RunInstaller, history
  <2>3. ~(Verify(q) \/ Cancelled(q) \/ Cleanup(q) \/ Restore(q))
    BY DEF Verify, Cancelled, Cleanup, Restore, history
  <2>4. QED BY <1>1, <2>1, <2>2, <2>3 DEF Command
<1>2. ~Tick BY DEF Tick, history
<1>3. \A q \in Procs : ~(\/ Start(q) \/ BeatWrites(q) \/ InstallerWrites(q)
                         \/ Interrupt(q) \/ Die(q) \/ OrphanEnds(q))
  BY DEF Start, BeatWrites, InstallerWrites, Interrupt, Die, OrphanEnds, history
<1>4. QED BY <1>1, <1>2, <1>3 DEF Next

\* What handle_install reports once it has renamed its binary is what it did:
\* "installed" over a verified binary, anything else with the previous binary
\* back in place, and never a failed restore.
THEOREM ReportsAreTrue == Spec => OutcomeTrue
<1> DEFINE Step ==
      \A p \in Procs :
        (Holds(p) /\ pc'[p] = "release" /\ ~taken /\ kept[p] # None) =>
          CASE out'[p] = "installed" -> bin' = "new"
            [] out'[p] = "restore_failed" -> FALSE
            [] OTHER -> bin' = kept[p]
<1>1. ASSUME Inv, Inv', [Next]_vars PROVE [Step]_vars
  <2>1. SUFFICES ASSUME Next, NEW p \in Procs,
                        Holds(p) /\ pc'[p] = "release" /\ ~taken /\ kept[p] # None
                 PROVE  /\ out'[p] # "restore_failed"
                        /\ out'[p] = "installed" => bin' = "new"
                        /\ out'[p] # "installed" => bin' = kept[p]
    BY <1>1
  <2>2. CASE taken' = taken
    <3>1. kept'[p] = kept[p] BY <1>1, <2>1, OwnMemoryKept DEF Inv
    <3>2. Report(p)' BY <1>1, <2>1, <2>2, <3>1 DEF Inv, Reports
    <3>3. QED BY <3>1, <3>2 DEF Report
  <2>3. CASE taken' # taken
    <3>1. PICK q \in Procs : Steal(q) BY <2>1, <2>3, OnlyStealTakes
    <3>2. pc[p] = "release" /\ UNCHANGED <<bin, out>>
      BY <1>1, <2>1, <2>3, <3>1 DEF Steal, Goto, memory, signals, files, Return, Inv, TypeOK
    <3>3. Report(p) BY <1>1, <2>1, <3>2 DEF Inv, Reports
    <3>4. QED BY <3>2, <3>3 DEF Report
  <2>4. QED BY <2>2, <2>3
<1>2. QED BY <1>1, Invariant, PTL DEF Spec, OutcomeTrue

\* Only the age check condemns a lock.
LEMMA OnlyOldCondemned ==
  ASSUME TypeOK, Next, NEW p \in Procs, pc[p] = "stat", pc'[p] = "steal"
  PROVE  lock # NoLock /\ lock.age > StaleAfter
<1> USE DEF TypeOK
<1>1. ~Tick BY DEF Tick
<1>2. ASSUME NEW q \in Procs, Command(q) PROVE JudgeAge(q) /\ q = p
  <2>1. ~(TurnedDown(q) \/ Confirmed(q) \/ Create(q) \/ Steal(q) \/ Retry(q) \/ Release(q))
    BY DEF TurnedDown, Confirmed, Create, Steal, Retry, Release, Acquired, Return, Goto
  <2>2. ~(RemoveStaleOld(q) \/ RenameToOld(q) \/ Prepare(q) \/ Download(q) \/ RunInstaller(q))
    BY DEF RemoveStaleOld, RenameToOld, Prepare, Download, RunInstaller, GiveUp, Goto
  <2>3. ~(Verify(q) \/ Cancelled(q) \/ Cleanup(q) \/ Restore(q))
    BY DEF Verify, Cancelled, Cleanup, Restore, RestoreRename, GiveUp, Goto
  <2>4. JudgeAge(q) BY <1>2, <2>1, <2>2, <2>3 DEF Command
  <2>5. q = p BY <2>4 DEF JudgeAge, Return, Goto
  <2>6. QED BY <2>4, <2>5
<1>3. \A q \in Procs : ~(\/ Start(q) \/ BeatWrites(q) \/ InstallerWrites(q)
                         \/ Interrupt(q) \/ Die(q) \/ OrphanEnds(q))
  BY DEF Start, BeatWrites, InstallerWrites, Interrupt, Die, OrphanEnds, Goto
<1>4. JudgeAge(p) BY <1>1, <1>2, <1>3 DEF Next
<1>5. QED BY <1>4 DEF JudgeAge, Return, Goto

\* The heartbeat is a proof of life while its writes succeed: JudgeAge never
\* condemns the lock of an invocation that still holds it, for any staleness
\* limit of two periods or more and however long the download and the installer
\* take, unless a write of that invocation's heartbeat has failed, which ends
\* the heartbeat for good.
THEOREM HeartbeatProvesLife == Spec => LiveHolderNotStale
<1> DEFINE Step ==
      \A p \in Procs : pc[p] = "stat" /\ pc'[p] = "steal" =>
        ~Holds(lock.by) \/ beat[lock.by] = "failed"
<1>1. ASSUME Inv, [Next]_vars PROVE [Step]_vars
  <2>1. SUFFICES ASSUME Next, NEW p \in Procs, pc[p] = "stat", pc'[p] = "steal"
                 PROVE  ~Holds(lock.by) \/ beat[lock.by] = "failed"
    BY <1>1
  <2>2. lock # NoLock /\ lock.age > StaleAfter BY <1>1, <2>1, OnlyOldCondemned DEF Inv
  <2>3. lock.by \in Procs BY <1>1, <2>2 DEF Inv, Beats, TypeOK
  <2>4. lock.age \in Nat /\ StaleAfter \in Nat /\ StaleAfter > 1
    BY <1>1, StaleAssumption DEF Inv, TypeOK
  <2>5. QED BY <1>1, <2>2, <2>3, <2>4 DEF Inv, Beats
<1>2. QED BY <1>1, Invariant, PTL DEF Spec, LiveHolderNotStale

============================================================================
