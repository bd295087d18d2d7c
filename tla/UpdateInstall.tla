---- MODULE UpdateInstall ----
(***************************************************************************)
(* `ags update --install`: several invocations of one copy of the CLI      *)
(* replace the binary they were started from.  An invocation asks for the  *)
(* latest release, confirms, takes the install lock, renames its own       *)
(* binary to `.old`, downloads and runs an installer script, asks the new  *)
(* binary for its version, and either removes `.old` or renames it back.   *)
(* Ctrl-C is watched twice: by the process-wide handler, and by the        *)
(* command itself once it has declared that it owns its interrupt path.    *)
(*                                                                         *)
(* A file is modelled by the version it holds: the one every invocation    *)
(* runs at first ("prev"), the latest release ("new"), one that does not   *)
(* answer `version` acceptably ("bad"), or None when there is no file.     *)
(***************************************************************************)
EXTENDS Naturals, FiniteSets

CONSTANTS Procs,        \* invocations that may be alive at the same time
          StaleAfter,   \* LOCK_STALE_AFTER, in heartbeat periods
          BeatsFail,    \* invocations that may fail to rewrite the lock file
          MaxStarts     \* bound on the invocations started

ASSUME StaleAssumption == StaleAfter \in Nat /\ StaleAfter > 1
ASSUME StartsAssumption == MaxStarts \in Nat
ASSUME ProcsAssumption == "none" \notin Procs
ASSUME BeatsAssumption == BeatsFail \subseteq Procs

VARIABLES
  windows,    \* cfg!(windows)
  bin, old,   \* the files at binary_path and binary_path.old
  lock,       \* the lock file: its age in heartbeat periods and its creator
  pc,         \* where each invocation is
  exe,        \* the version each invocation runs (CARGO_PKG_VERSION)
  sigint,     \* the process-wide Ctrl-C handler
  cancel,     \* the command's CancellationToken
  beat,       \* the heartbeat task
  child,      \* the installer subprocess
  out,        \* what the handler is about to return
  kept,       \* history: what was renamed to .old
  taken,      \* history: some lock was taken over as stale
  starts      \* invocations started so far

vars == <<windows, bin, old, lock, pc, exe, sigint, cancel, beat, child, out, kept,
          taken, starts>>
files == <<bin, old>>
signals == <<sigint, cancel>>
history == <<kept, taken, starts>>

None == "none"
NoLock == [age |-> 0, by |-> None]
Runnable == {"prev", "new"}
Locked == {"preserve", "rename", "prepare", "download", "run", "verify", "cleanup",
           "restore", "restore2", "release"}
Alive(p) == pc[p] # "off"
Holds(p) == pc[p] \in Locked

TypeOK ==
  /\ windows \in BOOLEAN /\ taken \in BOOLEAN /\ starts \in 0..MaxStarts
  /\ bin \in {None, "prev", "new", "bad"} /\ old \in {None, "prev", "new", "bad"}
  /\ lock \in [age : 0..(StaleAfter + 1), by : Procs \union {None}]
  /\ pc \in [Procs -> Locked \union
                      {"off", "start", "create", "stat", "steal", "retry"}]
  /\ exe \in [Procs -> Runnable]
  /\ sigint \in [Procs -> {"armed", "flushing", "rearmed"}]
  /\ cancel \in [Procs -> BOOLEAN]
  /\ beat \in [Procs -> {"off", "asleep", "writing", "failed"}]
  /\ child \in [Procs -> {"none", "running", "writing", "wrote"}]
  /\ out \in [Procs -> {None, "cancelled", "failed", "restore_failed", "installed"}]
  /\ kept \in [Procs -> {None, "prev", "new", "bad"}]

Init ==
  /\ windows \in BOOLEAN
  /\ bin = "prev" /\ old = None /\ lock = NoLock
  /\ pc = [p \in Procs |-> "off"] /\ exe = [p \in Procs |-> "prev"]
  /\ sigint = [p \in Procs |-> "armed"] /\ cancel = [p \in Procs |-> FALSE]
  /\ beat = [p \in Procs |-> "off"] /\ child = [p \in Procs |-> "none"]
  /\ out = [p \in Procs |-> None] /\ kept = [p \in Procs |-> None]
  /\ taken = FALSE /\ starts = 0

Goto(p, l) == pc' = [pc EXCEPT ![p] = l]

\* The memory of a process that starts or has ended.
Fresh(p, version) ==
  /\ exe' = [exe EXCEPT ![p] = version]
  /\ sigint' = [sigint EXCEPT ![p] = "armed"]
  /\ cancel' = [cancel EXCEPT ![p] = FALSE]
  /\ out' = [out EXCEPT ![p] = None]
  /\ kept' = [kept EXCEPT ![p] = None]
memory == <<exe, signals, out, kept>>

\* The handler returns before it holds anything, and the process exits.
Return(p) == Goto(p, "off") /\ Fresh(p, "prev")

(***************************************************************************)
(* Starting, and what comes before the lock                                *)
(***************************************************************************)

\* Windows refuses to delete the image of a running process.
InUse(file) == \E q \in Procs : Alive(q) /\ exe[q] = file

\* A shell starts the binary at binary_path, which must be there and run.  The
\* statics of the process are fresh.  On Windows every start first tries to
\* remove a leftover .old.
Start(p) ==
  /\ pc[p] = "off" /\ starts < MaxStarts /\ bin \in Runnable
  /\ beat[p] = "off" /\ child[p] = "none"
  /\ Goto(p, "start") /\ Fresh(p, bin)
  /\ old' = IF windows /\ ~InUse(old) THEN None ELSE old
  /\ starts' = starts + 1
  /\ UNCHANGED <<windows, bin, lock, beat, child, taken>>

\* What handle_install decides before the lock.  It returns for a dry run, a
\* refused installer URL, a Homebrew copy, a failed check, a current version, and
\* a refused or declined confirmation (confirm_or_refuse).
TurnedDown(p) ==
  /\ pc[p] = "start"
  /\ Return(p)
  /\ UNCHANGED <<windows, files, lock, beat, child, taken, starts>>

\* A newer release, confirmed: the command declares that it owns its interrupt
\* path and spawns its own Ctrl-C watcher.
Confirmed(p) ==
  /\ pc[p] = "start" /\ exe[p] = "prev"
  /\ Goto(p, "create")
  /\ UNCHANGED <<windows, files, lock, beat, child, memory, taken, starts>>

(***************************************************************************)
(* The install lock                                                        *)
(***************************************************************************)

\* create_new succeeded: the file is this invocation's and the heartbeat starts.
Acquired(p) ==
  /\ lock' = [age |-> 0, by |-> p]
  /\ beat' = [beat EXCEPT ![p] = "asleep"]
  /\ Goto(p, "preserve")

\* InstallLock::acquire: the first exclusive create.
Create(p) ==
  /\ pc[p] = "create"
  /\ \/ lock = NoLock /\ Acquired(p)
     \/ lock # NoLock /\ Goto(p, "stat") /\ UNCHANGED <<lock, beat>>
  /\ UNCHANGED <<windows, files, exe, signals, child, out, history>>

\* The modification time of the existing file: a file that is gone is not stale.
JudgeAge(p) ==
  /\ pc[p] = "stat"
  /\ \/ lock # NoLock /\ lock.age > StaleAfter /\ Goto(p, "steal") /\ UNCHANGED memory
     \/ ~(lock # NoLock /\ lock.age > StaleAfter) /\ Return(p)
  /\ UNCHANGED <<windows, files, lock, beat, child, taken, starts>>

\* The rename of the file judged stale: it moves whatever is at the path now.
Steal(p) ==
  /\ pc[p] = "steal"
  /\ \/ /\ lock # NoLock
        /\ lock' = NoLock /\ taken' = TRUE
        /\ Goto(p, "retry") /\ UNCHANGED memory
     \/ lock = NoLock /\ Return(p) /\ UNCHANGED <<lock, taken>>
  /\ UNCHANGED <<windows, files, beat, child, starts>>

\* The second exclusive create.
Retry(p) ==
  /\ pc[p] = "retry"
  /\ \/ lock = NoLock /\ Acquired(p) /\ UNCHANGED memory
     \/ lock # NoLock /\ Return(p) /\ UNCHANGED <<lock, beat>>
  /\ UNCHANGED <<windows, files, child, taken, starts>>

\* InstallLock::drop: abort the heartbeat and remove the file, whoever's it is.
\* A beat whose timer has fired may already be running, and an abort does not
\* stop it then.
Release(p) ==
  /\ pc[p] = "release"
  /\ lock' = NoLock
  /\ \/ beat' = [beat EXCEPT ![p] = "off"]
     \/ beat[p] = "writing" /\ UNCHANGED beat
  /\ Goto(p, "off") /\ Fresh(p, "prev")
  /\ UNCHANGED <<windows, files, child, taken, starts>>

\* fs::write opens the lock file, creates it when it is gone, and rewrites it.
Rewritten(p) == lock' = [age |-> 0, by |-> IF lock = NoLock THEN p ELSE lock.by]

\* The beat is over: the task sleeps again, or, once aborted, is gone.
BeatOver(p) == beat' = [beat EXCEPT ![p] = IF Alive(p) THEN "asleep" ELSE "off"]

\* Mutant: the beat opens the file without changing it.
BeatKeepsAge(p) ==
  /\ beat[p] = "writing"
  /\ lock' = [lock EXCEPT !.by = IF lock = NoLock THEN p ELSE @]
  /\ BeatOver(p)
  /\ UNCHANGED <<windows, files, pc, exe, signals, child, out, history>>

\* The heartbeat task rewrites the lock file.  A write that fails, before it has
\* touched the file or after, breaks out of the loop: the task ends for good,
\* whatever its comment says of the next beat, and the command goes on.
BeatWrites(p) ==
  /\ beat[p] = "writing"
  /\ \/ Rewritten(p) /\ BeatOver(p)
     \/ /\ p \in BeatsFail
        /\ Rewritten(p) \/ UNCHANGED lock
        /\ beat' = [beat EXCEPT ![p] = IF Alive(p) THEN "failed" ELSE "off"]
  /\ UNCHANGED <<windows, files, pc, exe, signals, child, out, history>>

\* One heartbeat period passes.  A live invocation's timer fires within it.
Tick ==
  /\ lock # NoLock /\ lock.age <= StaleAfter
  /\ \A p \in Procs : beat[p] # "writing"
  /\ lock' = [lock EXCEPT !.age = @ + 1]
  /\ beat' = [p \in Procs |-> IF beat[p] = "asleep" THEN "writing" ELSE beat[p]]
  /\ UNCHANGED <<windows, files, pc, exe, signals, child, out, history>>

(***************************************************************************)
(* Preserve, download, run, verify                                         *)
(***************************************************************************)

\* preserve_previous_binary removes whatever is at .old, ignoring a failure ...
RemoveStaleOld(p) ==
  /\ pc[p] = "preserve"
  /\ old' = IF windows /\ InUse(old) THEN old ELSE None
  /\ Goto(p, "rename")
  /\ UNCHANGED <<windows, bin, lock, exe, signals, beat, child, out, history>>

\* ... and renames the binary to it.  Without a binary the rename fails, and the
\* handler returns an error that says nothing has changed.
RenameToOld(p) ==
  /\ pc[p] = "rename"
  /\ \/ /\ bin # None /\ ~(windows /\ InUse(old))
        /\ old' = bin /\ bin' = None
        /\ kept' = [kept EXCEPT ![p] = bin]
        /\ Goto(p, "prepare") /\ UNCHANGED out
     \/ /\ bin = None \/ (windows /\ InUse(old))
        /\ Goto(p, "release") /\ out' = [out EXCEPT ![p] = "failed"]
        /\ UNCHANGED <<files, kept>>
  /\ UNCHANGED <<windows, lock, exe, signals, beat, child, taken, starts>>

\* Give up: restore_outcome runs, and then the handler returns o.
GiveUp(p, o) == Goto(p, "restore") /\ out' = [out EXCEPT ![p] = o]

\* The temporary directory and the HTTP client.
Prepare(p) ==
  /\ pc[p] = "prepare"
  /\ \/ Goto(p, "download") /\ UNCHANGED out
     \/ GiveUp(p, "failed")
  /\ UNCHANGED <<windows, files, lock, exe, signals, beat, child, history>>

\* The download, or the cancellation it is raced with.
Download(p) ==
  /\ pc[p] = "download"
  /\ \/ Goto(p, "run") /\ child' = [child EXCEPT ![p] = "running"] /\ UNCHANGED out
     \/ GiveUp(p, "failed") /\ UNCHANGED child
  /\ UNCHANGED <<windows, files, lock, exe, signals, beat, history>>

\* The installer (external): it writes one binary at the path, in two halves.
InstallerWrites(p) ==
  /\ \/ child[p] = "running" /\ child' = [child EXCEPT ![p] = "writing"] /\ bin' = "bad"
     \/ child[p] = "writing" /\ child' = [child EXCEPT ![p] = "wrote"]
        /\ bin' \in {"bad", "new"}
  /\ UNCHANGED <<windows, old, lock, pc, exe, signals, beat, out, history>>

\* Mutant: the rollback copy is removed once the installer succeeds.
RunInstallerDropsOld(p) ==
  /\ pc[p] = "run"
  /\ child' = [child EXCEPT ![p] = "none"]
  /\ \/ GiveUp(p, "failed") /\ UNCHANGED old
     \/ Goto(p, "verify") /\ old' = None /\ UNCHANGED out
  /\ UNCHANGED <<windows, bin, lock, exe, signals, beat, history>>

\* run_installer answers: a spawn error, a failure status, or success.
RunInstaller(p) ==
  /\ pc[p] = "run"
  /\ child' = [child EXCEPT ![p] = "none"]
  /\ \/ GiveUp(p, "failed")
     \/ Goto(p, "verify") /\ UNCHANGED out
  /\ UNCHANGED <<windows, files, lock, exe, signals, beat, history>>

\* accept_installed_version: newer than this invocation and at least the latest.
Acceptable(p) == bin = "new" /\ exe[p] = "prev"

\* Mutant: an unacceptable version is reported and not rolled back.
VerifyWithoutRestore(p) ==
  /\ pc[p] = "verify"
  /\ \/ Acceptable(p) /\ Goto(p, "cleanup") /\ UNCHANGED out
     \/ Goto(p, "release") /\ out' = [out EXCEPT ![p] = "failed"]
  /\ UNCHANGED <<windows, files, lock, exe, signals, beat, child, history>>

\* The version probe: an acceptable answer, or a refusal, an error or a timeout.
Verify(p) ==
  /\ pc[p] = "verify"
  /\ \/ Acceptable(p) /\ Goto(p, "cleanup") /\ UNCHANGED out
     \/ GiveUp(p, "failed")
  /\ UNCHANGED <<windows, files, lock, exe, signals, beat, child, history>>

\* Mutant: the installer is awaited without the cancellation branch.
CancelledOutsideRun(p) ==
  /\ pc[p] \in {"download", "verify"} /\ cancel[p]
  /\ child' = [child EXCEPT ![p] = "none"]
  /\ GiveUp(p, "cancelled")
  /\ UNCHANGED <<windows, files, lock, exe, signals, beat, history>>

\* cancel.cancelled() wins the select!: the step's future is dropped, which
\* kills the installer, and the previous binary is restored.
Cancelled(p) ==
  /\ pc[p] \in {"download", "run", "verify"} /\ cancel[p]
  /\ child' = [child EXCEPT ![p] = "none"]
  /\ GiveUp(p, "cancelled")
  /\ UNCHANGED <<windows, files, lock, exe, signals, beat, history>>

\* A verified upgrade removes .old, except on Windows.
Cleanup(p) ==
  /\ pc[p] = "cleanup"
  /\ old' = IF windows THEN old ELSE None
  /\ Goto(p, "release") /\ out' = [out EXCEPT ![p] = "installed"]
  /\ UNCHANGED <<windows, bin, lock, exe, signals, beat, child, history>>

\* restore_previous_binary: one replacing rename, or on Windows a removal and
\* then a rename.  A rename without .old fails, and the error says so.
RestoreRename(p) ==
  /\ \/ old # None /\ bin' = old /\ old' = None /\ UNCHANGED out
     \/ old = None /\ out' = [out EXCEPT ![p] = "restore_failed"] /\ UNCHANGED files
  /\ Goto(p, "release")

Restore(p) ==
  /\ \/ pc[p] = "restore" /\ ~windows /\ RestoreRename(p)
     \/ pc[p] = "restore" /\ windows /\ bin' = None /\ Goto(p, "restore2")
        /\ UNCHANGED <<old, out>>
     \/ pc[p] = "restore2" /\ RestoreRename(p)
  /\ UNCHANGED <<windows, lock, exe, signals, beat, child, history>>

(***************************************************************************)
(* Ctrl-C, and the end of the process                                      *)
(***************************************************************************)

\* COMMAND_OWNS_INTERRUPT_PATH: set by Confirmed, and never cleared.
Owns(p) == pc[p] \notin {"off", "start"}

\* The first Ctrl-C reaches the process-wide handler, which decides once, by the
\* flag it reads now, whether it exits after its telemetry flush or leaves it to
\* the command.  The command's watcher cancels the token; it is a spawned task,
\* which may not be listening yet while the handler has not awaited anything.
Interrupt(p) ==
  /\ Alive(p) /\ sigint[p] = "armed"
  /\ sigint' = [sigint EXCEPT ![p] = IF Owns(p) THEN "rearmed" ELSE "flushing"]
  /\ \/ Owns(p) /\ cancel' = [cancel EXCEPT ![p] = TRUE]
     \/ pc[p] \in {"start", "create", "stat", "steal", "retry", "preserve", "rename", "prepare"}
        /\ UNCHANGED cancel
  /\ UNCHANGED <<windows, files, lock, pc, exe, beat, child, out, history>>

\* The process ends without a destructor: the lock file stays, and so does the
\* installer.  This is the handler's exit after its flush, and the second
\* Ctrl-C; a kill or a crash has the same effect.
Die(p) ==
  /\ Alive(p) /\ sigint[p] # "armed"
  /\ Goto(p, "off") /\ Fresh(p, "prev")
  /\ beat' = [beat EXCEPT ![p] = "off"]
  /\ UNCHANGED <<windows, files, lock, child, taken, starts>>

\* An installer whose parent is gone ends by itself.
OrphanEnds(p) ==
  /\ pc[p] = "off" /\ child[p] # "none"
  /\ child' = [child EXCEPT ![p] = "none"]
  /\ UNCHANGED <<windows, files, lock, pc, exe, signals, beat, out, history>>

Command(p) ==
  \/ TurnedDown(p) \/ Confirmed(p)
  \/ Create(p) \/ JudgeAge(p) \/ Steal(p) \/ Retry(p) \/ Release(p)
  \/ RemoveStaleOld(p) \/ RenameToOld(p) \/ Prepare(p) \/ Download(p)
  \/ RunInstaller(p) \/ Verify(p) \/ Cancelled(p) \/ Cleanup(p) \/ Restore(p)

Next ==
  \/ \E p \in Procs :
       \/ Start(p) \/ Command(p) \/ BeatWrites(p)
       \/ InstallerWrites(p) \/ Interrupt(p) \/ Die(p) \/ OrphanEnds(p)
  \/ Tick

Spec == Init /\ [][Next]_vars

\* A live process runs its handler on, except that a download or an installer
\* may never answer; the cancellation branch is polled along with them.
FairSpec ==
  /\ Spec
  /\ \A p \in Procs : /\ WF_vars(pc[p] \notin {"download", "run"} /\ Command(p))
                     /\ WF_vars(Cancelled(p))

(***************************************************************************)
(* Properties                                                              *)
(***************************************************************************)

\* Until a lock is taken over as stale, one of binary_path and .old holds a
\* binary that runs, whatever is interrupted, killed or fails and in whatever
\* order several invocations proceed: preserve, restore and cleanup never
\* leave the user without a copy.
RollbackKept == ~taken => bin \in Runnable \/ old \in Runnable

\* What handle_install reports is what it did, as long as it did not share the
\* lock: it reports an installed upgrade only over a verified binary, and a
\* failure or a cancellation after the rename only once the binary it renamed
\* is back in place.
OutcomeTrue ==
  [][\A p \in Procs :
       (Holds(p) /\ pc'[p] = "release" /\ ~taken /\ kept[p] # None) =>
         CASE out'[p] = "installed" -> bin' = "new"
           [] out'[p] = "restore_failed" -> FALSE
           [] OTHER -> bin' = kept[p]]_vars

\* The heartbeat is a proof of life: no invocation judges the lock of a live
\* holder stale, however long its download or its installer takes, unless a
\* write of that holder's heartbeat has failed.  One failure is enough: the
\* task of acquire_with_heartbeat does not try again.
LiveHolderNotStale ==
  [][\A p \in Procs : pc[p] = "stat" /\ pc'[p] = "steal" =>
       ~Holds(lock.by) \/ beat[lock.by] = "failed"]_vars

\* An interrupt the command sees ends it, also while the installer hangs.
InterruptEnds == \A p \in Procs : cancel[p] ~> pc[p] = "off"

\* The comment in InstallLock::acquire says that of two processes that judge
\* the same lock stale one fails on the rename "rather than both claiming the
\* lock".  The rename moves whatever lock is at the path, the winner's too.
OneInstaller == \A p, q \in Procs : Holds(p) /\ Holds(q) => p = q
====
