------------------------------ MODULE StateLock ------------------------------
(***************************************************************************)
(* The lock file of a state directory (internal/vm/state.go), taken by     *)
(* every `dvm start` before it touches the directory (internal/app/app.go) *)
(* and removed, with the directory, by `dvm clean --with-state`.           *)
(*                                                                         *)
(* The lock is a file created with O_EXCL whose content is the pid of its  *)
(* creator.  AcquireLock creates it and writes the pid in two steps; when  *)
(* the file exists it reads the pid, asks the kernel whether that process  *)
(* lives, and removes the file if it does not.  Each of those system calls *)
(* is an action here, so that other launchers run between any two of them. *)
(***************************************************************************)
EXTENDS Naturals, FiniteSets

CONSTANTS
    Launcher,       \* dvm processes; each is started at most once
    Ghost,          \* the pid of a launcher that died before the model starts
    NoFile,         \* there is no lock file
    NoPid,          \* what readPID returns as 0: empty, unreadable or absent
    Serial,         \* TRUE: nobody is started while another is in AcquireLock
    MayCrash,       \* TRUE: a launcher may be killed between any two steps
    WriteMayFail,   \* TRUE: writing the pid may fail (a full disk)
    ProbeMayFail,   \* TRUE: the lock may be unreadable, and a live process may
                    \* refuse the signal (another user's): both count as stale
    MayClean,       \* TRUE: `dvm clean --with-state` may run, at any time
    GhostAlive      \* TRUE: the kernel has given Ghost's pid to some process

Pid == Launcher \cup {Ghost, NoPid}
LockFile == [by : Launcher \cup {Ghost}, pid : Pid]

ASSUME LauncherAssumption ==
    /\ Launcher # {}
    /\ Ghost \notin Launcher
    /\ NoPid \notin Launcher \cup {Ghost}
    /\ NoFile \notin LockFile
ASSUME FlagAssumption ==
    {Serial, MayCrash, WriteMayFail, ProbeMayFail, MayClean, GhostAlive} \subseteq BOOLEAN

VARIABLES
    pc,       \* pc[p]: where launcher p is
    attempt,  \* attempt[p]: the loop counter of AcquireLock
    seen,     \* seen[p]: the pid readPID returned to p
    lock,     \* the file at LockPath: NoFile, or its creator and its content
    dir,      \* the state directory exists
    clean     \* where `dvm clean --with-state` is

vars == <<pc, attempt, seen, lock, dir, clean>>

Acquiring == {"open", "write", "read", "probe", "remove"}

\* The lock was left, and the process is still there: it returned from the
\* deferred release and has the rest of main to run (with the file removed, or
\* not), or it was killed and its parent has not waited for it.
Leaving   == {"released", "unreleased", "crashed"}
Final     == Leaving \cup {"refused", "failed", "oserror", "exited", "gone"}

-----------------------------------------------------------------------------
\* What a previous launcher can leave: nothing, its lock, or, if it was killed
\* between the creation and the write, an empty lock.
Init ==
    /\ pc = [p \in Launcher |-> "idle"]
    /\ attempt = [p \in Launcher |-> 0]
    /\ seen = [p \in Launcher |-> NoPid]
    /\ lock \in {NoFile} \cup [by : {Ghost}, pid : {Ghost, NoPid}]
    /\ dir \in (IF lock = NoFile THEN BOOLEAN ELSE {TRUE})
    /\ clean = "idle"

\* The process exists, and so signal 0 reaches it: a launcher that released the
\* lock is there until main returns, a killed one until it is waited for.  One
\* that was sent away has no file with its pid, so its end does not matter.
Alive(pid) ==
    \/ pid \in Launcher /\ pc[pid] \notin {"idle", "exited", "gone"}
    \/ pid = Ghost /\ GhostAlive

Goto(p, there) == pc' = [pc EXCEPT ![p] = there]

\* startQEMU and startVZ: NewState makes the directory, then AcquireLock.
NewState(p) ==
    /\ pc[p] = "idle"
    /\ Serial => \A q \in Launcher : pc[q] \notin Acquiring
    /\ \/ dir' = TRUE /\ Goto(p, "open")
       \/ dir' \in {dir, TRUE} /\ Goto(p, "oserror")
    /\ UNCHANGED <<attempt, seen, lock, clean>>

\* Mutant: the loop does not stop at two attempts.
OpenExclUnbounded(p) ==
    /\ pc[p] = "open"
    /\ attempt' = [attempt EXCEPT ![p] = @ + 1]
    /\ IF lock = NoFile
       THEN lock' = [by |-> p, pid |-> NoPid] /\ Goto(p, "write")
       ELSE UNCHANGED lock /\ Goto(p, "read")
    /\ UNCHANGED <<seen, dir, clean>>

\* Mutant: O_EXCL is missing, an existing lock is opened like a new one.
OpenNotExcl(p) ==
    /\ pc[p] = "open"
    /\ attempt' = [attempt EXCEPT ![p] = @ + 1]
    /\ lock' = [by |-> p, pid |-> NoPid]
    /\ Goto(p, "write")
    /\ UNCHANGED <<seen, dir, clean>>

\* The head of the loop: two attempts, then "could not acquire lock".
OpenExcl(p) ==
    /\ pc[p] = "open"
    /\ attempt[p] < 2
    /\ attempt' = [attempt EXCEPT ![p] = @ + 1]
    /\ \/ /\ ~dir                       \* ENOENT is not IsExist: return it
          /\ Goto(p, "failed")
          /\ UNCHANGED lock
       \/ /\ Goto(p, "oserror")          \* EACCES, ENOSPC, EMFILE
          /\ UNCHANGED lock
       \/ /\ dir /\ lock = NoFile       \* created, still empty
          /\ lock' = [by |-> p, pid |-> NoPid]
          /\ Goto(p, "write")
       \/ /\ dir /\ lock # NoFile
          /\ Goto(p, "read")
          /\ UNCHANGED lock
    /\ UNCHANGED <<seen, dir, clean>>

\* Mutant: no second attempt after a stale lock was removed.
GiveUpEarly(p) ==
    /\ pc[p] = "open"
    /\ attempt[p] >= 1
    /\ Goto(p, "failed")
    /\ UNCHANGED <<attempt, seen, lock, dir, clean>>

GiveUp(p) ==
    /\ pc[p] = "open"
    /\ attempt[p] = 2
    /\ Goto(p, "failed")
    /\ UNCHANGED <<attempt, seen, lock, dir, clean>>

\* The pid goes to the file p created, which may no longer be at LockPath; an
\* error of Fprintf is not looked at.
WritePid(p) ==
    /\ pc[p] = "write"
    /\ \/ lock' = IF lock # NoFile /\ lock.by = p
                  THEN [lock EXCEPT !.pid = p] ELSE lock
       \/ WriteMayFail /\ UNCHANGED lock
    /\ Goto(p, "held")
    /\ UNCHANGED <<attempt, seen, dir, clean>>

\* readPID: 0 for a file that is gone, empty or cannot be read.
ReadPid(p) ==
    /\ pc[p] = "read"
    /\ \/ seen' = [seen EXCEPT ![p] = IF lock = NoFile THEN NoPid ELSE lock.pid]
       \/ ProbeMayFail /\ seen' = [seen EXCEPT ![p] = NoPid]
    /\ Goto(p, "probe")
    /\ UNCHANGED <<attempt, lock, dir, clean>>

\* Mutant: a lock that exists is taken for stale, its pid is not looked up.
ProbeNothing(p) ==
    /\ pc[p] = "probe"
    /\ Goto(p, "remove")
    /\ UNCHANGED <<attempt, seen, lock, dir, clean>>

\* Mutant: any pid found in the lock is taken for a running launcher.
ProbeTrusting(p) ==
    /\ pc[p] = "probe"
    /\ Goto(p, IF seen[p] # NoPid THEN "refused" ELSE "remove")
    /\ UNCHANGED <<attempt, seen, lock, dir, clean>>

\* processAlive: any error of the signal, EPERM too, is "not alive".
Probe(p) ==
    /\ pc[p] = "probe"
    /\ \/ Alive(seen[p]) /\ Goto(p, "refused")
       \/ (~Alive(seen[p]) \/ ProbeMayFail) /\ Goto(p, "remove")
    /\ UNCHANGED <<attempt, seen, lock, dir, clean>>

\* Mutant: the stale lock is removed but not retried.
RemoveStaleNoRetry(p) ==
    /\ pc[p] = "remove"
    /\ lock' = NoFile
    /\ Goto(p, "failed")
    /\ UNCHANGED <<attempt, seen, dir, clean>>

\* Whatever file is at LockPath by now is the one removed; "remove stale lock"
\* when there is none, or when the file system does not let it go.
RemoveStale(p) ==
    /\ pc[p] = "remove"
    /\ \/ lock' = NoFile /\ Goto(p, IF lock = NoFile THEN "failed" ELSE "open")
       \/ UNCHANGED lock /\ Goto(p, "oserror")
    /\ UNCHANGED <<attempt, seen, dir, clean>>

\* The deferred release: it removes LockPath without a look at what is there,
\* and without a look at the error.
Release(p) ==
    /\ pc[p] = "held"
    /\ \/ lock' = NoFile /\ Goto(p, "released")
       \/ UNCHANGED lock /\ Goto(p, "unreleased")
    /\ UNCHANGED <<attempt, seen, dir, clean>>

\* SIGKILL, or a signal before signal.Notify: no deferred call runs.
Crash(p) ==
    /\ MayCrash
    /\ pc[p] \in Acquiring \cup {"held"}
    /\ Goto(p, "crashed")
    /\ UNCHANGED <<attempt, seen, lock, dir, clean>>

\* main returns, or the parent of a killed launcher waits for it: the pid is free.
Exit(p) ==
    /\ pc[p] \in Leaving
    /\ Goto(p, IF pc[p] = "released" THEN "exited" ELSE "gone")
    /\ UNCHANGED <<attempt, seen, lock, dir, clean>>

\* os.RemoveAll(stateDir): first what is in the directory, then the directory,
\* which stays if something was created in it meanwhile.
CleanFiles ==
    /\ MayClean
    /\ clean = "idle"
    /\ clean' = "rmdir"
    /\ lock' = NoFile
    /\ UNCHANGED <<pc, attempt, seen, dir>>

CleanDir ==
    /\ clean = "rmdir"
    /\ clean' = "done"
    /\ \/ dir' = FALSE /\ lock = NoFile
       \/ UNCHANGED dir
    /\ UNCHANGED <<pc, attempt, seen, lock>>

AcquireLock(p) ==
    \/ OpenExcl(p) \/ GiveUp(p) \/ WritePid(p)
    \/ ReadPid(p) \/ Probe(p) \/ RemoveStale(p)

Next ==
    \/ \E p \in Launcher :
          NewState(p) \/ AcquireLock(p) \/ Release(p) \/ Crash(p) \/ Exit(p)
    \/ CleanFiles
    \/ CleanDir

Spec == Init /\ [][Next]_vars

\* A launcher inside AcquireLock is a running process: it makes its next step.
\* Nothing is assumed of the user, of crashes or of how long the lock is held.
FairSpec == Spec /\ \A p \in Launcher : WF_vars(AcquireLock(p))
-----------------------------------------------------------------------------
TypeOK ==
    /\ pc \in [Launcher -> {"idle", "held"} \cup Acquiring \cup Final]
    /\ attempt \in [Launcher -> 0..2]
    /\ seen \in [Launcher -> Pid]
    /\ lock \in {NoFile} \cup LockFile
    /\ dir \in BOOLEAN
    /\ clean \in {"idle", "rmdir", "done"}

Holders == {p \in Launcher : pc[p] = "held"}

\* AcquireLock "takes an exclusive lock for this state dir": no two launchers
\* are between a successful AcquireLock and its release.
MutualExclusion == \A p, q \in Holders : p = q

\* The file at LockPath is, for as long as a launcher holds the lock, the very
\* file it created, with its pid inside: neither a reclaimer nor the release of
\* another launcher took it away.
HolderOwnsFile == \A p \in Holders : lock = [by |-> p, pid |-> p]

\* "dvm is already running for this state directory (pid N)": the pid that
\* AcquireLock reads is that of the launcher that holds the lock at that moment,
\* or of one that left its file behind, killed or unable to remove it; and when
\* it returns the error, process N still exists, past AcquireLock.  It may have
\* released the lock since the read.  The exception is a dead launcher's pid
\* that belongs to another program by now (Ghost).
RefusalNamesHolder ==
    [][\A p \in Launcher :
          /\ pc[p] = "read" /\ pc'[p] = "probe" /\ seen'[p] \in Launcher =>
                pc[seen'[p]] \in {"held", "unreleased", "crashed", "gone"}
          /\ pc[p] = "probe" /\ pc'[p] = "refused" =>
                \/ seen[p] = Ghost
                \/ seen[p] \in Launcher /\ pc[seen[p]] \in {"held"} \cup Leaving]_vars

\* Contention never makes everybody lose: whatever stale file the contenders
\* meet and however they interleave, AcquireLock does not send all of them
\* away, unless the directory is being removed or an old pid is in use again.
\* A launcher that met an error of the file system ("oserror") is not of those
\* sent away by contention.
SomeoneWins ==
    (\A p \in Launcher : pc[p] \in {"refused", "failed"}) =>
        \/ clean # "idle"
        \/ \E p \in Launcher : pc[p] = "refused" /\ seen[p] = Ghost

\* "If a lock exists but its PID is dead, the stale lock is reclaimed": a
\* launcher that is about to try the file when there is none, or when it names
\* no process that exists (a dead launcher's, or an empty one), gets the lock,
\* unless it is killed or the file system fails it.
FreeLockIsTaken ==
    \A p \in Launcher :
        pc[p] = "open" /\ (lock = NoFile \/ ~Alive(lock.pid))
            ~> pc[p] \in {"held", "crashed", "oserror"}

\* The steps AcquireLock may still take, counted from its place and from the
\* attempts it has left.
Position(p) ==
    CASE pc[p] \in {"held"} \cup Final -> 0
      [] pc[p] \in {"open", "write"}   -> 1
      [] pc[p] \in {"idle", "remove"}  -> 2
      [] pc[p] = "probe"               -> 3
      [] pc[p] = "read"                -> 4

StepsLeft(p) == Position(p) + 4 * (2 - attempt[p])

\* AcquireLock waits for nobody: it returns within the ten steps it begins with,
\* each of its own uses one up, and no step of another launcher that creates,
\* removes or reclaims the file, of a crash or of `dvm clean` gives it one more
\* ("for attempt := 0; attempt < 2", state.go:42).
WaitFree ==
    [][\A p \in Launcher :
          /\ StepsLeft(p)' \in 0..StepsLeft(p)
          /\ AcquireLock(p) => StepsLeft(p)' < StepsLeft(p)]_vars

\* The lock file implements the abstract lock, with the launchers between
\* AcquireLock and release as its holders.
Exclusive == INSTANCE ExclusiveLock WITH holders <- Holders
ImplementsExclusiveLock == Exclusive!Spec
=============================================================================
