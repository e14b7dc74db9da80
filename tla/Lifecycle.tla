------------------------------ MODULE Lifecycle ------------------------------
(***************************************************************************)
(* One state directory over many launches: App.startQEMU from the moment   *)
(* it holds the lock, and Options.Run of internal/vm/lifecycle.go with the *)
(* overlay, the accelerator fallback, the serial console, readiness,       *)
(* supervision and shutdown.                                               *)
(*                                                                         *)
(* At most one launcher is inside (StateLock says when that is so); it may *)
(* die at any step and leave behind a pid file, an overlay and a running   *)
(* QEMU, which the next launcher meets.  QEMU, its guest and the person at *)
(* the terminal are the environment: they act at any time.  A timer that   *)
(* bounds a wait is the freedom to stop waiting.                           *)
(***************************************************************************)
EXTENDS Naturals, FiniteSets

CONSTANTS
    Qemu,       \* QEMU processes; an identifier is free again after the exit
    Port,       \* what can be forwarded: a protocol, a host address and a number
    None,       \* no process
    Option,     \* the options launches are made with, records as in AnyOption
    Cands,      \* number of accelerator candidates, len(AccelCandidates)
    MayCrash,   \* TRUE: the launcher may die without running its defers
    MayWedge    \* TRUE: a QEMU may stop answering while it stays alive

AnyOption == [persist : BOOLEAN,    \* Persist: keep the overlay
              reset   : BOOLEAN,    \* --reset: start from a new overlay
              console : BOOLEAN,    \* --console, or `dvm console`
              probe   : BOOLEAN,    \* some readiness probe is configured
              fwd     : SUBSET Port] \* Ports: what the launch forwards

ASSUME OptionAssumption == Option \subseteq AnyOption
ASSUME QemuAssumption == None \notin Qemu
ASSUME CandsAssumption == Cands \in Nat \ {0}
ASSUME FlagAssumption == {MayCrash, MayWedge} \subseteq BOOLEAN

VARIABLES
    pc,        \* the launcher's place; "off": no launcher in the directory
    opt,       \* its options
    cand,      \* index of the accelerator candidate
    child,     \* the QEMU it started (running.cmd), None before and after
    done,      \* the reaper has put the exit into running.done
    sig,       \* a signal is in sigCh
    conn,      \* the serial connection: "none", "open", or "closed" by the pump
    qmp,       \* the QMP connection is open
    up,        \* the QEMU processes alive, orphans included
    wedged,    \* those that no longer answer
    bound,     \* bound[q]: the forwarded ports that q holds
    attached,  \* those that have the file at OverlayPath open
    overlay,   \* that file: how far it got, and what kind of launch made it
    pidFile    \* content of the pid file

\* What became of the files, kept for the properties only: no action reads it.
VARIABLE
    left       \* "disk" and "pid": the overlay is a throwaway or an unfinished
               \* one, the pid file one, that a launch left in the directory
               \* because it was killed or the removal or qemu-img failed

guestVars == <<up, wedged, bound, attached>>
runVars   == <<child, done, cand>>
linkVars  == <<conn, qmp>>
fileVars  == <<overlay, pidFile, left>>
vars == <<pc, opt, sig, runVars, linkVars, guestVars, fileVars>>

Absent == [stage |-> "absent", ephemeral |-> FALSE]
Overlay == [stage : {"absent", "partial", "complete"}, ephemeral : BOOLEAN]

\* signal.Notify is in force: from the entry of supervise to its return.
Supervising == {"console", "stdin", "ready", "wait", "powerdown", "await",
                "term", "reap"}
\* A child has passed its grace period and was not seen to exit yet.
Booted == {"pid", "serial", "qmp", "negotiate", "supervise"} \cup Supervising
\* qemu-img runs, and where it does so over a disk that os.Stat failed to see.
Creating == {"img", "overwrite"}
\* Where no child of this launcher exists.
Childless == {"off", "ports", "buildseed", "reset", "create", "seed", "start",
              "clearpid", "rmoverlay", "release"} \cup Creating

-----------------------------------------------------------------------------
Init ==
    /\ pc = "off"
    /\ opt \in Option
    /\ cand = 1
    /\ child = None
    /\ done = FALSE
    /\ sig = FALSE
    /\ conn = "none"
    /\ qmp = FALSE
    /\ up = {} /\ wedged = {} /\ attached = {}
    /\ bound = [q \in Qemu |-> {}]
    /\ overlay = Absent
    /\ pidFile = None
    /\ left = {}

\* AcquireLock succeeded; everything of the earlier launcher's memory is gone.
Launch ==
    /\ pc = "off"
    /\ pc' = "ports"
    /\ opt' \in Option
    /\ cand' = 1 /\ child' = None /\ done' = FALSE
    /\ sig' = FALSE /\ conn' = "none" /\ qmp' = FALSE
    /\ UNCHANGED <<guestVars, fileVars>>

\* Mutant: the forwarded ports are not probed.
CheckPortsSkipped ==
    /\ pc = "ports"
    /\ pc' = "buildseed"
    /\ UNCHANGED <<opt, sig, runVars, linkVars, guestVars, fileVars>>

\* It tries the ports of this launch only.  Any program may hold one of them; an
\* orphan holds those it was started with.
CheckPortsFree ==
    /\ pc = "ports"
    /\ \/ pc' = "buildseed" /\ \A q \in up : bound[q] \cap opt.fwd = {}
       \/ pc' = "release" /\ opt.fwd # {}
    /\ UNCHANGED <<opt, sig, runVars, linkVars, guestVars, fileVars>>

\* buildSeed reads the key file and the seed image: it may fail.
BuildSeed ==
    /\ pc = "buildseed"
    /\ pc' \in {"reset", "release"}
    /\ UNCHANGED <<opt, sig, runVars, linkVars, guestVars, fileVars>>

\* RemoveOverlay takes the name away; who has the file open keeps the file.
RemoveOverlay ==
    /\ overlay' = Absent
    /\ attached' = {}
    /\ left' = left \ {"disk"}
    /\ UNCHANGED <<up, wedged, bound, pidFile>>

\* Mutant: only --reset removes what is there, --no-persist relies on its defer.
PrepareDiskResetOnly ==
    /\ pc = "reset"
    /\ pc' = "create"
    /\ IF opt.reset THEN RemoveOverlay ELSE UNCHANGED <<guestVars, fileVars>>
    /\ UNCHANGED <<opt, sig, runVars, linkVars>>

PrepareDisk ==
    /\ pc = "reset"
    /\ \/ /\ opt.reset \/ ~opt.persist
          /\ \/ pc' = "create" /\ RemoveOverlay
             \/ pc' = "release" /\ UNCHANGED <<guestVars, fileVars>>
       \/ /\ ~opt.reset /\ opt.persist
          /\ pc' = "create"
          /\ UNCHANGED <<guestVars, fileVars>>
    /\ UNCHANGED <<opt, sig, runVars, linkVars>>

\* An overlay that exists is left untouched; else the base image is looked at
\* and qemu-img is started.  Any error of os.Stat counts as "does not exist".
CreateOverlay ==
    /\ pc = "create"
    /\ \/ /\ overlay # Absent
          /\ pc' = "seed"
          /\ UNCHANGED <<overlay, left>>
       \/ /\ pc' = IF overlay = Absent THEN "img" ELSE "overwrite"
          /\ overlay' = [stage |-> "partial", ephemeral |-> ~opt.persist]
          /\ left' = left \ {"disk"}
       \/ /\ pc' = "release"            \* no base image, no qemu-img
          /\ UNCHANGED <<overlay, left>>
    /\ UNCHANGED <<opt, sig, runVars, linkVars, guestVars, pidFile>>

\* Mutant: the exit status of qemu-img is not looked at.
QemuImgUnchecked ==
    /\ pc \in Creating
    /\ pc' = "seed"
    /\ overlay' \in {overlay, [overlay EXCEPT !.stage = "complete"]}
    /\ UNCHANGED <<opt, sig, runVars, linkVars, guestVars, pidFile, left>>

\* qemu-img completes the file; or it fails, and what it wrote stays unless it
\* took that away itself: Run returns before it defers RemoveOverlay.
QemuImgEnds ==
    /\ pc \in Creating
    /\ \/ /\ pc' = "seed"
          /\ overlay' = [overlay EXCEPT !.stage = "complete"]
          /\ UNCHANGED left
       \/ pc' = "release" /\ overlay' = Absent /\ UNCHANGED left
       \/ pc' = "release" /\ UNCHANGED overlay /\ left' = left \cup {"disk"}
    /\ UNCHANGED <<opt, sig, runVars, linkVars, guestVars, pidFile>>

\* Mutant: the overlay's removal is deferred only after the seed is written.
WriteSeedLateDefer ==
    /\ pc = "seed"
    /\ pc' \in {"start", "release"}
    /\ UNCHANGED <<opt, sig, runVars, linkVars, guestVars, fileVars>>

\* From here on the deferred RemoveOverlay runs on every return.  WriteSeed and
\* ControlChannels may fail.
WriteSeed ==
    /\ pc = "seed"
    /\ pc' \in {"start", "rmoverlay"}
    /\ UNCHANGED <<opt, sig, runVars, linkVars, guestVars, fileVars>>

-----------------------------------------------------------------------------
\* One turn of the loop of startWithAccelFallback.  The new QEMU binds its ports
\* as it starts; one that finds a port taken since the probe ends by itself (Exit).
StartQEMU ==
    /\ pc = "start"
    /\ \/ \E q \in Qemu \ up :
             /\ cand <= Cands
             /\ pc' = "grace"
             /\ child' = q /\ done' = FALSE
             /\ up' = up \cup {q}
             /\ attached' = attached \cup {q}
             /\ bound' = [bound EXCEPT ![q] = opt.fwd]
             /\ UNCHANGED <<cand, wedged>>
       \/ /\ cand <= Cands              \* cmd.Start fails: the next candidate
          /\ pc' = "start"
          /\ cand' = cand + 1
          /\ UNCHANGED <<child, done, guestVars>>
       \/ /\ pc' = "rmoverlay"          \* BuildArgs fails, or none is left
          /\ UNCHANGED <<runVars, guestVars>>
    /\ UNCHANGED <<opt, sig, linkVars, fileVars>>

\* Mutant: the candidate's index is advanced twice.
GraceSkips ==
    /\ pc = "grace"
    /\ done
    /\ pc' = "start"
    /\ cand' = cand + 2 /\ child' = None /\ done' = FALSE
    /\ UNCHANGED <<opt, sig, linkVars, guestVars, fileVars>>

\* Mutant: no grace timer, only the exit of the candidate ends the wait.
GraceForever ==
    /\ pc = "grace"
    /\ done
    /\ pc' = "start"
    /\ cand' = cand + 1 /\ child' = None /\ done' = FALSE
    /\ UNCHANGED <<opt, sig, linkVars, guestVars, fileVars>>

\* Exit within the grace period: the next candidate.  Else this one it is.
Grace ==
    /\ pc = "grace"
    /\ \/ /\ done
          /\ pc' = "start"
          /\ cand' = cand + 1 /\ child' = None /\ done' = FALSE
       \/ /\ pc' = "pid"
          /\ UNCHANGED runVars
    /\ UNCHANGED <<opt, sig, linkVars, guestVars, fileVars>>

\* A failure is only logged: the file is as it was, or already truncated.
WritePID ==
    /\ pc = "pid"
    /\ pc' = "serial"
    /\ \/ pidFile' \in {child, None} /\ left' = left \ {"pid"}
       \/ UNCHANGED <<pidFile, left>>
    /\ UNCHANGED <<opt, sig, runVars, linkVars, guestVars, overlay>>

DialSerial ==
    /\ pc = "serial"
    /\ pc' = "qmp"
    /\ \/ conn' = "none"
       \/ conn' = "open" /\ child \in up
    /\ UNCHANGED <<opt, sig, runVars, qmp, guestVars, fileVars>>

\* The kernel accepts for a QEMU that does not answer.
DialQMP ==
    /\ pc = "qmp"
    /\ \/ pc' = "supervise"
       \/ pc' = "negotiate" /\ child \in up
    /\ UNCHANGED <<opt, sig, runVars, linkVars, guestVars, fileVars>>

\* No deadline: a wait for an answer ends with it or with the connection.
Answered == child \notin wedged

Negotiate ==
    /\ pc = "negotiate"
    /\ Answered
    /\ pc' = "supervise"
    /\ qmp' = (child \in up)
    /\ UNCHANGED <<opt, sig, runVars, conn, guestVars, fileVars>>

-----------------------------------------------------------------------------
Supervise ==
    /\ pc = "supervise"
    /\ pc' = CASE opt.console -> IF conn = "none" THEN "wait" ELSE "console"
               [] OTHER -> IF opt.probe THEN "ready" ELSE "wait"
    /\ UNCHANGED <<opt, sig, runVars, linkVars, guestVars, fileVars>>

\* The head of the loop of interactive.
Interactive ==
    /\ pc = "console"
    /\ pc' = IF conn = "closed" THEN "wait" ELSE "stdin"
    /\ UNCHANGED <<opt, sig, runVars, linkVars, guestVars, fileVars>>

\* What the terminal delivers to a blocked os.Stdin.Read: the detach key or the
\* end of input, or a key that is written to the guest.
Stdin ==
    /\ pc = "stdin"
    /\ \/ pc' = "wait"
       \/ pc' = IF child \in up THEN "console" ELSE "wait"
    /\ UNCHANGED <<opt, sig, runVars, linkVars, guestVars, fileVars>>

\* WaitTCP returns: all probes accepted, or ReadinessTimeout is over.
WaitTCP ==
    /\ pc = "ready"
    /\ pc' = "wait"
    /\ UNCHANGED <<opt, sig, runVars, linkVars, guestVars, fileVars>>

\* Mutant: the pid file is not cleared when supervise returns.
ChildDoneKeepsPid ==
    /\ done
    /\ pc' = "rmoverlay"
    /\ child' = None /\ done' = FALSE
    /\ sig' = FALSE /\ conn' = "none" /\ qmp' = FALSE
    /\ UNCHANGED <<opt, cand, guestVars, fileVars>>

\* <-proc.done, and what every return does first: supervise and its defers.
ChildDone ==
    /\ done
    /\ pc' = "clearpid"
    /\ child' = None /\ done' = FALSE
    /\ sig' = FALSE /\ conn' = "none" /\ qmp' = FALSE
    /\ UNCHANGED <<opt, cand, guestVars, fileVars>>

Step(from, to) ==
    /\ pc = from
    /\ pc' = to
    /\ UNCHANGED <<opt, sig, runVars, linkVars, guestVars, fileVars>>

\* Mutant: the select does not listen to running.done.
WaitForSignal == sig /\ Step("wait", "powerdown")

Wait ==
    \/ pc = "wait" /\ ChildDone
    \/ sig /\ Step("wait", "powerdown")

\* Execute waits for the answer without a deadline.
Powerdown ==
    /\ qmp => Answered
    /\ Step("powerdown", "await")

\* ShutdownTimeout, then SIGTERM.
AwaitExit ==
    \/ pc = "await" /\ ChildDone
    \/ Step("await", "term")

\* Mutant: SIGTERM is the last resort.
TerminatedWaits == pc = "term" /\ ChildDone

\* Mutant: a QEMU that ignores SIGTERM is given up.
TerminatedGivesUp ==
    \/ pc = "term" /\ ChildDone
    \/ Step("term", "clearpid")

\* Five seconds, then SIGKILL.
Terminated ==
    \/ pc = "term" /\ ChildDone
    \/ Step("term", "reap")

Killed == pc = "reap" /\ ChildDone

\* Nobody looks at the error of os.Remove.
ClearPID ==
    /\ pc = "clearpid"
    /\ pc' = "rmoverlay"
    /\ \/ pidFile' = None /\ left' = left \ {"pid"}
       \/ pidFile # None /\ left' = left \cup {"pid"} /\ UNCHANGED pidFile
    /\ UNCHANGED <<opt, sig, runVars, linkVars, guestVars, overlay>>

\* Mutant: the overlay is removed at the end of every run.
DeferredRemoveAlways ==
    /\ pc = "rmoverlay"
    /\ pc' = "release"
    /\ RemoveOverlay
    /\ UNCHANGED <<opt, sig, runVars, linkVars>>

\* The error of the deferred RemoveOverlay goes nowhere.
DeferredRemove ==
    /\ pc = "rmoverlay"
    /\ pc' = "release"
    /\ \/ opt.persist /\ UNCHANGED <<guestVars, fileVars>>
       \/ ~opt.persist /\ RemoveOverlay
       \/ /\ ~opt.persist
          /\ left' = left \cup {"disk"}
          /\ UNCHANGED <<guestVars, overlay, pidFile>>
    /\ UNCHANGED <<opt, sig, runVars, linkVars>>

Release == Step("release", "off")

-----------------------------------------------------------------------------
\* The guest powers off, QEMU fails, or a signal ends it.  SIGKILL, sent to the
\* child at "reap", ends a wedged QEMU too.
Exit(q) ==
    /\ q \in up
    /\ q \in wedged => q = child /\ pc = "reap"
    /\ up' = up \ {q}
    /\ wedged' = wedged \ {q}
    /\ bound' = [bound EXCEPT ![q] = {}]
    /\ attached' = attached \ {q}
    /\ UNCHANGED <<pc, opt, sig, runVars, linkVars, fileVars>>

Wedge(q) ==
    /\ MayWedge
    /\ q \in up
    /\ wedged' = wedged \cup {q}
    /\ UNCHANGED <<pc, opt, sig, runVars, linkVars, up, bound, attached, fileVars>>

\* The goroutine of startQEMU: done <- cmd.Wait().
Reap ==
    /\ child # None
    /\ child \notin up
    /\ ~done
    /\ done' = TRUE
    /\ UNCHANGED <<pc, opt, sig, child, cand, linkVars, guestVars, fileVars>>

\* The goroutine of serialPump reads the end of the connection.
PumpEnds ==
    /\ conn = "open"
    /\ child \notin up
    /\ conn' = "closed"
    /\ UNCHANGED <<pc, opt, sig, runVars, qmp, guestVars, fileVars>>

\* Ctrl-C or SIGTERM while supervise has them on sigCh, which holds one.
Signal ==
    /\ pc \in Supervising
    /\ sig' = TRUE
    /\ UNCHANGED <<pc, opt, runVars, linkVars, guestVars, fileVars>>

\* SIGKILL at any time, Ctrl-C or SIGTERM outside of supervise.  A qemu-img in
\* flight may be cut short, or complete its file.
Crash ==
    /\ MayCrash
    /\ pc # "off"
    /\ pc' = "off"
    /\ child' = None /\ done' = FALSE
    /\ sig' = FALSE /\ conn' = "none" /\ qmp' = FALSE
    /\ \/ UNCHANGED overlay
       \/ pc \in Creating /\ overlay' = [overlay EXCEPT !.stage = "complete"]
    /\ left' = left \cup (IF pidFile = None THEN {} ELSE {"pid"})
                  \cup (IF overlay'.stage = "partial" \/ overlay'.ephemeral
                        THEN {"disk"} ELSE {})
    /\ UNCHANGED <<opt, cand, guestVars, pidFile>>

\* The launcher's own steps, in the order of the code.
Setup == CheckPortsFree \/ BuildSeed \/ PrepareDisk \/ CreateOverlay
         \/ QemuImgEnds \/ WriteSeed
Boot == StartQEMU \/ Grace \/ WritePID \/ DialSerial \/ DialQMP \/ Negotiate
Attend == Supervise \/ Interactive \/ WaitTCP \/ Wait
Stop == Powerdown \/ AwaitExit \/ Terminated \/ Killed
        \/ ClearPID \/ DeferredRemove \/ Release
Launcher == Setup \/ Boot \/ Attend \/ Stop

Next ==
    \/ Launch \/ Launcher
    \/ Stdin \/ Signal \/ Crash
    \/ Reap \/ PumpEnds
    \/ \E q \in Qemu : Exit(q) \/ Wedge(q)

Spec == Init /\ [][Next]_vars

\* The launcher and its goroutines run; a timer ends every wait that has one;
\* SIGKILL is delivered.  Nobody has to press a key, send a signal, start dvm
\* or power the guest off.
FairSpec ==
    /\ Spec
    /\ WF_vars(Launcher)
    /\ WF_vars(Reap)
    /\ WF_vars(PumpEnds)
    /\ \A q \in Qemu : WF_vars(pc = "reap" /\ q = child /\ Exit(q))
-----------------------------------------------------------------------------
TypeOK ==
    /\ pc \in Childless \cup {"grace"} \cup Booted
    /\ opt \in Option
    /\ cand \in 1..Cands + 1
    /\ child \in Qemu \cup {None}
    /\ done \in BOOLEAN
    /\ sig \in BOOLEAN
    /\ conn \in {"none", "open", "closed"}
    /\ qmp \in BOOLEAN
    /\ up \subseteq Qemu
    /\ wedged \subseteq up /\ attached \subseteq up
    /\ bound \in [Qemu -> SUBSET Port]
    /\ \A q \in Qemu \ up : bound[q] = {}
    /\ overlay \in Overlay
    /\ pidFile \in Qemu \cup {None}
    /\ left \subseteq {"disk", "pid"}

\* Without a crash no QEMU outlives its launcher: on every way out of Run, the
\* failed candidates of the accelerator fallback included, it has exited.
NoOrphan == up \subseteq {child} /\ (pc \in Childless => up = {})

\* Unless a launch was killed or could not remove it, the pid file names the QEMU
\* this launcher started and has not seen the end of, or is about to be removed,
\* or is not there.  That QEMU may have exited: at the console, and between its
\* exit and ClearPID, `dvm status` finds the pid of a process that is gone.
PidFileIsCurrent ==
    pidFile # None /\ "pid" \notin left =>
        \/ pc = "clearpid"
        \/ pc \in Booted /\ pidFile = child

\* Unless a launch was killed, its qemu-img failed or its deferred removal did, the
\* disk of a --no-persist run is gone when the directory is free again, so that
\* no later run boots on it.
EphemeralDiskGone ==
    pc = "off" /\ overlay.ephemeral => "disk" \in left

\* A guest starts on an overlay that qemu-img has finished, or on what a failed
\* qemu-img or a killed launch left there: CreateOverlay asks os.Stat only.
DiskIsComplete ==
    pc \in {"grace"} \cup Booted => overlay.stage = "complete" \/ "disk" \in left

\* --reset and --no-persist start from a disk made by this launch, shared with
\* nobody, whatever a crashed launch left: a partial overlay or a running QEMU.
FreshDisk ==
    pc \in {"grace"} \cup Booted /\ (opt.reset \/ ~opt.persist) =>
        /\ overlay = [stage |-> "complete", ephemeral |-> ~opt.persist]
        /\ attached \subseteq {child}

\* The guest's disk is lost only to a run that asks for it: no return, failure
\* or crash of a plain `dvm start` removes an overlay or creates one in its place,
\* but where os.Stat failed on the overlay that is there.
PersistentDiskKept ==
    [][overlay.stage = "complete" /\ overlay' # overlay =>
            opt.reset \/ ~opt.persist \/ pc' = "overwrite"]_vars

\* While a QEMU that a dead launcher left holds a port of this launch, the launch
\* does not get as far as the disk that this QEMU uses, and starts no second one:
\* CheckPortsFree comes before both.  A launch with other ports, or none, does.
RivalStopsLaunch ==
    [][pc # "off" /\ (\E q \in up \ {child} : bound[q] \cap opt.fwd # {}) =>
            overlay' = overlay /\ up' \subseteq up]_vars

\* AcquireLock takes the state directory for one launch: at most one QEMU runs
\* in it.
OneQemu == \A q, r \in up : q = r

\* Ctrl-C or SIGTERM, once supervise has taken charge of them, ends the VM and
\* the launcher, whatever the guest does.
StopsOnSignal ==
    sig /\ pc \notin {"console", "stdin"} ~> pc = "off"

\* The launcher notices that the guest is gone, and returns.
StopsWithGuest ==
    pc \in {"ready", "wait"} /\ child \notin up ~> pc = "off"

\* A launch gets somewhere: it fails, or the VM is supervised.
LaunchSettles == pc = "ports" ~> pc \in {"off", "wait", "stdin"}

\* "until the user presses detachKey or the connection closes": interactive
\* returns when the guest's end of the serial line is closed.
ConsoleReturns ==
    pc \in {"console", "stdin"} /\ conn = "closed" ~> pc \notin {"console", "stdin"}
=============================================================================
