------------------------------ MODULE VzEngine ------------------------------
(***************************************************************************)
(* One state directory over many launches of the vz engine: App.startVZ    *)
(* from the moment it holds the lock, and Run, shutdown and ensureOverlay  *)
(* of internal/vz/vz_darwin.go.                                            *)
(*                                                                         *)
(* The virtual machine lives inside the dvm process, so it dies with it;   *)
(* only the disk image is left for the next launch.  Of the notifications  *)
(* of the framework (Code-Hex/vz, external) the two loops tell a stop from *)
(* an error and drop the others; a machine that ended sends one of them on *)
(* the channel both loops read.  A timer is the freedom to stop waiting.   *)
(***************************************************************************)
EXTENDS Naturals

CONSTANT Option     \* the options launches are made with, as in AnyOption

AnyOption == [persist : BOOLEAN,    \* Persist: keep the disk
              reset   : BOOLEAN]    \* --reset: start from a new disk

ASSUME OptionAssumption == Option \subseteq AnyOption

VARIABLES
    pc,         \* the launcher's place; "off": none in the directory
    opt,        \* its options
    disk,       \* disk.img: how much of the base it holds, whether a guest
                \* ran on it and what kind of launch made it
    cleared,    \* --reset removed the disk, or there was none
    vm,         \* the machine: "none", "running", "stopped" or "error"
    note,       \* the notification nobody has received yet, "none" without one
    sig,        \* a signal is in sigCh
    mishap,     \* history: a launcher was killed, or a removal failed
    unseen      \* history: os.Stat failed on the disk that this launch would keep

vars == <<pc, opt, disk, cleared, vm, note, sig, mishap, unseen>>

Absent == [size |-> "absent", used |-> FALSE, ephemeral |-> FALSE]
Disk == [size : {"absent", "empty", "part", "full"},
         used : BOOLEAN, ephemeral : BOOLEAN]

\* Before the machine runs; while it may; and after Run's loops.
Preparing == {"reset", "seed", "logs", "overlay", "clone", "create", "copy",
              "configure", "start"}
Attending == {"run", "ask", "await"}
Leaving   == {"rmdisk", "release"}

\* A step that touches nothing but the launcher's place.
Step(from, targets) ==
    /\ pc = from
    /\ pc' \in targets
    /\ UNCHANGED <<opt, disk, cleared, vm, note, sig, mishap, unseen>>

-----------------------------------------------------------------------------
Init ==
    /\ pc = "off"
    /\ opt \in Option
    /\ disk = Absent
    /\ cleared = FALSE
    /\ vm = "none" /\ note = "none"
    /\ sig = FALSE
    /\ mishap = FALSE /\ unseen = FALSE

Launch ==
    /\ pc = "off"
    /\ pc' = "reset"
    /\ opt' \in Option
    /\ cleared' = FALSE
    /\ vm' = "none" /\ note' = "none"
    /\ sig' = FALSE
    /\ unseen' = FALSE
    /\ UNCHANGED <<disk, mishap>>

\* os.Remove may fail; its result is thrown away.
RemoveDisk ==
    \/ disk' = Absent /\ UNCHANGED mishap
    \/ disk.size # "absent" /\ mishap' = TRUE /\ UNCHANGED disk

\* startVZ removes the disk itself.
Reset ==
    /\ pc = "reset"
    /\ pc' = "seed"
    /\ IF opt.reset THEN RemoveDisk ELSE UNCHANGED <<disk, mishap>>
    /\ cleared' = (opt.reset /\ disk'.size = "absent")
    /\ UNCHANGED <<opt, vm, note, sig, unseen>>

\* buildSeed and WriteSeed, then Run's checks and its log directory; on an error
\* nothing is deferred yet but the lock.
Seed == Step("seed", {"logs", "release"})
MakeLogs == Step("logs", {"overlay", "release"})

\* Mutant: an existing disk is taken whether or not the run is persistent.
EnsureOverlayReuses ==
    /\ pc = "overlay"
    /\ \/ disk.size \in {"part", "full"} /\ pc' = "configure" /\ UNCHANGED <<disk, mishap>>
       \/ disk.size \in {"absent", "empty"} /\ pc' = "clone" /\ RemoveDisk
    /\ UNCHANGED <<opt, cleared, vm, note, sig, unseen>>

\* A persistent run takes any disk that os.Stat finds and that is not empty; an
\* error of os.Stat counts as none there.
EnsureOverlay ==
    /\ pc = "overlay"
    /\ \/ /\ opt.persist /\ disk.size \in {"part", "full"}
          /\ pc' = "configure"
          /\ UNCHANGED <<disk, mishap, unseen>>
       \/ /\ pc' = "clone"
          /\ unseen' = (opt.persist /\ disk.size \in {"part", "full"})
          /\ RemoveDisk
    /\ UNCHANGED <<opt, cleared, vm, note, sig>>

\* clonefile makes the whole file or none, and fails on an existing one.
Clonefile ==
    /\ pc = "clone"
    /\ \/ /\ disk.size = "absent"
          /\ disk' = [size |-> "full", used |-> FALSE, ephemeral |-> ~opt.persist]
          /\ pc' = "configure"
       \/ /\ UNCHANGED disk
          /\ pc' = "create"
    /\ UNCHANGED <<opt, cleared, vm, note, sig, mishap, unseen>>

\* copyFile: os.Create truncates what is there.
CreateDisk ==
    /\ pc = "create"
    /\ \/ /\ disk' = [size |-> "empty", used |-> FALSE, ephemeral |-> ~opt.persist]
          /\ pc' = "copy"
       \/ /\ UNCHANGED disk
          /\ pc' = "rmdisk"
    /\ UNCHANGED <<opt, cleared, vm, note, sig, mishap, unseen>>

CopyPart ==
    /\ pc = "copy"
    /\ disk.size = "empty"
    /\ disk' = [disk EXCEPT !.size = "part"]
    /\ UNCHANGED <<pc, opt, cleared, vm, note, sig, mishap, unseen>>

\* Mutant: the disk's removal is deferred only once the overlay is there.
CopyEndsLateDefer ==
    /\ pc = "copy"
    /\ \/ disk' = [disk EXCEPT !.size = "full"] /\ pc' \in {"configure", "release"}
       \/ UNCHANGED disk /\ pc' = "release"
    /\ UNCHANGED <<opt, cleared, vm, note, sig, mishap, unseen>>

\* The copy ends, or it fails (full disk), or Sync fails behind the last byte.
CopyEnds ==
    /\ pc = "copy"
    /\ \/ disk' = [disk EXCEPT !.size = "full"] /\ pc' \in {"configure", "rmdisk"}
       \/ UNCHANGED disk /\ pc' = "rmdisk"
    /\ UNCHANGED <<opt, cleared, vm, note, sig, mishap, unseen>>

\* Boot loader, devices, serial files and validation of the configuration.
Configure == Step("configure", {"start", "rmdisk"})

Start ==
    /\ pc = "start"
    /\ \/ /\ vm' = "running"
          /\ disk' = [disk EXCEPT !.used = TRUE]
          /\ pc' = "run"
       \/ /\ UNCHANGED <<vm, disk>>
          /\ pc' = "rmdisk"
    /\ UNCHANGED <<opt, cleared, note, sig, mishap, unseen>>

\* Mutant: the loop knows only the stop.
RunMissesError ==
    /\ pc = "run"
    /\ \/ note = "stopped" /\ pc' = "rmdisk" /\ note' = "none"
       \/ note = "error" /\ note' = "none" /\ UNCHANGED pc
       \/ sig /\ pc' = "ask" /\ UNCHANGED note
    /\ UNCHANGED <<opt, disk, cleared, vm, sig, mishap, unseen>>

\* The select of Run: whatever is there first, both in any order.
Run ==
    /\ pc = "run"
    /\ \/ note # "none" /\ pc' = "rmdisk" /\ note' = "none"
       \/ sig /\ pc' = "ask" /\ UNCHANGED note
    /\ UNCHANGED <<opt, disk, cleared, vm, sig, mishap, unseen>>

\* RequestStop; its error is logged.
RequestStop == Step("ask", {"await"})

\* An error of the machine does not end this wait.
AwaitStop ==
    /\ pc = "await"
    /\ note # "none"
    /\ note' = "none"
    /\ pc' = IF note = "stopped" THEN "rmdisk" ELSE "await"
    /\ UNCHANGED <<opt, disk, cleared, vm, sig, mishap, unseen>>

\* Mutant: after Stop the loop waits on for the notification of the stop.
ForceStopWaits ==
    /\ pc = "await"
    /\ vm = "running"
    /\ vm' = "stopped" /\ note' = "stopped"
    /\ UNCHANGED <<pc, opt, disk, cleared, sig, mishap, unseen>>

\* The deadline: Stop, whose result is thrown away.
ForceStop ==
    /\ pc = "await"
    /\ \/ vm = "running" /\ vm' = "stopped" /\ note' = "stopped"
       \/ UNCHANGED <<vm, note>>
    /\ pc' = "rmdisk"
    /\ UNCHANGED <<opt, disk, cleared, sig, mishap, unseen>>

\* Mutant: every run removes its disk.
DeferredRemoveAlways ==
    /\ pc = "rmdisk"
    /\ pc' = "release"
    /\ RemoveDisk
    /\ UNCHANGED <<opt, cleared, vm, note, sig, unseen>>

DeferredRemove ==
    /\ pc = "rmdisk"
    /\ pc' = "release"
    /\ IF opt.persist THEN UNCHANGED <<disk, mishap>> ELSE RemoveDisk
    /\ UNCHANGED <<opt, cleared, vm, note, sig, unseen>>

\* Mutant: the lock is released while the process, with its machine, goes on.
ReleaseKeepsMachine ==
    /\ pc = "release"
    /\ pc' = "off"
    /\ UNCHANGED <<opt, disk, cleared, vm, note, sig, mishap, unseen>>

\* The lock is released and the process ends, with the machine in it.
Release ==
    /\ pc = "release"
    /\ pc' = "off"
    /\ vm' = "none" /\ note' = "none"
    /\ UNCHANGED <<opt, disk, cleared, sig, mishap, unseen>>

-----------------------------------------------------------------------------
\* The guest powers off, or the framework reports an error.
MachineEnds ==
    /\ vm = "running"
    /\ \E end \in {"stopped", "error"} : vm' = end /\ note' = end
    /\ UNCHANGED <<pc, opt, disk, cleared, sig, mishap, unseen>>

\* Ctrl-C or SIGTERM while Run has them on sigCh, which holds one.
Signal ==
    /\ pc \in Attending
    /\ sig' = TRUE
    /\ UNCHANGED <<pc, opt, disk, cleared, vm, note, mishap, unseen>>

\* SIGKILL at any time; the machine is gone with the process.
Crash ==
    /\ pc # "off"
    /\ pc' = "off"
    /\ vm' = "none" /\ note' = "none"
    /\ sig' = FALSE
    /\ mishap' = TRUE
    /\ UNCHANGED <<opt, disk, cleared, unseen>>

Prepare == Reset \/ Seed \/ MakeLogs \/ EnsureOverlay \/ Clonefile \/ CreateDisk
           \/ CopyPart \/ CopyEnds \/ Configure \/ Start
Shutdown == RequestStop \/ AwaitStop \/ ForceStop
Launcher == Prepare \/ Run \/ Shutdown \/ DeferredRemove \/ Release

Next == Launch \/ Launcher \/ MachineEnds \/ Signal \/ Crash

Spec == Init /\ [][Next]_vars

\* The launcher runs and its timer ends the wait for a stop; nobody has to start
\* dvm, send a signal or power the guest off.
FairSpec == Spec /\ WF_vars(Launcher)

-----------------------------------------------------------------------------
\* The values of the state; a machine exists only between Start and the end of
\* the process, and only a machine that ended has been reported.
TypeOK ==
    /\ pc \in {"off"} \cup Preparing \cup Attending \cup Leaving
    /\ opt \in Option
    /\ disk \in Disk
    /\ cleared \in BOOLEAN
    /\ vm \in {"none", "running", "stopped", "error"}
    /\ note \in {"none", "stopped", "error"}
    /\ sig \in BOOLEAN
    /\ mishap \in BOOLEAN /\ unseen \in BOOLEAN
    /\ vm # "none" => pc \in Attending \cup Leaving
    /\ note # "none" => vm = note

\* A --no-persist run, and a --reset run whose removal worked, start the guest on
\* a whole copy of the base no guest ran on, whatever earlier launches left.
FreshDisk ==
    [][pc = "start" /\ vm' = "running" /\ (~opt.persist \/ cleared)
          => disk.size = "full" /\ ~disk.used]_vars

\* "delete existing writable state before starting" (--reset, cmd/dvm/main.go:108):
\* the guest starts on a new disk.  Not so when the os.Remove of startVZ failed.
ResetIsFresh ==
    [][pc = "start" /\ vm' = "running" /\ opt.reset
          => disk.size = "full" /\ ~disk.used]_vars

\* A run with neither --reset nor --no-persist never removes, truncates or
\* replaces a full disk, unless os.Stat failed on it; a crash does not either.
PersistentDiskKept ==
    [][pc # "off" /\ opt.persist /\ ~opt.reset /\ disk.size = "full" /\ ~unseen'
          => disk'.size = "full" /\ (disk.used => disk'.used)]_vars

\* Unless a launcher was killed or a removal failed, the disk of a --no-persist
\* run is gone when the directory is free again.
EphemeralDiskGone == pc = "off" /\ ~mishap => ~disk.ephemeral

\* "a copy-on-write clone of the read-only raw base ... falls back to a full
\* copy" (vz_darwin.go:52): the guest never boots on less.
BootsOnFullCopy == pc = "run" => disk.size = "full"

\* A signal ends the launch even if the guest ignores the request to stop and
\* the machine reports an error in place of a stop.
StopsOnSignal == sig /\ pc \in Attending ~> pc = "off"

\* A machine that ended, for whatever reason, ends the launch.
StopsWithGuest == vm \in {"stopped", "error"} ~> pc = "off"
=============================================================================
