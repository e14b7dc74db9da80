---------------------------- MODULE VzEngineProofs ----------------------------
(***************************************************************************)
(* Theorems about VzEngine, for any set of options.  The strengthening     *)
(* says how the disk looks at each place of the preparation: what --reset  *)
(* removed stays away until the disk is made again, and a disk is cloned   *)
(* or copied only where a persistent run found none, or could not tell.    *)
(***************************************************************************)
EXTENDS VzEngine, TLAPS

ClearedIsAbsent ==
    pc \in {"seed", "logs", "overlay"} /\ cleared => disk = Absent

MadeIsUnused ==
    (~opt.persist \/ cleared) =>
        /\ pc \in {"copy", "configure", "start"} => ~disk.used
        /\ pc \in {"configure", "start"} => disk.size = "full"

MadeOnlyIfMissing ==
    /\ pc \in {"clone", "create"} /\ opt.persist /\ ~unseen => disk.size \in {"absent", "empty"}
    /\ pc = "copy" => disk.size \in {"empty", "part"}

EphemeralIsOurs ==
    ~mishap /\ disk.ephemeral =>
       /\ ~opt.persist
       /\ pc \in {"copy", "configure", "start", "rmdisk"} \cup Attending

IInv ==
    /\ TypeOK
    /\ ClearedIsAbsent
    /\ MadeIsUnused
    /\ MadeOnlyIfMissing
    /\ EphemeralIsOurs

-----------------------------------------------------------------------------
LEMMA AbsentIsDisk == Absent \in Disk
  BY DEF Absent, Disk

\* What clonefile and os.Create leave.
LEMMA NewIsDisk ==
    ASSUME NEW b \in BOOLEAN, NEW s \in {"empty", "full"}
    PROVE  [size |-> s, used |-> FALSE, ephemeral |-> ~b] \in Disk
  BY DEF Disk

LEMMA InitInv == Init => IInv
<1> SUFFICES ASSUME Init PROVE IInv
  OBVIOUS
<1> USE DEF Init, Absent
<1>1. TypeOK
  <2>1. disk \in Disk
    BY DEF Disk
  <2> QED
    BY <2>1 DEF TypeOK
<1>2. ClearedIsAbsent /\ MadeIsUnused /\ MadeOnlyIfMissing /\ EphemeralIsOurs
  BY DEF ClearedIsAbsent, MadeIsUnused, MadeOnlyIfMissing, EphemeralIsOurs
<1> QED
  BY <1>1, <1>2 DEF IInv

\* Every step of the launcher, the guest, the user or the system keeps it.
LEMMA StepInv == IInv /\ [Next]_vars => IInv'
<1> SUFFICES ASSUME IInv, [Next]_vars PROVE IInv'
  OBVIOUS
<1> USE OptionAssumption
    DEF IInv, TypeOK, ClearedIsAbsent, MadeIsUnused, MadeOnlyIfMissing,
        EphemeralIsOurs, AnyOption, Absent, Disk, Preparing, Attending, Leaving
<1>1. CASE Launch
  BY <1>1 DEF Launch
<1>2. CASE Reset
  <2>1. disk' = disk \/ disk' = Absent
    BY <1>2 DEF Reset, RemoveDisk
  <2>2. mishap' \in BOOLEAN /\ (mishap => mishap')
    BY <1>2 DEF Reset, RemoveDisk
  <2>3. ~mishap' /\ RemoveDisk => disk' = Absent
    BY DEF RemoveDisk
  <2>4. TypeOK'
    <3>1. disk' \in Disk
      <4> HIDE DEF Disk, Absent
      <4> QED
        BY <2>1, AbsentIsDisk
    <3>2. cleared' \in BOOLEAN
      BY <1>2, Zenon DEF Reset
    <3>3. pc' = "seed" /\ pc = "reset"
      BY <1>2 DEF Reset
    <3> QED
      BY <1>2, <2>1, <2>2, <2>3, <3>1, <3>2, <3>3 DEF Reset
  <2>5. ClearedIsAbsent'
    <3>1. cleared' => disk'.size = "absent" /\ (disk' = Absent \/ disk.size # "absent")
      BY <1>2, Zenon DEF Reset, RemoveDisk
    <3> QED
      BY <2>1, <3>1
  <2>6. MadeIsUnused'
    BY <1>2, <2>1, <2>2, <2>3 DEF Reset
  <2>7. MadeOnlyIfMissing'
    BY <1>2, <2>1, <2>2, <2>3 DEF Reset
  <2>8. EphemeralIsOurs'
    BY <1>2, <2>1, <2>2, <2>3 DEF Reset
  <2> QED
    BY <2>4, <2>5, <2>6, <2>7, <2>8
<1>3. CASE Seed \/ MakeLogs
  BY <1>3 DEF Seed, MakeLogs, Step
<1>4. CASE EnsureOverlay
  <2>1. disk' = disk \/ disk' = Absent
    BY <1>4 DEF EnsureOverlay, RemoveDisk
  <2>2. mishap' \in BOOLEAN /\ (mishap => mishap')
    BY <1>4 DEF EnsureOverlay, RemoveDisk
  <2>3. ~mishap' /\ RemoveDisk => disk' = Absent
    BY DEF RemoveDisk
  <2>4. TypeOK'
    <3>1. disk' \in Disk
      <4> HIDE DEF Disk, Absent
      <4> QED
        BY <2>1, AbsentIsDisk
    <3>2. pc' \in Preparing
      BY <1>4 DEF EnsureOverlay
    <3>3. unseen' \in BOOLEAN
      BY <1>4, Zenon DEF EnsureOverlay
    <3>4. UNCHANGED <<opt, cleared, vm, note, sig>> /\ pc = "overlay"
      BY <1>4 DEF EnsureOverlay
    <3> QED
      BY <2>2, <3>1, <3>2, <3>3, <3>4
  <2>5. ClearedIsAbsent'
    BY <1>4, <2>1, <2>2, <2>3 DEF EnsureOverlay
  <2>6. MadeIsUnused'
    BY <1>4, <2>1, <2>2, <2>3 DEF EnsureOverlay
  <2>7. MadeOnlyIfMissing'
    BY <1>4, <2>1, <2>2, <2>3 DEF EnsureOverlay
  <2>8. EphemeralIsOurs'
    BY <1>4, <2>1, <2>2, <2>3 DEF EnsureOverlay
  <2> QED
    BY <2>4, <2>5, <2>6, <2>7, <2>8
<1>5. CASE Clonefile
  <2>1. TypeOK'
    <3>1. disk' \in Disk
      <4>1. opt.persist \in BOOLEAN
        OBVIOUS
      <4> HIDE DEF Disk
      <4> QED
        BY <1>5, <4>1, NewIsDisk DEF Clonefile
    <3>2. pc' \in Preparing
      BY <1>5 DEF Clonefile
    <3> QED
      BY <1>5, <3>1, <3>2 DEF Clonefile
  <2>2. ClearedIsAbsent'
    BY <1>5 DEF Clonefile
  <2>3. MadeIsUnused'
    BY <1>5 DEF Clonefile
  <2>4. MadeOnlyIfMissing'
    BY <1>5 DEF Clonefile
  <2>5. EphemeralIsOurs'
    BY <1>5 DEF Clonefile
  <2> QED
    BY <2>1, <2>2, <2>3, <2>4, <2>5
<1>6. CASE CreateDisk
  <2>1. TypeOK'
    <3>1. disk' \in Disk
      <4>1. opt.persist \in BOOLEAN
        OBVIOUS
      <4> HIDE DEF Disk
      <4> QED
        BY <1>6, <4>1, NewIsDisk DEF CreateDisk
    <3>2. pc' \in Preparing \cup Leaving
      BY <1>6 DEF CreateDisk
    <3> QED
      BY <1>6, <3>1, <3>2 DEF CreateDisk
  <2>2. ClearedIsAbsent'
    BY <1>6 DEF CreateDisk
  <2>3. MadeIsUnused'
    BY <1>6 DEF CreateDisk
  <2>4. MadeOnlyIfMissing'
    BY <1>6 DEF CreateDisk
  <2>5. EphemeralIsOurs'
    BY <1>6 DEF CreateDisk
  <2> QED
    BY <2>1, <2>2, <2>3, <2>4, <2>5
<1>7. CASE CopyPart
  BY <1>7 DEF CopyPart
<1>8. CASE CopyEnds
  BY <1>8 DEF CopyEnds
<1>9. CASE Configure
  BY <1>9 DEF Configure, Step
<1>10. CASE Start
  BY <1>10 DEF Start
<1>11. CASE Run
  BY <1>11 DEF Run
<1>12. CASE RequestStop
  BY <1>12 DEF RequestStop, Step
<1>13. CASE AwaitStop
  BY <1>13 DEF AwaitStop
<1>14. CASE ForceStop
  BY <1>14 DEF ForceStop
<1>15. CASE DeferredRemove
  <2>1. disk' = disk \/ disk' = Absent
    BY <1>15 DEF DeferredRemove, RemoveDisk
  <2>2. mishap' \in BOOLEAN /\ (mishap => mishap')
    BY <1>15 DEF DeferredRemove, RemoveDisk
  <2>3. ~mishap' /\ RemoveDisk => disk' = Absent
    BY DEF RemoveDisk
  <2>4. TypeOK'
    <3>1. disk' \in Disk
      <4> HIDE DEF Disk, Absent
      <4> QED
        BY <2>1, AbsentIsDisk
    <3>2. pc' \in Leaving
      BY <1>15 DEF DeferredRemove
    <3> QED
      BY <1>15, <2>1, <2>2, <2>3, <3>1, <3>2 DEF DeferredRemove
  <2>5. ClearedIsAbsent'
    BY <1>15, <2>1, <2>2, <2>3 DEF DeferredRemove
  <2>6. MadeIsUnused'
    BY <1>15, <2>1, <2>2, <2>3 DEF DeferredRemove
  <2>7. MadeOnlyIfMissing'
    BY <1>15, <2>1, <2>2, <2>3 DEF DeferredRemove
  <2>8. EphemeralIsOurs'
    BY <1>15, <2>1, <2>2, <2>3 DEF DeferredRemove
  <2> QED
    BY <2>4, <2>5, <2>6, <2>7, <2>8
<1>16. CASE Release
  BY <1>16 DEF Release
<1>17. CASE MachineEnds
  BY <1>17 DEF MachineEnds
<1>18. CASE Signal
  BY <1>18 DEF Signal
<1>19. CASE Crash
  BY <1>19 DEF Crash
<1>20. CASE UNCHANGED vars
  BY <1>20 DEF vars
<1> QED
  BY <1>1, <1>2, <1>3, <1>4, <1>5, <1>6, <1>7, <1>8, <1>9, <1>10, <1>11,
     <1>12, <1>13, <1>14, <1>15, <1>16, <1>17, <1>18, <1>19, <1>20
  DEF Next, Launcher, Prepare, Shutdown

LEMMA InvariantHolds == Spec => []IInv
  BY InitInv, StepInv, PTL DEF Spec

-----------------------------------------------------------------------------
\* Types; a machine exists only inside the process that started it, and only
\* one that ended is reported (Run and shutdown read the same channel).
THEOREM TypeCorrect == Spec => []TypeOK
  BY InvariantHolds, PTL DEF IInv

\* Without a kill or a failed removal no ephemeral disk is met by a later run
\* (the os.Remove that Run defers).
THEOREM EphemeralGone == Spec => []EphemeralDiskGone
<1>1. IInv => EphemeralDiskGone
  BY DEF IInv, EphemeralIsOurs, EphemeralDiskGone, Attending
<1> QED
  BY InvariantHolds, <1>1, PTL

\* ensureOverlay gives a --no-persist run, and a --reset run whose removal worked,
\* a whole disk no guest ran on, after any history of launches, crashes and
\* failed removals of other launches.
THEOREM FreshDiskAlways == Spec => FreshDisk
<1> DEFINE Fresh ==
       pc = "start" /\ vm' = "running" /\ (~opt.persist \/ cleared)
       => disk.size = "full" /\ ~disk.used
<1>1. IInv => Fresh
  BY DEF IInv, MadeIsUnused
<1> QED
  BY InvariantHolds, <1>1, PTL DEF Spec, FreshDisk

\* No step of a run that asked for neither --reset nor --no-persist takes a full
\* disk away that os.Stat found: copyFile is reached only where there was none.
THEOREM DiskKeptAlways == Spec => PersistentDiskKept
<1> DEFINE Kept ==
       pc # "off" /\ opt.persist /\ ~opt.reset /\ disk.size = "full" /\ ~unseen'
          => disk'.size = "full" /\ (disk.used => disk'.used)
<1>1. ASSUME IInv, Next PROVE Kept
  <2> SUFFICES ASSUME pc # "off", opt.persist, ~opt.reset, disk.size = "full",
                      ~unseen'
               PROVE disk'.size = "full" /\ (disk.used => disk'.used)
    OBVIOUS
  <2>1. CASE Start
    BY <1>1, <2>1 DEF Start, IInv, TypeOK, Disk
  <2>2. ~Clonefile /\ ~CreateDisk /\ ~CopyPart /\ ~CopyEnds /\ ~Launch
    BY <1>1 DEF Clonefile, CreateDisk, CopyPart, CopyEnds, Launch, IInv,
                MadeOnlyIfMissing
  <2>4. EnsureOverlay => disk' = disk
    <3> SUFFICES ASSUME EnsureOverlay, pc' = "clone" PROVE FALSE
      BY DEF EnsureOverlay
    <3> QED
      BY Zenon DEF EnsureOverlay
  <2>3. CASE ~Start
    <3>1. disk' = disk
      BY <1>1, <2>2, <2>3, <2>4
      DEF Next, Launcher, Prepare, Shutdown, Reset, Seed, MakeLogs, Configure, Step, Run, RequestStop, AwaitStop,
          ForceStop, DeferredRemove, Release, MachineEnds, Signal, Crash
    <3> QED
      BY <3>1
  <2> QED
    BY <2>1, <2>3
<1>2. IInv /\ [Next]_vars => [Kept]_vars
  BY <1>1
<1> QED
  BY InvariantHolds, <1>2, PTL DEF Spec, PersistentDiskKept

-----------------------------------------------------------------------------
\* The steps the launcher may still take before the directory is free again,
\* counted from its place; a machine that may still report its end accounts for
\* two (its report, and one turn of a loop that receives it).
Position(place, size) ==
    CASE place = "off"       -> 0
      [] place = "release"   -> 1
      [] place = "rmdisk"    -> 2
      [] place = "await"     -> 3
      [] place = "ask"       -> 4
      [] place = "run"       -> 5
      [] place = "start"     -> 8
      [] place = "configure" -> 9
      [] place = "copy"      -> IF size = "empty" THEN 11 ELSE 10
      [] place = "create"    -> 12
      [] place = "clone"     -> 13
      [] place = "overlay"   -> 14
      [] place = "logs"      -> 15
      [] place = "seed"      -> 16
      [] place = "reset"     -> 17

ToReport(machine, unread) ==
    IF machine = "running" THEN 2 ELSE IF unread # "none" THEN 1 ELSE 0

StepsLeft == Position(pc, disk.size) + ToReport(vm, note)

\* Run and shutdown do not wait in a circle: a machine reports its end once, the
\* loop of shutdown that passes over an error finds nothing to pass over again.
RunAdvances ==
    [][/\ ~Launch => StepsLeft' <= StepsLeft
       /\ Launcher => StepsLeft' < StepsLeft]_vars

LEMMA PrepareAdvances == ASSUME IInv, Prepare PROVE StepsLeft' < StepsLeft
<1>0. note # "none" => vm = note
  BY DEF IInv, TypeOK
<1>1. CASE Start
  <2>1. pc = "start" /\ pc' \in {"run", "rmdisk"} /\ vm = "none" /\ note' = note
    BY <1>1 DEF Start, IInv, TypeOK, Attending, Leaving
  <2>2. vm' = "running" => pc' = "run"
    BY <1>1, <2>1 DEF Start
  <2>3. pc' = "rmdisk" => vm' = vm
    BY <1>1 DEF Start
  <2>4. note = "none"
    BY <1>0, <2>1 DEF IInv, TypeOK
  <2> QED
    BY <2>1, <2>2, <2>3, <2>4 DEF StepsLeft, Position, ToReport
<1>2. CASE CopyPart
  BY <1>2 DEF StepsLeft, Position, ToReport, CopyPart, IInv, TypeOK, Disk
<1>3. CASE Reset \/ Seed \/ MakeLogs \/ EnsureOverlay \/ Clonefile \/ CreateDisk
           \/ CopyEnds \/ Configure
  <2>1. vm' = vm /\ note' = note
    BY <1>3 DEF Reset, Seed, MakeLogs, EnsureOverlay, Clonefile, CreateDisk,
                CopyEnds, Configure, Step
  <2>2. \/ pc = "reset" /\ pc' = "seed"
        \/ pc = "seed" /\ pc' \in {"logs", "release"}
        \/ pc = "logs" /\ pc' \in {"overlay", "release"}
        \/ pc = "overlay" /\ pc' \in {"configure", "clone"}
        \/ pc = "clone" /\ pc' \in {"configure", "create"}
        \/ pc = "create" /\ pc' \in {"copy", "rmdisk"}
        \/ pc = "copy" /\ pc' \in {"configure", "rmdisk"}
        \/ pc = "configure" /\ pc' \in {"start", "rmdisk"}
    BY <1>3 DEF Reset, Seed, MakeLogs, EnsureOverlay, Clonefile, CreateDisk,
                CopyEnds, Configure, Step
  <2>3. /\ ToReport(vm', note') = ToReport(vm, note)
        /\ ToReport(vm, note) \in 0..2
    BY <2>1 DEF ToReport
  <2>4. /\ Position(pc', disk'.size) < Position(pc, disk.size)
        /\ {Position(pc', disk'.size), Position(pc, disk.size)} \subseteq 0..17
    BY <2>2 DEF Position
  <2>5. /\ StepsLeft = Position(pc, disk.size) + ToReport(vm, note)
        /\ StepsLeft' = Position(pc', disk'.size) + ToReport(vm', note')
    BY DEF StepsLeft
  <2> QED
    BY <2>3, <2>4, <2>5
<1> QED
  BY <1>1, <1>2, <1>3 DEF Prepare

LEMMA LauncherAdvances == ASSUME IInv, Launcher PROVE StepsLeft' < StepsLeft
<1> USE DEF StepsLeft, Position, ToReport
<1>0. /\ note # "none" => vm = note
      /\ note \in {"none", "stopped", "error"}
  BY DEF IInv, TypeOK
<1>1. CASE Prepare
  BY <1>1, PrepareAdvances
<1>2. CASE Run
  BY <1>0, <1>2 DEF Run
<1>3. CASE RequestStop
  BY <1>0, <1>3 DEF RequestStop, Step
<1>4. CASE AwaitStop
  BY <1>0, <1>4 DEF AwaitStop
<1>5. CASE ForceStop
  BY <1>0, <1>5 DEF ForceStop
<1>6. CASE DeferredRemove
  BY <1>0, <1>6 DEF DeferredRemove
<1>7. CASE Release
  BY <1>0, <1>7 DEF Release
<1> QED
  BY <1>1, <1>2, <1>3, <1>4, <1>5, <1>6, <1>7 DEF Launcher, Shutdown

\* No launch takes more than 17 steps of the launcher.
LEMMA FewStepsLeft == IInv => StepsLeft \in 0..17
<1> SUFFICES ASSUME IInv PROVE StepsLeft \in 0..17
  OBVIOUS
<1>1. Position(pc, disk.size) \in 0..17 /\ ToReport(vm, note) \in 0..2
  BY DEF IInv, TypeOK, Position, ToReport, Preparing, Attending, Leaving
<1>2. ToReport(vm, note) # 0 => pc \in Attending \cup Leaving
  BY DEF IInv, TypeOK, ToReport
<1>3. pc \in Attending \cup Leaving => Position(pc, disk.size) \in 0..5
  BY DEF Position, Attending, Leaving
<1> QED
  BY <1>1, <1>2, <1>3 DEF StepsLeft

\* For any options: the launcher's loops end, whatever the machine, the disk and
\* the user do; a launch that stays stays for an event it waits for.
THEOREM RunIsBounded == Spec => [](StepsLeft \in 0..17) /\ RunAdvances
<1> DEFINE Few == StepsLeft \in 0..17
<1>1. ASSUME IInv, MachineEnds \/ Signal PROVE StepsLeft' <= StepsLeft
  <2>1. pc' = pc /\ disk' = disk
    BY <1>1 DEF MachineEnds, Signal
  <2>2. Position(pc', disk'.size) = Position(pc, disk.size)
    BY <2>1 DEF Position
  <2>3. /\ ToReport(vm', note') <= ToReport(vm, note)
        /\ {ToReport(vm', note'), ToReport(vm, note)} \subseteq 0..2
    BY <1>1 DEF MachineEnds, Signal, ToReport
  <2>4. Position(pc, disk.size) \in 0..17
    BY <1>1 DEF IInv, TypeOK, Position, Preparing, Attending, Leaving
  <2>5. /\ StepsLeft = Position(pc, disk.size) + ToReport(vm, note)
        /\ StepsLeft' = Position(pc', disk'.size) + ToReport(vm', note')
    BY DEF StepsLeft
  <2> QED
    BY <2>2, <2>3, <2>4, <2>5
<1>2. ASSUME Crash PROVE StepsLeft' = 0
  BY <1>2 DEF Crash, StepsLeft, Position, ToReport
<1>3. ASSUME IInv, Few, Few', Next
      PROVE  /\ ~Launch => StepsLeft' <= StepsLeft
             /\ Launcher => StepsLeft' < StepsLeft
  <2>1. StepsLeft \in Nat /\ StepsLeft' \in Nat
    BY <1>3
  <2> QED
    BY <1>1, <1>2, <1>3, <2>1, LauncherAdvances DEF Next
<1>4. IInv /\ Few /\ Few' /\ [Next]_vars
        => [/\ ~Launch => StepsLeft' <= StepsLeft
            /\ Launcher => StepsLeft' < StepsLeft]_vars
  BY <1>3
<1>5. IInv => Few
  BY FewStepsLeft
<1> QED
  BY InvariantHolds, <1>4, <1>5, PTL DEF Spec, RunAdvances
=============================================================================
