--------------------------- MODULE LifecycleProofs ---------------------------
(***************************************************************************)
(* Theorems about Lifecycle, for any QEMU identifiers, any set of options  *)
(* and any number of accelerator candidates.                               *)
(***************************************************************************)
EXTENDS Lifecycle, TLAPS

USE DEF guestVars, runVars, linkVars, fileVars

LEMMA CandFacts ==
    /\ 1 \in 1..Cands + 1
    /\ \A c \in 1..Cands + 1 : c <= Cands => c + 1 \in 1..Cands + 1
BY CandsAssumption

LEMMA OverlayFacts ==
    /\ Absent \in Overlay
    /\ \A s \in {"partial", "complete"}, e \in BOOLEAN :
          [stage |-> s, ephemeral |-> e] \in Overlay
    /\ \A o \in Overlay : [o EXCEPT !.stage = "complete"] \in Overlay
BY DEF Overlay, Absent

\* A candidate in its grace period is one of the candidates.
TypeInv == TypeOK /\ (pc = "grace" => cand <= Cands)

LEMMA TypeStep == ASSUME TypeInv, [Next]_vars PROVE TypeInv'
<1> USE OverlayFacts DEF TypeInv, TypeOK, Supervising, Booted, Childless, Creating
<1>1. CASE Launch
  BY <1>1, CandFacts DEF Launch
<1>2. CASE CheckPortsFree
  BY <1>2 DEF CheckPortsFree
<1>3. CASE BuildSeed
  BY <1>3 DEF BuildSeed
<1>4. CASE PrepareDisk
  BY <1>4 DEF PrepareDisk, RemoveOverlay
<1>5. CASE CreateOverlay
  BY <1>5 DEF CreateOverlay
<1>6. CASE QemuImgEnds
  BY <1>6 DEF QemuImgEnds
<1>7. CASE WriteSeed
  BY <1>7 DEF WriteSeed
<1>8. CASE StartQEMU
  <2>0. cand \in 1..Cands + 1 /\ opt \in Option /\ opt.fwd \subseteq Port
    BY OptionAssumption DEF AnyOption
  <2>1. CASE UNCHANGED guestVars
    BY <1>8, <2>1, CandFacts DEF StartQEMU
  <2>2. ASSUME NEW q \in Qemu \ up,
               /\ cand <= Cands
               /\ pc' = "grace"
               /\ child' = q /\ done' = FALSE
               /\ up' = up \cup {q}
               /\ attached' = attached \cup {q}
               /\ bound' = [bound EXCEPT ![q] = opt.fwd]
               /\ UNCHANGED <<cand, wedged>>
               /\ UNCHANGED <<opt, sig, linkVars, fileVars>>
        PROVE  TypeInv'
    BY <2>0, <2>2
  <2> QED
    BY <1>8, <2>1, <2>2 DEF StartQEMU
<1>9. CASE Grace
  BY <1>9, CandFacts DEF Grace
<1>10. CASE WritePID
  BY <1>10 DEF WritePID
<1>11. CASE DialSerial
  BY <1>11 DEF DialSerial
<1>12. CASE DialQMP
  BY <1>12 DEF DialQMP
<1>13. CASE Negotiate
  BY <1>13 DEF Negotiate
<1>14. CASE Supervise
  BY <1>14 DEF Supervise
<1>15. CASE Interactive
  BY <1>15 DEF Interactive
<1>16. CASE WaitTCP
  BY <1>16 DEF WaitTCP
<1>17. CASE Wait
  BY <1>17 DEF Wait, ChildDone, Step
<1>18. CASE Stop
  BY <1>18 DEF Stop, Powerdown, AwaitExit, Terminated, Killed, ClearPID,
     DeferredRemove, RemoveOverlay, Release, ChildDone, Step
<1>19. CASE Stdin
  BY <1>19 DEF Stdin
<1>20. CASE Signal
  BY <1>20 DEF Signal
<1>21. CASE Crash
  BY <1>21 DEF Crash
<1>22. CASE Reap \/ PumpEnds
  BY <1>22 DEF Reap, PumpEnds
<1>23. ASSUME NEW q \in Qemu, Exit(q) PROVE TypeInv'
  BY <1>23 DEF Exit
<1>24. ASSUME NEW q \in Qemu, Wedge(q) PROVE TypeInv'
  BY <1>24 DEF Wedge
<1>25. CASE UNCHANGED vars
  BY <1>25 DEF vars
<1> QED
  BY <1>1, <1>2, <1>3, <1>4, <1>5, <1>6, <1>7, <1>8, <1>9, <1>10, <1>11,
     <1>12, <1>13, <1>14, <1>15, <1>16, <1>17, <1>18, <1>19, <1>20, <1>21,
     <1>22, <1>23, <1>24, <1>25 DEF Next, Launcher, Setup, Boot, Attend

\* The launcher's variables and the files keep their types: in particular the
\* candidate index stays within one of the candidates' number, and a QEMU that
\* has exited holds neither ports nor the overlay.
THEOREM TypeCorrect == Spec => []TypeOK
<1>1. Init => TypeInv
  BY OverlayFacts, CandFacts DEF Init, TypeInv, TypeOK, Childless, Creating
<1>2. TypeInv => TypeOK
  BY DEF TypeInv
<1> QED
  BY <1>1, <1>2, TypeStep, PTL DEF Spec

-----------------------------------------------------------------------------
\* A launcher has a child exactly between a start that worked and the receive
\* from running.done, and the reaper reports only a process that has exited.
ChildInv ==
    /\ pc \in Childless => child = None /\ ~done
    /\ pc \notin Childless => child \in Qemu
    /\ done => child \notin up

\* A launch that asked for a new disk is alone with it, from the removal of the
\* old one to the end of supervision.
OwnDisk == opt.reset \/ ~opt.persist
DiskInv ==
    /\ pc = "create" /\ OwnDisk => overlay = Absent /\ attached = {}
    /\ pc \in Creating => overlay = [stage |-> "partial", ephemeral |-> ~opt.persist]
    /\ pc \in Creating /\ OwnDisk => attached = {}
    /\ pc \in {"seed", "start", "grace"} \cup Booted /\ OwnDisk =>
          /\ overlay = [stage |-> "complete", ephemeral |-> ~opt.persist]
          /\ attached \subseteq {child}

LEMMA ChildStep ==
    ASSUME TypeInv, ChildInv, [Next]_vars PROVE ChildInv'
<1> USE QemuAssumption DEF TypeInv, TypeOK, ChildInv, Supervising, Booted, Childless, Creating
<1>1. CASE Launch
  BY <1>1 DEF Launch
<1>2. CASE CheckPortsFree
  BY <1>2 DEF CheckPortsFree
<1>3. CASE BuildSeed
  BY <1>3 DEF BuildSeed
<1>4. CASE PrepareDisk
  BY <1>4 DEF PrepareDisk, RemoveOverlay
<1>5. CASE CreateOverlay
  BY <1>5 DEF CreateOverlay
<1>6. CASE QemuImgEnds
  BY <1>6 DEF QemuImgEnds
<1>7. CASE WriteSeed
  BY <1>7 DEF WriteSeed
<1>8. CASE StartQEMU
  BY <1>8 DEF StartQEMU
<1>9. CASE Grace
  BY <1>9 DEF Grace
<1>10. CASE WritePID
  BY <1>10 DEF WritePID
<1>11. CASE DialSerial
  BY <1>11 DEF DialSerial
<1>12. CASE DialQMP
  BY <1>12 DEF DialQMP
<1>13. CASE Negotiate
  BY <1>13 DEF Negotiate
<1>14. CASE Supervise
  BY <1>14 DEF Supervise
<1>15. CASE Interactive
  BY <1>15 DEF Interactive
<1>16. CASE WaitTCP
  BY <1>16 DEF WaitTCP
<1>17. CASE Wait
  BY <1>17 DEF Wait, ChildDone, Step
<1>18. CASE Powerdown \/ AwaitExit \/ Terminated \/ Killed
  BY <1>18 DEF Powerdown, AwaitExit, Terminated, Killed,
     ChildDone, Step
<1>19. CASE ClearPID \/ DeferredRemove \/ Release
  BY <1>19 DEF ClearPID, DeferredRemove, RemoveOverlay,
     Release, Step
<1>20. CASE Stdin
  BY <1>20 DEF Stdin
<1>21. CASE Signal \/ Reap \/ PumpEnds
  BY <1>21 DEF Signal, Reap, PumpEnds
<1>22. CASE Crash
  BY <1>22 DEF Crash
<1>23. ASSUME NEW q \in Qemu, Exit(q) \/ Wedge(q) PROVE ChildInv'
  BY <1>23 DEF Exit, Wedge
<1>24. CASE UNCHANGED vars
  BY <1>24 DEF vars
<1> QED
  BY <1>1, <1>2, <1>3, <1>4, <1>5, <1>6, <1>7, <1>8, <1>9, <1>10, <1>11,
     <1>12, <1>13, <1>14, <1>15, <1>16, <1>17, <1>18, <1>19, <1>20,
     <1>21, <1>22, <1>23, <1>24
     DEF Next, Launcher, Setup, Boot, Attend, Stop

LEMMA CompletedOverlay ==
    \A e \in BOOLEAN :
        [[stage |-> "partial", ephemeral |-> e] EXCEPT !.stage = "complete"]
            = [stage |-> "complete", ephemeral |-> e]
OBVIOUS

LEMMA DiskStep ==
    ASSUME TypeInv, ChildInv, DiskInv, [Next]_vars PROVE DiskInv'
<1> USE QemuAssumption DEF TypeInv, TypeOK, ChildInv, DiskInv, OwnDisk,
        Supervising, Booted, Childless, Creating
<1>1. CASE Launch
  BY <1>1 DEF Launch
<1>2. CASE CheckPortsFree
  BY <1>2 DEF CheckPortsFree
<1>3. CASE BuildSeed
  BY <1>3 DEF BuildSeed
<1>4. CASE PrepareDisk
  BY <1>4 DEF PrepareDisk, RemoveOverlay
<1>5. CASE CreateOverlay
  BY <1>5 DEF CreateOverlay
<1>6. CASE QemuImgEnds
  BY CompletedOverlay, <1>6 DEF QemuImgEnds
<1>7. CASE WriteSeed
  BY <1>7 DEF WriteSeed
<1>8. CASE StartQEMU
  BY <1>8 DEF StartQEMU
<1>9. CASE Grace
  BY <1>9 DEF Grace
<1>10. CASE WritePID
  BY <1>10 DEF WritePID
<1>11. CASE DialSerial
  BY <1>11 DEF DialSerial
<1>12. CASE DialQMP
  BY <1>12 DEF DialQMP
<1>13. CASE Negotiate
  BY <1>13 DEF Negotiate
<1>14. CASE Supervise
  BY <1>14 DEF Supervise
<1>15. CASE Interactive
  BY <1>15 DEF Interactive
<1>16. CASE WaitTCP
  BY <1>16 DEF WaitTCP
<1>17. CASE Wait
  BY <1>17 DEF Wait, ChildDone, Step
<1>18. CASE Powerdown \/ AwaitExit \/ Terminated \/ Killed
  BY <1>18 DEF Powerdown, AwaitExit, Terminated, Killed,
     ChildDone, Step
<1>19. CASE ClearPID \/ DeferredRemove \/ Release
  BY <1>19 DEF ClearPID, DeferredRemove, RemoveOverlay,
     Release, Step
<1>20. CASE Stdin
  BY <1>20 DEF Stdin
<1>21. CASE Signal \/ Reap \/ PumpEnds
  BY <1>21 DEF Signal, Reap, PumpEnds
<1>22. CASE Crash
  BY <1>22 DEF Crash
<1>23. ASSUME NEW q \in Qemu, Exit(q) \/ Wedge(q) PROVE DiskInv'
  BY <1>23 DEF Exit, Wedge
<1>24. CASE UNCHANGED vars
  BY <1>24 DEF vars
<1> QED
  BY <1>1, <1>2, <1>3, <1>4, <1>5, <1>6, <1>7, <1>8, <1>9, <1>10, <1>11,
     <1>12, <1>13, <1>14, <1>15, <1>16, <1>17, <1>18, <1>19, <1>20,
     <1>21, <1>22, <1>23, <1>24
     DEF Next, Launcher, Setup, Boot, Attend, Stop

LEMMA RunInvariant == Spec => [](TypeInv /\ ChildInv /\ DiskInv)
<1>1. Init => TypeInv /\ ChildInv /\ DiskInv
  BY OverlayFacts, CandFacts
     DEF Init, TypeInv, TypeOK, ChildInv, DiskInv, OwnDisk, Childless, Booted,
         Supervising, Creating
<1>2. TypeInv /\ ChildInv /\ DiskInv /\ [Next]_vars
          => (TypeInv /\ ChildInv /\ DiskInv)'
  BY TypeStep, ChildStep, DiskStep
<1> QED
  BY <1>1, <1>2, PTL DEF Spec

\* A run with --reset or --no-persist has a disk of its own, finished by its
\* own qemu-img, after any history of crashes, failures and orphans.
THEOREM FreshDiskAlways == Spec => []FreshDisk
<1>1. DiskInv => FreshDisk
  BY DEF DiskInv, FreshDisk, OwnDisk
<1> QED
  BY <1>1, RunInvariant, PTL

\* No step of dvm, crashes included, takes a finished overlay away from a user
\* who asked for neither --reset nor --no-persist, as long as os.Stat sees it.
THEOREM DiskKeptAlways == Spec => PersistentDiskKept
<1> DEFINE Kept == overlay.stage = "complete" /\ overlay' # overlay
                      => OwnDisk \/ pc' = "overwrite"
<1>1. ASSUME DiskInv, [Next]_vars PROVE [Kept]_vars
  <2> SUFFICES ASSUME Next, overlay' # overlay, ~OwnDisk, pc' # "overwrite"
               PROVE  overlay.stage # "complete"
    BY <1>1
  <2>1. CASE CreateOverlay
    BY <2>1 DEF CreateOverlay, Absent
  <2>2. CASE pc \in Creating
    BY <1>1, <2>2 DEF DiskInv
  <2>3. CASE PrepareDisk \/ DeferredRemove
    BY <2>3 DEF PrepareDisk, DeferredRemove, OwnDisk
  <2> QED
    BY <2>1, <2>2, <2>3
       DEF Next, Launch, Launcher, Setup, Boot, Attend, Stop, CheckPortsFree,
           BuildSeed, QemuImgEnds, WriteSeed, StartQEMU, Grace, WritePID,
           DialSerial, DialQMP, Negotiate, Supervise, Interactive, WaitTCP,
           Wait, Powerdown, AwaitExit, Terminated, Killed, ChildDone, Step,
           ClearPID, Release, Stdin, Signal, Crash, Reap, PumpEnds, Exit, Wedge
<1>2. [Kept]_vars => [overlay.stage = "complete" /\ overlay' # overlay =>
                         opt.reset \/ ~opt.persist \/ pc' = "overwrite"]_vars
  BY DEF OwnDisk
<1> QED
  BY <1>1, <1>2, RunInvariant, PTL DEF Spec, PersistentDiskKept

-----------------------------------------------------------------------------
\* Without crashes the only QEMU alive is the launcher's own.
OwnQemuOnly == up \subseteq {child}

LEMMA OwnQemuStep ==
    ASSUME ~MayCrash, TypeInv, ChildInv, OwnQemuOnly, [Next]_vars
    PROVE  OwnQemuOnly'
<1> USE QemuAssumption DEF TypeInv, TypeOK, ChildInv, OwnQemuOnly, Supervising,
        Booted, Childless, Creating
<1>1. CASE Launch
  BY <1>1 DEF Launch
<1>2. CASE CheckPortsFree
  BY <1>2 DEF CheckPortsFree
<1>3. CASE BuildSeed
  BY <1>3 DEF BuildSeed
<1>4. CASE PrepareDisk
  BY <1>4 DEF PrepareDisk, RemoveOverlay
<1>5. CASE CreateOverlay
  BY <1>5 DEF CreateOverlay
<1>6. CASE QemuImgEnds
  BY <1>6 DEF QemuImgEnds
<1>7. CASE WriteSeed
  BY <1>7 DEF WriteSeed
<1>8. CASE StartQEMU
  BY <1>8 DEF StartQEMU
<1>9. CASE Grace
  BY <1>9 DEF Grace
<1>10. CASE WritePID
  BY <1>10 DEF WritePID
<1>11. CASE DialSerial \/ DialQMP \/ Negotiate
  BY <1>11 DEF DialSerial, DialQMP, Negotiate
<1>12. CASE Supervise \/ Interactive \/ WaitTCP
  BY <1>12 DEF Supervise, Interactive, WaitTCP
<1>13. CASE Wait
  BY <1>13 DEF Wait, ChildDone, Step
<1>14. CASE Powerdown \/ AwaitExit \/ Terminated \/ Killed
  BY <1>14 DEF Powerdown, AwaitExit, Terminated, Killed,
     ChildDone, Step
<1>15. CASE ClearPID \/ DeferredRemove \/ Release
  BY <1>15 DEF ClearPID, DeferredRemove, RemoveOverlay,
     Release, Step
<1>16. CASE Stdin
  BY <1>16 DEF Stdin
<1>17. CASE Signal \/ Reap \/ PumpEnds
  BY <1>17 DEF Signal, Reap, PumpEnds
<1>18. CASE Crash
  BY <1>18 DEF Crash
<1>19. ASSUME NEW q \in Qemu, Exit(q) \/ Wedge(q) PROVE OwnQemuOnly'
  BY <1>19 DEF Exit, Wedge
<1>20. CASE UNCHANGED vars
  BY <1>20 DEF vars
<1> QED
  BY <1>1, <1>2, <1>3, <1>4, <1>5, <1>6, <1>7, <1>8, <1>9, <1>10, <1>11,
     <1>12, <1>13, <1>14, <1>15, <1>16, <1>17, <1>18, <1>19, <1>20
     DEF Next, Launcher, Setup, Boot, Attend, Stop

\* However a launch ends, by an error, a failed accelerator, a signal or the
\* guest's own power-off, it leaves no QEMU behind, unless the launcher itself
\* is killed.
THEOREM NoOrphanWithoutCrash ==
    ASSUME ~MayCrash PROVE Spec => []NoOrphan
<1>1. Init => OwnQemuOnly
  BY DEF Init, OwnQemuOnly
<1>2. TypeInv /\ ChildInv /\ OwnQemuOnly => NoOrphan
  BY QemuAssumption DEF TypeInv, TypeOK, ChildInv, OwnQemuOnly, NoOrphan
<1> QED
  BY <1>1, <1>2, OwnQemuStep, RunInvariant, PTL DEF Spec

-----------------------------------------------------------------------------
\* Past the port check no QEMU but the launcher's own has one of its ports.
PortInv ==
    pc \notin {"off", "ports", "release"} =>
        \A q \in up \ {child} : bound[q] \cap opt.fwd = {}

LEMMA PortStep ==
    ASSUME TypeInv, ChildInv, PortInv, [Next]_vars
    PROVE  PortInv'
<1> USE QemuAssumption DEF TypeInv, TypeOK, ChildInv, PortInv,
        Supervising, Booted, Childless, Creating
<1>1. CASE Launch
  BY <1>1 DEF Launch
<1>2. CASE CheckPortsFree
  BY <1>2 DEF CheckPortsFree
<1>3. CASE BuildSeed
  BY <1>3 DEF BuildSeed
<1>4. CASE PrepareDisk
  BY <1>4 DEF PrepareDisk, RemoveOverlay
<1>5. CASE CreateOverlay
  BY <1>5 DEF CreateOverlay
<1>6. CASE QemuImgEnds
  BY <1>6 DEF QemuImgEnds
<1>7. CASE WriteSeed
  BY <1>7 DEF WriteSeed
<1>8. CASE StartQEMU
  BY <1>8 DEF StartQEMU
<1>9. CASE Grace
  BY <1>9 DEF Grace
<1>10. CASE WritePID
  BY <1>10 DEF WritePID
<1>11. CASE DialSerial \/ DialQMP \/ Negotiate
  BY <1>11 DEF DialSerial, DialQMP, Negotiate
<1>12. CASE Supervise \/ Interactive \/ WaitTCP
  BY <1>12 DEF Supervise, Interactive, WaitTCP
<1>13. CASE Wait
  BY <1>13 DEF Wait, ChildDone, Step
<1>14. CASE Powerdown \/ AwaitExit \/ Terminated \/ Killed
  BY <1>14 DEF Powerdown, AwaitExit, Terminated, Killed,
     ChildDone, Step
<1>15. CASE ClearPID \/ DeferredRemove \/ Release
  BY <1>15 DEF ClearPID, DeferredRemove, RemoveOverlay,
     Release, Step
<1>16. CASE Stdin
  BY <1>16 DEF Stdin
<1>17. CASE Signal \/ Reap \/ PumpEnds
  BY <1>17 DEF Signal, Reap, PumpEnds
<1>18. CASE Crash
  BY <1>18 DEF Crash
<1>19. ASSUME NEW q \in Qemu, Exit(q) \/ Wedge(q) PROVE PortInv'
  BY <1>19 DEF Exit, Wedge
<1>20. CASE UNCHANGED vars
  BY <1>20 DEF vars
<1> QED
  BY <1>1, <1>2, <1>3, <1>4, <1>5, <1>6, <1>7, <1>8, <1>9, <1>10, <1>11,
     <1>12, <1>13, <1>14, <1>15, <1>16, <1>17, <1>18, <1>19, <1>20
     DEF Next, Launcher, Setup, Boot, Attend, Stop

LEMMA PortInvariant == Spec => []PortInv
<1>1. Init => PortInv
  BY DEF Init, PortInv
<1> QED
  BY <1>1, PortStep, RunInvariant, PTL DEF Spec

\* For any ports and any options: a launch one of whose ports is held by a QEMU
\* of a dead launcher changes no disk and starts no QEMU.
THEOREM RivalAlwaysStops == Spec => RivalStopsLaunch
<1> DEFINE Rival == pc # "off" /\ \E q \in up \ {child} : bound[q] \cap opt.fwd # {}
<1>1. ASSUME PortInv, [Next]_vars PROVE [Rival => overlay' = overlay /\ up' \subseteq up]_vars
  <2> SUFFICES ASSUME Rival, Next PROVE overlay' = overlay /\ up' \subseteq up
    BY <1>1
  <2>1. pc \in {"ports", "release"}
    BY <1>1 DEF PortInv
  <2> QED
    BY <2>1
       DEF Next, Launch, Launcher, Setup, Boot, Attend, Stop, CheckPortsFree,
           BuildSeed, PrepareDisk, CreateOverlay, QemuImgEnds, WriteSeed, StartQEMU,
           Grace, WritePID, DialSerial, DialQMP, Negotiate, Supervise, Interactive,
           WaitTCP, Wait, Powerdown, AwaitExit, Terminated, Killed, ChildDone, Step,
           ClearPID, DeferredRemove, Release, Stdin, Signal, Crash, Reap, PumpEnds,
           Exit, Wedge, Creating
<1>2. [Rival => overlay' = overlay /\ up' \subseteq up]_vars
      => [pc # "off" /\ (\E q \in up \ {child} : bound[q] \cap opt.fwd # {}) =>
             overlay' = overlay /\ up' \subseteq up]_vars
  OBVIOUS
<1> QED
  BY <1>1, <1>2, PortInvariant, PTL DEF Spec, RivalStopsLaunch

\* Even after crashes that leave a QEMU running, no second one is started in its
\* directory, if there is a port that every launch forwards.  The commands with
\* different ports, or none, have no such protection.
THEOREM OneQemuIfForwarding ==
    ASSUME NEW port \in Port, \A o \in Option : port \in o.fwd
    PROVE  Spec => []OneQemu
<1> DEFINE AllBound == \A q \in up : port \in bound[q]
<1>1. Init => AllBound /\ OneQemu
  BY DEF Init, OneQemu
<1>2. ASSUME TypeInv, ChildInv, PortInv, AllBound, OneQemu, [Next]_vars
      PROVE  AllBound' /\ OneQemu'
  <2>1. port \in opt.fwd /\ bound \in [Qemu -> SUBSET Port] /\ up \subseteq Qemu
    BY <1>2 DEF TypeInv, TypeOK
  <2>2. CASE StartQEMU
    <3>1. up = {}
      BY <1>2, <2>1, <2>2, QemuAssumption
         DEF StartQEMU, PortInv, ChildInv, Childless, TypeInv, TypeOK
    <3>2. UNCHANGED <<up, bound>>
          \/ \E q \in Qemu : up' = {q} /\ bound' = [bound EXCEPT ![q] = opt.fwd]
      BY <2>2, <3>1 DEF StartQEMU
    <3> QED
      BY <1>2, <2>1, <3>2 DEF OneQemu
  <2>3. ASSUME NEW q \in Qemu, Exit(q) PROVE AllBound' /\ OneQemu'
    BY <1>2, <2>1, <2>3 DEF Exit, OneQemu
  <2>4. ASSUME NEW q \in Qemu, Wedge(q) PROVE AllBound' /\ OneQemu'
    BY <1>2, <2>4 DEF Wedge, OneQemu
  <2>5. CASE UNCHANGED <<up, bound>>
    BY <1>2, <2>5 DEF OneQemu
  <2> QED
    BY <1>2, <2>2, <2>3, <2>4, <2>5
       DEF Next, vars, Launch, Launcher, Setup, Boot, Attend, Stop,
           CheckPortsFree, BuildSeed, PrepareDisk, RemoveOverlay,
           CreateOverlay, QemuImgEnds, WriteSeed, Grace, WritePID, DialSerial,
           DialQMP, Negotiate, Supervise, Interactive, WaitTCP, Wait,
           Powerdown, AwaitExit, Terminated, Killed, ChildDone, Step, ClearPID,
           DeferredRemove, Release, Stdin, Signal, Crash, Reap, PumpEnds
<1> QED
  BY <1>1, <1>2, PortInvariant, RunInvariant, PTL DEF Spec

-----------------------------------------------------------------------------
\* What a launch keeps true of the files, but for those that `left` lists: a
\* throwaway disk exists only inside the run it belongs to, a partial one only while
\* qemu-img writes it, and the pid file only from WritePID to ClearPID.
TidyFiles ==
    /\ PidFileIsCurrent
    /\ overlay.ephemeral /\ "disk" \notin left =>
          /\ ~opt.persist
          /\ pc \in {"seed", "start", "grace", "clearpid", "rmoverlay"}
                      \cup Creating \cup Booted
    /\ overlay.stage = "absent" => overlay = Absent
    /\ overlay.stage = "partial" /\ "disk" \notin left => pc \in Creating
    /\ pc \in {"seed", "start", "grace"} \cup Creating \cup Booted => overlay # Absent

LEMMA TidyStep ==
    ASSUME TypeInv, ChildInv, DiskInv, TidyFiles, [Next]_vars
    PROVE  TidyFiles'
<1> USE QemuAssumption
    DEF TypeInv, TypeOK, ChildInv, TidyFiles, PidFileIsCurrent, Overlay, Absent,
        Supervising, Booted, Childless, Creating
<1>1. CASE Launch
  BY <1>1 DEF Launch
<1>2. CASE CheckPortsFree
  BY <1>2 DEF CheckPortsFree
<1>3. CASE BuildSeed
  BY <1>3 DEF BuildSeed
<1>4. CASE PrepareDisk
  BY <1>4 DEF PrepareDisk, RemoveOverlay
<1>5. CASE CreateOverlay
  BY <1>5 DEF CreateOverlay
<1>6. CASE QemuImgEnds
  BY CompletedOverlay, <1>6 DEF QemuImgEnds, DiskInv
<1>7. CASE WriteSeed
  BY <1>7 DEF WriteSeed
<1>8. CASE StartQEMU
  BY <1>8 DEF StartQEMU
<1>9. CASE Grace
  BY <1>9 DEF Grace
<1>10. CASE WritePID
  BY <1>10 DEF WritePID
<1>11. CASE DialSerial \/ DialQMP \/ Negotiate
  BY <1>11 DEF DialSerial, DialQMP, Negotiate
<1>12. CASE Supervise \/ Interactive \/ WaitTCP
  BY <1>12 DEF Supervise, Interactive, WaitTCP
<1>13. CASE Wait
  BY <1>13 DEF Wait, ChildDone, Step
<1>14. CASE Powerdown \/ AwaitExit \/ Terminated \/ Killed
  BY <1>14 DEF Powerdown, AwaitExit, Terminated, Killed,
     ChildDone, Step
<1>15. CASE ClearPID \/ DeferredRemove \/ Release
  BY <1>15 DEF ClearPID, DeferredRemove, RemoveOverlay,
     Release, Step
<1>16. CASE Stdin
  BY <1>16 DEF Stdin
<1>17. CASE Signal \/ Reap \/ PumpEnds
  BY <1>17 DEF Signal, Reap, PumpEnds
<1>18. CASE Crash
  BY <1>18 DEF Crash
<1>19. ASSUME NEW q \in Qemu, Exit(q) \/ Wedge(q) PROVE TidyFiles'
  BY <1>19 DEF Exit, Wedge
<1>20. CASE UNCHANGED vars
  BY <1>20 DEF vars
<1> QED
  BY <1>1, <1>2, <1>3, <1>4, <1>5, <1>6, <1>7, <1>8, <1>9, <1>10, <1>11,
     <1>12, <1>13, <1>14, <1>15, <1>16, <1>17, <1>18, <1>19, <1>20
     DEF Next, Launcher, Setup, Boot, Attend, Stop

LEMMA TidyAlways == Spec => []TidyFiles
<1>1. Init => TidyFiles
  BY DEF Init, TidyFiles, PidFileIsCurrent, Absent, Booted, Supervising, Creating
<1> QED
  BY <1>1, TidyStep, RunInvariant, PTL DEF Spec

\* A pid file that no kill and no failed removal left behind (state.go:75) is that
\* of the QEMU the launcher started and has not seen the end of, or about to go.
THEOREM PidFileIsCurrentAlways == Spec => []PidFileIsCurrent
<1>1. TidyFiles => PidFileIsCurrent
  BY DEF TidyFiles
<1> QED
  BY <1>1, TidyAlways, PTL

\* A --no-persist run whose qemu-img worked leaves no disk on any way out of Run
\* (lifecycle.go:68), but where it is killed or the removal itself fails.
THEOREM EphemeralDiskAlwaysGone == Spec => []EphemeralDiskGone
<1>1. TidyFiles => EphemeralDiskGone
  BY DEF TidyFiles, EphemeralDiskGone, Booted, Supervising, Creating
<1> QED
  BY <1>1, TidyAlways, PTL

\* The launch whose qemu-img failed boots no guest (overlay.go:36), and the only
\* unfinished overlay a later one can boot on is what such a launch, or a killed
\* one, left in the directory.
THEOREM DiskIsAlwaysComplete == Spec => []DiskIsComplete
<1>1. TypeInv /\ TidyFiles => DiskIsComplete
  BY DEF TypeInv, TypeOK, TidyFiles, DiskIsComplete, Overlay, Booted, Supervising,
         Creating
<1> QED
  BY <1>1, TidyAlways, RunInvariant, PTL

-----------------------------------------------------------------------------
\* The steps the launcher may still take before the directory is free again,
\* counted from its place and from the accelerator candidates it has left.
Position(place) ==
    CASE place = "off"                -> 0
      [] place = "release"            -> 1
      [] place = "rmoverlay"          -> 2
      [] place = "clearpid"           -> 3
      [] place = "reap"               -> 4
      [] place = "term"               -> 5
      [] place = "await"              -> 6
      [] place = "powerdown"          -> 7
      [] place = "wait"               -> 8
      [] place \in {"ready", "stdin"} -> 9
      [] place = "console"            -> 10
      [] place = "supervise"          -> 11
      [] place = "negotiate"          -> 12
      [] place = "qmp"                -> 13
      [] place = "serial"             -> 14
      [] place = "pid"                -> 15
      [] place = "grace"              -> 16
      [] place = "start"              -> 17
      [] place = "seed"               -> 18
      [] place \in Creating           -> 19
      [] place = "create"             -> 20
      [] place = "reset"              -> 21
      [] place = "buildseed"          -> 22
      [] place = "ports"              -> 23

StepsLeft == Position(pc) + 2 * (Cands + 1 - cand)

\* Run goes round in no circle: each step of the launcher leaves it fewer, and
\* only a new launch or a key pressed at the console gives it more.
RunAdvances ==
    [][/\ ~Launch /\ ~Stdin => StepsLeft' <= StepsLeft
       /\ Launcher => StepsLeft' < StepsLeft]_vars

\* What the launcher does to its place and to the candidate, step by step.
LEMMA LauncherAdvances == ASSUME TypeInv, Launcher PROVE StepsLeft' < StepsLeft
<1> USE DEF StepsLeft, Position, Creating
<1>0. Cands \in Nat /\ cand \in Nat
  BY CandsAssumption DEF TypeInv, TypeOK
<1>1. CASE Setup
  <2>1. cand' = cand
    BY <1>1 DEF Setup, CheckPortsFree, BuildSeed, PrepareDisk, CreateOverlay,
                QemuImgEnds, WriteSeed
  <2>2. \/ pc = "ports" /\ pc' \in {"buildseed", "release"}
        \/ pc = "buildseed" /\ pc' \in {"reset", "release"}
        \/ pc = "reset" /\ pc' \in {"create", "release"}
        \/ pc = "create" /\ pc' \in {"seed", "release"} \cup Creating
        \/ pc \in Creating /\ pc' \in {"seed", "release"}
        \/ pc = "seed" /\ pc' \in {"start", "rmoverlay"}
    BY <1>1 DEF Setup, CheckPortsFree, BuildSeed, PrepareDisk, CreateOverlay,
                QemuImgEnds, WriteSeed
  <2> QED
    BY <1>0, <2>1, <2>2
<1>2. CASE StartQEMU
  <2>1. \/ pc = "start" /\ pc' \in {"grace", "rmoverlay"} /\ cand' = cand
        \/ pc = "start" /\ pc' = "start" /\ cand' = cand + 1
    BY <1>2 DEF StartQEMU
  <2> QED
    BY <1>0, <2>1
<1>3. CASE Grace
  <2>1. \/ pc = "grace" /\ pc' = "start" /\ cand' = cand + 1
        \/ pc = "grace" /\ pc' = "pid" /\ cand' = cand
    BY <1>3 DEF Grace
  <2> QED
    BY <1>0, <2>1
<1>4. CASE WritePID \/ DialSerial \/ DialQMP \/ Negotiate
  <2>1. cand' = cand
    BY <1>4 DEF WritePID, DialSerial, DialQMP, Negotiate
  <2>2. \/ pc = "pid" /\ pc' = "serial"
        \/ pc = "serial" /\ pc' = "qmp"
        \/ pc = "qmp" /\ pc' \in {"negotiate", "supervise"}
        \/ pc = "negotiate" /\ pc' = "supervise"
    BY <1>4 DEF WritePID, DialSerial, DialQMP, Negotiate
  <2> QED
    BY <1>0, <2>1, <2>2
<1>5. CASE Attend
  <2>1. cand' = cand
    BY <1>5 DEF Attend, Supervise, Interactive, WaitTCP, Wait, ChildDone, Step
  <2>2. \/ pc = "supervise" /\ pc' \in {"wait", "console", "ready"}
        \/ pc = "console" /\ pc' \in {"wait", "stdin"}
        \/ pc = "ready" /\ pc' = "wait"
        \/ pc = "wait" /\ pc' \in {"clearpid", "powerdown"}
    BY <1>5 DEF Attend, Supervise, Interactive, WaitTCP, Wait, ChildDone, Step
  <2> QED
    BY <1>0, <2>1, <2>2
<1>6. CASE Stop
  <2>1. cand' = cand
    BY <1>6 DEF Stop, Powerdown, AwaitExit, Terminated, Killed, ClearPID,
                DeferredRemove, RemoveOverlay, Release, ChildDone, Step
  <2>2. \/ pc = "powerdown" /\ pc' = "await"
        \/ pc = "await" /\ pc' \in {"clearpid", "term"}
        \/ pc = "term" /\ pc' \in {"clearpid", "reap"}
        \/ pc = "reap" /\ pc' = "clearpid"
        \/ pc = "clearpid" /\ pc' = "rmoverlay"
        \/ pc = "rmoverlay" /\ pc' = "release"
        \/ pc = "release" /\ pc' = "off"
    BY <1>6 DEF Stop, Powerdown, AwaitExit, Terminated, Killed, ClearPID,
                DeferredRemove, RemoveOverlay, Release, ChildDone, Step
  <2> QED
    BY <1>0, <2>1, <2>2
<1> QED
  BY <1>1, <1>2, <1>3, <1>4, <1>5, <1>6 DEF Launcher, Boot

\* A launch has at most 23 places and two steps for each candidate before it.
LEMMA FewStepsLeft == TypeInv => StepsLeft \in 0..(23 + 2 * Cands)
<1> SUFFICES ASSUME TypeInv PROVE StepsLeft \in 0..(23 + 2 * Cands)
  OBVIOUS
<1>1. Position(pc) \in 0..23
  BY DEF TypeInv, TypeOK, Position, Childless, Booted, Supervising, Creating
<1>2. cand \in 1..Cands + 1 /\ Cands \in Nat
  BY CandsAssumption DEF TypeInv, TypeOK
<1> QED
  BY <1>1, <1>2 DEF StepsLeft

\* For any number of accelerator candidates and any options: a launch that is
\* left alone at the terminal is over after a bounded number of the launcher's
\* steps, so that what can keep it is only a step it waits for.
THEOREM RunIsBounded ==
    Spec => [](StepsLeft \in 0..(23 + 2 * Cands)) /\ RunAdvances
<1> DEFINE Few == StepsLeft \in 0..(23 + 2 * Cands)
<1>0. Cands \in Nat
  BY CandsAssumption
<1>1. ASSUME TypeInv, Next, ~Launch, ~Stdin, ~Launcher
      PROVE  StepsLeft' <= StepsLeft
  <2>1. cand' = cand /\ (pc' = pc \/ pc' = "off")
    BY <1>1 DEF Next, Signal, Crash, Reap, PumpEnds, Exit, Wedge
  <2>2. Position(pc) \in 0..23
    BY <1>1 DEF TypeInv, TypeOK, Position, Childless, Booted, Supervising, Creating
  <2>3. Position(pc') \in {Position(pc), 0}
    <3>1. CASE pc' = pc
      BY <3>1 DEF Position
    <3>2. CASE pc' = "off"
      BY <3>2 DEF Position, Creating
    <3> QED
      BY <2>1, <3>1, <3>2
  <2>4. cand \in Nat
    BY <1>1, <1>0 DEF TypeInv, TypeOK
  <2>5. /\ StepsLeft = Position(pc) + 2 * (Cands + 1 - cand)
        /\ StepsLeft' = Position(pc') + 2 * (Cands + 1 - cand')
    BY DEF StepsLeft
  <2> QED
    BY <1>0, <2>1, <2>2, <2>3, <2>4, <2>5
<1>2. ASSUME TypeInv, Few, Few', Next
      PROVE  /\ ~Launch /\ ~Stdin => StepsLeft' <= StepsLeft
             /\ Launcher => StepsLeft' < StepsLeft
  <2>1. StepsLeft \in Nat /\ StepsLeft' \in Nat
    BY <1>0, <1>2
  <2> QED
    BY <1>1, <1>2, <2>1, LauncherAdvances
<1>3. TypeInv /\ Few /\ Few' /\ [Next]_vars
        => [/\ ~Launch /\ ~Stdin => StepsLeft' <= StepsLeft
            /\ Launcher => StepsLeft' < StepsLeft]_vars
  BY <1>2
<1>4. TypeInv => Few
  BY FewStepsLeft
<1> QED
  BY RunInvariant, <1>3, <1>4, PTL DEF Spec, RunAdvances
=============================================================================
