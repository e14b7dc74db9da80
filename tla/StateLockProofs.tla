--------------------------- MODULE StateLockProofs ---------------------------
(***************************************************************************)
(* Theorems about StateLock, for any set of launchers.                     *)
(*                                                                         *)
(* Exclusion depends on four things the code does not ensure by itself:    *)
(* that nobody is started while another launcher is inside AcquireLock,    *)
(* that the pid is really written, that it can be read and its process     *)
(* signalled, and that nobody runs `dvm clean --with-state`.  Crashes,     *)
(* stale and empty locks and removals that fail are all allowed.           *)
(***************************************************************************)
EXTENDS StateLock, TLAPS

\* AcquireLock keeps its loop counter, the pids it reads and the lock file
\* within their types, under every setting of the flags.
THEOREM TypeCorrect == Spec => []TypeOK
<1>1. Init => TypeOK
  <2> SUFFICES ASSUME Init PROVE TypeOK
    OBVIOUS
  <2>1. lock \in {NoFile} \cup LockFile
    BY DEF Init, LockFile, Pid
  <2>2. dir \in BOOLEAN
    BY DEF Init
  <2>3. pc \in [Launcher -> {"idle", "held"} \cup Acquiring \cup Final]
    BY DEF Init
  <2> QED
    BY <2>1, <2>2, <2>3 DEF Init, TypeOK, Pid
<1>2. TypeOK /\ [Next]_vars => TypeOK'
  <2> SUFFICES ASSUME TypeOK, [Next]_vars PROVE TypeOK'
    OBVIOUS
  <2> USE DEF TypeOK, Goto, Acquiring, Final, Leaving, Pid, LockFile
  <2>1. ASSUME NEW p \in Launcher, NewState(p) PROVE TypeOK'
    BY <2>1 DEF NewState
  <2>2. ASSUME NEW p \in Launcher, OpenExcl(p) PROVE TypeOK'
    BY <2>2 DEF OpenExcl
  <2>3. ASSUME NEW p \in Launcher, GiveUp(p) PROVE TypeOK'
    BY <2>3 DEF GiveUp
  <2>4. ASSUME NEW p \in Launcher, WritePid(p) PROVE TypeOK'
    BY <2>4 DEF WritePid
  <2>5. ASSUME NEW p \in Launcher, ReadPid(p) PROVE TypeOK'
    BY <2>5 DEF ReadPid
  <2>6. ASSUME NEW p \in Launcher, Probe(p) PROVE TypeOK'
    BY <2>6 DEF Probe
  <2>7. ASSUME NEW p \in Launcher, RemoveStale(p) PROVE TypeOK'
    BY <2>7 DEF RemoveStale
  <2>8. ASSUME NEW p \in Launcher, Release(p) PROVE TypeOK'
    BY <2>8 DEF Release
  <2>9. ASSUME NEW p \in Launcher, Crash(p) PROVE TypeOK'
    BY <2>9 DEF Crash
  <2>10. ASSUME NEW p \in Launcher, Exit(p) PROVE TypeOK'
    BY <2>10 DEF Exit
  <2>11. CASE CleanFiles
    BY <2>11 DEF CleanFiles
  <2>12. CASE CleanDir
    BY <2>12 DEF CleanDir
  <2>13. CASE UNCHANGED vars
    BY <2>13 DEF vars
  <2> QED
    BY <2>1, <2>2, <2>3, <2>4, <2>5, <2>6, <2>7, <2>8, <2>9, <2>10, <2>11,
       <2>12, <2>13 DEF Next, AcquireLock
<1> QED
  BY <1>1, <1>2, PTL DEF Spec

-----------------------------------------------------------------------------
\* The environment under which the lock is exclusive.
Undisturbed == Serial /\ ~WriteMayFail /\ ~ProbeMayFail /\ ~MayClean

\* HolderOwnsFile is not inductive: it says nothing of the launcher that is
\* about to write its pid, or about to remove a lock on what it saw earlier.
OneInside ==
    \A p, q \in Launcher : pc[p] \in Acquiring /\ pc[q] \in Acquiring => p = q
WriterOwnsFile ==
    \A p \in Launcher : pc[p] = "write" => lock = [by |-> p, pid |-> NoPid]
\* Who is past the test for a live owner is alone in that belief.
NobodyHolds ==
    \A p, q \in Launcher : pc[p] \in {"write", "remove"} => pc[q] # "held"
\* While a holder stays, it is the one the prober is about to look up.
ProbeSeesHolder ==
    \A p, q \in Launcher : pc[p] = "probe" /\ pc[q] = "held" => seen[p] = q

ExclusionInv ==
    TypeOK /\ OneInside /\ HolderOwnsFile /\ WriterOwnsFile
           /\ NobodyHolds /\ ProbeSeesHolder

LEMMA RecordFacts ==
    ASSUME NEW p, NEW q, NEW v, NEW w
    PROVE  [by |-> p, pid |-> v] = [by |-> q, pid |-> w] => p = q /\ v = w
<1>1. [by |-> p, pid |-> v].by = p /\ [by |-> p, pid |-> v].pid = v
  OBVIOUS
<1>2. [by |-> q, pid |-> w].by = q /\ [by |-> q, pid |-> w].pid = w
  OBVIOUS
<1> QED
  BY <1>1, <1>2

LEMMA FileIsNotNoFile ==
    ASSUME NEW p \in Launcher, NEW v \in Pid
    PROVE  [by |-> p, pid |-> v] # NoFile
BY LauncherAssumption DEF LockFile

LEMMA ExclusionStep ==
    ASSUME Undisturbed, ExclusionInv, [Next]_vars, TypeOK'
    PROVE  ExclusionInv'
<1> USE DEF Goto, Acquiring, Final, Leaving, Holders, ExclusionInv, OneInside,
            HolderOwnsFile, WriterOwnsFile, NobodyHolds, ProbeSeesHolder
<1>0. /\ pc \in [Launcher -> {"idle", "held"} \cup Acquiring \cup Final]
      /\ attempt \in [Launcher -> 0..2]
      /\ seen \in [Launcher -> Pid]
      /\ \A p \in Launcher : p \in Pid /\ NoPid \in Pid /\ p # NoPid
  BY LauncherAssumption DEF TypeOK, Pid
<1>1. ASSUME NEW p \in Launcher, NewState(p) PROVE ExclusionInv'
  BY <1>0, <1>1 DEF NewState, Undisturbed
<1>2. ASSUME NEW p \in Launcher, OpenExcl(p) PROVE ExclusionInv'
  BY <1>0, <1>2, FileIsNotNoFile DEF OpenExcl
<1>3. ASSUME NEW p \in Launcher, GiveUp(p) PROVE ExclusionInv'
  BY <1>0, <1>3 DEF GiveUp
<1>4. ASSUME NEW p \in Launcher, WritePid(p) PROVE ExclusionInv'
  BY <1>0, <1>4, FileIsNotNoFile DEF WritePid, Undisturbed
<1>5. ASSUME NEW p \in Launcher, ReadPid(p) PROVE ExclusionInv'
  BY <1>0, <1>5, FileIsNotNoFile DEF ReadPid, Undisturbed
<1>6. ASSUME NEW p \in Launcher, Probe(p) PROVE ExclusionInv'
  BY <1>0, <1>6 DEF Probe, Alive, Undisturbed
<1>7. ASSUME NEW p \in Launcher, RemoveStale(p) PROVE ExclusionInv'
  BY <1>0, <1>7 DEF RemoveStale
<1>8. ASSUME NEW p \in Launcher, Release(p) PROVE ExclusionInv'
  BY <1>0, <1>8, RecordFacts DEF Release
<1>9. ASSUME NEW p \in Launcher, Crash(p) PROVE ExclusionInv'
  BY <1>0, <1>9 DEF Crash
<1>10. ASSUME NEW p \in Launcher, Exit(p) PROVE ExclusionInv'
  BY <1>0, <1>10 DEF Exit
<1>11. CASE CleanFiles
  BY <1>11 DEF CleanFiles, Undisturbed
<1>12. CASE CleanDir
  BY <1>12, <1>0 DEF CleanDir
<1>13. CASE UNCHANGED vars
  BY <1>13 DEF vars
<1> QED
  BY <1>1, <1>2, <1>3, <1>4, <1>5, <1>6, <1>7, <1>8, <1>9, <1>10, <1>11,
     <1>12, <1>13 DEF Next, AcquireLock

LEMMA ExclusionInvariant ==
    ASSUME Undisturbed PROVE Spec => []ExclusionInv
<1>1. Init /\ TypeOK => ExclusionInv
  BY DEF Init, ExclusionInv, OneInside, HolderOwnsFile, WriterOwnsFile,
         NobodyHolds, ProbeSeesHolder, Holders, Acquiring
<1>2. ExclusionInv /\ [Next]_vars /\ TypeOK' => ExclusionInv'
  BY ExclusionStep
<1> QED
  BY <1>1, <1>2, TypeCorrect, PTL DEF Spec

\* While a launcher runs under the lock, the file at LockPath is the one it
\* created in AcquireLock, with its pid: no reclaimer, no crash and no release
\* by another launcher replaces it.
THEOREM HolderKeepsFile ==
    ASSUME Undisturbed PROVE Spec => []HolderOwnsFile
BY ExclusionInvariant, PTL DEF ExclusionInv

\* AcquireLock is exclusive in an undisturbed state directory.
THEOREM Exclusion ==
    ASSUME Undisturbed PROVE Spec => []MutualExclusion
<1>1. ExclusionInv => MutualExclusion
  BY RecordFacts DEF ExclusionInv, HolderOwnsFile, MutualExclusion, Holders
<1> QED
  BY <1>1, ExclusionInvariant, PTL

\* Every step of the lock file's protocol is a step of the abstract exclusive
\* lock, or changes nothing of it.
THEOREM Refinement ==
    ASSUME Undisturbed PROVE Spec => ImplementsExclusiveLock
<1> USE DEF Holders
<1>1. Init => Exclusive!Init
  BY DEF Init, Exclusive!Init
<1>2. ASSUME ExclusionInv, [Next]_vars PROVE [Exclusive!Next]_Holders
  <2> USE DEF Goto, Exclusive!Next, Exclusive!Acquire, Exclusive!Leave
  <2>0. pc \in [Launcher -> {"idle", "held"} \cup Acquiring \cup Final]
    BY <1>2 DEF ExclusionInv, TypeOK
  <2>1. ASSUME NEW p \in Launcher, WritePid(p) PROVE Exclusive!Acquire(p)
    <3>1. Holders = {} /\ pc[p] = "write"
      BY <1>2, <2>1 DEF WritePid, ExclusionInv, NobodyHolds
    <3>2. pc' = [pc EXCEPT ![p] = "held"]
      BY <2>1 DEF WritePid
    <3> QED
      BY <2>0, <3>1, <3>2
  <2>2. ASSUME NEW p \in Launcher, NEW s \in Leaving,
               pc[p] = "held", pc' = [pc EXCEPT ![p] = s]
        PROVE  Exclusive!Leave(p)
    BY <2>0, <2>2 DEF Leaving
  <2>4. ASSUME NEW p \in Launcher, pc[p] # "held",
               NEW s, s # "held", pc' = [pc EXCEPT ![p] = s]
        PROVE  Holders' = Holders
    BY <2>0, <2>4
  <2>5. ASSUME NEW p \in Launcher, NewState(p) PROVE Holders' = Holders
    BY <2>4, <2>5 DEF NewState
  <2>6. ASSUME NEW p \in Launcher,
               OpenExcl(p) \/ GiveUp(p) \/ ReadPid(p) \/ Probe(p) \/ RemoveStale(p)
        PROVE  Holders' = Holders
    BY <2>4, <2>6 DEF OpenExcl, GiveUp, ReadPid, Probe, RemoveStale
  <2>7. ASSUME NEW p \in Launcher, Release(p) PROVE Exclusive!Leave(p)
    BY <2>2, <2>7 DEF Release, Leaving
  <2>8. ASSUME NEW p \in Launcher, Crash(p)
        PROVE  Exclusive!Leave(p) \/ Holders' = Holders
    BY <2>2, <2>4, <2>8 DEF Crash, Leaving
  <2>9. ASSUME NEW p \in Launcher, Exit(p) PROVE Holders' = Holders
    BY <2>4, <2>9 DEF Exit, Leaving
  <2>10. CASE CleanFiles \/ CleanDir
    BY <2>10 DEF CleanFiles, CleanDir
  <2>11. CASE UNCHANGED vars
    BY <2>11 DEF vars
  <2> QED
    BY <1>2, <2>1, <2>5, <2>6, <2>7, <2>8, <2>9, <2>10, <2>11 DEF Next, AcquireLock
<1> QED
  BY <1>1, <1>2, ExclusionInvariant, PTL
     DEF Spec, ImplementsExclusiveLock, Exclusive!Spec

-----------------------------------------------------------------------------
\* The file at LockPath belongs to a launcher that is writing its pid, holds the
\* lock or left it behind; the pid of a launcher stands in its own file only, and
\* whoever has read it read that of a launcher that has held the lock.
Owning == {"held", "unreleased", "crashed", "gone"}

OwnersFile ==
    lock # NoFile =>
        /\ lock.by \in Launcher => pc[lock.by] \in {"write"} \cup Owning
        /\ lock.pid \in Launcher => lock.pid = lock.by /\ pc[lock.pid] \in Owning
SeenHasHeld ==
    \A p \in Launcher :
        seen[p] \in Launcher => pc[seen[p]] \in {"released", "exited"} \cup Owning

\* For any number of launchers under any race, crash, failed write, failed removal
\* and cleaning: the pid that is read is the holder's or that of a launcher which
\* left its file behind, and a launcher that is refused is refused for a process
\* that still exists (or for a program with the pid of an old lock).
THEOREM RefusalIsTrue == Spec => RefusalNamesHolder
<1> DEFINE Inv == TypeOK /\ OwnersFile /\ SeenHasHeld
<1> USE DEF Goto
<1>1. Init => OwnersFile /\ SeenHasHeld
  BY LauncherAssumption DEF Init, OwnersFile, SeenHasHeld
<1>2. ASSUME Inv, [Next]_vars, TypeOK' PROVE (OwnersFile /\ SeenHasHeld)'
  <2> USE <1>2 DEF OwnersFile, SeenHasHeld, Owning, Acquiring
  <2>0. /\ pc \in [Launcher -> {"idle", "held"} \cup Acquiring \cup Final]
        /\ seen \in [Launcher -> Pid]
        /\ lock # NoFile => lock \in LockFile
        /\ NoPid \notin Launcher
    BY <1>2, LauncherAssumption DEF TypeOK
  <2>1. ASSUME NEW p \in Launcher, WritePid(p) PROVE (OwnersFile /\ SeenHasHeld)'
    <3>1. lock' = lock \/ (lock # NoFile /\ lock.by = p /\ lock'.by = p /\ lock'.pid = p)
      BY <2>0, <2>1 DEF WritePid, LockFile
    <3>2. pc' = [pc EXCEPT ![p] = "held"] /\ pc[p] = "write" /\ seen' = seen
      BY <2>1 DEF WritePid
    <3> QED
      BY <2>0, <3>1, <3>2
  <2>2. ASSUME NEW p \in Launcher, NewState(p) PROVE (OwnersFile /\ SeenHasHeld)'
    BY <2>0, <2>2 DEF NewState
  <2>3. ASSUME NEW p \in Launcher, OpenExcl(p) PROVE (OwnersFile /\ SeenHasHeld)'
    BY <2>0, <2>3 DEF OpenExcl
  <2>4. ASSUME NEW p \in Launcher, GiveUp(p) PROVE (OwnersFile /\ SeenHasHeld)'
    BY <2>0, <2>4 DEF GiveUp
  <2>5. ASSUME NEW p \in Launcher, ReadPid(p) PROVE (OwnersFile /\ SeenHasHeld)'
    BY <2>0, <2>5 DEF ReadPid
  <2>6. ASSUME NEW p \in Launcher, Probe(p) PROVE (OwnersFile /\ SeenHasHeld)'
    BY <2>0, <2>6 DEF Probe
  <2>7. ASSUME NEW p \in Launcher, RemoveStale(p) PROVE (OwnersFile /\ SeenHasHeld)'
    BY <2>0, <2>7 DEF RemoveStale
  <2>8. ASSUME NEW p \in Launcher, Release(p) PROVE (OwnersFile /\ SeenHasHeld)'
    BY <2>0, <2>8 DEF Release
  <2>9. ASSUME NEW p \in Launcher, Crash(p) PROVE (OwnersFile /\ SeenHasHeld)'
    BY <2>0, <2>9 DEF Crash
  <2>10. ASSUME NEW p \in Launcher, Exit(p) PROVE (OwnersFile /\ SeenHasHeld)'
    BY <2>0, <2>10 DEF Exit, Leaving
  <2>11. CASE CleanFiles \/ CleanDir \/ UNCHANGED vars
    BY <2>11 DEF CleanFiles, CleanDir, vars
  <2> QED
    BY <2>1, <2>2, <2>3, <2>4, <2>5, <2>6, <2>7, <2>8, <2>9, <2>10, <2>11
       DEF Next, AcquireLock
<1> DEFINE Named(p) ==
             /\ pc[p] = "read" /\ pc'[p] = "probe" /\ seen'[p] \in Launcher =>
                   pc[seen'[p]] \in {"held", "unreleased", "crashed", "gone"}
             /\ pc[p] = "probe" /\ pc'[p] = "refused" =>
                   \/ seen[p] = Ghost
                   \/ seen[p] \in Launcher /\ pc[seen[p]] \in {"held"} \cup Leaving
<1>3. ASSUME Inv, [Next]_vars PROVE [\A p \in Launcher : Named(p)]_vars
  <2> SUFFICES ASSUME NEW p \in Launcher PROVE Named(p)
    OBVIOUS
  <2>0. pc \in [Launcher -> {"idle", "held"} \cup Acquiring \cup Final]
        /\ seen \in [Launcher -> Pid] /\ NoPid \notin Launcher
    BY <1>3, LauncherAssumption DEF TypeOK
  <2>1. ASSUME pc[p] = "read", pc'[p] = "probe", seen'[p] \in Launcher
        PROVE  pc[seen'[p]] \in Owning
    <3>1. ReadPid(p)
      BY <1>3, <2>0, <2>1 DEF Next, AcquireLock, NewState, OpenExcl, GiveUp, WritePid,
         ReadPid, Probe, RemoveStale, Release, Crash, Exit, Leaving, CleanFiles,
         CleanDir, vars
    <3>2. lock # NoFile /\ seen'[p] = lock.pid
      BY <2>0, <2>1, <3>1 DEF ReadPid
    <3> QED
      BY <1>3, <2>1, <3>2 DEF OwnersFile
  <2>2. ASSUME pc[p] = "probe", pc'[p] = "refused"
        PROVE  \/ seen[p] = Ghost
               \/ seen[p] \in Launcher /\ pc[seen[p]] \in {"held"} \cup Leaving
    <3>1. Probe(p)
      BY <1>3, <2>0, <2>2 DEF Next, AcquireLock, NewState, OpenExcl, GiveUp, WritePid,
         ReadPid, Probe, RemoveStale, Release, Crash, Exit, Leaving, CleanFiles,
         CleanDir, vars
    <3>2. Alive(seen[p])
      BY <2>0, <2>2, <3>1 DEF Probe
    <3> QED
      BY <1>3, <3>2 DEF Alive, SeenHasHeld, Owning, Leaving
  <2> QED
    BY <2>1, <2>2 DEF Owning
<1> QED
  BY <1>1, <1>2, <1>3, TypeCorrect, PTL DEF Spec, RefusalNamesHolder

-----------------------------------------------------------------------------
\* Why contention leaves a winner.  Either some launcher created a lock (or was
\* killed, or failed by the file system), or the old launcher's lock is still there and nobody has used up a
\* loop pass on anything else, or it is gone and a launcher that may still
\* create the new one is on its way.
Fresh(p) ==
    pc[p] \in {"idle", "open"} /\ attempt[p] = 0
Examining(p) ==
    pc[p] \in {"read", "probe", "remove"} /\ attempt[p] = 1
Created ==
    \E p \in Launcher :
        pc[p] \in {"write", "held", "oserror", "exited", "gone"} \cup Leaving
Misled == \E p \in Launcher : pc[p] = "refused" /\ seen[p] = Ghost
OldLockThere ==
    /\ lock # NoFile
    /\ lock.pid \notin Launcher
    /\ \A p \in Launcher : Fresh(p) \/ Examining(p)
    /\ \A p \in Launcher : seen[p] \notin Launcher
Heir ==
    /\ lock = NoFile
    /\ \E p \in Launcher : Fresh(p) \/ (pc[p] = "open" /\ attempt[p] = 1)
DirStays == \A p \in Launcher : pc[p] \notin {"idle", "oserror"} => dir

ContentionInv ==
    clean = "idle" => DirStays /\ (Created \/ Misled \/ OldLockThere \/ Heir)

LEMMA ContentionStep ==
    ASSUME TypeOK, ContentionInv, [Next]_vars
    PROVE  ContentionInv'
<1> SUFFICES ASSUME clean' = "idle"
             PROVE  DirStays' /\ (Created \/ Misled \/ OldLockThere \/ Heir)'
  BY DEF ContentionInv
<1> USE DEF Goto, DirStays
<1>5. clean = "idle" /\ ~CleanFiles /\ ~CleanDir
  BY DEF Next, AcquireLock, NewState, OpenExcl, GiveUp, WritePid, ReadPid,
     Probe, RemoveStale, Release, Crash, Exit, Leaving, CleanFiles, CleanDir, vars
<1>6. DirStays /\ (Created \/ Misled \/ OldLockThere \/ Heir)
  BY <1>5 DEF ContentionInv
<1>0. /\ pc \in [Launcher -> {"idle", "held"} \cup Acquiring \cup Final]
      /\ attempt \in [Launcher -> 0..2]
      /\ seen \in [Launcher -> Pid]
      /\ NoPid \notin Launcher
      /\ \A p \in Launcher, v \in Pid : [by |-> p, pid |-> v] # NoFile
  BY LauncherAssumption, FileIsNotNoFile DEF TypeOK
<1>1. DirStays'
  <2>2. dir => dir'
    BY <1>5 DEF Next, AcquireLock, NewState, OpenExcl, GiveUp, WritePid,
       ReadPid, Probe, RemoveStale, Release, Crash, Exit, vars
  <2>3. ASSUME NEW p \in Launcher, NewState(p) PROVE DirStays'
    <3>1. CASE dir' = TRUE
      BY <3>1
    <3>2. CASE pc' = [pc EXCEPT ![p] = "oserror"]
      BY <1>0, <1>6, <2>2, <3>2
    <3> QED
      BY <2>3, <3>1, <3>2 DEF NewState
  <2>4. ASSUME NEW p \in Launcher, NEW s, pc[p] \notin {"idle", "oserror"}, Goto(p, s)
        PROVE  DirStays'
    BY <1>6, <1>0, <2>2, <2>4
  <2>5. ASSUME UNCHANGED vars PROVE DirStays'
    BY <1>6, <2>5 DEF vars
  <2> QED
    BY <1>5, <2>2, <2>3, <2>4, <2>5 DEF Next, AcquireLock, OpenExcl, GiveUp,
       WritePid, ReadPid, Probe, RemoveStale, Release, Crash, Exit, Acquiring, Leaving
<1>2. CASE Created
  <2> DEFINE Past == {"write", "held", "oserror", "exited", "gone"} \cup Leaving
  <2>1. PICK p \in Launcher : pc[p] \in Past
    BY <1>2 DEF Created
  <2>2. pc'[p] \in Past
    BY <1>0, <2>1 DEF Next, AcquireLock, NewState, OpenExcl, GiveUp, WritePid, ReadPid,
       Probe, RemoveStale, Release, Crash, Exit, CleanFiles, CleanDir, vars,
       Final, Leaving, Acquiring
  <2> QED
    BY <1>1, <2>2 DEF Created
<1>3. CASE OldLockThere
  <2> USE <1>3 DEF OldLockThere, Fresh, Examining
  <2>1. ASSUME NEW p \in Launcher, NewState(p) PROVE OldLockThere' \/ Created'
    BY <1>0, <2>1 DEF NewState, Created
  <2>2. ASSUME NEW p \in Launcher, OpenExcl(p) PROVE OldLockThere' \/ Created'
    BY <1>0, <1>6, <2>2 DEF OpenExcl, Created
  <2>3. ASSUME NEW p \in Launcher, ReadPid(p) PROVE OldLockThere'
    BY <1>0, <2>3 DEF ReadPid
  <2>4. ASSUME NEW p \in Launcher, Probe(p) PROVE OldLockThere' \/ Misled'
    BY <1>0, <2>4 DEF Probe, Alive, Misled
  <2>5. ASSUME NEW p \in Launcher, RemoveStale(p) PROVE Heir' \/ Created'
    BY <1>0, <2>5 DEF RemoveStale, Heir, Created
  <2>6. ASSUME NEW p \in Launcher, Crash(p) PROVE Created'
    BY <1>0, <2>6 DEF Crash, Created, Leaving
  <2>7. ASSUME NEW p \in Launcher
        PROVE  ~GiveUp(p) /\ ~WritePid(p) /\ ~Release(p) /\ ~Exit(p)
    BY DEF GiveUp, WritePid, Release, Exit, Leaving
  <2>8. CASE UNCHANGED vars
    BY <1>1, <2>8 DEF vars
  <2> QED
    BY <1>5, <1>1, <2>1, <2>2, <2>3, <2>4, <2>5, <2>6, <2>7, <2>8
       DEF Next, AcquireLock
<1>7. CASE Misled
  <2>1. PICK p \in Launcher : pc[p] = "refused" /\ seen[p] = Ghost
    BY <1>7 DEF Misled
  <2>2. pc'[p] = "refused" /\ seen'[p] = Ghost
    BY <1>0, <2>1 DEF Next, AcquireLock, NewState, OpenExcl, GiveUp, WritePid,
       ReadPid, Probe, RemoveStale, Release, Crash, Exit, CleanFiles, CleanDir, vars,
       Final, Leaving, Acquiring
  <2> QED
    BY <1>1, <2>2 DEF Misled
<1>4. CASE Heir /\ ~Created
  <2> USE DEF Heir, Fresh
  <2>1. PICK p \in Launcher : Fresh(p) \/ (pc[p] = "open" /\ attempt[p] = 1)
    BY <1>4
  <2>2. ASSUME NEW q \in Launcher, OpenExcl(q) PROVE Created'
    BY <1>0, <1>4, <1>6, <2>2 DEF OpenExcl, Created
  <2>3. ASSUME NEW q \in Launcher, NewState(q) PROVE Heir' \/ Created'
    BY <1>0, <1>4, <2>1, <2>3 DEF NewState, Created
  <2>4. ASSUME NEW q \in Launcher, ReadPid(q) \/ Probe(q) \/ RemoveStale(q)
        PROVE  Heir' \/ Created'
    BY <1>0, <1>4, <2>1, <2>4 DEF ReadPid, Probe, RemoveStale, Created
  <2>5. ASSUME NEW q \in Launcher, GiveUp(q) PROVE Heir'
    BY <1>0, <1>4, <2>1, <2>5 DEF GiveUp
  <2>6. ASSUME NEW q \in Launcher, Crash(q) PROVE Created'
    BY <1>0, <2>6 DEF Crash, Created, Leaving
  <2>7. ASSUME NEW q \in Launcher PROVE ~WritePid(q) /\ ~Release(q) /\ ~Exit(q)
    BY <1>4 DEF WritePid, Release, Exit, Created
  <2>8. CASE UNCHANGED vars
    BY <1>1, <1>4, <2>8 DEF vars
  <2> QED
    BY <1>5, <1>1, <2>2, <2>3, <2>4, <2>5, <2>6, <2>7, <2>8
       DEF Next, AcquireLock
<1> QED
  BY <1>6, <1>2, <1>3, <1>7, <1>4

\* However many launchers contend for a directory, and whatever lock an earlier
\* one left there, AcquireLock does not turn all of them away.
THEOREM ContentionHasWinner == Spec => []SomeoneWins
<1>1. Init => ContentionInv
  <2> SUFFICES ASSUME Init PROVE ContentionInv
    OBVIOUS
  <2>1. lock = NoFile \/ lock.pid \notin Launcher
    BY LauncherAssumption DEF Init
  <2> QED
    BY <2>1, LauncherAssumption
       DEF Init, ContentionInv, DirStays, OldLockThere, Heir, Fresh, Examining
<1>2. TypeOK /\ ContentionInv /\ [Next]_vars => ContentionInv'
  BY ContentionStep
<1>3. ContentionInv => SomeoneWins
  BY LauncherAssumption DEF ContentionInv, Created, Leaving, Misled, OldLockThere,
     Heir, Fresh, Examining, SomeoneWins
<1> QED
  BY <1>1, <1>2, <1>3, TypeCorrect, PTL DEF Spec

-----------------------------------------------------------------------------
AtMostTen == \A p \in Launcher : StepsLeft(p) \in 0..10

\* Who has come past O_EXCL has used an attempt.
AttemptCounts ==
    \A p \in Launcher :
        pc[p] \in {"write", "read", "probe", "remove"} => attempt[p] \in 1..2

LEMMA AttemptCounted == Spec => []AttemptCounts
<1>1. Init => AttemptCounts
  BY DEF Init, AttemptCounts
<1>2. TypeOK /\ AttemptCounts /\ [Next]_vars => AttemptCounts'
  <2> SUFFICES ASSUME TypeOK, AttemptCounts, [Next]_vars PROVE AttemptCounts'
    OBVIOUS
  <2> USE DEF AttemptCounts, Goto, Acquiring, Final, Leaving
  <2>0. /\ attempt \in [Launcher -> 0..2]
        /\ pc \in [Launcher -> {"idle", "held"} \cup Acquiring \cup Final]
    BY DEF TypeOK
  <2>1. ASSUME NEW p \in Launcher, OpenExcl(p) PROVE AttemptCounts'
    BY <2>0, <2>1 DEF OpenExcl
  <2>2. ASSUME NEW p \in Launcher,
               GiveUp(p) \/ WritePid(p) \/ ReadPid(p) \/ Probe(p) \/ RemoveStale(p)
        PROVE  AttemptCounts'
    BY <2>0, <2>2 DEF GiveUp, WritePid, ReadPid, Probe, RemoveStale
  <2>3. ASSUME NEW p \in Launcher, NewState(p) \/ Release(p) \/ Crash(p) \/ Exit(p)
        PROVE  AttemptCounts'
    BY <2>0, <2>3 DEF NewState, Release, Crash, Exit
  <2>4. CASE CleanFiles \/ CleanDir \/ UNCHANGED vars
    BY <2>4 DEF CleanFiles, CleanDir, vars
  <2> QED
    BY <2>1, <2>2, <2>3, <2>4 DEF Next, AcquireLock
<1> QED
  BY TypeCorrect, <1>1, <1>2, PTL DEF Spec

\* For any number of launchers, whatever they, the kernel and `dvm clean` do to
\* the file, the loop of AcquireLock ends: each step of it uses one up of ten.
THEOREM LockingIsWaitFree == Spec => WaitFree
<1>1. ASSUME TypeOK, Next, NEW p \in Launcher
      PROVE  /\ StepsLeft(p)' <= StepsLeft(p)
             /\ AcquireLock(p) => StepsLeft(p)' < StepsLeft(p)
  <2> USE DEF StepsLeft, Position, Goto, Acquiring, Final, Leaving
  <2>0. /\ attempt \in [Launcher -> 0..2]
        /\ pc \in [Launcher -> {"idle", "held"} \cup Acquiring \cup Final]
    BY <1>1 DEF TypeOK
  <2>1. CASE OpenExcl(p)
    <3>1. pc[p] = "open" /\ attempt'[p] = attempt[p] + 1
      BY <2>0, <2>1 DEF OpenExcl
    <3>2. pc'[p] \in {"failed", "oserror", "write", "read"}
      BY <2>0, <2>1 DEF OpenExcl
    <3> QED
      BY <2>0, <3>1, <3>2
  <2>2. CASE GiveUp(p) \/ WritePid(p) \/ ReadPid(p) \/ Probe(p) \/ RemoveStale(p)
    <3>1. attempt'[p] = attempt[p]
      BY <2>2 DEF GiveUp, WritePid, ReadPid, Probe, RemoveStale
    <3>2. \/ pc[p] = "open" /\ pc'[p] = "failed"
          \/ pc[p] = "write" /\ pc'[p] = "held"
          \/ pc[p] = "read" /\ pc'[p] = "probe"
          \/ pc[p] = "probe" /\ pc'[p] \in {"refused", "remove"}
          \/ pc[p] = "remove" /\ pc'[p] \in {"failed", "oserror", "open"}
      BY <2>0, <2>2 DEF GiveUp, WritePid, ReadPid, Probe, RemoveStale
    <3> QED
      BY <2>0, <3>1, <3>2
  <2>3. CASE NewState(p) \/ Release(p) \/ Crash(p) \/ Exit(p)
    <3>1. attempt'[p] = attempt[p]
      BY <2>3 DEF NewState, Release, Crash, Exit
    <3>2. \/ pc[p] = "idle" /\ pc'[p] \in {"open", "oserror"}
          \/ pc[p] \in Acquiring \cup {"held"} \cup Leaving /\ pc'[p] \in Final
      BY <2>0, <2>3 DEF NewState, Release, Crash, Exit
    <3>3. StepsLeft(p)' <= StepsLeft(p)
      BY <2>0, <3>1, <3>2
    <3>4. AcquireLock(p) => \/ OpenExcl(p)
                            \/ GiveUp(p) \/ WritePid(p) \/ ReadPid(p) \/ Probe(p)
                            \/ RemoveStale(p)
      BY DEF AcquireLock
    <3> QED
      BY <2>1, <2>2, <3>3, <3>4
  <2>4. CASE ~(NewState(p) \/ AcquireLock(p) \/ Release(p) \/ Crash(p) \/ Exit(p))
    <3>1. ASSUME NEW q \in Launcher, q # p,
                 NewState(q) \/ AcquireLock(q) \/ Release(q) \/ Crash(q) \/ Exit(q)
          PROVE  pc'[p] = pc[p] /\ attempt'[p] = attempt[p]
      BY <2>0, <3>1 DEF NewState, AcquireLock, OpenExcl, GiveUp, WritePid, ReadPid,
                        Probe, RemoveStale, Release, Crash, Exit
    <3>2. ASSUME CleanFiles \/ CleanDir
          PROVE  pc'[p] = pc[p] /\ attempt'[p] = attempt[p]
      BY <3>2 DEF CleanFiles, CleanDir
    <3>3. pc'[p] = pc[p] /\ attempt'[p] = attempt[p]
      BY <1>1, <2>4, <3>1, <3>2 DEF Next
    <3> QED
      BY <2>0, <2>4, <3>3
  <2> QED
    BY <2>1, <2>2, <2>3, <2>4 DEF AcquireLock
<1>2. TypeOK /\ AttemptCounts => AtMostTen
  <2> SUFFICES ASSUME TypeOK, AttemptCounts, NEW p \in Launcher
               PROVE  StepsLeft(p) \in 0..10
    BY DEF AtMostTen
  <2>1. attempt[p] \in 0..2 /\ pc[p] \in {"idle", "held"} \cup Acquiring \cup Final
    BY DEF TypeOK
  <2>2. CASE pc[p] \in {"write", "read", "probe", "remove"}
    BY <2>2 DEF AttemptCounts, StepsLeft, Position, Final
  <2>3. CASE pc[p] \in {"idle", "open", "held"} \cup Final
    BY <2>1, <2>3 DEF StepsLeft, Position, Final, Leaving
  <2> QED
    BY <2>1, <2>2, <2>3 DEF Acquiring
<1>3. ASSUME TypeOK, AtMostTen, AtMostTen', [Next]_vars
      PROVE  [\A p \in Launcher :
                 /\ StepsLeft(p)' \in 0..StepsLeft(p)
                 /\ AcquireLock(p) => StepsLeft(p)' < StepsLeft(p)]_vars
  <2>1. \A p \in Launcher : StepsLeft(p) \in 0..10 /\ StepsLeft(p)' \in 0..10
    BY <1>3 DEF AtMostTen
  <2> QED
    BY <1>1, <1>3, <2>1
<1> QED
  BY TypeCorrect, AttemptCounted, <1>2, <1>3, PTL DEF Spec, WaitFree
=============================================================================
