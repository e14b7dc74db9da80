--------------------------- MODULE QemuFetchProofs ---------------------------
(***************************************************************************)
(* Theorems about QemuFetch, for any number of processes and any archive.  *)
(*                                                                         *)
(* Base holds whether or not calls overlap: who has a temporary archive    *)
(* and an open file, and that the unpacking has verified its archive.      *)
(* Solo says what each place in the code knows of the shared directories   *)
(* as long as no two calls overlapped: the files before the current one    *)
(* are whole, and so is what is renamed and marked, as far as no closing   *)
(* of a file failed.                                                       *)
(***************************************************************************)
EXTENDS QemuFetch, TLAPS

\* Places before the temporary archive is made, and behind its verification.
NoArchiveYet == Ended \cup {"stat", "create"}
Unpacking == {"clear", "open", "copy", "unstage", "replace", "rename", "mark"}

OnlyWritersHoldFiles ==
    \A p \in Fetcher :
        /\ handle[p] # "none" => pc[p] = "copy"
        /\ pc[p] = "copy" => next[p] \in File

OpenFilesExist ==
    \A p \in Fetcher :
        /\ handle[p] = "stage" => stage[next[p]] # "none"
        /\ handle[p] = "dest" => dest[next[p]] # "none"

ArchiveIsOwned == \A p \in Fetcher : pc[p] \in NoArchiveYet => tgz[p] = "none"

ArchiveIsVerified == \A p \in Fetcher : pc[p] \in Unpacking => tgz[p] = "good"

Base ==
    /\ TypeOK
    /\ OnlyWritersHoldFiles
    /\ OpenFilesExist
    /\ ArchiveIsOwned
    /\ ArchiveIsVerified
    /\ OnlyVerifiedFiles

AtMostOne ==
    \A p, q \in Fetcher : pc[p] \in Going /\ pc[q] \in Going => p = q

\* What one process knows at its place.
Knows(p) ==
    /\ pc[p] \in Going \ {"stat", "undo"} => ~mark
    /\ pc[p] = "copy" => handle[p] = "stage"
    /\ pc[p] \in {"open", "copy"} /\ ~lost =>
          \A f \in File : f < next[p] => stage[f] = "whole"
    /\ pc[p] \in {"replace", "rename"} /\ ~lost => Complete(stage)
    /\ pc[p] = "mark" /\ ~lost => Complete(dest)

Solo ==
    ~overlap => /\ AtMostOne
                /\ \A p \in Fetcher : Knows(p)
                /\ mark /\ ~lost => Complete(dest)

IInv == Base /\ Solo

-----------------------------------------------------------------------------
LEMMA InitInv == Init => IInv
<1> SUFFICES ASSUME Init PROVE IInv
  OBVIOUS
<1> USE DEF Init, File, Content, NoFiles, Ended, Going
<1>1. TypeOK
  <2>1. next \in [Fetcher -> 1..(N + 1)]
    BY NAssumption
  <2>2. /\ stageDir \in BOOLEAN /\ destDir \in BOOLEAN /\ mark \in BOOLEAN
        /\ lost \in BOOLEAN
    OBVIOUS
  <2> QED
    BY <2>1, <2>2 DEF TypeOK
<1>2. OnlyWritersHoldFiles /\ OpenFilesExist /\ ArchiveIsOwned
  BY DEF OnlyWritersHoldFiles, OpenFilesExist, ArchiveIsOwned
<1>3. ArchiveIsVerified /\ OnlyVerifiedFiles
  BY DEF ArchiveIsVerified, OnlyVerifiedFiles, Unpacking
<1>4. Solo
  BY DEF Solo, AtMostOne, Knows
<1> QED
  BY <1>1, <1>2, <1>3, <1>4 DEF IInv, Base

\* Types, and what is in a directory.
LEMMA TypeStep == Base /\ [Next]_vars => TypeOK'
<1> SUFFICES ASSUME Base, [Next]_vars PROVE TypeOK'
  OBVIOUS
<1> USE NAssumption
    DEF Base, TypeOK, OnlyWritersHoldFiles, OpenFilesExist, Ended, Going, File,
        Content, NoFiles, Goto, temps, trees
<1>1. ASSUME NEW p \in Fetcher, Begin(p) PROVE TypeOK'
  BY <1>1 DEF Begin
<1>2. ASSUME NEW p \in Fetcher, Stat(p) PROVE TypeOK'
  BY <1>2 DEF Stat
<1>3. ASSUME NEW p \in Fetcher, CreateArchive(p) PROVE TypeOK'
  BY <1>3 DEF CreateArchive
<1>4. ASSUME NEW p \in Fetcher, Receive(p) PROVE TypeOK'
  <2>1. pc' \in [Fetcher -> Ended \cup Going]
    <3>1. \E there \in Ended \cup Going : Goto(p, there)
      BY <1>4, Zenon DEF Receive
    <3> QED
      BY <3>1
  <2>2. tgz' \in [Fetcher -> {"none", "part", "good", "bad"}]
    BY <1>4 DEF Receive
  <2> QED
    BY <1>4, <2>1, <2>2 DEF Receive
<1>5. ASSUME NEW p \in Fetcher, Sums(p) PROVE TypeOK'
  BY <1>5 DEF Sums
<1>6. ASSUME NEW p \in Fetcher, Verify(p) PROVE TypeOK'
  BY <1>6 DEF Verify
<1>7. ASSUME NEW p \in Fetcher, RemoveStaged(p) PROVE TypeOK'
  BY <1>7 DEF RemoveStaged, Moved
<1>8. ASSUME NEW p \in Fetcher, StageRemoved(p) PROVE TypeOK'
  BY <1>8 DEF StageRemoved, Removes
<1>9. ASSUME NEW p \in Fetcher, OpenFile(p) PROVE TypeOK'
  <2>1. pc' \in [Fetcher -> Ended \cup Going]
    BY <1>9 DEF OpenFile
  <2>2. handle' \in [Fetcher -> {"none", "stage", "dest", "gone"}]
    BY <1>9 DEF OpenFile
  <2>3. stage' \in [File -> Content]
    BY <1>9 DEF OpenFile
  <2>4. stageDir'
    BY <1>9 DEF OpenFile
  <2> QED
    BY <1>9, <2>1, <2>2, <2>3, <2>4 DEF OpenFile
<1>10. ASSUME NEW p \in Fetcher, OpenError(p) PROVE TypeOK'
  BY <1>10 DEF OpenError
<1>11. ASSUME NEW p \in Fetcher, CopyFile(p) PROVE TypeOK'
  <2>1. pc' \in [Fetcher -> Ended \cup Going]
    BY <1>11 DEF CopyFile
  <2>2. handle' \in [Fetcher -> {"none", "stage", "dest", "gone"}]
    BY <1>11 DEF CopyFile
  <2>3. next' \in [Fetcher -> 1..(N + 1)]
    BY <1>11 DEF CopyFile
  <2>4. stage' \in [File -> Content] /\ dest' \in [File -> Content]
    BY <1>11 DEF CopyFile
  <2>5. stageDir \/ handle[p] # "stage"
    BY <1>11 DEF CopyFile
  <2>6. destDir \/ handle[p] # "dest"
    BY <1>11 DEF CopyFile
  <2>7. stageDir' \/ stage' = NoFiles
    BY <1>11, <2>5 DEF CopyFile
  <2>8. destDir' \/ (dest' = NoFiles /\ ~mark')
    BY <1>11, <2>6 DEF CopyFile
  <2> QED
    BY <1>11, <2>1, <2>2, <2>3, <2>4, <2>5, <2>6, <2>7, <2>8 DEF CopyFile
<1>12. ASSUME NEW p \in Fetcher, CopyError(p) PROVE TypeOK'
  BY <1>12 DEF CopyError
<1>13. ASSUME NEW p \in Fetcher, Extracted(p) PROVE TypeOK'
  BY <1>13 DEF Extracted
<1>14. ASSUME NEW p \in Fetcher, RemoveInstalled(p) PROVE TypeOK'
  <2>1. handle' \in [Fetcher -> {"none", "stage", "dest", "gone"}]
    BY <1>14 DEF RemoveInstalled, Moved
  <2>2. dest' \in [File -> Content]
    BY <1>14 DEF RemoveInstalled, Moved
  <2>3. destDir
    BY <1>14 DEF RemoveInstalled, Moved
  <2> QED
    BY <1>14, <2>1, <2>2, <2>3 DEF RemoveInstalled
<1>15. ASSUME NEW p \in Fetcher, RemoveMarker(p) PROVE TypeOK'
  BY <1>15 DEF RemoveMarker
<1>16. ASSUME NEW p \in Fetcher, InstalledRemoved(p) PROVE TypeOK'
  BY <1>16 DEF InstalledRemoved
<1>17. ASSUME NEW p \in Fetcher, Rename(p) PROVE TypeOK'
  <2>1. pc' \in [Fetcher -> Ended \cup Going]
    BY <1>17 DEF Rename, Moved
  <2>2. handle' \in [Fetcher -> {"none", "stage", "dest", "gone"}]
    BY <1>17 DEF Rename, Moved
  <2>3. stage' \in [File -> Content] /\ dest' \in [File -> Content]
    BY <1>17 DEF Rename, Moved
  <2>4. destDir' /\ ~stageDir' /\ stage' = NoFiles
    BY <1>17 DEF Rename, Moved
  <2> QED
    BY <1>17, <2>1, <2>2, <2>3, <2>4 DEF Rename
<1>18. ASSUME NEW p \in Fetcher, WriteMarker(p) PROVE TypeOK'
  <2>1. pc' \in [Fetcher -> Ended \cup Going]
    <3>1. \E there \in Ended \cup Going : Goto(p, there)
      BY <1>18, Zenon DEF WriteMarker
    <3> QED
      BY <3>1
  <2>2. tgz' \in [Fetcher -> {"none", "part", "good", "bad"}]
    BY <1>18 DEF WriteMarker
  <2>3. mark' /\ destDir
    BY <1>18 DEF WriteMarker
  <2> QED
    BY <1>18, <2>1, <2>2, <2>3 DEF WriteMarker
<1>19. ASSUME NEW p \in Fetcher, InstallError(p) PROVE TypeOK'
  BY <1>19 DEF InstallError
<1>20. ASSUME NEW p \in Fetcher, Undo(p) PROVE TypeOK'
  BY <1>20 DEF Undo
<1>21. ASSUME NEW p \in Fetcher, Crash(p) PROVE TypeOK'
  BY <1>21 DEF Crash
<1>22. CASE UNCHANGED vars
  BY <1>22 DEF vars
<1> QED
  BY <1>1, <1>2, <1>3, <1>4, <1>5, <1>6, <1>7, <1>8, <1>9, <1>10,
     <1>11, <1>12, <1>13, <1>14, <1>15, <1>16, <1>17, <1>18, <1>19, <1>20,
     <1>21, <1>22
  DEF Next, Fetch, Unpack, Install

\* The archive and the open file belong to a place in the code.
LEMMA OwnStep == Base /\ [Next]_vars => (OnlyWritersHoldFiles /\ ArchiveIsOwned /\ ArchiveIsVerified)'
<1> SUFFICES ASSUME Base, [Next]_vars PROVE (OnlyWritersHoldFiles /\ ArchiveIsOwned /\ ArchiveIsVerified)'
  OBVIOUS
<1> USE DEF Base, TypeOK, OnlyWritersHoldFiles, ArchiveIsOwned, ArchiveIsVerified,
        NoArchiveYet, Unpacking, Ended, Going, Goto, temps, trees
<1>1. ASSUME NEW p \in Fetcher, Begin(p) PROVE (OnlyWritersHoldFiles /\ ArchiveIsOwned /\ ArchiveIsVerified)'
  BY <1>1 DEF Begin
<1>2. ASSUME NEW p \in Fetcher, Stat(p) PROVE (OnlyWritersHoldFiles /\ ArchiveIsOwned /\ ArchiveIsVerified)'
  BY <1>2 DEF Stat
<1>3. ASSUME NEW p \in Fetcher, CreateArchive(p) PROVE (OnlyWritersHoldFiles /\ ArchiveIsOwned /\ ArchiveIsVerified)'
  BY <1>3 DEF CreateArchive
<1>4. ASSUME NEW p \in Fetcher, Receive(p) PROVE (OnlyWritersHoldFiles /\ ArchiveIsOwned /\ ArchiveIsVerified)'
  BY <1>4 DEF Receive
<1>5. ASSUME NEW p \in Fetcher, Sums(p) PROVE (OnlyWritersHoldFiles /\ ArchiveIsOwned /\ ArchiveIsVerified)'
  BY <1>5 DEF Sums
<1>6. ASSUME NEW p \in Fetcher, Verify(p) PROVE (OnlyWritersHoldFiles /\ ArchiveIsOwned /\ ArchiveIsVerified)'
  BY <1>6 DEF Verify
<1>7. ASSUME NEW p \in Fetcher, RemoveStaged(p) PROVE (OnlyWritersHoldFiles /\ ArchiveIsOwned /\ ArchiveIsVerified)'
  BY <1>7 DEF RemoveStaged, Moved
<1>8. ASSUME NEW p \in Fetcher, StageRemoved(p) PROVE (OnlyWritersHoldFiles /\ ArchiveIsOwned /\ ArchiveIsVerified)'
  BY <1>8 DEF StageRemoved, Removes
<1>9. ASSUME NEW p \in Fetcher, OpenFile(p) PROVE (OnlyWritersHoldFiles /\ ArchiveIsOwned /\ ArchiveIsVerified)'
  BY <1>9 DEF OpenFile
<1>10. ASSUME NEW p \in Fetcher, OpenError(p) PROVE (OnlyWritersHoldFiles /\ ArchiveIsOwned /\ ArchiveIsVerified)'
  BY <1>10 DEF OpenError
<1>11. ASSUME NEW p \in Fetcher, CopyFile(p) PROVE (OnlyWritersHoldFiles /\ ArchiveIsOwned /\ ArchiveIsVerified)'
  BY <1>11 DEF CopyFile, Written
<1>12. ASSUME NEW p \in Fetcher, CopyError(p) PROVE (OnlyWritersHoldFiles /\ ArchiveIsOwned /\ ArchiveIsVerified)'
  BY <1>12 DEF CopyError
<1>13. ASSUME NEW p \in Fetcher, Extracted(p) PROVE (OnlyWritersHoldFiles /\ ArchiveIsOwned /\ ArchiveIsVerified)'
  BY <1>13 DEF Extracted
<1>14. ASSUME NEW p \in Fetcher, RemoveInstalled(p) PROVE (OnlyWritersHoldFiles /\ ArchiveIsOwned /\ ArchiveIsVerified)'
  BY <1>14 DEF RemoveInstalled, Moved
<1>15. ASSUME NEW p \in Fetcher, RemoveMarker(p) PROVE (OnlyWritersHoldFiles /\ ArchiveIsOwned /\ ArchiveIsVerified)'
  BY <1>15 DEF RemoveMarker
<1>16. ASSUME NEW p \in Fetcher, InstalledRemoved(p) PROVE (OnlyWritersHoldFiles /\ ArchiveIsOwned /\ ArchiveIsVerified)'
  BY <1>16 DEF InstalledRemoved
<1>17. ASSUME NEW p \in Fetcher, Rename(p) PROVE (OnlyWritersHoldFiles /\ ArchiveIsOwned /\ ArchiveIsVerified)'
  BY <1>17 DEF Rename, Moved
<1>18. ASSUME NEW p \in Fetcher, WriteMarker(p) PROVE (OnlyWritersHoldFiles /\ ArchiveIsOwned /\ ArchiveIsVerified)'
  BY <1>18 DEF WriteMarker
<1>19. ASSUME NEW p \in Fetcher, InstallError(p) PROVE (OnlyWritersHoldFiles /\ ArchiveIsOwned /\ ArchiveIsVerified)'
  BY <1>19 DEF InstallError
<1>20. ASSUME NEW p \in Fetcher, Undo(p) PROVE (OnlyWritersHoldFiles /\ ArchiveIsOwned /\ ArchiveIsVerified)'
  BY <1>20 DEF Undo
<1>21. ASSUME NEW p \in Fetcher, Crash(p) PROVE (OnlyWritersHoldFiles /\ ArchiveIsOwned /\ ArchiveIsVerified)'
  BY <1>21 DEF Crash
<1>22. CASE UNCHANGED vars
  BY <1>22 DEF vars
<1> QED
  BY <1>1, <1>2, <1>3, <1>4, <1>5, <1>6, <1>7, <1>8, <1>9, <1>10,
     <1>11, <1>12, <1>13, <1>14, <1>15, <1>16, <1>17, <1>18, <1>19, <1>20,
     <1>21, <1>22
  DEF Next, Fetch, Unpack, Install

\* A file that is written is there, wherever it was moved.
LEMMA OpenStep == Base /\ [Next]_vars => OpenFilesExist'
<1> SUFFICES ASSUME Base, [Next]_vars PROVE OpenFilesExist'
  OBVIOUS
<1> USE DEF Base, TypeOK, OnlyWritersHoldFiles, OpenFilesExist, File, Content,
        NoFiles, temps, trees
<1>1. ASSUME NEW p \in Fetcher, Begin(p) PROVE OpenFilesExist'
  BY <1>1 DEF Begin
<1>2. ASSUME NEW p \in Fetcher, Stat(p) PROVE OpenFilesExist'
  BY <1>2 DEF Stat
<1>3. ASSUME NEW p \in Fetcher, CreateArchive(p) PROVE OpenFilesExist'
  BY <1>3 DEF CreateArchive
<1>4. ASSUME NEW p \in Fetcher, Receive(p) PROVE OpenFilesExist'
  BY <1>4 DEF Receive
<1>5. ASSUME NEW p \in Fetcher, Sums(p) PROVE OpenFilesExist'
  BY <1>5 DEF Sums
<1>6. ASSUME NEW p \in Fetcher, Verify(p) PROVE OpenFilesExist'
  BY <1>6 DEF Verify
<1>7. ASSUME NEW p \in Fetcher, RemoveStaged(p) PROVE OpenFilesExist'
  BY <1>7 DEF RemoveStaged, Moved
<1>8. ASSUME NEW p \in Fetcher, StageRemoved(p) PROVE OpenFilesExist'
  BY <1>8 DEF StageRemoved, Removes
<1>9. ASSUME NEW p \in Fetcher, OpenFile(p) PROVE OpenFilesExist'
  BY <1>9 DEF OpenFile
<1>10. ASSUME NEW p \in Fetcher, OpenError(p) PROVE OpenFilesExist'
  BY <1>10 DEF OpenError
<1>11. ASSUME NEW p \in Fetcher, CopyFile(p) PROVE OpenFilesExist'
  BY <1>11 DEF CopyFile, Written
<1>12. ASSUME NEW p \in Fetcher, CopyError(p) PROVE OpenFilesExist'
  BY <1>12 DEF CopyError
<1>13. ASSUME NEW p \in Fetcher, Extracted(p) PROVE OpenFilesExist'
  BY <1>13 DEF Extracted
<1>14. ASSUME NEW p \in Fetcher, RemoveInstalled(p) PROVE OpenFilesExist'
  BY <1>14 DEF RemoveInstalled, Moved
<1>15. ASSUME NEW p \in Fetcher, RemoveMarker(p) PROVE OpenFilesExist'
  BY <1>15 DEF RemoveMarker
<1>16. ASSUME NEW p \in Fetcher, InstalledRemoved(p) PROVE OpenFilesExist'
  BY <1>16 DEF InstalledRemoved
<1>17. ASSUME NEW p \in Fetcher, Rename(p) PROVE OpenFilesExist'
  BY <1>17 DEF Rename, Moved
<1>18. ASSUME NEW p \in Fetcher, WriteMarker(p) PROVE OpenFilesExist'
  BY <1>18 DEF WriteMarker
<1>19. ASSUME NEW p \in Fetcher, InstallError(p) PROVE OpenFilesExist'
  BY <1>19 DEF InstallError
<1>20. ASSUME NEW p \in Fetcher, Undo(p) PROVE OpenFilesExist'
  BY <1>20 DEF Undo
<1>21. ASSUME NEW p \in Fetcher, Crash(p) PROVE OpenFilesExist'
  BY <1>21 DEF Crash
<1>22. CASE UNCHANGED vars
  BY <1>22 DEF vars
<1> QED
  BY <1>1, <1>2, <1>3, <1>4, <1>5, <1>6, <1>7, <1>8, <1>9, <1>10,
     <1>11, <1>12, <1>13, <1>14, <1>15, <1>16, <1>17, <1>18, <1>19, <1>20,
     <1>21, <1>22
  DEF Next, Fetch, Unpack, Install

\* Nothing is unpacked from an unverified archive.
LEMMA ContentStep == Base /\ [Next]_vars => OnlyVerifiedFiles'
<1> SUFFICES ASSUME Base, [Next]_vars PROVE OnlyVerifiedFiles'
  OBVIOUS
<1> USE DEF Base, TypeOK, ArchiveIsVerified, OnlyVerifiedFiles, Unpacking, Content,
        NoFiles, temps, trees
<1>1. ASSUME NEW p \in Fetcher, Begin(p) PROVE OnlyVerifiedFiles'
  BY <1>1 DEF Begin
<1>2. ASSUME NEW p \in Fetcher, Stat(p) PROVE OnlyVerifiedFiles'
  BY <1>2 DEF Stat
<1>3. ASSUME NEW p \in Fetcher, CreateArchive(p) PROVE OnlyVerifiedFiles'
  BY <1>3 DEF CreateArchive
<1>4. ASSUME NEW p \in Fetcher, Receive(p) PROVE OnlyVerifiedFiles'
  BY <1>4 DEF Receive
<1>5. ASSUME NEW p \in Fetcher, Sums(p) PROVE OnlyVerifiedFiles'
  BY <1>5 DEF Sums
<1>6. ASSUME NEW p \in Fetcher, Verify(p) PROVE OnlyVerifiedFiles'
  BY <1>6 DEF Verify
<1>7. ASSUME NEW p \in Fetcher, RemoveStaged(p) PROVE OnlyVerifiedFiles'
  BY <1>7 DEF RemoveStaged, Moved
<1>8. ASSUME NEW p \in Fetcher, StageRemoved(p) PROVE OnlyVerifiedFiles'
  BY <1>8 DEF StageRemoved, Removes
<1>9. ASSUME NEW p \in Fetcher, OpenFile(p) PROVE OnlyVerifiedFiles'
  BY <1>9 DEF OpenFile
<1>10. ASSUME NEW p \in Fetcher, OpenError(p) PROVE OnlyVerifiedFiles'
  BY <1>10 DEF OpenError
<1>11. ASSUME NEW p \in Fetcher, CopyFile(p) PROVE OnlyVerifiedFiles'
  BY <1>11 DEF CopyFile, Written
<1>12. ASSUME NEW p \in Fetcher, CopyError(p) PROVE OnlyVerifiedFiles'
  BY <1>12 DEF CopyError
<1>13. ASSUME NEW p \in Fetcher, Extracted(p) PROVE OnlyVerifiedFiles'
  BY <1>13 DEF Extracted
<1>14. ASSUME NEW p \in Fetcher, RemoveInstalled(p) PROVE OnlyVerifiedFiles'
  BY <1>14 DEF RemoveInstalled, Moved
<1>15. ASSUME NEW p \in Fetcher, RemoveMarker(p) PROVE OnlyVerifiedFiles'
  BY <1>15 DEF RemoveMarker
<1>16. ASSUME NEW p \in Fetcher, InstalledRemoved(p) PROVE OnlyVerifiedFiles'
  BY <1>16 DEF InstalledRemoved
<1>17. ASSUME NEW p \in Fetcher, Rename(p) PROVE OnlyVerifiedFiles'
  BY <1>17 DEF Rename, Moved
<1>18. ASSUME NEW p \in Fetcher, WriteMarker(p) PROVE OnlyVerifiedFiles'
  BY <1>18 DEF WriteMarker
<1>19. ASSUME NEW p \in Fetcher, InstallError(p) PROVE OnlyVerifiedFiles'
  BY <1>19 DEF InstallError
<1>20. ASSUME NEW p \in Fetcher, Undo(p) PROVE OnlyVerifiedFiles'
  BY <1>20 DEF Undo
<1>21. ASSUME NEW p \in Fetcher, Crash(p) PROVE OnlyVerifiedFiles'
  BY <1>21 DEF Crash
<1>22. CASE UNCHANGED vars
  BY <1>22 DEF vars
<1> QED
  BY <1>1, <1>2, <1>3, <1>4, <1>5, <1>6, <1>7, <1>8, <1>9, <1>10,
     <1>11, <1>12, <1>13, <1>14, <1>15, <1>16, <1>17, <1>18, <1>19, <1>20,
     <1>21, <1>22
  DEF Next, Fetch, Unpack, Install

\* Base does not need that the calls are alone.
LEMMA BaseStep == Base /\ [Next]_vars => Base'
  BY TypeStep, OwnStep, OpenStep, ContentStep DEF Base

\* A step of the only call there is keeps what it knows.
LEMMA SoloStep == IInv /\ [Next]_vars => Solo'
<1> SUFFICES ASSUME IInv, [Next]_vars, ~overlap' PROVE Solo'
  BY DEF Solo
<1> USE NAssumption
    DEF IInv, Base, TypeOK, OnlyWritersHoldFiles, ArchiveIsVerified, Solo,
        AtMostOne, Knows, Unpacking, Ended, Going, File, Content, NoFiles,
        Complete, Goto, temps, trees
<1>0. ~overlap
  BY DEF Next, Begin, Fetch, Stat, CreateArchive, Receive, Sums, Verify, Unpack,
         RemoveStaged, StageRemoved, OpenFile, OpenError, CopyFile, CopyError,
         Extracted, Install, RemoveInstalled, RemoveMarker, InstalledRemoved,
         Rename, WriteMarker, InstallError, Undo, Crash, vars
<1>1. ASSUME NEW p \in Fetcher, Begin(p) PROVE Solo'
  <2>1. AtMostOne'
    <3>1. \A q \in Fetcher : pc[q] \notin Going
      BY <1>0, <1>1, Zenon DEF Begin
    <3> QED
      BY <3>1, <1>1 DEF Begin
  <2>2. ASSUME NEW q \in Fetcher PROVE Knows(q)'
    BY <1>0, <1>1 DEF Begin
  <2>3. mark' /\ ~lost' => Complete(dest)'
    BY <1>0, <1>1 DEF Begin
  <2> QED
    BY <2>1, <2>2, <2>3
<1>2. ASSUME NEW p \in Fetcher, Stat(p) PROVE Solo'
  BY <1>0, <1>2 DEF Stat
<1>3. ASSUME NEW p \in Fetcher, CreateArchive(p) PROVE Solo'
  <2>1. AtMostOne'
    BY <1>0, <1>3 DEF CreateArchive
  <2>2. ASSUME NEW q \in Fetcher PROVE Knows(q)'
    BY <1>0, <1>3 DEF CreateArchive
  <2>3. mark' /\ ~lost' => Complete(dest)'
    BY <1>0, <1>3 DEF CreateArchive
  <2> QED
    BY <2>1, <2>2, <2>3
<1>4. ASSUME NEW p \in Fetcher, Receive(p) PROVE Solo'
  <2>1. AtMostOne'
    BY <1>0, <1>4 DEF Receive
  <2>2. ASSUME NEW q \in Fetcher PROVE Knows(q)'
    BY <1>0, <1>4 DEF Receive
  <2>3. mark' /\ ~lost' => Complete(dest)'
    BY <1>0, <1>4 DEF Receive
  <2> QED
    BY <2>1, <2>2, <2>3
<1>5. ASSUME NEW p \in Fetcher, Sums(p) PROVE Solo'
  <2>1. AtMostOne'
    BY <1>0, <1>5 DEF Sums
  <2>2. ASSUME NEW q \in Fetcher PROVE Knows(q)'
    BY <1>0, <1>5 DEF Sums
  <2>3. mark' /\ ~lost' => Complete(dest)'
    BY <1>0, <1>5 DEF Sums
  <2> QED
    BY <2>1, <2>2, <2>3
<1>6. ASSUME NEW p \in Fetcher, Verify(p) PROVE Solo'
  <2>1. AtMostOne'
    BY <1>0, <1>6 DEF Verify
  <2>2. ASSUME NEW q \in Fetcher PROVE Knows(q)'
    BY <1>0, <1>6 DEF Verify
  <2>3. mark' /\ ~lost' => Complete(dest)'
    BY <1>0, <1>6 DEF Verify
  <2> QED
    BY <2>1, <2>2, <2>3
<1>7. ASSUME NEW p \in Fetcher, RemoveStaged(p) PROVE Solo'
  <2>1. AtMostOne'
    BY <1>0, <1>7 DEF RemoveStaged
  <2>2. ASSUME NEW q \in Fetcher PROVE Knows(q)'
    BY <1>0, <1>7 DEF RemoveStaged, Removes, Moved
  <2>3. mark' /\ ~lost' => Complete(dest)'
    BY <1>0, <1>7 DEF RemoveStaged
  <2> QED
    BY <2>1, <2>2, <2>3
<1>8. ASSUME NEW p \in Fetcher, StageRemoved(p) PROVE Solo'
  BY <1>0, <1>8 DEF StageRemoved, Removes
<1>9. ASSUME NEW p \in Fetcher, OpenFile(p) PROVE Solo'
  <2>1. AtMostOne'
    BY <1>0, <1>9 DEF OpenFile
  <2>2. ASSUME NEW q \in Fetcher PROVE Knows(q)'
    BY <1>0, <1>9 DEF OpenFile
  <2>3. mark' /\ ~lost' => Complete(dest)'
    BY <1>0, <1>9 DEF OpenFile
  <2> QED
    BY <2>1, <2>2, <2>3
<1>10. ASSUME NEW p \in Fetcher, OpenError(p) PROVE Solo'
  BY <1>0, <1>10 DEF OpenError
<1>11. ASSUME NEW p \in Fetcher, CopyFile(p) PROVE Solo'
  BY <1>0, <1>11 DEF CopyFile, Written
<1>12. ASSUME NEW p \in Fetcher, CopyError(p) PROVE Solo'
  BY <1>0, <1>12 DEF CopyError
<1>13. ASSUME NEW p \in Fetcher, Extracted(p) PROVE Solo'
  BY <1>0, <1>13 DEF Extracted
<1>14. ASSUME NEW p \in Fetcher, RemoveInstalled(p) PROVE Solo'
  BY <1>0, <1>14 DEF RemoveInstalled, Moved
<1>15. ASSUME NEW p \in Fetcher, RemoveMarker(p) PROVE Solo'
  BY <1>0, <1>15 DEF RemoveMarker
<1>16. ASSUME NEW p \in Fetcher, InstalledRemoved(p) PROVE Solo'
  BY <1>0, <1>16 DEF InstalledRemoved
<1>17. ASSUME NEW p \in Fetcher, Rename(p) PROVE Solo'
  <2>1. AtMostOne'
    BY <1>0, <1>17 DEF Rename
  <2>2. ASSUME NEW q \in Fetcher PROVE Knows(q)'
    BY <1>0, <1>17 DEF Rename, Moved
  <2>3. mark' /\ ~lost' => Complete(dest)'
    BY <1>0, <1>17 DEF Rename
  <2> QED
    BY <2>1, <2>2, <2>3
<1>18. ASSUME NEW p \in Fetcher, WriteMarker(p) PROVE Solo'
  <2>1. AtMostOne'
    BY <1>0, <1>18 DEF WriteMarker
  <2>2. ASSUME NEW q \in Fetcher PROVE Knows(q)'
    <3>1. pc'[q] \in Ended \cup {"undo"}
      <4>1. q # p => pc[q] \in Ended
        BY <1>0, <1>18 DEF WriteMarker
      <4>2. /\ pc'[p] \in {"ready", "undo"}
            /\ q # p => pc'[q] = pc[q]
        BY <1>18 DEF WriteMarker
      <4> QED
        BY <4>1, <4>2
    <3> QED
      BY <3>1
  <2>3. mark' /\ ~lost' => Complete(dest)'
    BY <1>0, <1>18 DEF WriteMarker
  <2> QED
    BY <2>1, <2>2, <2>3
<1>19. ASSUME NEW p \in Fetcher, InstallError(p) PROVE Solo'
  BY <1>0, <1>19 DEF InstallError
<1>20. ASSUME NEW p \in Fetcher, Undo(p) PROVE Solo'
  BY <1>0, <1>20 DEF Undo
<1>21. ASSUME NEW p \in Fetcher, Crash(p) PROVE Solo'
  BY <1>0, <1>21 DEF Crash
<1>22. CASE UNCHANGED vars
  BY <1>0, <1>22 DEF vars
<1> QED
  BY <1>1, <1>2, <1>3, <1>4, <1>5, <1>6, <1>7, <1>8, <1>9, <1>10,
     <1>11, <1>12, <1>13, <1>14, <1>15, <1>16, <1>17, <1>18, <1>19, <1>20,
     <1>21, <1>22
  DEF Next, Fetch, Unpack, Install

LEMMA InvariantHolds == Spec => []IInv
<1>1. IInv /\ [Next]_vars => IInv'
  BY BaseStep, SoloStep DEF IInv
<1> QED
  BY InitInv, <1>1, PTL DEF Spec

-----------------------------------------------------------------------------
\* Types; the unpacking never passes the archive's end (extractTarGz).
THEOREM TypeCorrect == Spec => []TypeOK
  BY InvariantHolds, PTL DEF IInv, Base

\* Without overlapping calls the marker proves a complete QEMU, through any
\* failures, kills and incomplete removals (EnsureQEMU writes it last) but a failed
\* out.Close, whose error extractTarGz throws away.
THEOREM MarkerIsProof == Spec => []MarkerMeansComplete
<1>1. IInv => MarkerMeansComplete
  BY DEF IInv, Solo, MarkerMeansComplete
<1> QED
  BY InvariantHolds, <1>1, PTL

\* With or without overlap, only bytes of a verified archive are unpacked.
THEOREM OnlyVerified == Spec => []OnlyVerifiedFiles
  BY InvariantHolds, PTL DEF IInv, Base

\* Every return of EnsureQEMU has removed the archive of that call.
THEOREM ArchiveRemoved == Spec => []NoArchiveLeft
<1>1. IInv => NoArchiveLeft
  BY DEF IInv, Base, ArchiveIsOwned, NoArchiveLeft, NoArchiveYet
<1> QED
  BY InvariantHolds, <1>1, PTL

\* What no step does to a marked QEMU as long as no two calls overlapped.
Kept == ~overlap' /\ mark => mark' /\ dest' = dest

LEMMA MarkedIsKept == IInv /\ Next => Kept
<1> SUFFICES ASSUME IInv, Next, ~overlap', mark PROVE mark' /\ dest' = dest
  BY DEF Kept
<1>1. ASSUME NEW p \in Fetcher, Begin(p) \/ Fetch(p) \/ Crash(p) \/ Undo(p)
      PROVE mark' = mark /\ dest' = dest
  BY <1>1 DEF Begin, Fetch, Stat, CreateArchive, Receive, Sums, Verify, Crash,
              Undo, trees
<1>2. ASSUME NEW p \in Fetcher, pc[p] \in Unpacking PROVE overlap
  BY <1>2 DEF IInv, Solo, Knows, Unpacking, Going
<1>3. ASSUME NEW p \in Fetcher, Unpack(p) \/ Install(p), ~Undo(p)
      PROVE pc[p] \in Unpacking
  BY <1>3 DEF Unpack, Install, RemoveStaged, StageRemoved, Removes, OpenFile,
              OpenError, CopyFile, CopyError, Extracted, RemoveInstalled,
              RemoveMarker, InstalledRemoved, Rename, WriteMarker,
              InstallError, Unpacking
<1>4. ASSUME NEW p \in Fetcher, Unpack(p) \/ Install(p) PROVE ~overlap
  BY <1>4 DEF Unpack, Install, RemoveStaged, StageRemoved, OpenFile,
              OpenError, CopyFile, CopyError, Extracted, RemoveInstalled,
              RemoveMarker, InstalledRemoved, Rename, WriteMarker,
              InstallError, Undo
<1> QED
  BY <1>1, <1>2, <1>3, <1>4 DEF Next

\* Without overlapping calls a marked QEMU is never touched again.
THEOREM CopyIsKept == Spec => CachedCopyKept
<1>1. IInv /\ [Next]_vars => [Kept]_<<mark, dest, overlap>>
  BY MarkedIsKept DEF vars, trees
<1>2. [][Kept]_<<mark, dest, overlap>> => CachedCopyKept
  BY PTL DEF CachedCopyKept, Kept
<1> QED
  BY InvariantHolds, <1>1, <1>2, PTL DEF Spec

\* A call that returned without an error and alone left its mark.
ReadyIsMarked == ~overlap => \A p \in Fetcher : pc[p] = "ready" => mark

LEMMA ReadyStep == IInv /\ ReadyIsMarked /\ [Next]_vars => ReadyIsMarked'
<1> SUFFICES ASSUME IInv, ReadyIsMarked, [Next]_vars, ~overlap',
                    NEW q \in Fetcher, pc'[q] = "ready"
             PROVE  mark'
  BY DEF ReadyIsMarked
<1>1. CASE UNCHANGED vars
  BY <1>1 DEF vars, trees, ReadyIsMarked
<1>2. CASE Next
  <2> USE DEF Goto, Ended, Going
  <2>0. pc \in [Fetcher -> Ended \cup Going]
    BY DEF IInv, Base, TypeOK
  <2>1. ~overlap
    BY <1>2 DEF Next, Begin, Fetch, Stat, CreateArchive, Receive, Sums, Verify, Unpack,
           RemoveStaged, StageRemoved, OpenFile, OpenError, CopyFile, CopyError,
           Extracted, Install, RemoveInstalled, RemoveMarker, InstalledRemoved,
           Rename, WriteMarker, InstallError, Undo, Crash
  <2>2. CASE pc[q] = "ready"
    BY <1>2, <2>1, <2>2, MarkedIsKept DEF Kept, ReadyIsMarked
  <2>3. CASE pc[q] # "ready"
    <3>1. PICK p \in Fetcher : Begin(p) \/ Fetch(p) \/ Unpack(p) \/ Install(p) \/ Crash(p)
      BY <1>2 DEF Next
    <3>2. CASE Begin(p) \/ Crash(p)
      BY <2>0, <2>3, <3>2 DEF Begin, Crash
    <3>3. CASE Stat(p)
      BY <2>0, <2>3, <3>3 DEF Stat, trees
    <3>4. CASE CreateArchive(p) \/ Receive(p) \/ Sums(p) \/ Verify(p)
      BY <2>0, <2>3, <3>4 DEF CreateArchive, Receive, Sums, Verify
    <3>5. CASE Unpack(p)
      BY <2>0, <2>3, <3>5 DEF Unpack, RemoveStaged, StageRemoved, OpenFile, OpenError,
                              CopyFile, CopyError, Extracted
    <3>6. CASE WriteMarker(p)
      BY <3>6 DEF WriteMarker
    <3>7. CASE Install(p) /\ ~WriteMarker(p)
      BY <2>0, <2>3, <3>7 DEF Install, RemoveInstalled, RemoveMarker, InstalledRemoved,
                              Rename, InstallError, Undo
    <3> QED
      BY <3>1, <3>2, <3>3, <3>4, <3>5, <3>6, <3>7 DEF Fetch
  <2> QED
    BY <2>2, <2>3
<1> QED
  BY <1>1, <1>2

\* A call that no other call overlapped returns a complete QEMU, and it stays
\* complete, a loss at out.Close excepted: overlap is the one cause of what run
\* qemu_fetch_overlap finds.
THEOREM ReturnedAloneIsComplete == Spec => [](~overlap => ReturnedDirComplete)
<1>1. Init => ReadyIsMarked
  BY DEF Init, ReadyIsMarked
<1>2. IInv /\ ReadyIsMarked => (~overlap => ReturnedDirComplete)
  BY DEF IInv, Solo, ReadyIsMarked, ReturnedDirComplete
<1> QED
  BY InvariantHolds, ReadyStep, <1>1, <1>2, PTL DEF Spec
=============================================================================
