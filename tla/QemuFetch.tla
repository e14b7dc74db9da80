------------------------------ MODULE QemuFetch ------------------------------
(***************************************************************************)
(* The download and unpacking of the static QEMU (EnsureQEMU and its       *)
(* helpers in internal/qemu/download.go).                                  *)
(*                                                                         *)
(* A call that finds the marker file returns the directory at once.  Any   *)
(* other downloads the archive to a temporary file of its own, verifies    *)
(* it, unpacks it into a staging directory, replaces the destination by a  *)
(* rename and writes the marker.  Staging directory and destination have   *)
(* fixed names, calls of several dvm processes share them, and none of     *)
(* this is under a lock.  A call may fail or be killed at any step; the    *)
(* results of the three os.RemoveAll are thrown away.                      *)
(*                                                                         *)
(* A file of a tree is "none", "part" (created or truncated, not all of it *)
(* written), "whole" (the archive's verified content) or "alien" (written  *)
(* from an archive that was not the expected one).  A file that is removed *)
(* or renamed while it is written keeps its writer (the unix rules).       *)
(***************************************************************************)
EXTENDS Naturals

CONSTANTS
    Fetcher,    \* dvm processes
    N           \* files in the archive, in its order

ASSUME NAssumption == N \in Nat \ {0}

VARIABLES
    pc,        \* pc[p]: where process p is in EnsureQEMU
    tgz,       \* tgz[p]: its temporary archive: "none", "part", "good", "bad"
    next,      \* next[p]: the file it unpacks
    handle,    \* handle[p]: where that file is: "none" (not open), "stage",
               \* "dest" or "gone"
    stageDir, destDir,      \* whether the directories exist
    stage, dest,            \* the files in them
    mark,                   \* the marker file
    overlap,   \* history: some call began while another was going on
    lost       \* history: closing a file lost some of it, which goes unnoticed

temps == <<tgz, next, handle>>
trees == <<stageDir, destDir, stage, dest, mark>>
vars  == <<pc, temps, trees, overlap, lost>>

File == 1..N
Content == {"none", "part", "whole", "alien"}
NoFiles == [f \in File |-> "none"]
Complete(tree) == \A f \in File : tree[f] = "whole"

Ended == {"idle", "ready", "failed"}
Going == {"stat", "create", "receive", "sums", "verify", "clear", "open",
          "copy", "unstage", "replace", "rename", "mark", "undo"}

Goto(p, there) == pc' = [pc EXCEPT ![p] = there]

Init ==
    /\ pc = [p \in Fetcher |-> "idle"]
    /\ tgz = [p \in Fetcher |-> "none"]
    /\ next = [p \in Fetcher |-> 1]
    /\ handle = [p \in Fetcher |-> "none"]
    /\ stageDir = FALSE /\ destDir = FALSE
    /\ stage = NoFiles /\ dest = NoFiles
    /\ mark = FALSE
    /\ overlap = FALSE /\ lost = FALSE

-----------------------------------------------------------------------------
(* Up to the verified archive. *)

\* A call of EnsureQEMU, in a process that made one before or in a new one.
Begin(p) ==
    /\ pc[p] \in Ended
    /\ Goto(p, "stat")
    /\ overlap' = (overlap \/ \E q \in Fetcher : pc[q] \in Going)
    /\ UNCHANGED <<temps, trees, lost>>

\* Mutant: the cached copy is not looked for.
StatMissed(p) ==
    /\ pc[p] = "stat"
    /\ Goto(p, "create")
    /\ UNCHANGED <<temps, trees, overlap, lost>>

Stat(p) ==
    /\ pc[p] = "stat"
    /\ Goto(p, IF mark THEN "ready" ELSE "create")
    /\ UNCHANGED <<temps, trees, overlap, lost>>

\* os.CreateTemp, before the request is sent.
CreateArchive(p) ==
    /\ pc[p] = "create"
    /\ \/ /\ tgz' = [tgz EXCEPT ![p] = "part"]
          /\ Goto(p, "receive")
       \/ /\ UNCHANGED tgz
          /\ Goto(p, "failed")
    /\ UNCHANGED <<next, handle, trees, overlap, lost>>

\* The body arrives, as published or otherwise; or the request or the copy
\* fails, and downloadToTemp removes its file.
Receive(p) ==
    /\ pc[p] = "receive"
    /\ \/ \E c \in {"good", "bad"} :
             /\ tgz' = [tgz EXCEPT ![p] = c]
             /\ Goto(p, "sums")
       \/ /\ tgz' = [tgz EXCEPT ![p] = "none"]
          /\ Goto(p, "failed")
    /\ UNCHANGED <<next, handle, trees, overlap, lost>>

\* Mutant: without a checksum for the archive it is taken unverified.
SumsOptional(p) ==
    /\ pc[p] = "sums"
    /\ \/ Goto(p, "verify")
       \/ Goto(p, "clear")
    /\ UNCHANGED <<temps, trees, overlap, lost>>

\* SHA256SUMS: there and with a line for this archive, or an error.
Sums(p) ==
    /\ pc[p] = "sums"
    /\ \/ Goto(p, "verify")
       \/ Goto(p, "undo")
    /\ UNCHANGED <<temps, trees, overlap, lost>>

\* Mutant: the error of the verification returns past the deferred removal.
VerifyNoUndo(p) ==
    /\ pc[p] = "verify"
    /\ Goto(p, IF tgz[p] = "good" THEN "clear" ELSE "failed")
    /\ UNCHANGED <<temps, trees, overlap, lost>>

\* verifySHA256; reading the file again may also fail.
Verify(p) ==
    /\ pc[p] = "verify"
    /\ \/ tgz[p] = "good" /\ Goto(p, "clear")
       \/ Goto(p, "undo")
    /\ UNCHANGED <<temps, trees, overlap, lost>>

-----------------------------------------------------------------------------
(* The trees.  os.RemoveAll takes one entry after the other and the         *)
(* directory in the end; what it could not remove stays.                    *)

Removes(p) == pc[p] \in {"clear", "unstage"}

\* Whoever writes a file that is removed, or renamed, goes on writing it.
Moved(from, to, files) ==
    handle' = [q \in Fetcher |->
                  IF handle[q] = from /\ next[q] \in files THEN to ELSE handle[q]]

RemoveStaged(p) ==
    /\ Removes(p)
    /\ \E f \in File :
          /\ stage[f] # "none"
          /\ stage' = [stage EXCEPT ![f] = "none"]
          /\ Moved("stage", "gone", {f})
    /\ UNCHANGED <<pc, tgz, next, stageDir, destDir, dest, mark, overlap, lost>>

\* The first removal comes before the unpacking, the second after its error.
StageRemoved(p) ==
    /\ Removes(p)
    /\ stageDir' = (stageDir /\ stage # NoFiles)
    /\ next' = [next EXCEPT ![p] = 1]
    /\ Goto(p, IF pc[p] = "clear" THEN "open" ELSE "undo")
    /\ UNCHANGED <<tgz, handle, destDir, stage, dest, mark, overlap, lost>>

\* extractTarGz at its next entry: the directory is made again if it went, the
\* file opened and truncated.  With no entry left it returns.
OpenFile(p) ==
    /\ pc[p] = "open"
    /\ next[p] \in File
    /\ stageDir' = TRUE
    /\ stage' = [stage EXCEPT ![next[p]] = "part"]
    /\ handle' = [handle EXCEPT ![p] = "stage"]
    /\ Goto(p, "copy")
    /\ UNCHANGED <<tgz, next, destDir, dest, mark, overlap, lost>>

\* The archive cannot be read on, the directory not made or the file not opened.
OpenError(p) ==
    /\ pc[p] = "open"
    /\ Goto(p, "unstage")
    /\ UNCHANGED <<temps, trees, overlap, lost>>

\* What p leaves in its file: what the archive holds, or less if another process
\* truncated the file while p wrote it.
Written(p, c) ==
    \/ c = IF tgz[p] = "good" THEN "whole" ELSE "alien"
    \/ /\ c = "part"
       /\ \E q \in Fetcher \ {p} : handle[q] = handle[p] /\ next[q] = next[p]

\* io.Copy reached the end of the entry; the error of out.Close behind it is
\* thrown away, with whatever of the file had not reached the disk.
CopyFile(p) ==
    /\ pc[p] = "copy"
    /\ \E c \in Content :
          /\ \/ Written(p, c) /\ UNCHANGED lost
             \/ c = "part" /\ lost' = TRUE
          /\ stage' = IF handle[p] = "stage" THEN [stage EXCEPT ![next[p]] = c] ELSE stage
          /\ dest' = IF handle[p] = "dest" THEN [dest EXCEPT ![next[p]] = c] ELSE dest
    /\ handle' = [handle EXCEPT ![p] = "none"]
    /\ next' = [next EXCEPT ![p] = @ + 1]
    /\ Goto(p, "open")
    /\ UNCHANGED <<tgz, stageDir, destDir, mark, overlap>>

\* Mutant: an error in the middle of the archive is taken for its end.
CopyErrorIsEnd(p) ==
    /\ pc[p] = "copy"
    /\ handle' = [handle EXCEPT ![p] = "none"]
    /\ Goto(p, "replace")
    /\ UNCHANGED <<tgz, next, trees, overlap, lost>>

\* io.Copy fails (full disk, broken archive): the file stays as it is.
CopyError(p) ==
    /\ pc[p] = "copy"
    /\ handle' = [handle EXCEPT ![p] = "none"]
    /\ Goto(p, "unstage")
    /\ UNCHANGED <<tgz, next, trees, overlap, lost>>

\* Mutant: the loop passes the end of the archive.
ExtractNeverEnds(p) ==
    /\ pc[p] = "open"
    /\ next[p] \notin File
    /\ next' = [next EXCEPT ![p] = @ + 1]
    /\ UNCHANGED <<pc, tgz, handle, trees, overlap, lost>>

Extracted(p) ==
    /\ pc[p] = "open"
    /\ next[p] \notin File
    /\ Goto(p, "replace")
    /\ UNCHANGED <<temps, trees, overlap, lost>>

RemoveInstalled(p) ==
    /\ pc[p] = "replace"
    /\ \E f \in File :
          /\ dest[f] # "none"
          /\ dest' = [dest EXCEPT ![f] = "none"]
          /\ Moved("dest", "gone", {f})
    /\ UNCHANGED <<pc, tgz, next, stageDir, destDir, stage, mark, overlap, lost>>

RemoveMarker(p) ==
    /\ pc[p] = "replace"
    /\ mark
    /\ mark' = FALSE
    /\ UNCHANGED <<pc, temps, stageDir, destDir, stage, dest, overlap, lost>>

\* The parent directory is made next, which may fail.
InstalledRemoved(p) ==
    /\ pc[p] = "replace"
    /\ destDir' = (destDir /\ (dest # NoFiles \/ mark))
    /\ \/ Goto(p, "rename")
       \/ Goto(p, "undo")
    /\ UNCHANGED <<temps, stageDir, stage, dest, mark, overlap, lost>>

\* os.Rename refuses a directory as the new name.
Rename(p) ==
    /\ pc[p] = "rename"
    /\ stageDir /\ ~destDir
    /\ dest' = stage /\ destDir' = TRUE
    /\ stage' = NoFiles /\ stageDir' = FALSE
    /\ Moved("stage", "dest", File)
    /\ Goto(p, "mark")
    /\ UNCHANGED <<tgz, next, mark, overlap, lost>>

\* os.WriteFile: only that the marker exists counts, and it may exist although
\* writing it failed (then the call returns the error).
WriteMarker(p) ==
    /\ pc[p] = "mark"
    /\ destDir
    /\ mark' = TRUE
    /\ \/ tgz' = [tgz EXCEPT ![p] = "none"] /\ Goto(p, "ready")
       \/ UNCHANGED tgz /\ Goto(p, "undo")
    /\ UNCHANGED <<next, handle, stageDir, destDir, stage, dest, overlap, lost>>

\* The rename fails, or the marker cannot be created.
InstallError(p) ==
    /\ pc[p] \in {"rename", "mark"}
    /\ Goto(p, "undo")
    /\ UNCHANGED <<temps, trees, overlap, lost>>

\* The deferred removal of the archive on the way out with an error.
Undo(p) ==
    /\ pc[p] = "undo"
    /\ tgz' = [tgz EXCEPT ![p] = "none"]
    /\ Goto(p, "failed")
    /\ UNCHANGED <<next, handle, trees, overlap, lost>>

\* The process is killed; its temporary archive stays in the cache for good and
\* is not looked at again.
Crash(p) ==
    /\ pc[p] \in Going
    /\ Goto(p, "idle")
    /\ tgz' = [tgz EXCEPT ![p] = "none"]
    /\ handle' = [handle EXCEPT ![p] = "none"]
    /\ UNCHANGED <<next, trees, overlap, lost>>

Fetch(p) ==
    \/ Stat(p) \/ CreateArchive(p) \/ Receive(p) \/ Sums(p) \/ Verify(p)

Unpack(p) ==
    \/ RemoveStaged(p) \/ StageRemoved(p)
    \/ OpenFile(p) \/ OpenError(p) \/ CopyFile(p) \/ CopyError(p) \/ Extracted(p)

Install(p) ==
    \/ RemoveInstalled(p) \/ RemoveMarker(p) \/ InstalledRemoved(p)
    \/ Rename(p) \/ WriteMarker(p) \/ InstallError(p) \/ Undo(p)

Next ==
    \E p \in Fetcher :
       Begin(p) \/ Fetch(p) \/ Unpack(p) \/ Install(p) \/ Crash(p)

Spec == Init /\ [][Next]_vars

-----------------------------------------------------------------------------
\* The values of the state; the unpacking stops at the end of the archive, and
\* what is in a directory is in one that exists.
TypeOK ==
    /\ pc \in [Fetcher -> Ended \cup Going]
    /\ tgz \in [Fetcher -> {"none", "part", "good", "bad"}]
    /\ next \in [Fetcher -> 1..(N + 1)]
    /\ handle \in [Fetcher -> {"none", "stage", "dest", "gone"}]
    /\ stageDir \in BOOLEAN /\ destDir \in BOOLEAN
    /\ stage \in [File -> Content] /\ dest \in [File -> Content]
    /\ mark \in BOOLEAN /\ overlap \in BOOLEAN /\ lost \in BOOLEAN
    /\ stageDir \/ stage = NoFiles
    /\ destDir \/ (dest = NoFiles /\ ~mark)

\* Calls that do not overlap: the marker is a proof of a complete QEMU, whatever
\* failed or was killed before and whatever removal left something behind
\* ("downloads once ... Subsequent calls reuse the cached copy"), unless closing a
\* file failed unnoticed.
MarkerMeansComplete == ~overlap /\ ~lost /\ mark => Complete(dest)

\* Calls that do not overlap: no step damages or replaces a QEMU that is marked.
CachedCopyKept == [][~overlap' /\ mark => mark' /\ dest' = dest]_<<mark, dest, overlap>>

\* "verified against its SHA256 sidecar": no file, staged or installed, is from
\* an archive that does not have the published sum, even if calls overlap.
OnlyVerifiedFiles == \A f \in File : stage[f] # "alien" /\ dest[f] # "alien"

\* Every return removes the archive the call downloaded.
NoArchiveLeft == \A p \in Fetcher : pc[p] \in Ended => tgz[p] = "none"

\* "returns the directory containing qemu-system-* and qemu-img": a call that
\* returned without an error left a complete QEMU, overlapping calls included and
\* an unnoticed loss at out.Close excepted.
ReturnedDirComplete ==
    ~lost => \A p \in Fetcher :
       pc[p] = "ready" /\ (\A q \in Fetcher : pc[q] \in Ended) => Complete(dest)
=============================================================================
