------------------------------ MODULE BlobCache ------------------------------
(***************************************************************************)
(* The content-addressed cache (internal/cache/cache.go) and the pulls     *)
(* that fill it (Fetch in internal/oci/pull.go), with `dvm clean` removing *)
(* it at any time.                                                         *)
(*                                                                         *)
(* A pull resolves its reference to a digest, looks for the blob, and, if  *)
(* it is not there, streams it into a file of a temporary name, compares   *)
(* the digest of what arrived, and renames the file to the name of the     *)
(* digest.  Pulls of several dvm processes share the directory; none of    *)
(* this is under a lock.  File content is one of: what the digest says     *)
(* ("good"), or anything else ("bad").                                     *)
(***************************************************************************)
EXTENDS Naturals, FiniteSets

CONSTANTS
    Puller,     \* dvm processes; one that ended or died may be started again
    Digest,     \* layer digests a reference may resolve to
    MayCrash    \* TRUE: a process may be killed between any two steps

ASSUME DigestAssumption == Digest # {}
ASSUME CrashAssumption == MayCrash \in BOOLEAN

VARIABLES
    pc,       \* pc[p]: where puller p is in Fetch and PutStream
    want,     \* want[p]: the digest of the layer it selected
    temp,     \* temp[p]: content of its temporary file, "none" without one
    arrived,  \* arrived[p]: what the hash was computed of
    blob,     \* blob[d]: content of the file named by d, "none" without one
    dir,      \* the directory of the blobs exists
    junk,     \* a temporary file of a dead process is left
    clean     \* `dvm clean`: "idle" before the first, "sweep" or "done"

vars == <<pc, want, temp, arrived, blob, dir, junk, clean>>

Content == {"none", "good", "bad"}
Ended   == {"idle", "done", "failed"}
Pulling == {"has", "fetch", "recheck", "mkdir", "temp", "copy", "compare",
            "rename", "undo"}

Goto(p, there) == pc' = [pc EXCEPT ![p] = there]

-----------------------------------------------------------------------------
Init ==
    /\ pc = [p \in Puller |-> "idle"]
    /\ want \in [Puller -> Digest]
    /\ temp = [p \in Puller |-> "none"]
    /\ arrived = [p \in Puller |-> "none"]
    /\ blob = [d \in Digest |-> "none"]
    /\ dir = FALSE
    /\ junk = FALSE
    /\ clean = "idle"

\* New (the cache), then resolution of the reference down to one layer and its
\* checksum sidecar; all of it may fail.  The cache's root is made, the
\* directory of the blobs with the first blob.
Resolve(p) ==
    /\ pc[p] \in Ended
    /\ \E d \in Digest : want' = [want EXCEPT ![p] = d]
    /\ \/ Goto(p, "has")
       \/ Goto(p, "failed")
    /\ UNCHANGED <<temp, arrived, blob, dir, junk, clean>>

Has(d) == blob[d] # "none"

CacheHit(p) ==
    /\ pc[p] = "has"
    /\ Goto(p, IF Has(want[p]) THEN "done" ELSE "fetch")
    /\ UNCHANGED <<want, temp, arrived, blob, dir, junk, clean>>

\* The registry answers with a stream, or does not.
FetchLayer(p) ==
    /\ pc[p] = "fetch"
    /\ \/ Goto(p, "recheck")
       \/ Goto(p, "failed")
    /\ UNCHANGED <<want, temp, arrived, blob, dir, junk, clean>>

\* PutStream looks once more: another process may have been faster.
Recheck(p) ==
    /\ pc[p] = "recheck"
    /\ Goto(p, IF Has(want[p]) THEN "done" ELSE "mkdir")
    /\ UNCHANGED <<want, temp, arrived, blob, dir, junk, clean>>

MkdirAll(p) ==
    /\ pc[p] = "mkdir"
    /\ dir' = TRUE
    /\ Goto(p, "temp")
    /\ UNCHANGED <<want, temp, arrived, blob, junk, clean>>

\* An empty file is not the blob.
CreateTemp(p) ==
    /\ pc[p] = "temp"
    /\ \/ /\ dir
          /\ temp' = [temp EXCEPT ![p] = "bad"]
          /\ Goto(p, "copy")
       \/ /\ UNCHANGED temp
          /\ Goto(p, "failed")
    /\ UNCHANGED <<want, arrived, blob, dir, junk, clean>>

\* io.Copy to the file and to the hash: the whole layer, something else (a cut
\* or altered stream), or an error.  What goes to a file that was swept away is
\* gone, but the hash has seen it.
Copy(p) ==
    /\ pc[p] = "copy"
    /\ \/ \E c \in {"good", "bad"} :
             /\ arrived' = [arrived EXCEPT ![p] = c]
             /\ temp' = [temp EXCEPT ![p] = IF @ = "none" THEN "none" ELSE c]
             /\ Goto(p, "compare")
       \/ /\ UNCHANGED <<arrived, temp>>
          /\ Goto(p, "undo")
    /\ UNCHANGED <<want, blob, dir, junk, clean>>

\* Mutant: the digests are not compared.
CompareNothing(p) ==
    /\ pc[p] = "compare"
    /\ Goto(p, "rename")
    /\ UNCHANGED <<want, temp, arrived, blob, dir, junk, clean>>

Compare(p) ==
    /\ pc[p] = "compare"
    /\ Goto(p, IF arrived[p] = "good" THEN "rename" ELSE "undo")
    /\ UNCHANGED <<want, temp, arrived, blob, dir, junk, clean>>

\* Mutant: the error of os.Rename is dropped and the path handed out.
RenameUnchecked(p) ==
    /\ pc[p] = "rename"
    /\ blob' = IF temp[p] = "none" THEN blob ELSE [blob EXCEPT ![want[p]] = temp[p]]
    /\ temp' = [temp EXCEPT ![p] = "none"]
    /\ Goto(p, "done")
    /\ UNCHANGED <<want, arrived, dir, junk, clean>>

Rename(p) ==
    /\ pc[p] = "rename"
    /\ \/ /\ temp[p] # "none"
          /\ blob' = [blob EXCEPT ![want[p]] = temp[p]]
          /\ temp' = [temp EXCEPT ![p] = "none"]
          /\ Goto(p, "done")
       \/ /\ temp[p] = "none"
          /\ UNCHANGED <<blob, temp>>
          /\ Goto(p, "undo")
    /\ UNCHANGED <<want, arrived, dir, junk, clean>>

\* The deferred os.Remove of the temporary file.
Undo(p) ==
    /\ pc[p] = "undo"
    /\ temp' = [temp EXCEPT ![p] = "none"]
    /\ Goto(p, "failed")
    /\ UNCHANGED <<want, arrived, blob, dir, junk, clean>>

Crash(p) ==
    /\ MayCrash
    /\ pc[p] \in Pulling
    /\ Goto(p, "idle")
    /\ junk' = (junk \/ temp[p] # "none")
    /\ temp' = [temp EXCEPT ![p] = "none"]
    /\ UNCHANGED <<want, arrived, blob, dir, clean>>

-----------------------------------------------------------------------------
\* os.RemoveAll of the cache: file by file in any order, then the directory,
\* which stays if a pull made a file in it meanwhile (or a removal failed).
CleanStarts ==
    /\ clean \in {"idle", "done"}
    /\ clean' = "sweep"
    /\ UNCHANGED <<pc, want, temp, arrived, blob, dir, junk>>

CleanFile ==
    /\ clean = "sweep"
    /\ \/ \E d \in Digest :
             /\ blob[d] # "none"
             /\ blob' = [blob EXCEPT ![d] = "none"]
             /\ UNCHANGED <<temp, junk>>
       \/ \E p \in Puller :
             /\ temp[p] # "none"
             /\ temp' = [temp EXCEPT ![p] = "none"]
             /\ UNCHANGED <<blob, junk>>
       \/ /\ junk
          /\ junk' = FALSE
          /\ UNCHANGED <<blob, temp>>
    /\ UNCHANGED <<pc, want, arrived, dir, clean>>

Empty ==
    /\ \A d \in Digest : blob[d] = "none"
    /\ \A p \in Puller : temp[p] = "none"
    /\ ~junk

\* Mutant: the directory goes although a pull made a file in it.
CleanEndsAnyway ==
    /\ clean = "sweep"
    /\ clean' = "done"
    /\ dir' = FALSE
    /\ UNCHANGED <<pc, want, temp, arrived, blob, junk>>

CleanEnds ==
    /\ clean = "sweep"
    /\ clean' = "done"
    /\ dir' = (dir /\ ~Empty)
    /\ UNCHANGED <<pc, want, temp, arrived, blob, junk>>

Fetch(p) ==
    \/ CacheHit(p) \/ FetchLayer(p) \/ Recheck(p) \/ MkdirAll(p) \/ CreateTemp(p)
    \/ Copy(p) \/ Compare(p) \/ Rename(p) \/ Undo(p)

Next ==
    \/ \E p \in Puller : Resolve(p) \/ Fetch(p) \/ Crash(p)
    \/ CleanStarts \/ CleanFile \/ CleanEnds

Spec == Init /\ [][Next]_vars

-----------------------------------------------------------------------------
\* The values of the state, and that a file is in a directory that exists: no
\* removal by `dvm clean` takes the directory from under a pull's file.
TypeOK ==
    /\ pc \in [Puller -> Ended \cup Pulling]
    /\ want \in [Puller -> Digest]
    /\ temp \in [Puller -> Content]
    /\ arrived \in [Puller -> Content]
    /\ blob \in [Digest -> Content]
    /\ dir \in BOOLEAN
    /\ junk \in BOOLEAN
    /\ clean \in {"idle", "sweep", "done"}
    /\ ~dir => Empty

\* "Integrity is intrinsic" (cache.go:3): a file under the name of a digest has
\* that digest, however many pulls race for it, fail, die, or are swept away.
BlobIntegrity == \A d \in Digest : blob[d] # "bad"

\* The path Fetch returned stays good for as long as nobody cleans: pulls that
\* come later or finish later, or fail, neither remove nor alter the blob.
FetchedBlobStays ==
    clean = "idle" =>
        \A p \in Puller : pc[p] = "done" => blob[want[p]] = "good"

\* Only `dvm clean` takes a blob away: the deferred os.Remove of a pull that
\* fails hits its own temporary file and never the blob of a faster one.
OnlyCleanRemoves ==
    [][\A d \in Digest :
          blob[d] = "good" /\ clean # "sweep" => blob'[d] = "good"]_vars

\* "It is atomic" (cache.go:64): a pull that returns, with a path or an error,
\* leaves no temporary file; only one that was killed does.
NoTempLeft == \A p \in Puller : pc[p] \in Ended => temp[p] = "none"

\* The blobs that are there, and the one whose path a pull has.
Stored == {d \in Digest : blob[d] = "good"}
Given  == [p \in Puller |-> IF pc[p] = "done" THEN {want[p]} ELSE {}]

Store == INSTANCE BlobStore WITH
            stored <- Stored, given <- Given, cleaning <- clean = "sweep"

\* The pulls and `dvm clean` implement the store: Fetch hands a path out only
\* at a moment its blob is whole and genuine, adds that blob in one step or
\* not at all, and none of a pull's other steps, its failures and its death
\* included, is seen from outside (cache.go:64: "It is atomic").
ImplementsBlobStore == Store!Spec

=============================================================================
