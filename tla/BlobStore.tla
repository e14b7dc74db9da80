------------------------------ MODULE BlobStore ------------------------------
(***************************************************************************)
(* What Cache.PutStream and Fetch promise together: a set of blobs, each   *)
(* whole and genuine from the moment it is there, that every dvm process   *)
(* may add to and only `dvm clean` takes from.  A pull is given a path no  *)
(* sooner than the blob of that path is in the set, and a pull that fails  *)
(* or dies leaves no trace in it.  Streams, digests, temporary files and   *)
(* directories are not mentioned: that they do not show is the promise.    *)
(***************************************************************************)
CONSTANTS
    Puller,     \* the dvm processes that ask for blobs
    Digest      \* the names of blobs

VARIABLES
    stored,     \* the blobs that are there
    given,      \* given[p]: the blob p got the path of, the empty set before
    cleaning    \* a `dvm clean` is under way

vars == <<stored, given, cleaning>>

Init ==
    /\ stored = {}
    /\ given = [p \in Puller |-> {}]
    /\ cleaning = FALSE

\* A process that got a path starts anew.
Ask(p) ==
    /\ given[p] # {}
    /\ given' = [given EXCEPT ![p] = {}]
    /\ UNCHANGED <<stored, cleaning>>

\* It gets the path of a blob that was there, or that it puts there itself.
Get(p, d) ==
    /\ given[p] = {}
    /\ given' = [given EXCEPT ![p] = {d}]
    /\ stored' = stored \cup {d}
    /\ UNCHANGED cleaning

CleanStarts ==
    /\ ~cleaning
    /\ cleaning' = TRUE
    /\ UNCHANGED <<stored, given>>

Remove(d) ==
    /\ cleaning
    /\ stored' = stored \ {d}
    /\ UNCHANGED <<given, cleaning>>

CleanEnds ==
    /\ cleaning
    /\ cleaning' = FALSE
    /\ UNCHANGED <<stored, given>>

Next ==
    \/ \E p \in Puller : Ask(p) \/ \E d \in Digest : Get(p, d)
    \/ CleanStarts \/ CleanEnds \/ \E d \in Digest : Remove(d)

Spec == Init /\ [][Next]_vars
=============================================================================
