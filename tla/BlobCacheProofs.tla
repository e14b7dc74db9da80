--------------------------- MODULE BlobCacheProofs ---------------------------
(***************************************************************************)
(* Theorems about BlobCache, for any number of pulls and digests and with  *)
(* or without crashes.  The strengthening says what each place in the code *)
(* knows of the temporary file: it exists only between its creation and    *)
(* the return, from the end of the copy on it holds what the hash saw (or  *)
(* was swept away), and the rename is reached only with the right digest.  *)
(***************************************************************************)
EXTENDS BlobCache, TLAPS

\* The places at which a pull has a temporary file, or had one.
WithTemp == {"copy", "compare", "rename", "undo"}

TempIsOwned == \A p \in Puller : pc[p] \notin WithTemp => temp[p] = "none"

TempIsArrived ==
    \A p \in Puller :
        pc[p] \in {"compare", "rename"} => temp[p] \in {"none", arrived[p]}

RenameIsVerified == \A p \in Puller : pc[p] = "rename" => arrived[p] = "good"

IInv ==
    /\ TypeOK
    /\ TempIsOwned
    /\ TempIsArrived
    /\ RenameIsVerified
    /\ BlobIntegrity
    /\ FetchedBlobStays

-----------------------------------------------------------------------------
\* Init establishes the invariant.
LEMMA InitInv == Init => IInv
  BY DEF Init, IInv, TypeOK, Empty, Content, Ended, Pulling, TempIsOwned,
         TempIsArrived, RenameIsVerified, WithTemp, BlobIntegrity,
         FetchedBlobStays

\* Every step of a pull, of the code around it or of `dvm clean` keeps it.
LEMMA StepInv == IInv /\ [Next]_vars => IInv'
<1> SUFFICES ASSUME IInv, [Next]_vars PROVE IInv'
  OBVIOUS
<1> USE DEF IInv, TypeOK, Empty, Content, Ended, Pulling, TempIsOwned,
            TempIsArrived, RenameIsVerified, WithTemp, BlobIntegrity,
            FetchedBlobStays, Goto
<1>1. ASSUME NEW p \in Puller, Resolve(p) PROVE IInv'
  BY <1>1 DEF Resolve
<1>2. ASSUME NEW p \in Puller, CacheHit(p) PROVE IInv'
  BY <1>2 DEF CacheHit, Has
<1>3. ASSUME NEW p \in Puller, FetchLayer(p) PROVE IInv'
  BY <1>3 DEF FetchLayer
<1>4. ASSUME NEW p \in Puller, Recheck(p) PROVE IInv'
  BY <1>4 DEF Recheck, Has
<1>5. ASSUME NEW p \in Puller, MkdirAll(p) PROVE IInv'
  BY <1>5 DEF MkdirAll
<1>6. ASSUME NEW p \in Puller, CreateTemp(p) PROVE IInv'
  BY <1>6 DEF CreateTemp
<1>7. ASSUME NEW p \in Puller, Copy(p) PROVE IInv'
  BY <1>7 DEF Copy
<1>8. ASSUME NEW p \in Puller, Compare(p) PROVE IInv'
  BY <1>8 DEF Compare
<1>9. ASSUME NEW p \in Puller, Rename(p) PROVE IInv'
  BY <1>9 DEF Rename
<1>10. ASSUME NEW p \in Puller, Undo(p) PROVE IInv'
  BY <1>10 DEF Undo
<1>11. ASSUME NEW p \in Puller, Crash(p) PROVE IInv'
  BY <1>11 DEF Crash
<1>12. CASE CleanStarts
  BY <1>12 DEF CleanStarts
<1>13. CASE CleanFile
  <2>1. ASSUME NEW d \in Digest,
               blob' = [blob EXCEPT ![d] = "none"],
               UNCHANGED <<temp, junk>>
        PROVE IInv'
    BY <1>13, <2>1 DEF CleanFile
  <2>2. ASSUME NEW p \in Puller,
               temp' = [temp EXCEPT ![p] = "none"],
               UNCHANGED <<blob, junk>>
        PROVE IInv'
    BY <1>13, <2>2 DEF CleanFile
  <2>3. CASE junk' = FALSE /\ UNCHANGED <<blob, temp>>
    BY <1>13, <2>3 DEF CleanFile
  <2> QED
    BY <1>13, <2>1, <2>2, <2>3 DEF CleanFile
<1>14. CASE CleanEnds
  BY <1>14 DEF CleanEnds
<1>15. CASE UNCHANGED vars
  BY <1>15 DEF vars
<1> QED
  BY <1>1, <1>2, <1>3, <1>4, <1>5, <1>6, <1>7, <1>8, <1>9, <1>10, <1>11,
     <1>12, <1>13, <1>14, <1>15 DEF Next, Fetch

LEMMA InvariantHolds == Spec => []IInv
  BY InitInv, StepInv, PTL DEF Spec

-----------------------------------------------------------------------------
\* The cache's state keeps its types, and no directory goes from under a file,
\* for any number of pulls (MkdirAll and CreateTemp against os.RemoveAll).
THEOREM TypeCorrect == Spec => []TypeOK
  BY InvariantHolds, PTL DEF IInv

\* No file under the name of a digest has another content, whatever pulls,
\* crashes and cleans interleave (PutStream renames only what it verified).
THEOREM Integrity == Spec => []BlobIntegrity
  BY InvariantHolds, PTL DEF IInv

\* A path Fetch returned keeps its blob until somebody cleans, however many
\* pulls of the same blob finish or fail afterwards.
THEOREM FetchedStays == Spec => []FetchedBlobStays
  BY InvariantHolds, PTL DEF IInv

\* Every return from PutStream removes the temporary file it made.
THEOREM NoTempAfterReturn == Spec => []NoTempLeft
<1>1. IInv => NoTempLeft
  BY DEF IInv, NoTempLeft, TempIsOwned, Ended, WithTemp
<1> QED
  BY InvariantHolds, <1>1, PTL

\* No step but one of a running `dvm clean` takes a good blob away: the rename
\* of a second pull replaces it by the same content, its clean-up removes
\* another file.
THEOREM NothingElseRemoves == Spec => OnlyCleanRemoves
<1> DEFINE Kept ==
       \A d \in Digest :
          blob[d] = "good" /\ clean # "sweep" => blob'[d] = "good"
<1>1. ASSUME IInv, Next PROVE Kept
  <2> SUFFICES ASSUME NEW d \in Digest, blob[d] = "good", clean # "sweep"
               PROVE blob'[d] = "good"
    OBVIOUS
  <2>1. ASSUME NEW p \in Puller, Rename(p) PROVE blob'[d] = "good"
    BY <1>1, <2>1 DEF Rename, IInv, TempIsArrived, RenameIsVerified, TypeOK
  <2>2. ASSUME NEW p \in Puller, ~Rename(p), Resolve(p) \/ Fetch(p) \/ Crash(p)
        PROVE blob' = blob
    BY <2>2 DEF Resolve, Fetch, CacheHit, FetchLayer, Recheck, MkdirAll,
                CreateTemp, Copy, Compare, Undo, Crash
  <2>3. CASE CleanStarts \/ CleanFile \/ CleanEnds
    BY <2>3 DEF CleanStarts, CleanFile, CleanEnds
  <2> QED
    BY <1>1, <2>1, <2>2, <2>3 DEF Next
<1>2. IInv /\ [Next]_vars => [Kept]_vars
  BY <1>1
<1> QED
  BY InvariantHolds, <1>2, PTL DEF Spec, OnlyCleanRemoves

-----------------------------------------------------------------------------
\* A step that changes neither the blobs nor the place of a pull that has a
\* path, nor whether `dvm clean` runs, is not seen by the store.
LEMMA Unseen ==
    ASSUME pc \in [Puller -> Ended \cup Pulling],
           NEW p \in Puller, NEW s, pc[p] # "done", s # "done",
           pc' = [pc EXCEPT ![p] = s],
           \A q \in Puller : pc[q] = "done" => want'[q] = want[q],
           UNCHANGED <<blob, clean>>
    PROVE  UNCHANGED <<Stored, Given, clean = "sweep">>
<1>1. Stored' = Stored
  BY DEF Stored
<1>2. ASSUME NEW q \in Puller
      PROVE  (IF pc'[q] = "done" THEN {want'[q]} ELSE {})
               = IF pc[q] = "done" THEN {want[q]} ELSE {}
  <2>1. CASE q = p
    BY <2>1
  <2>2. CASE q # p
    BY <2>2
  <2> QED
    BY <2>1, <2>2
<1>3. Given' = Given
  BY <1>2 DEF Given
<1> QED
  BY <1>1, <1>3

\* A pull that comes to its end is given the blob it wanted, if that blob is
\* there after the step and nothing else has changed.
LEMMA Handed ==
    ASSUME pc \in [Puller -> Ended \cup Pulling], want \in [Puller -> Digest],
           NEW p \in Puller, pc[p] # "done",
           pc' = [pc EXCEPT ![p] = "done"],
           Stored' = Stored \cup {want[p]},
           UNCHANGED <<want, clean>>
    PROVE  Store!Get(p, want[p])
<1>1. Given[p] = {}
  BY DEF Given
<1>2. Given' = [Given EXCEPT ![p] = {want[p]}]
  BY DEF Given
<1> QED
  BY <1>1, <1>2 DEF Store!Get

\* Every step of the cache is a step of the store or none at all: the two looks
\* that find the blob and the rename are its Get, the next resolution its Ask,
\* the removal of a blob's file its Remove.
LEMMA StepOfStore ==
    ASSUME IInv, IInv', [Next]_vars
    PROVE  [Store!Next]_<<Stored, Given, clean = "sweep">>
<1> DEFINE Seen == <<Stored, Given, clean = "sweep">>
<1> USE DEF Goto
<1>0. /\ pc \in [Puller -> Ended \cup Pulling]
      /\ want \in [Puller -> Digest]
      /\ blob \in [Digest -> Content] /\ temp \in [Puller -> Content]
      /\ \A d \in Digest : blob[d] # "bad"
  BY DEF IInv, TypeOK, BlobIntegrity
<1>1. ASSUME NEW p \in Puller, Resolve(p)
      PROVE  Store!Ask(p) \/ UNCHANGED Seen
  <2>1. PICK s \in {"has", "failed"} : pc' = [pc EXCEPT ![p] = s]
    BY <1>1 DEF Resolve
  <2>2. /\ \A q \in Puller : q # p => want'[q] = want[q]
        /\ UNCHANGED <<blob, clean>>
    BY <1>0, <1>1 DEF Resolve
  <2>3. CASE pc[p] = "done"
    <3>1. Given[p] # {} /\ Given' = [Given EXCEPT ![p] = {}]
      BY <1>0, <2>1, <2>2, <2>3 DEF Given
    <3>2. Stored' = Stored
      BY <2>2 DEF Stored
    <3> QED
      BY <2>2, <3>1, <3>2 DEF Store!Ask
  <2>4. CASE pc[p] # "done"
    BY <1>0, <2>1, <2>2, <2>4, Unseen
  <2> QED
    BY <2>3, <2>4
<1>2. ASSUME NEW p \in Puller, CacheHit(p) \/ Recheck(p)
      PROVE  Store!Get(p, want[p]) \/ UNCHANGED Seen
  <2>1. pc[p] # "done" /\ UNCHANGED <<want, blob, clean>>
    BY <1>2 DEF CacheHit, Recheck
  <2>2. CASE Has(want[p])
    <3>1. blob[want[p]] = "good"
      BY <1>0, <2>2 DEF Has, Content
    <3>2. Stored' = Stored \cup {want[p]}
      BY <1>0, <2>1, <3>1 DEF Stored
    <3>3. pc' = [pc EXCEPT ![p] = "done"]
      BY <1>2, <2>2 DEF CacheHit, Recheck
    <3> QED
      BY <1>0, <2>1, <3>2, <3>3, Handed
  <2>3. CASE ~Has(want[p])
    <3>1. PICK s \in {"fetch", "mkdir"} : pc' = [pc EXCEPT ![p] = s]
      BY <1>2, <2>3 DEF CacheHit, Recheck
    <3> QED
      BY <1>0, <2>1, <3>1, Unseen
  <2> QED
    BY <2>2, <2>3
<1>3. ASSUME NEW p \in Puller, Rename(p)
      PROVE  Store!Get(p, want[p]) \/ UNCHANGED Seen
  <2>1. pc[p] # "done" /\ UNCHANGED <<want, clean>>
    BY <1>3 DEF Rename
  <2>2. CASE temp[p] # "none"
    <3>1. temp[p] = "good"
      BY <1>3, <2>2 DEF Rename, IInv, TempIsArrived, RenameIsVerified
    <3>2. /\ blob' = [blob EXCEPT ![want[p]] = "good"]
          /\ pc' = [pc EXCEPT ![p] = "done"]
      BY <1>3, <2>2, <3>1 DEF Rename
    <3>3. Stored' = Stored \cup {want[p]}
      BY <1>0, <3>2 DEF Stored
    <3> QED
      BY <1>0, <2>1, <3>2, <3>3, Handed
  <2>3. CASE temp[p] = "none"
    <3>1. pc' = [pc EXCEPT ![p] = "undo"] /\ UNCHANGED blob
      BY <1>3, <2>3 DEF Rename
    <3> QED
      BY <1>0, <2>1, <3>1, Unseen
  <2> QED
    BY <2>2, <2>3
<1>4. ASSUME NEW p \in Puller,
             FetchLayer(p) \/ MkdirAll(p) \/ CreateTemp(p) \/ Copy(p)
               \/ Compare(p) \/ Undo(p) \/ Crash(p)
      PROVE  UNCHANGED Seen
  <2>1. pc[p] # "done" /\ UNCHANGED <<want, blob, clean>>
    BY <1>4 DEF FetchLayer, MkdirAll, CreateTemp, Copy, Compare, Undo, Crash,
                Pulling
  <2>2. PICK s \in (Pulling \cup Ended) \ {"done"} : pc' = [pc EXCEPT ![p] = s]
    BY <1>4 DEF FetchLayer, MkdirAll, CreateTemp, Copy, Compare, Undo, Crash,
                Pulling, Ended
  <2> QED
    BY <1>0, <2>1, <2>2, Unseen
<1>5. CASE CleanStarts \/ CleanEnds
  <2>1. UNCHANGED <<Stored, Given>>
    BY <1>5 DEF CleanStarts, CleanEnds, Stored, Given
  <2> QED
    BY <1>5, <2>1 DEF CleanStarts, CleanEnds, Store!CleanStarts, Store!CleanEnds,
                      Store!Next
<1>6. CASE CleanFile
  <2>1. clean = "sweep" /\ UNCHANGED <<pc, want, clean>>
    BY <1>6 DEF CleanFile
  <2>2. Given' = Given
    BY <2>1 DEF Given
  <2>3. ASSUME NEW d \in Digest, blob' = [blob EXCEPT ![d] = "none"]
        PROVE  Store!Remove(d)
    <3>1. Stored' = Stored \ {d}
      BY <1>0, <2>3 DEF Stored
    <3> QED
      BY <2>1, <2>2, <3>1 DEF Store!Remove
  <2>4. CASE UNCHANGED blob
    BY <2>1, <2>2, <2>4 DEF Stored
  <2> QED
    BY <1>6, <2>3, <2>4 DEF CleanFile, Store!Next
<1>7. CASE UNCHANGED vars
  BY <1>7 DEF vars, Stored, Given
<1> QED
  BY <1>0, <1>1, <1>2, <1>3, <1>4, <1>5, <1>6, <1>7
     DEF Next, Fetch, Store!Next

\* For any number of pulls and digests, and through every failure and death,
\* the cache is the store its comments promise (PutStream, Fetch, app.Clean).
THEOREM Refinement == Spec => ImplementsBlobStore
<1>1. Init => Store!Init
  BY DEF Init, Store!Init, Stored, Given
<1>2. IInv /\ IInv' /\ [Next]_vars
        => [Store!Next]_<<Stored, Given, clean = "sweep">>
  BY StepOfStore
<1> QED
  BY <1>1, <1>2, InvariantHolds, PTL
     DEF Spec, ImplementsBlobStore, Store!Spec, Store!vars
=============================================================================
