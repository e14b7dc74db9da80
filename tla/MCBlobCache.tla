----------------------------- MODULE MCBlobCache -----------------------------
(***************************************************************************)
(* Instance of BlobCache for TLC: three pulls and two digests, so that two *)
(* pulls race for one blob while a third one fails or fetches another.     *)
(***************************************************************************)
EXTENDS BlobCache, TLC

MCSymmetry == Permutations(Puller) \cup Permutations(Digest)
=============================================================================
