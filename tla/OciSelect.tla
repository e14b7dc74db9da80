------------------------------ MODULE OciSelect ------------------------------
(***************************************************************************)
(* What is taken from an OCI artifact: the choice of a manifest for an     *)
(* architecture, of the payload among its layers and of the checksum that  *)
(* belongs to it (internal/oci/manifest.go, verifySidecar of pull.go), and *)
(* the classification of a component reference (internal/component).       *)
(*                                                                         *)
(* An index is a sequence of [arch, os, layers], a manifest a sequence of  *)
(* [type, title, ext, size, digest]: the media type, the title annotation  *)
(* without and the ending it has ("" without a title), and for a checksum  *)
(* sidecar in "sum" the digest it names, "" if there is nothing like one   *)
(* in it.  A loop over a list is a function of the elements looked at.     *)
(***************************************************************************)
EXTENDS Naturals, Sequences, SequencesExt

expectedMediaTypes ==
    [kernel |-> {"vmlinux", "kernel"}, initrd |-> {"initrd"}, rootfs |-> {"qcow2", "ext4"}]

isSidecar(l) ==
    \/ l.type \in {"text", "provenance"}
    \/ l.ext \in {".sha256", ".provenance.json"}

\* The largest layer that is no sidecar: the loop keeps the best so far.
LargestPayload(layers) ==
    LET best[i \in 0 .. Len(layers)] ==
          IF i = 0 THEN 0
          ELSE IF isSidecar(layers[i]) THEN best[i - 1]
          ELSE IF best[i - 1] = 0 \/ layers[i].size > layers[best[i - 1]].size THEN i
          ELSE best[i - 1]
    IN  best[Len(layers)]

\* Mutant: a sidecar may be the largest layer.
selectLargest(name, layers) ==
    LET best[i \in 0 .. Len(layers)] ==
          IF i = 0 THEN 0
          ELSE IF best[i - 1] = 0 \/ layers[i].size > layers[best[i - 1]].size THEN i
          ELSE best[i - 1]
    IN  best[Len(layers)]

\* An exact media type comes before size; 0 if there is no payload at all.
selectPrimaryLayer(name, layers) ==
    LET exact == SelectInSeq(layers, LAMBDA l : l.type \in expectedMediaTypes[name])
    IN  IF exact # 0 THEN exact ELSE LargestPayload(layers)

\* Entries without a platform (arch "") are passed over.
selectPlatformManifest(index, arch) ==
    SelectInSeq(index, LAMBDA m : m.arch = arch /\ m.os \in {"", "linux"})

\* The title a layer is known by; a component's name where it has none.
Title(name, l) == IF l.title = "" /\ l.ext = "" THEN [title |-> name, ext |-> ""]
                  ELSE [title |-> l.title, ext |-> l.ext]

\* The layer verifySidecar reads: the first one titled like the payload with
\* ".sha256" behind.  The title of a sidecar has no sidecar of its own here.
Sidecar(name, layers, i) ==
    LET t == Title(name, layers[i])
    IN  IF t.ext # "" THEN 0
        ELSE SelectInSeq(layers, LAMBDA l : l.title = t.title /\ l.ext = ".sha256")

\* ParseRef: form is how the reference is written ("oci", "file", "path", "tagged",
\* "bare"), exists whether there is such a file now.
ParseRef(form, exists) ==
    CASE form = "oci"                   -> "oci"
      [] form \in {"file", "path"}      -> "local"
      [] form = "tagged" /\ ~exists     -> "oci"
      [] OTHER                          -> "local"
=============================================================================
