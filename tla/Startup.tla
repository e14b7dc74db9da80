------------------------------- MODULE Startup -------------------------------
(***************************************************************************)
(* One dvm start, from the command line to the options Run is called with: *)
(* New, Start and startQEMU or startVZ of internal/app/app.go, the         *)
(* resolution of the three components (internal/component) and the part of *)
(* a pull before the blob is looked for in the cache (internal/oci/pull.go)*)
(*                                                                         *)
(* The registry is shared: somebody may move a tag at any time.  What is   *)
(* fetched by digest is what it was.  Below this machine lie BlobCache     *)
(* (Pull), QemuFetch (QemuPaths) and StateLock (Lock); behind it Lifecycle *)
(* and VzEngine.                                                           *)
(***************************************************************************)
EXTENDS LaunchConfig, OciSelect

CONSTANTS
    Flags,      \* the command lines
    Files,      \* the configuration files there may be, each a record
    Hosts,      \* the hosts: [os, arch, vz, hw]
    Artifact,   \* what a tag may name: [multi, entries], with one entry if not multi
    Form,       \* how a reference is written, see ParseRef
    Raw         \* the references that look like a raw image

\* What the flag parser and the YAML parser leave: switches are switches and lists are
\* lists, and a file sets nothing but fields there are.  An artifact is finite lists,
\* of layers with a size.
ASSUME FlagsAssumption ==
    \A f \in Flags : f.noPersist \in BOOLEAN /\ f.ports \in Seq(Range(f.ports))
ASSUME FilesAssumption ==
    \A f \in Files :
      /\ DOMAIN f \subseteq DOMAIN Default
      /\ "persist" \in DOMAIN f => f["persist"] \in BOOLEAN
      /\ "ports" \in DOMAIN f => f["ports"] \in Seq(Range(f["ports"]))
      /\ "accelPref" \in DOMAIN f => f["accelPref"] \in Seq(Range(f["accelPref"]))
ASSUME ArtifactAssumption ==
    \A a \in Artifact :
      /\ a.entries \in Seq(Range(a.entries))
      /\ a.multi \/ Len(a.entries) = 1
      /\ \A m \in Range(a.entries) :
           /\ m.layers \in Seq(Range(m.layers))
           /\ \A l \in Range(m.layers) : l.size \in Int

VARIABLES
    pc,         \* the launch's place
    host, flags, file,      \* what it was started with; file <<>> without one
    cfg,        \* Cfg of App
    engine,
    part,       \* the component being resolved, a position in Component
    tag,        \* what its tag names in the registry now
    named,      \* history: what it named when it was resolved
    art,        \* the descriptor in the launcher's hands
    entry,      \* the manifest chosen of an index
    layer,      \* the layer chosen of the manifest
    opts        \* the options given to Run

input == <<host, flags, file>>
pull  == <<tag, named, art, entry, layer>>
vars  == <<pc, input, cfg, engine, part, pull, opts>>

Nothing == [multi |-> FALSE, entries |-> <<>>]

Reference == References(cfg, engine)[Component[part]]
Layers == art.entries[entry].layers

\* A step that touches nothing but the place.
Goto(from, targets) ==
    /\ pc = from
    /\ pc' \in targets
    /\ UNCHANGED <<input, cfg, engine, part, pull, opts>>

-----------------------------------------------------------------------------
Init ==
    /\ pc = "new"
    /\ host \in Hosts /\ flags \in Flags
    /\ file = <<>>
    /\ cfg = Default
    /\ engine = "none"
    /\ part = 1
    /\ tag = Nothing /\ named = Nothing /\ art = Nothing
    /\ entry = 0 /\ layer = 0
    /\ opts = <<>>

\* LoadConfig: a path that was given, or a file that was found, must be readable and
\* parse; a URL must answer.
LoadConfig ==
    /\ pc = "new"
    /\ \E files \in SUBSET {SearchPath[i] : i \in DOMAIN SearchPath} :
         IF resolveConfigPath(flags.config, files) = ""
         THEN pc' = "merge" /\ UNCHANGED <<file, cfg>>
         ELSE \/ pc' = "failed" /\ UNCHANGED <<file, cfg>>
              \/ \E f \in Files : /\ file' = f
                                  /\ cfg' = Parse(f)
                                  /\ pc' = "merge"
    /\ UNCHANGED <<host, flags, engine, part, pull, opts>>

\* Mutant: what the file says is checked, not what comes out of the merge.
MergeUnchecked ==
    /\ pc = "merge"
    /\ cfg' = mergeFlags(cfg, flags)
    /\ pc' = IF Validate(cfg) /\ flags.engine \in {"", "auto", "qemu", "vz"}
             THEN "start" ELSE "failed"
    /\ UNCHANGED <<input, engine, part, pull, opts>>

\* Mutant: the file is read over the flags.
MergeFileLast ==
    /\ pc = "merge"
    /\ cfg' = LET merged == mergeFlags(Default, flags)
              IN  [x \in DOMAIN cfg |-> IF x \in DOMAIN file THEN file[x] ELSE merged[x]]
    /\ pc' = IF Validate(cfg') /\ flags.engine \in {"", "auto", "qemu", "vz"}
             THEN "start" ELSE "failed"
    /\ UNCHANGED <<input, engine, part, pull, opts>>

\* The rest of New.
Merge ==
    /\ pc = "merge"
    /\ cfg' = mergeFlags(cfg, flags)
    /\ pc' = IF Validate(cfg') /\ flags.engine \in {"", "auto", "qemu", "vz"}
             THEN "start" ELSE "failed"
    /\ UNCHANGED <<input, engine, part, pull, opts>>

\* Start, and the first checks of startQEMU and startVZ.
Start ==
    /\ pc = "start"
    /\ engine' = resolveEngine(flags.engine, cfg, host, Raw)
    /\ pc' = LET refs == References(cfg, engine')
             IN  IF \/ engine' = "vz" /\ ~host.vz
                    \/ \E c \in DOMAIN refs : refs[c] = ""
                 THEN "failed"
                 ELSE IF engine' = "vz" THEN "resolve" ELSE "qemu"
    /\ UNCHANGED <<input, cfg, part, pull, opts>>

\* qemuPaths: the directory given or EnsureQEMU's, with both binaries in it.
QemuPaths == Goto("qemu", {"resolve", "failed"})

\* The next component, or on with the launch.
Resolved ==
    /\ part' = IF part = Len(Component) THEN part ELSE part + 1
    /\ pc' = IF part = Len(Component) THEN "lock" ELSE "resolve"
    /\ tag' = Nothing /\ named' = Nothing /\ art' = Nothing
    /\ entry' = 0 /\ layer' = 0

\* Resolver.Resolve: a local file must be there, for the rest see Fetch.
Resolve ==
    /\ pc = "resolve"
    /\ \E exists \in BOOLEAN :
         \/ /\ ParseRef(Form[Reference], exists) = "local"
            /\ \/ Resolved
               \/ pc' = "failed" /\ UNCHANGED <<part, pull>>
         \/ /\ ParseRef(Form[Reference], exists) = "oci"
            /\ pc' = "tag"
            /\ tag' \in Artifact
            /\ UNCHANGED <<part, named, art, entry, layer>>
    /\ UNCHANGED <<input, cfg, engine, opts>>

\* repo.Resolve: from now on everything goes by digest.
ResolveTag ==
    /\ pc = "tag"
    /\ \/ /\ named' = tag /\ art' = tag
          /\ pc' = "platform"
       \/ /\ pc' = "failed"
          /\ UNCHANGED <<named, art>>
    /\ UNCHANGED <<input, cfg, engine, part, tag, entry, layer, opts>>

\* Mutant: the manifest for the host is taken.
PlatformOfHost ==
    /\ pc = "platform"
    /\ LET i == IF art.multi THEN selectPlatformManifest(art.entries, host.arch) ELSE 1
       IN  /\ entry' = i
           /\ pc' \in IF i = 0 THEN {"failed"} ELSE {"manifest", "failed"}
    /\ UNCHANGED <<input, cfg, engine, part, tag, named, art, layer, opts>>

\* resolvePlatform: an index is fetched and searched, a manifest passes.
ResolvePlatform ==
    /\ pc = "platform"
    /\ LET i == IF art.multi
                THEN selectPlatformManifest(art.entries, ociArch(guestArch(cfg, host)))
                ELSE 1
       IN  /\ entry' = i
           /\ pc' \in IF i = 0 THEN {"failed"} ELSE {"manifest", "failed"}
    /\ UNCHANGED <<input, cfg, engine, part, tag, named, art, layer, opts>>

\* Mutant: the manifest is fetched by the reference, which is resolved again.
FetchManifestByTag ==
    /\ pc = "manifest"
    /\ pc' \in {"select", "failed"}
    /\ art' = IF entry \in DOMAIN tag.entries THEN tag ELSE art
    /\ UNCHANGED <<input, cfg, engine, part, tag, named, entry, layer, opts>>

FetchManifest == Goto("manifest", {"select", "failed"})

SelectLayer ==
    /\ pc = "select"
    /\ layer' = selectPrimaryLayer(Component[part], Layers)
    /\ pc' = IF layer' = 0 THEN "failed" ELSE "sidecar"
    /\ UNCHANGED <<input, cfg, engine, part, tag, named, art, entry, opts>>

\* verifySidecar: a sidecar that cannot be fetched, or is none, is passed over.
VerifySidecar ==
    /\ pc = "sidecar"
    /\ LET s == Sidecar(Component[part], Layers, layer)
       IN  \/ s = 0 /\ pc' = "pull"
           \/ /\ s # 0
              /\ pc' = IF Layers[s].sum \in {"", Layers[layer].digest}
                       THEN "pull" ELSE "failed"
           \/ s # 0 /\ pc' = "unchecked"
    /\ UNCHANGED <<input, cfg, engine, part, pull, opts>>

\* The cache's part of Fetch.
Pull ==
    /\ pc \in {"pull", "unchecked"}
    /\ \/ Resolved
       \/ pc' = "failed" /\ UNCHANGED <<part, pull>>
    /\ UNCHANGED <<input, cfg, engine, opts>>

\* Somebody pushes under the tag of the component.
Push ==
    /\ pc \in {"tag", "platform", "manifest", "select"}
    /\ tag' \in Artifact
    /\ UNCHANGED <<pc, input, cfg, engine, part, named, art, entry, layer, opts>>

\* NewState and AcquireLock; only startQEMU looks at the ports before it starts.
Lock == Goto("lock", {IF engine = "qemu" THEN "ports" ELSE "seed", "failed"})

CheckPortsFree == Goto("ports", {"seed", "failed"})

\* buildSeed, which reads a key (startVZ writes the image too), and the options.
Options ==
    [engine |-> engine, memory |-> cfg.memory, cpus |-> cfg.cpus,
     persist |-> cfg.persist, forwards |-> portForwards(cfg),
     probes |-> IF engine = "vz" THEN readinessGuestPorts(cfg) ELSE cfg.probes,
     seed |-> buildSeed(cfg), ip |-> KernelIP(cfg, engine),
     binary |-> IF engine = "vz" THEN "none" ELSE SystemBinaryName(guestArch(cfg, host)),
     accel |-> IF engine = "vz" THEN <<>> ELSE Candidates(cfg, host)]

CallRun ==
    /\ pc = "seed"
    /\ \/ /\ \/ buildSeed(cfg).kind = "image"
             \/ /\ buildSeed(cfg).kind = "generated"
                /\ cfg.sshKey # "" \/ engine = "vz"
          /\ pc' = "failed"
          /\ UNCHANGED opts
       \/ /\ pc' = "run"
          /\ opts' = Options
    /\ UNCHANGED <<input, cfg, engine, part, pull>>

Fetch == ResolveTag \/ ResolvePlatform \/ FetchManifest \/ SelectLayer
         \/ VerifySidecar \/ Pull
Next == \/ LoadConfig \/ Merge \/ Start \/ QemuPaths \/ Resolve \/ Fetch \/ Push
        \/ Lock \/ CheckPortsFree \/ CallRun

Spec == Init /\ [][Next]_vars

-----------------------------------------------------------------------------
\* The launch's places; behind New the configuration is a valid one.
TypeOK ==
    /\ pc \in {"new", "merge", "start", "qemu", "resolve", "tag", "platform", "manifest",
               "select", "sidecar", "unchecked", "pull", "lock", "ports", "seed", "run",
               "failed"}
    /\ host \in Hosts /\ flags \in Flags
    /\ DOMAIN cfg = DOMAIN Default
    /\ engine \in {"none", "qemu", "vz"}
    /\ part \in DOMAIN Component
    /\ pc \notin {"new", "merge", "failed"} => Validate(cfg)

GivenByFlag(x) ==
    \/ x \in TextFlag /\ flags[x] # ""
    \/ x \in NumberFlag /\ flags[x] > 0

\* "built-in defaults", "the config file", "command-line flags", of which the later
\* override the earlier (src/README.md:242): what Run gets is the value of the last
\* layer that gives one, whatever else the others hold.  The accelerator fallback is
\* left to FileFallbackHonoured below, and the lists of forwards are joined.
EffectiveConfig ==
    pc = "run" =>
        /\ \A x \in DOMAIN cfg \ {"persist", "ports", "accelFallback"} :
              cfg[x] = IF GivenByFlag(x) THEN flags[x]
                       ELSE IF x \in DOMAIN file THEN file[x] ELSE Default[x]
        /\ opts.persist <=>
              ~flags.noPersist /\ ("persist" \in DOMAIN file => file.persist)
        /\ opts.memory = cfg.memory /\ opts.cpus = cfg.cpus

\* No port is opened to the network unless the file, for which there is no flag,
\* allows it, wherever the address to bind comes from (config.go:244).
NoPublicBind ==
    pc = "run" =>
        \A i \in DOMAIN opts.forwards :
            opts.forwards[i].ip = "0.0.0.0" => "public" \in DOMAIN file /\ file.public

\* The payload of a layer list, without the code's loops: the first layer of the
\* component's own type, or else the first of the largest that are no sidecars.
IsPayload(name, layers, i) ==
    LET exact == {j \in DOMAIN layers : layers[j].type \in expectedMediaTypes[name]}
        plain == {j \in DOMAIN layers : ~isSidecar(layers[j])}
    IN  IF exact # {} THEN i \in exact /\ \A j \in exact : i <= j
        ELSE /\ i \in plain
             /\ \A j \in plain : \/ layers[j].size < layers[i].size
                                 \/ layers[j].size = layers[i].size /\ i <= j

\* Of several manifests it is the one for the QEMU that will run the guest.
FitsGuest ==
    named.multi =>
        /\ named.entries[entry].os \in {"", "linux"}
        /\ named.entries[entry].arch =
             IF SystemBinaryName(guestArch(cfg, host)) = "qemu-system-aarch64"
             THEN "arm64" ELSE "amd64"

\* The checksums titled like layer k.
SumsOf(name, layers, k) ==
    {i \in DOMAIN layers : /\ layers[i].title = Title(name, layers[k]).title
                           /\ layers[i].ext = ".sha256"}

\* Of those of the chosen layer only one behind the first may contradict it.
ChecksumAgrees ==
    LET sums == SumsOf(Component[part], Layers, layer)
    IN  \A i \in sums : Layers[i].sum \notin {"", Layers[layer].digest}
                       => Layers[layer].ext # "" \/ \E j \in sums : j < i

\* What is pulled is one layer of what the tag named at one moment, though the tag
\* may move between the requests; of several manifests the one for the
\* architecture of the QEMU that will run it; the payload and no sidecar; and no
\* checksum that was read contradicts it.
PicksFit ==
    pc \in {"pull", "unchecked"} =>
        /\ art = named
        /\ FitsGuest
        /\ IsPayload(Component[part], Layers, layer)
        /\ pc = "pull" => ChecksumAgrees

\* The options fit the engine.  A readiness port stands for the same guest port with
\* either one: vz probes the one behind the forward QEMU would be probed through, as
\* long as no two forwards have one host port.  QEMU has always an accelerator to
\* try (accel.go:22), none twice, and the emulator in the end unless fallback is off.
OptionsFitEngine ==
    pc = "run" =>
        /\ /\ opts.engine = "vz"
           /\ \A i, j \in DOMAIN opts.forwards :
                 opts.forwards[i].host = opts.forwards[j].host => i = j
           => \A i \in DOMAIN opts.forwards, k \in DOMAIN opts.probes :
                 cfg.probes[k] = opts.forwards[i].host
                 => opts.probes[k] = opts.forwards[i].guest
        /\ opts.engine = "qemu" =>
              /\ opts.accel # <<>>
              /\ \A i, j \in DOMAIN opts.accel : opts.accel[i] = opts.accel[j] => i = j
              /\ cfg.accelFallback => \E i \in DOMAIN opts.accel : opts.accel[i] = "tcg"

\* "Any flag can come from a YAML config file; CLI flags override it."
\* (src/cmd/dvm/main.go:35): without --no-accel-fallback the file decides.
FileFallbackHonoured ==
    pc = "run" /\ ~flags.noAccelFallback /\ "accelFallback" \in DOMAIN file
    => cfg.accelFallback = file.accelFallback
=============================================================================
