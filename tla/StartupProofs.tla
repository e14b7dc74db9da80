---------------------------- MODULE StartupProofs ----------------------------
(* Startup for every set of command lines, files, hosts and artifacts. *)
EXTENDS SelectionProofs

\* What LoadConfig returns: a file over the defaults, or those alone.
Loaded(c) == c = Parse(file) \/ (file = <<>> /\ c = Default)

\* The configuration at each place, from the layers it is made of.
Layered ==
    /\ file = <<>> \/ file \in Files
    /\ pc = "new" => file = <<>> /\ cfg = Default
    /\ pc = "merge" => Loaded(cfg)
    /\ pc \notin {"new", "merge", "failed"} => \E c : Loaded(c) /\ cfg = mergeFlags(c, flags)
    /\ pc = "run" => opts = Options

\* What is in the launcher's hands is what the tag named when it was resolved.
Pinned ==
    pc \in {"platform", "manifest", "select", "sidecar", "unchecked", "pull"} => art = named

Launch == TypeOK /\ Layered /\ Pinned

-----------------------------------------------------------------------------
\* Parsing and merging leave the record's fields as they are.
LEMMA ParsedFields == ASSUME NEW f PROVE DOMAIN Parse(f) = DOMAIN Default
  BY DEF Parse

LEMMA LoadedFields ==
    ASSUME NEW c, Loaded(c)
    PROVE  /\ DOMAIN c = DOMAIN Default
           /\ \A x \in DOMAIN c : c[x] = IF x \in DOMAIN file THEN file[x] ELSE Default[x]
  <1>1. CASE c = Parse(file)
    BY <1>1 DEF Parse
  <1>2. CASE file = <<>> /\ c = Default
    <2>1. \A x : x \notin DOMAIN file
      BY <1>2
    <2> QED BY <1>2, <2>1
  <1> QED BY <1>1, <1>2 DEF Loaded

LEMMA MergedFields ==
    ASSUME NEW c, NEW f PROVE DOMAIN mergeFlags(c, f) = DOMAIN c
  BY DEF mergeFlags

\* The engine is one of the two (app.go:344).
LEMMA EngineIsOne ==
    ASSUME NEW f, NEW c, NEW h PROVE resolveEngine(f, c, h, Raw) \in {"qemu", "vz"}
  BY DEF resolveEngine

-----------------------------------------------------------------------------
LEMMA LaunchInit == Init => Launch
  BY DEF Init, Launch, TypeOK, Layered, Pinned, input, Component

\* A step to another place that is neither the start, the merge nor the call of Run.
LEMMA GotoKeeps ==
    ASSUME Launch, NEW from, NEW targets, Goto(from, targets),
           from \notin {"new", "merge", "failed"},
           targets \subseteq {"resolve", "select", "ports", "seed", "failed"},
           "select" \in targets => from = "manifest"
    PROVE  Launch'
  <1>1. TypeOK'
    BY DEF Launch, TypeOK, Goto, input, pull, Validate
  <1>2. Layered'
    <2>1. /\ pc \notin {"new", "merge", "failed"} /\ pc' \notin {"new", "merge", "run"}
          /\ UNCHANGED <<file, flags, cfg>>
      BY DEF Goto, input
    <2> QED BY <2>1 DEF Launch, Layered, Loaded
  <1>3. Pinned'
    BY DEF Launch, Pinned, Goto, input, pull
  <1> QED BY <1>1, <1>2, <1>3 DEF Launch

\* The end of a component's resolution, wherever it comes from.
LEMMA ResolvedKeeps ==
    ASSUME Launch, pc \notin {"new", "merge", "failed"},
           Resolved \/ (pc' = "failed" /\ UNCHANGED <<part, pull>>),
           UNCHANGED <<input, cfg, engine, opts>>
    PROVE  Launch'
  <1>1. pc' \in {"resolve", "lock", "failed"}
    BY DEF Resolved
  <1>2. part' \in DOMAIN Component
    BY DEF Resolved, Launch, TypeOK, Component
  <1>3. TypeOK'
    BY <1>1, <1>2 DEF Launch, TypeOK, input, Validate
  <1>4. Layered'
    BY <1>1 DEF Launch, Layered, Loaded, input
  <1>5. Pinned'
    BY <1>1 DEF Pinned
  <1> QED BY <1>3, <1>4, <1>5 DEF Launch

LEMMA LaunchNext == Launch /\ [Next]_vars => Launch'
  <1> SUFFICES ASSUME Launch, [Next]_vars PROVE Launch'
    OBVIOUS
  <1>1. CASE LoadConfig
    <2>1. /\ pc = "new" /\ pc' \in {"merge", "failed"}
          /\ UNCHANGED <<host, flags, engine, part, pull, opts>>
          /\ \/ UNCHANGED <<file, cfg>>
             \/ \E f \in Files : file' = f /\ cfg' = Parse(f)
      BY <1>1 DEF LoadConfig
    <2>2. DOMAIN cfg' = DOMAIN Default
      BY <2>1, ParsedFields DEF Launch, TypeOK
    <2>3. TypeOK'
      BY <2>1, <2>2 DEF Launch, TypeOK, pull
    <2>4. Layered'
      BY <2>1 DEF Launch, Layered, Loaded
    <2>5. Pinned'
      BY <2>1 DEF Pinned
    <2> QED BY <2>3, <2>4, <2>5 DEF Launch
  <1>2. CASE Merge
    <2>1. /\ pc = "merge" /\ pc' \in {"start", "failed"}
          /\ cfg' = mergeFlags(cfg, flags)
          /\ pc' = "start" => Validate(cfg')
          /\ UNCHANGED <<input, engine, part, pull, opts>>
      BY <1>2 DEF Merge
    <2>2. DOMAIN cfg' = DOMAIN Default
      BY <2>1, MergedFields DEF Launch, TypeOK
    <2>3. TypeOK'
      BY <2>1, <2>2 DEF Launch, TypeOK, input, pull, Validate
    <2>4. Layered'
      BY <2>1 DEF Launch, Layered, Loaded, input
    <2>5. Pinned'
      BY <2>1 DEF Pinned
    <2> QED BY <2>3, <2>4, <2>5 DEF Launch
  <1>3. CASE Start
    <2>1. /\ pc = "start" /\ pc' \in {"failed", "resolve", "qemu"}
          /\ UNCHANGED <<input, cfg, part, pull, opts>>
      BY <1>3 DEF Start
    <2>2. engine' \in {"qemu", "vz"}
      BY <1>3, EngineIsOne DEF Start
    <2>3. TypeOK'
      BY <2>1, <2>2 DEF Launch, TypeOK, input, pull, Validate
    <2>4. Layered'
      BY <2>1 DEF Launch, Layered, Loaded, input
    <2>5. Pinned'
      BY <2>1 DEF Pinned
    <2> QED BY <2>3, <2>4, <2>5 DEF Launch
  <1>4. CASE QemuPaths
    BY <1>4, GotoKeeps DEF QemuPaths
  <1>5. CASE Resolve
    <2>1. CASE Resolved \/ (pc' = "failed" /\ UNCHANGED <<part, pull>>)
      BY <1>5, <2>1, ResolvedKeeps DEF Resolve
    <2>2. CASE /\ pc' = "tag"
               /\ UNCHANGED <<part, named, art, entry, layer>>
      <3>1. pc = "resolve" /\ UNCHANGED <<input, cfg, engine, opts>>
        BY <1>5 DEF Resolve
      <3>2. TypeOK'
        BY <2>2, <3>1 DEF Launch, TypeOK, input, Validate
      <3>3. Layered'
        BY <2>2, <3>1 DEF Launch, Layered, Loaded, input
      <3>4. Pinned'
        BY <2>2 DEF Pinned
      <3> QED BY <3>2, <3>3, <3>4 DEF Launch
    <2> QED BY <1>5, <2>1, <2>2 DEF Resolve
  <1>6. CASE Fetch
    <2>1. CASE ResolveTag
      <3>1. TypeOK'
        BY <2>1 DEF ResolveTag, Launch, TypeOK, input, Validate
      <3>2. Layered'
        BY <2>1 DEF ResolveTag, Launch, Layered, Loaded, input
      <3>3. Pinned'
        BY <2>1 DEF ResolveTag, Pinned
      <3> QED BY <3>1, <3>2, <3>3 DEF Launch
    <2>2. CASE ResolvePlatform
      <3>1. /\ pc = "platform" /\ pc' \in {"manifest", "failed"}
            /\ UNCHANGED <<input, cfg, engine, part, tag, named, art, layer, opts>>
        BY <2>2 DEF ResolvePlatform
      <3>2. TypeOK'
        BY <3>1 DEF Launch, TypeOK, input, Validate
      <3>3. Layered'
        BY <3>1 DEF Launch, Layered, Loaded, input
      <3>4. Pinned'
        BY <3>1 DEF Launch, Pinned
      <3> QED BY <3>2, <3>3, <3>4 DEF Launch
    <2>3. CASE FetchManifest
      BY <2>3, GotoKeeps DEF FetchManifest
    <2>4. CASE SelectLayer
      <3>1. /\ pc = "select" /\ pc' \in {"sidecar", "failed"}
            /\ UNCHANGED <<input, cfg, engine, part, tag, named, art, entry, opts>>
        BY <2>4 DEF SelectLayer
      <3>2. TypeOK'
        BY <3>1 DEF Launch, TypeOK, input, Validate
      <3>3. Layered'
        BY <3>1 DEF Launch, Layered, Loaded, input
      <3>4. Pinned'
        BY <3>1 DEF Launch, Pinned
      <3> QED BY <3>2, <3>3, <3>4 DEF Launch
    <2>5. CASE VerifySidecar
      <3>1. /\ pc = "sidecar" /\ pc' \in {"pull", "unchecked", "failed"}
            /\ UNCHANGED <<input, cfg, engine, part, pull, opts>>
        BY <2>5 DEF VerifySidecar
      <3>2. TypeOK'
        BY <3>1 DEF Launch, TypeOK, input, pull, Validate
      <3>3. Layered'
        BY <3>1 DEF Launch, Layered, Loaded, input
      <3>4. Pinned'
        BY <3>1 DEF Launch, Pinned, pull
      <3> QED BY <3>2, <3>3, <3>4 DEF Launch
    <2>6. CASE Pull
      BY <2>6, ResolvedKeeps DEF Pull
    <2> QED BY <1>6, <2>1, <2>2, <2>3, <2>4, <2>5, <2>6 DEF Fetch
  <1>7. CASE Push
    <2>1. /\ pc \in {"tag", "platform", "manifest", "select"}
          /\ UNCHANGED <<pc, input, cfg, engine, part, named, art, entry, layer, opts>>
      BY <1>7 DEF Push
    <2>2. TypeOK'
      BY <2>1 DEF Launch, TypeOK, input, Validate
    <2>3. Layered'
      BY <2>1 DEF Launch, Layered, Loaded, input
    <2>4. Pinned'
      BY <2>1 DEF Launch, Pinned
    <2> QED BY <2>2, <2>3, <2>4 DEF Launch
  <1>8. CASE Lock
    BY <1>8, GotoKeeps DEF Lock
  <1>9. CASE CheckPortsFree
    BY <1>9, GotoKeeps DEF CheckPortsFree
  <1>10. CASE CallRun
    <2>1. /\ pc = "seed" /\ pc' \in {"run", "failed"}
          /\ UNCHANGED <<input, cfg, engine, part, pull>>
          /\ pc' = "run" => opts' = Options
      BY <1>10 DEF CallRun
    <2>2. TypeOK'
      BY <2>1 DEF Launch, TypeOK, input, pull, Validate
    <2>3. Options' = Options
      BY <2>1 DEF Options, input
    <2>4. Layered'
      BY <2>1, <2>3 DEF Launch, Layered, Loaded, input
    <2>5. Pinned'
      BY <2>1 DEF Pinned
    <2> QED BY <2>2, <2>4, <2>5 DEF Launch
  <1>11. CASE UNCHANGED vars
    <2>1. Options' = Options
      BY <1>11 DEF vars, Options, input
    <2> QED BY <1>11, <2>1
            DEF vars, input, pull, Launch, TypeOK, Layered, Loaded, Pinned, Validate
  <1> QED
    BY <1>1, <1>2, <1>3, <1>4, <1>5, <1>6, <1>7, <1>8, <1>9, <1>10, <1>11 DEF Next

LEMMA LaunchAlways == Spec => []Launch
  BY LaunchInit, LaunchNext, PTL DEF Spec

-----------------------------------------------------------------------------
\* The places of a launch, and a configuration that passed Validate after them
\* (app.go:96).
THEOREM StartupTypeCorrect == Spec => []TypeOK
  <1>1. Launch => TypeOK
    BY DEF Launch
  <1> QED BY <1>1, LaunchAlways, PTL

\* The layers of the configuration hold whatever flags and files there are
\* (app.go:110).
THEOREM ConfigurationIsLayered == Spec => []EffectiveConfig
  <1>1. Launch => EffectiveConfig
    <2> SUFFICES ASSUME Launch, pc = "run" PROVE EffectiveConfig
      BY DEF EffectiveConfig
    <2>c. PICK c : Loaded(c) /\ cfg = mergeFlags(c, flags)
      BY DEF Launch, Layered
    <2>1. opts = Options
      BY DEF Launch, Layered
    <2>2. DOMAIN cfg = DOMAIN Default
      BY DEF Launch, TypeOK
    <2>3. ASSUME NEW x \in DOMAIN cfg \ {"persist", "ports", "accelFallback"}
          PROVE  cfg[x] = IF GivenByFlag(x) THEN flags[x]
                          ELSE IF x \in DOMAIN file THEN file[x] ELSE Default[x]
      <3>1. x \in DOMAIN c
        BY <2>c, MergedFields
      <3>2. c[x] = IF x \in DOMAIN file THEN file[x] ELSE Default[x]
        BY <2>c, <3>1, LoadedFields
      <3>3. mergeFlags(c, flags)[x] = IF GivenByFlag(x) THEN flags[x] ELSE c[x]
        BY <3>1 DEF mergeFlags, GivenByFlag, TextFlag, NumberFlag
      <3> QED BY <2>c, <3>2, <3>3
    <2>4. opts.persist <=>
             ~flags.noPersist /\ ("persist" \in DOMAIN file => file.persist)
      <3>1. "persist" \in DOMAIN Default /\ Default["persist"] = TRUE
        BY DEF Default
      <3>2. c["persist"] = IF "persist" \in DOMAIN file THEN file["persist"] ELSE TRUE
        BY <2>c, <3>1, LoadedFields
      <3>3. mergeFlags(c, flags)["persist"] =
              IF flags.noPersist THEN FALSE ELSE c["persist"]
        BY <2>c, <3>1, LoadedFields DEF mergeFlags, TextFlag, NumberFlag
      <3>4. opts.persist = cfg["persist"]
        BY <2>1 DEF Options
      <3>5. flags.noPersist \in BOOLEAN
        BY FlagsAssumption DEF Launch, TypeOK
      <3>6. "persist" \in DOMAIN file => file["persist"] \in BOOLEAN
        BY FilesAssumption DEF Launch, Layered
      <3> QED BY <2>c, <3>2, <3>3, <3>4, <3>5, <3>6
    <2>5. opts.memory = cfg.memory /\ opts.cpus = cfg.cpus
      BY <2>1 DEF Options
    <2> QED BY <2>3, <2>4, <2>5 DEF EffectiveConfig
  <1> QED BY <1>1, LaunchAlways, PTL

\* 0.0.0.0 is bound only with the file's leave (config.go:244).
THEOREM NoUnaskedPublicBind == Spec => []NoPublicBind
  <1>1. Launch => NoPublicBind
    <2> SUFFICES ASSUME Launch, pc = "run", NEW i \in DOMAIN opts.forwards,
                        opts.forwards[i].ip = "0.0.0.0"
                 PROVE  "public" \in DOMAIN file /\ file.public
      BY DEF NoPublicBind
    <2>c. PICK c : Loaded(c) /\ cfg = mergeFlags(c, flags)
      BY DEF Launch, Layered
    <2>1. opts.forwards = portForwards(cfg)
      BY DEF Launch, Layered, Options
    <2>2. cfg.bind = "0.0.0.0"
      BY <2>1, ForwardsBind
    <2>3. cfg.public
      BY <2>2 DEF Launch, TypeOK, Validate
    <2>4. "public" \in DOMAIN Default /\ Default["public"] = FALSE
      BY DEF Default
    <2>5. mergeFlags(c, flags)["public"] = c["public"]
      BY <2>c, <2>4, LoadedFields DEF mergeFlags, TextFlag, NumberFlag
    <2>6. c["public"] = IF "public" \in DOMAIN file THEN file["public"] ELSE FALSE
      BY <2>c, <2>4, LoadedFields
    <2> QED BY <2>c, <2>3, <2>5, <2>6
  <1> QED BY <1>1, LaunchAlways, PTL

\* Everything of a pull after repo.Resolve is about what the tag named then
\* (pull.go:82).
THEOREM PulledFromOneMoment == Spec => []Pinned
  <1>1. Launch => Pinned
    BY DEF Launch
  <1> QED BY <1>1, LaunchAlways, PTL
-----------------------------------------------------------------------------
\* Everything a launcher has in its hands is what somebody pushed.
Pushed ==
    /\ pc = "tag" => tag \in Artifact
    /\ pc \in {"platform", "manifest", "select", "sidecar", "unchecked", "pull"} =>
          named \in Artifact

\* The choices made so far fit.
Chosen ==
    /\ pc \in {"manifest", "select", "sidecar", "unchecked", "pull"} =>
          entry \in DOMAIN named.entries /\ FitsGuest
    /\ pc \in {"sidecar", "unchecked", "pull"} => IsPayload(Component[part], Layers, layer)
    /\ pc = "pull" => ChecksumAgrees

Picked == Pushed /\ Chosen

\* Every step keeps the choices, since none of them is made twice and a push
\* changes nothing but what the tag names.
LEMMA PickedNext ==
    ASSUME Launch, Picked, [Next]_vars PROVE Picked'
  <1> USE DEF Picked, Pushed
  <1>s. ASSUME UNCHANGED <<host, cfg, named, entry>> PROVE FitsGuest' = FitsGuest
    BY <1>s DEF FitsGuest
  <1>c. ASSUME UNCHANGED <<part, art, entry, layer>>
        PROVE  /\ ChecksumAgrees' = ChecksumAgrees
               /\ IsPayload(Component[part], Layers, layer)'
                    = IsPayload(Component[part], Layers, layer)
    BY <1>c DEF ChecksumAgrees, Layers
  <1>1. CASE LoadConfig
    BY <1>1 DEF LoadConfig, Chosen
  <1>2. CASE Merge
    BY <1>2 DEF Merge, Chosen
  <1>3. CASE Start
    BY <1>3 DEF Start, Chosen
  <1>4. CASE QemuPaths \/ Lock \/ CheckPortsFree
    BY <1>4 DEF QemuPaths, Lock, CheckPortsFree, Goto, Chosen
  <1>5. CASE Resolve
    BY <1>5 DEF Resolve, Resolved, Chosen
  <1>6. CASE ResolveTag
    BY <1>6 DEF ResolveTag, Chosen
  <1>7. CASE ResolvePlatform
    <2>1. pc = "platform" /\ art = named /\ named \in Artifact
      BY <1>7 DEF ResolvePlatform, Launch, Pinned
    <2>2. /\ pc' \in {"manifest", "failed"} /\ (pc' = "manifest" => entry' # 0)
          /\ UNCHANGED <<host, cfg, named>>
          /\ entry' = IF art.multi
                      THEN selectPlatformManifest(art.entries, ociArch(guestArch(cfg, host)))
                      ELSE 1
      BY <1>7 DEF ResolvePlatform, input
    <2>3. ASSUME pc' = "manifest" PROVE entry' \in DOMAIN named.entries /\ FitsGuest'
      <3>1. named.entries \in Seq(Range(named.entries))
        BY <2>1, ArtifactAssumption
      <3>2. CASE named.multi
        <4>1. entry' = selectPlatformManifest(named.entries, ociArch(guestArch(cfg, host)))
          BY <2>1, <2>2, <3>2
        <4>2. entry' # 0
          BY <2>2, <2>3
        <4>3. /\ entry' \in DOMAIN named.entries
              /\ named.entries[entry'].arch = ociArch(guestArch(cfg, host))
              /\ named.entries[entry'].os \in {"", "linux"}
          BY <3>1, <4>1, <4>2, PlatformFits
        <4> QED BY <2>2, <4>3, OneArchitecture DEF FitsGuest
      <3>3. CASE ~named.multi
        <4>1. entry' = 1 /\ Len(named.entries) = 1
          BY <2>1, <2>2, <3>3, ArtifactAssumption
        <4>2. DOMAIN named.entries = 1 .. 1
          BY <3>1, <4>1
        <4>3. entry' \in DOMAIN named.entries
          BY <4>1, <4>2
        <4> QED BY <2>2, <3>3, <4>3 DEF FitsGuest
      <3> QED BY <3>2, <3>3
    <2> QED BY <2>1, <2>2, <2>3 DEF Chosen
  <1>8. CASE FetchManifest
    BY <1>8, <1>s DEF FetchManifest, Goto, input, pull, Chosen
  <1>9. CASE SelectLayer
    <2>1. /\ pc = "select" /\ pc' \in {"sidecar", "failed"}
          /\ UNCHANGED <<input, cfg, engine, part, tag, named, art, entry, opts>>
          /\ layer' = selectPrimaryLayer(Component[part], Layers)
          /\ pc' = "sidecar" => layer' # 0
      BY <1>9 DEF SelectLayer
    <2>2. art = named /\ named \in Artifact /\ entry \in DOMAIN named.entries
      BY <2>1 DEF Launch, Pinned, Chosen
    <2>3. /\ Layers \in Seq(Range(Layers))
          /\ \A j \in 1 .. Len(Layers) : Layers[j].size \in Int
      <3>1. named.entries[entry] \in Range(named.entries)
        BY <2>2 DEF Range
      <3>2. /\ Layers \in Seq(Range(Layers))
            /\ \A l \in Range(Layers) : l.size \in Int
        BY <2>2, <3>1, ArtifactAssumption DEF Layers
      <3>3. \A j \in 1 .. Len(Layers) : Layers[j] \in Range(Layers)
        BY <3>2 DEF Range
      <3> QED BY <3>2, <3>3
    <2>4. ASSUME pc' = "sidecar" PROVE IsPayload(Component[part], Layers, layer)'
      <3>1. IsPayload(Component[part], Layers, selectPrimaryLayer(Component[part], Layers))
        BY <2>1, <2>3, <2>4, PayloadIsPicked
      <3>2. Layers' = Layers /\ part' = part
        BY <2>1 DEF Layers
      <3> QED BY <2>1, <3>1, <3>2 DEF IsPayload
    <2> QED BY <2>1, <2>4, <1>s DEF input, Chosen
  <1>10. CASE VerifySidecar
    <2>1. /\ pc = "sidecar" /\ pc' \in {"pull", "unchecked", "failed"}
          /\ UNCHANGED <<input, cfg, part, pull>>
      BY <1>10 DEF VerifySidecar
    <2>2. art = named /\ named \in Artifact /\ entry \in DOMAIN named.entries
      BY <2>1 DEF Launch, Pinned, Chosen
    <2>3. ASSUME pc' = "pull" PROVE ChecksumAgrees
      <3> DEFINE s == Sidecar(Component[part], Layers, layer)
                 sums == SumsOf(Component[part], Layers, layer)
      <3>1. Layers \in Seq(Range(Layers))
        BY <2>2, ArtifactAssumption DEF Layers, Range
      <3>2. s = 0 \/ (s # 0 /\ Layers[s].sum \in {"", Layers[layer].digest})
        BY <1>10, <2>3 DEF VerifySidecar
      <3>3. ASSUME Layers[layer].ext = "", NEW i \in sums,
                   Layers[i].sum \notin {"", Layers[layer].digest}
            PROVE  \E j \in sums : j < i
        <4>1. sums \subseteq Int /\ s # 0 /\ s \in sums /\ s <= i
          BY <3>1, <3>3, SidecarIsFirst
        <4>2. s # i
          BY <3>2, <3>3, <4>1
        <4> HIDE DEF s, sums
        <4> QED BY <4>1, <4>2
      <3> HIDE DEF s
      <3> QED BY <3>3 DEF ChecksumAgrees
    <2> QED BY <2>1, <2>3, <1>s, <1>c DEF input, pull, Chosen
  <1>11. CASE Pull
    BY <1>11 DEF Pull, Resolved, Chosen
  <1>12. CASE Push
    BY <1>12, <1>s, <1>c DEF Push, input, Chosen
  <1>13. CASE CallRun
    BY <1>13 DEF CallRun, Chosen
  <1>14. CASE UNCHANGED vars
    BY <1>14, <1>s, <1>c DEF vars, input, pull, Chosen
  <1> QED
    BY <1>1, <1>2, <1>3, <1>4, <1>5, <1>6, <1>7, <1>8, <1>9, <1>10, <1>11, <1>12, <1>13,
       <1>14 DEF Next, Fetch

\* What reaches the cache is the payload for the architecture of the QEMU that will
\* run, from one moment of the tag, and no checksum that was read contradicts it,
\* wherever the layers stand in the manifest (pull.go:132, manifest.go:31, pull.go:178).
THEOREM PulledForTheGuest == Spec => []PicksFit
  <1>1. Init => Picked
    BY DEF Init, Picked, Pushed, Chosen
  <1>2. Launch /\ Picked /\ [Next]_vars => Picked'
    BY PickedNext
  <1>3. Launch /\ Picked => PicksFit
    BY DEF Launch, Pinned, Picked, Chosen, PicksFit
  <1> QED BY <1>1, <1>2, <1>3, LaunchAlways, PTL DEF Spec

\* The lists of the configuration are lists: a file's or the default ones, and the
\* forwards of the flags behind.
LEMMA ConfiguredLists ==
    ASSUME Launch, pc = "run"
    PROVE  /\ \E X : cfg.ports \in Seq(X)
           /\ \E S : cfg.accelPref \in Seq(S)
  <1>c. PICK c : Loaded(c) /\ cfg = mergeFlags(c, flags)
    BY DEF Launch, Layered
  <1>1. /\ "ports" \in DOMAIN Default /\ Default["ports"] = <<>>
        /\ "accelPref" \in DOMAIN Default /\ Default["accelPref"] = <<"hw", "tcg">>
    BY DEF Default
  <1>2. DOMAIN c = DOMAIN Default /\ flags \in Flags /\ (file = <<>> \/ file \in Files)
    BY <1>c, LoadedFields DEF Launch, TypeOK, Layered
  <1>3. /\ c["ports"] = IF "ports" \in DOMAIN file THEN file["ports"] ELSE <<>>
        /\ c["accelPref"] = IF "accelPref" \in DOMAIN file
                            THEN file["accelPref"] ELSE <<"hw", "tcg">>
    BY <1>c, <1>1, <1>2, LoadedFields
  <1>4. file = <<>> => "ports" \notin DOMAIN file /\ "accelPref" \notin DOMAIN file
    <2>1. DOMAIN <<>> = {}
      OBVIOUS
    <2> QED BY <2>1
  <1>5. mergeFlags(c, flags)["ports"] = c["ports"] \o AddedPorts(flags.ports)
    BY <1>1, <1>2 DEF mergeFlags, TextFlag, NumberFlag
  <1>6. mergeFlags(c, flags)["accelPref"] = c["accelPref"]
    BY <1>1, <1>2 DEF mergeFlags, TextFlag, NumberFlag
  <1>7. PICK X : c["ports"] \in Seq(X)
    <2>1. <<>> \in Seq({})
      OBVIOUS
    <2> QED BY <1>2, <1>3, <1>4, <2>1, FilesAssumption
  <1>8. PICK Y : AddedPorts(flags.ports) \in Seq(Y)
    BY <1>2, FlagsAssumption, AddedPortsAreList
  <1>9. c["ports"] \o AddedPorts(flags.ports) \in Seq(X \cup Y)
    <2>1. c["ports"] \in Seq(X \cup Y) /\ AddedPorts(flags.ports) \in Seq(X \cup Y)
      BY <1>7, <1>8
    <2> QED BY <2>1
  <1>10. \E S : c["accelPref"] \in Seq(S)
    <2>1. <<"hw", "tcg">> \in Seq({"hw", "tcg"})
      OBVIOUS
    <2> QED BY <1>2, <1>3, <1>4, <2>1, FilesAssumption
  <1> QED BY <1>c, <1>5, <1>6, <1>9, <1>10

\* Either engine gets what it can run with: vz the guest ports QEMU would forward the
\* probes to (app.go:249), QEMU an accelerator, none twice, and the emulator in the
\* end (accel.go:22).
THEOREM OptionsAlwaysFit == Spec => []OptionsFitEngine
  <1>1. Launch => OptionsFitEngine
    <2> SUFFICES ASSUME Launch, pc = "run" PROVE OptionsFitEngine
      BY DEF OptionsFitEngine
    <2>o. opts = Options
      BY DEF Launch, Layered
    <2>f. /\ opts.engine = engine
          /\ opts.forwards = portForwards(cfg)
          /\ engine = "vz" => opts.probes = readinessGuestPorts(cfg)
          /\ engine # "vz" => opts.accel = Candidates(cfg, host)
      BY <2>o DEF Options
    <2>1. PICK X : cfg.ports \in Seq(X)
      BY ConfiguredLists
    <2>2. PICK S : cfg.accelPref \in Seq(S)
      BY ConfiguredLists
    <2>3. ASSUME engine = "vz",
                 \A i, j \in DOMAIN portForwards(cfg) :
                    portForwards(cfg)[i].host = portForwards(cfg)[j].host => i = j,
                 NEW i \in DOMAIN portForwards(cfg), NEW k \in DOMAIN readinessGuestPorts(cfg),
                 cfg.probes[k] = portForwards(cfg)[i].host
          PROVE  readinessGuestPorts(cfg)[k] = portForwards(cfg)[i].guest
      <3>1. readinessGuestPorts(cfg)[k] = GuestPort(cfg, cfg.probes[k])
        BY DEF readinessGuestPorts
      <3> QED BY <2>1, <2>3, <3>1, GuestPortIsForwarded
    <2>4. ASSUME engine = "qemu"
          PROVE  LET accel == Candidates(cfg, host)
                 IN  /\ accel # <<>>
                     /\ \A i, j \in DOMAIN accel : accel[i] = accel[j] => i = j
                     /\ cfg.accelFallback => \E i \in DOMAIN accel : accel[i] = "tcg"
      <3> DEFINE all == AccelCandidates(cfg.accelPref, host)
                 U == S \cup {"hw", "tcg"}
      <3>1. /\ all \in Seq(U) /\ all # <<>>
            /\ \A i, j \in 1 .. Len(all) : all[i] = all[j] => i = j
            /\ \E k \in 1 .. Len(all) : all[k] = "tcg"
        BY <2>2, AcceleratorsFit DEF Distinct
      <3>2. Candidates(cfg, host) = IF cfg.accelFallback THEN all ELSE <<all[1]>>
        BY DEF Candidates
      <3> HIDE DEF all, U
      <3>3. DOMAIN all = 1 .. Len(all)
        BY <3>1
      <3>4. CASE cfg.accelFallback
        BY <3>1, <3>2, <3>3, <3>4
      <3>5. CASE ~cfg.accelFallback
        <4>1. <<all[1]>> # <<>> /\ DOMAIN <<all[1]>> = 1 .. 1
          OBVIOUS
        <4> QED BY <3>2, <3>5, <4>1
      <3> QED BY <3>4, <3>5
    <2> QED BY <2>f, <2>3, <2>4 DEF OptionsFitEngine
  <1> QED BY <1>1, LaunchAlways, PTL
=============================================================================
