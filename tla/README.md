# A TLA+ verification development for dvm

`dvm` boots a virtual machine from an OCI artifact: it pulls a root file system
(and optionally a kernel), puts a writable overlay on it, starts QEMU (or, on
macOS, Virtualization.framework), shows the console or waits for readiness, and
supervises the machine in the foreground until it ends or is stopped. This
directory holds TLA+ modules of those parts of `src/` that keep state, TLC
configurations that check them on small instances, and proofs of the results
that matter most, checked by TLAPS.

    tlc -config MCStateLock_serial.cfg MCStateLock      # one run
    tlapm StateLockProofs.tla                           # one proof module

`PROJECT.json` maps every definition to its lines of source, lists the runs with
their properties, for each property a plausible bug that breaks it (a definition
of the module marked `Mutant:`), the hazards of the code, and the theorems.

Contents: 1 the system · 2 the modules · 3 how to read them against the code ·
4 the runs, bounds and fairness · 5 what is proved · 6 where code and documents
disagree · 7 what is not modelled · 8 plan.

## 1. The system

### 1.1 Components

| component | source | state it keeps | operations |
|---|---|---|---|
| state lock | `internal/vm/state.go`, `proc_unix.go` | the lock file in the state directory, with its owner's pid | `AcquireLock`, its release, `processAlive` |
| VM lifecycle (qemu engine) | `internal/vm/lifecycle.go`, `overlay.go`, `ports.go`, `readiness.go`, `console.go`, `internal/qemu/qmp.go` | overlay file, pid file, seed; the QEMU child, the serial and QMP connections | `Options.Run`: disk, seed, accelerator fallback, supervision, shutdown |
| VZ engine | `internal/vz/vz_darwin.go`, `startVZ` of `internal/app/app.go` | `disk.img`; the machine, which lives inside the process | `Run`, `ensureOverlay`, `copyFile`, `shutdown` |
| blob cache and pull | `internal/cache/cache.go`, `internal/oci/pull.go` | blobs by digest, temporary files | `Fetch`, `Has`, `PutStream`; swept by `App.Clean` |
| static QEMU | `internal/qemu/download.go` | staging directory, installed tree, marker file | `EnsureQEMU` |
| VZ port forwarding | `internal/vz/forward_darwin.go` | listeners, connections, the guest's address; goroutines beside the engine's loop | `manageNetwork`, `waitGuestIP`, `proxyPort`, `pipe` |
| manifest selection | `internal/oci/manifest.go`, `pull.go` | the descriptor a pull works with | tag, platform, manifest, layer, checksum, one request each |
| component references | `internal/component` | none | parse a reference, dispatch to file or pull |
| configuration | `internal/app/config.go`, `cmd/dvm/main.go` | none after start | search path, defaults, then the file, then flags; `Validate` |
| application | `internal/app/app.go` | none of its own | `Start`, `Status`, `Clean`, engine and port tables |
| seed, command line, platform shims, logging | `internal/vm/seed.go`, `internal/qemu/command.go`, ... | none | formatting and system calls |

### 1.2 How they interact

`dvm start` resolves its components (`internal/component` → `oci.Fetch` →
`cache.PutStream`), finds or downloads QEMU (`EnsureQEMU`), takes the lock of the
state directory, probes the forwarded ports, builds the seed and calls
`Options.Run`, which prepares the overlay over the cached base image, starts QEMU
through the list of accelerators, and supervises it. Everything that several
dvm processes share is in the file system: the state directory (under the lock),
the blob cache and the QEMU installation (under no lock), and all of it may be
removed at any time by `dvm clean`, which takes no lock either. Inside a process
the concurrency is small: the goroutine that reaps QEMU, the one that pumps the
serial line, the readiness probes, the signal channel, and, for VZ, the
framework's notification channel and, per connection of a forwarded port, a
pipe with a copy in each direction. The registry is shared with whoever pushes
to it: a tag may name something else from one request to the next.

### 1.3 What is hard

* **Two processes and no lock** in the cache and the QEMU installation; a lock
  file that is created first and filled with its owner's pid later.
* **Crashes.** All undoing is done by Go's `defer`; a launcher that is killed, or
  that gets Ctrl-C before `signal.Notify`, runs none of it. QEMU outlives it, a
  VZ machine does not. The next launcher meets what is left.
* **One step of several failing**, each with a different set of defers behind it.
* **Timers against late events**: the grace period of an accelerator candidate,
  readiness, the escalation powerdown – SIGTERM – SIGKILL, VZ's 30 seconds.
* **Waits without a timer**: a QMP answer, a key from the terminal, a peer of the
  proxy that neither sends nor closes.
* **Layers of settings**: a value may come from a default, the file or a flag, and
  two engines read the same configuration.

The list at source lines is `hazards` in `PROJECT.json`.

### 1.4 What makes each part correct

* *Lock*: one holder; the file of a holder stays its file; a stale lock never
  keeps everyone out; a refusal names a process that exists and that held the
  lock, or left its file behind, when its pid was read.
* *Lifecycle*: no return leaves a QEMU; a false pid file, an ephemeral disk or an
  unfinished one is there only after a kill, a failed removal or a failed
  `qemu-img`; `--reset` and `--no-persist` start from a disk of their own, a plain
  run never loses the disk; a QEMU somebody left keeps a launch out that wants one
  of its ports; a signal, or the guest's end, ends the launch.
* *VZ engine*: a `--no-persist` run starts on a whole, unused `disk.img` and takes
  it away, a `--reset` run starts on one if its removal worked, a plain run never
  loses a full one; a signal, or the machine's end, ends the launch.
* *Cache*: what is under a digest has that digest; a returned path stays good
  until somebody cleans; failures leave nothing behind.
* *QEMU installation*: the marker proves a complete tree; only verified bytes are
  unpacked; a marked tree is not touched again.
* *Port forwarding*: a client gets all the guest sent before its end, a guest what
  a client sent that is still there; an end is passed on; no connection waits for another.
* *Selection*: one artifact is pulled from one moment of its tag; manifest and
  layer are the ones for the guest and the component; a checksum that was read
  agrees.
* *Configuration*: the last layer that gives a value wins; nothing is open to the
  network unless the file allows it; both engines understand a port alike.

## 2. The modules

| module | models | kind |
|---|---|---|
| `ExclusiveLock` | what `AcquireLock` promises: a set of holders of size at most one | abstract specification |
| `BlobStore` | what `Fetch` and the cache promise: a set of blobs, whole from the moment they are there | abstract specification |
| `StateLock` | the lock file, each system call a step; `dvm clean --with-state` | component |
| `Lifecycle` | `startQEMU` behind the lock and `Options.Run`, over many launches | component |
| `VzEngine` | `startVZ` behind the lock and VZ's `Run`, over many launches | component |
| `VzNet` | `VzEngine` with the goroutines that forward ports to its machine | composition |
| `BlobCache` | pulls of several processes and `dvm clean` | component |
| `QemuFetch` | `EnsureQEMU` of several processes | component |
| `LaunchConfig` | the configuration's layers and what each engine derives from them | operators |
| `OciSelect` | what is taken from an artifact; how a reference is read | operators |
| `Startup` | one `dvm start` up to the call of `Run`, against a moving registry | component |
| `MC...` | instances for TLC: option sets and symmetry | model checking |
| `...Proofs` | theorems and their proofs | TLAPS |

`StateLock` implements `ExclusiveLock` (refinement mapping: the holders are the
launchers between a successful `AcquireLock` and its release). `BlobCache` implements
`BlobStore` (the stored blobs are the whole files under a digest; a pull that is
done was given the path of what it wanted). `Lifecycle` and
`VzEngine` stand on `StateLock`: they allow one launcher in the directory at a time,
which is what `StateLock` establishes when launches do not race (section 5), and
what it fails to establish when they do (section 6). `VzNet` extends `VzEngine`:
every step of the engine is a step of the composition, with what it does to the
network beside it, so that the engine's properties are checked with clients
connected. `Startup` uses both operator modules and ends where `Lifecycle` or
`VzEngine` begins; its pulls end where `BlobCache` begins. No module declares a
recursive operator; a loop over a list is `SelectInSeq` or a function on positions,
which a proof can follow step by step.

## 3. Reading the modules against the code

A module's action is a system call or a stretch of code that no other process
and no crash can split visibly. The variable `pc` is the place in the source;
its values are named after the call made next. An error return of the code is a
disjunct, also where the model has no reason for the error: `os.CreateTemp`
may fail at any time. An error that the code throws away is a disjunct too, with
what it leaves behind; a history variable (`left`, `mishap`, `unseen`, `lost`)
records it, no action reads that, and a property that excepts it says so. What
is left out is in section 7. A Go `select` is a disjunction; a timer is the freedom
to stop waiting, because nothing here depends on how long a period is. Data is
reduced to what the properties tell apart.

### StateLock

`lock` is the file at `LockPath`: who created it and which pid is in it, `NoPid`
when it is still empty. `OpenExcl` is the head of the loop of `AcquireLock` with
its two attempts (`attempt`) and the errors of `open`; `WritePid` the `Fprintf` whose error is ignored;
`ReadPid`, `Probe` (signal 0) and `RemoveStale` the reclaim, whose errors
`ProbeMayFail` adds: a lock that cannot be read and a live owner that may not be
signalled both count as stale. `Release` removes whatever is at the path, or fails
unnoticed (`unreleased`). A process outlives its release: it answers signal 0 until
`Exit`, which is the return of `main`, or the parent's wait for a killed one
(`Leaving`). `CleanFiles` and `CleanDir` are the two ends of
`os.RemoveAll`. `Ghost` is the pid of a launcher that died earlier; with
`GhostAlive` the kernel has given it to another program. Each process launches
once, so that a pid has one meaning; a second launch of the same user is another
member of `Launcher`.

### Lifecycle

`Launch` is the return of `AcquireLock`. Then, in the order of the source:
`CheckPortsFree`, `BuildSeed`, `PrepareDisk` (with `RemoveOverlay`),
`CreateOverlay`, `QemuImgEnds`, `WriteSeed` (behind which the deferred removal of
an ephemeral overlay is in force), `StartQEMU` and `Grace` (one turn of
`startWithAccelFallback`), `WritePID`, `DialSerial`, `DialQMP`, `Negotiate`,
`Supervise`, then the console (`Interactive`, `Stdin`) or `WaitTCP`, then `Wait`,
the escalation `Powerdown`, `AwaitExit`, `Terminated`, `Killed`, and the defers
`ClearPID`, `DeferredRemove`, `Release`. Goroutines: `Reap`, `PumpEnds`.
Environment: `Exit` and `Wedge` of a QEMU, `Signal`, `Crash`.

A launch forwards a set of ports (`opt.fwd`), each standing for a protocol, a host
address and a number; `bound` is what each QEMU holds, and `CheckPortsFree` looks
at the launch's own. The file system and the processes (`up`, `wedged`, `bound`,
`attached`, `overlay`, `pidFile`) survive a `Crash`; everything else is the launcher's memory
and is reset by `Launch`. `attached` holds the QEMUs that have the file *now* at
the overlay's path open: removing the name takes nobody's file away, it only
separates the name from it. `overlay.ephemeral` remembers what kind of launch
made the file. `overwrite` is `qemu-img` at work over a disk on which `os.Stat`
failed. `left` is a history variable: a disk that is a throwaway or unfinished,
or a pid file, that a launch left because it was killed, or because the removal
or `qemu-img` failed.

### VzEngine

The same shape without a child process: `Reset`, `Seed`, `MakeLogs`,
`EnsureOverlay`, `Clonefile` or `CreateDisk`, `CopyPart`, `CopyEnds`,
`Configure`, `Start`, the select `Run`, and `RequestStop`, `AwaitStop`,
`ForceStop` of `shutdown`. `note` is the framework's notification channel, as far
as the loops react to it. `cleared`, `mishap` and `unseen` are history variables: whether
`--reset` found or made the path free, whether a launcher was killed or an
`os.Remove` failed, and whether `os.Stat` failed on the disk a run was to keep.

### BlobCache

`Resolve` stands for everything up to the selection of a layer (index, manifest,
sidecar), which `Startup` has request by request. `CacheHit` … `Undo` are `Fetch` and `PutStream` file operation by file
operation. `temp` is a file, `arrived` what the hash saw: they differ when the
file was swept away under the writer. `CleanStarts`, `CleanFile`, `CleanEnds`
are `os.RemoveAll` file by file.

### QemuFetch

Per process: its archive (`tgz`), the entry it unpacks (`next`) and where the
file it writes is by now (`handle`). Shared: `stage`, `dest` with their
directories, and `mark`. `os.RemoveAll` is file by file and may leave things,
since its result is thrown away three times. A rename takes open files along
(`Moved`). `overlap` and `lost` are history variables: some call began during
another, and a failed `out.Close`, whose error is thrown away, left a file short.
Names of archive entries and the check against leaving the directory are
abstracted to a step that may fail.

### VzNet

`net` is the place of `manageNetwork`, `fwd` the listener of each tcp port, `conn`
the connection of a client and its pipe. `Engine(A)` is a step `A` of `VzEngine`:
the one behind `vm.Start` starts `manageNetwork`, the ones that end the process
close every socket. Goroutines: `AddressFound`, `AddressMissed` and `Readiness`
(`manageNetwork`), `Listen`, `Accept`, `AcceptError` and `CloseListener`
(`proxyPort`), `Dial`, `CopyUp`, `CopyDown`, `PipeEnds` (`pipe`). The context is
cancelled when `Run` begins to return (`Cancelled`), which closes listeners and
leaves pipes alone. Peers are free: `Connect`, `Ask`, `Close` of the client,
`Answer`, `Hangup` of the guest's server. `Hangup` with what was under way lost is
a reset, which `pipe` cannot tell from an end.

### LaunchConfig, OciSelect and Startup

A configuration is a record of all fields, a file a record of the fields it sets,
flags a record in which `""` and 0 mean unset, as in the code's `Flags`. The
operators have the names of the functions they model (`mergeFlags`, `Validate`,
`resolveEngine`, `portForwards`, `selectPrimaryLayer`, ...). In an artifact a layer
is its media type, the title without and with its ending, a size and a digest;
references are model values, with `Form` telling how each is written and `Raw`
which look like a raw image.

`Startup` follows one launch: `LoadConfig`, `Merge` (with `Validate` and the engine
name), `Start`, `QemuPaths`, then per component `Resolve`, `ResolveTag`,
`ResolvePlatform`, `FetchManifest`, `SelectLayer`, `VerifySidecar`, `Pull`, then
`Lock`, `CheckPortsFree` and `CallRun`, whose `opts` are what `Run` is given.
`Push` moves the tag of the component at any time; `tag` is what it names now,
`named` remembers what it named when it was resolved, `art` is what the launcher
holds.

## 4. Runs, bounds and fairness

| run | instance | question | distinct states |
|---|---|---|---|
| `lock_serial` | 3 launchers, no two inside `AcquireLock` at a time, crashes | does the file implement an exclusive lock, does the holder keep its file, is a free lock always taken? | 43,740 |
| `lock_race` | 3 launchers, free interleaving, crashes, failing writes, reads and signals, `clean`, reused pid | does somebody win, is a refusal for a process that exists and held the lock or left its file, and does `AcquireLock` return within a fixed number of its own steps? | 261,763 |
| `lock_race_two_holders` | the same without any mishap | *violated*: two holders | |
| `run_orderly` | 2 QEMUs, 2 candidates, 1 port, all 32 option sets, no crash | no orphan; launches settle, and end on a signal or with the guest | 151,808 |
| `run_crash` | the same with 2 ports, 64 option sets, crashes and wedged QEMUs | fresh disk, kept disk; which files are left by what; what an orphan's port keeps out | 1,298,128 |
| `run_wedged` | 1 candidate, wedged QEMU | *violated*: a signal ends the launch | |
| `cache` | 3 pulls, 2 digests, crashes, repeated cleans | integrity; do pulls and cleans implement the store? | 746,609 |
| `qemu_fetch` | 2 processes, 2 files, crashes | marker, verified bytes, a marked copy | 287,013 |
| `qemu_fetch_overlap` | the same | *violated*: a returned directory is complete | |
| `vz` | all option sets, crashes, failing removals; 1 port, 2 clients | disks and endings; what the proxy does to the streams | 231,837 |
| `startup` | 32 command lines, 24 files or none, 3 hosts, 5 artifacts | effective configuration, public binds, what is pulled, options per engine | 93,570 |
| `startup_accel` | the same | *violated*: the file's `accel_fallback` counts | |

**Why the bounds suffice.** Three launchers: a race for a stale lock needs two,
and the third is the holder that is robbed or the one that comes last with both
attempts used up. Two QEMUs: an orphan and a child; launches repeat without limit, so
any history of crashes is explored, only the number of processes alive at once
is bounded. Two ports: launches that share one and launches that do not; without
crashes no QEMU of another launch is alive, and one port is enough. Two candidates: one that fails and one that follows. Three pulls and
two digests: two that race for one blob and one that fails on it or works on
another. Two files per archive: a kill or a removal between them; one file would
make every tree empty or complete. Two processes in `QemuFetch`: its overlaps
are pairwise. `VzNet`: one port, since ports share nothing but the context; two
clients, so that one can wait for the other; one message each way at a time, so
that one can be under way when the other side ends, and a connection may carry
any number of them. `Busy` restricts clients to launches with `--no-persist`,
because the network's code never looks at the disk's options and every other
launch differs from these in nothing else. `Startup`: a base command line and file
and what a single change to either makes, in all pairs, and command lines of
two or three flags where these meet in one operator. The
artifacts have an index with and without a fitting entry, an entry without a
platform or for another system, a typed layer behind a larger one, two layers of
equal size, a sidecar larger than the payload, one that contradicts it, and one
with no payload. Nothing else is bounded: there are no counters but the two-attempt
loop, the candidate index and the archive index, which are the code's own.

**Symmetry** (launchers, QEMUs, ports, pulls, digests, processes) is used in runs whose
properties are invariants or action properties, never with liveness.

**Deadlock** is checked except in `StateLock`, where every launcher starts once
and the system stops when all have ended, and in `Startup`, where the one launch
fails or is handed to `Run`.

**Fairness.**
`StateLock!FairSpec`: a launcher inside `AcquireLock` is a running process and
takes its next step; `AcquireLock` has no wait. Nothing is assumed of holders.
`Lifecycle!FairSpec`: weak fairness of the launcher's own steps, of the two
goroutines and of SIGKILL's effect on the child. A step that waits with a timer
(grace, readiness, SIGTERM) is always enabled there, because the timer ends it; a
wait without one (a QMP answer, `<-done`, the terminal) is enabled only by
its event. Nobody is obliged to press a key, send a signal, start dvm or power a
guest off. `qemu-img` and system calls on the file system are taken to return.
`VzEngine!FairSpec`: weak fairness of the launcher, whose 30-second timer ends
the wait for a stop. The framework owes nothing.
`VzNet!NetFairSpec`: the launcher as before, and each goroutine of a connection
runs when it can: `Pipe(c)` for accepting, dialing and the copy down with the end
of the pipe, `CopyUp(c)` for the copy up, which is a goroutine of its own. Dialing
has a timeout. Nothing is assumed of `manageNetwork`, of listeners, of clients or
of the guest.

**What the passing runs show.** Without a kill every way out of `Run` has
stopped every QEMU, candidates included; launches settle, and a signal or the
guest's end ends them, if QEMU answers QMP or is dead. With kills at any place,
and removals that fail, `--reset` and `--no-persist` still start on a disk that no
other process has open and a plain run never loses its overlay. A wrong pid file, an
ephemeral overlay in a free directory and a guest on an unfinished overlay have
only the causes section 6 lists: a kill, a failed removal, a failed `qemu-img`. A
launch that wants a port of a QEMU left by a dead launcher touches no disk and
starts nothing; one with other ports does. The lock is exclusive as long
as launches do not race; even when they do, somebody wins, and who is refused
is refused for a process that exists. The cache keeps its integrity under every interleaving considered. The
QEMU marker is a proof of completeness as long as calls do not overlap and closing
a file does not fail unnoticed. What a client does with its own side of a forwarded connection never cuts the guest's
answer, a guest's end reaches a client that stays silent, and a client is served
however long another holds its connection. A launch takes each setting from the
last layer that gives it (but for the fallback switch, section 6), opens no port
to the network that the file does not allow, pulls one layer of one moment of the
tag for the architecture of the QEMU that will run, and gives `vz` the guest port
a readiness port stands for as long as no two forwards share a host port.

Each property names a mutant that breaks it in the same run, so none of
them holds by the shape of the model.

## 5. What is proved

For every value of the constants, from the named assumptions of the modules
(`LauncherAssumption`, `OptionAssumption`, ...: distinctness of special values,
booleans, `N` and `Cands` positive) and nothing else:

**`StateLockProofs`.** `TypeCorrect`; `HolderKeepsFile`, `Exclusion` and
`Refinement` under `Undisturbed == Serial /\ ~WriteMayFail /\ ~ProbeMayFail /\
~MayClean`, with crashes, failed removals and reused pids allowed. `HolderOwnsFile` is not inductive: it says
nothing of a launcher about to write its pid or to remove a lock on what it read
earlier. `ExclusionInv` adds `OneInside`, `WriterOwnsFile`, `NobodyHolds` (past
the test for a live owner there is none) and `ProbeSeesHolder` (while a holder
stays it is the one about to be looked up). `Refinement` maps creation-and-write
to `Acquire`, release and crash to `Leave`, and all else to stuttering.
Without `Undisturbed`: `RefusalIsTrue` (`OwnersFile`: the pid in
the lock is that of a launcher that holds it, could not remove it or was killed;
`SeenHasHeld`: a pid that was read is of a launcher that did hold the lock, so that
one which still answers is past `AcquireLock`) and `ContentionHasWinner`, whose
invariant says that at any time somebody has created the lock, or was misled by
a reused pid, or the old lock is still there with everyone on the first attempt,
or it is gone with somebody left who will create the next. `LockingIsWaitFree`:
every step of `AcquireLock` uses up one of the ten it begins with, and nobody else
gives it more. The count needs `AttemptCounts`: inside the loop the attempt
is the first or the second.

**`LifecycleProofs`.** For any number of QEMUs and candidates, any options,
kills and wedging included: `TypeCorrect`; `FreshDiskAlways` and
`DiskKeptAlways` along `ChildInv` (a launcher has a child exactly between a
successful start and the receive from `done`) and `DiskInv` (a launch that asked
for a new disk is alone with it from the removal on); `RivalAlwaysStops` along
`PortInv` (behind `CheckPortsFree` no other QEMU holds a port of this launch).
`OneQemuIfForwarding` assumes one port that every launch forwards.
`NoOrphanWithoutCrash` assumes `~MayCrash`. Along `TidyFiles`, with kills and failures
allowed: `PidFileIsCurrentAlways`, `EphemeralDiskAlwaysGone` and `DiskIsAlwaysComplete`,
which except what `left` records.
`TidyFiles` says who answers for each file at each place: a pid file belongs to
the launch between its write and its removal, an ephemeral overlay to the
launch that still has its removal ahead, a partial one to the launch that runs
`qemu-img`, and any other is in `left`. `EphemeralDiskGone` and `DiskIsComplete` alone say nothing of the
places between. `RunIsBounded`, with kills and wedging: from its start a launch has at most
`23 + 2 * Cands` steps, each step of the launcher uses one up, and nothing but
a key pressed at the console gives one back. The number `StepsLeft` is the place in `Run`
and the candidates not tried yet. So what can keep a launch is a
wait, never a loop: the part of `LaunchSettles` that is a safety property.

**`BlobCacheProofs`.** Any number of pulls and digests: `Integrity`,
`FetchedStays`, `NoTempAfterReturn`, `NothingElseRemoves`, `TypeCorrect`. `IInv`
adds who owns a temporary file, that a file holds what was hashed if it is still
there, and that a rename follows only a matching hash. `Refinement`: the pulls
and `dvm clean` implement `BlobStore`. A pull shows outside only at the end of
`CacheHit` and of `Rename`, where it is given the path (`Handed`); `Unseen` is
the rest, the failures and the kills included; a sweep removes blobs one by one.
`FetchedStays` (`FetchedBlobStays`, stated on the files) follows
the same steps.

**`QemuFetchProofs`.** Any number of processes and files. `Base` holds always and
gives `OnlyVerified`, `ArchiveRemoved`, `TypeCorrect`; `Solo` speaks of histories
without an overlap: one process at work, and what it knows at its place (files
behind `next` are whole, the tree to be installed is complete, there is no
marker while it works), giving `MarkerIsProof`, `CopyIsKept` and
`ReturnedAloneIsComplete`: the directory a call returns is complete as long as no
call overlapped another and no `out.Close` failed. Without the first condition it is what `qemu_fetch_overlap`
refutes.

**`VzEngineProofs`.** Any option set: `TypeCorrect`, `FreshDiskAlways`,
`DiskKeptAlways`, `EphemeralGone`. `IInv` follows the disk from `ensureOverlay`
to the boot: what was cleared is absent, what was made is unused, a persistent
run makes a disk only over nothing, an empty file or one `os.Stat` failed on, and without a mishap an
ephemeral disk is met only by its own launch. `RunIsBounded`: a launch has at
most 17 steps of its own, the loops of `Run` and of `shutdown` included. A pass
through such a loop takes a notification, and a machine has at most its end left to
report (`ToReport`).

**`VzNetProofs`.** Any ports, clients and options. `EngineUndisturbed`: every
behaviour of the composition is one of `VzEngine`, so that the results above
carry over. `NetTypeCorrect` needs the engine's invariant, since what the network
may be doing depends on the place of `Run`. `AnswersAreWhole`: whatever peers do, a
connection with a client still there is closed only after the guest's end, with
nothing of the guest's left unwritten.

**`SelectionProofs`.** Pure results about `OciSelect` and `LaunchConfig`, for lists
of any length: `PayloadIsPicked` (what `selectPrimaryLayer` returns, where it
returns something, is a layer of an expected type or else the largest that is no
checksum), `AcceleratorsFit` (the accelerators to try are never an empty list, each is
there once, and the emulator is among them) and `GuestPortIsForwarded`. A loop over a
list needs no induction theorem here: a claim that fails at some position fails at
a least one, since a set of naturals that is not empty has a minimum
(`MinIsLeast`, from the library's well-foundedness of the naturals), and the step
before that position contradicts it (`Counting`, `Looping`). `FirstPosition` is the
same for a search.

**`StartupProofs`.** Any command lines, files, hosts and artifacts, which need only
be such as the parsers leave (`FlagsAssumption`, `FilesAssumption`,
`ArtifactAssumption`: lists are lists, sizes are integers):
`StartupTypeCorrect`, `ConfigurationIsLayered` (`EffectiveConfig`),
`NoUnaskedPublicBind`, `PulledFromOneMoment` (`Pinned`: what a launcher holds is
what the tag named when it was resolved), `PulledForTheGuest` (`PicksFit`: the
payload of one moment, for the guest's architecture, with no contradicting
checksum) and `OptionsAlwaysFit` (`OptionsFitEngine`). `PulledForTheGuest` follows
the choices from step to step (`Chosen`) and takes what each choice is from
`SelectionProofs`. `Layered` carries the rest: before the merge the
configuration is the file's over the defaults, behind it `mergeFlags` of that, and
the options are derived from no other.

**Only model-checked**: the liveness properties (`FreeLockIsTaken`,
`StopsOnSignal`, `StopsWithGuest`, `LaunchSettles`, `EndReachesClient`,
`RequestReaches`, `NobodyWaitsInTurn`), since proofs about fairness and `ENABLED`
are out of the prover's reach. For the lock and the two engines `LockingIsWaitFree` and `RunIsBounded` prove
that the steps a launch may take are bounded; that it takes them when it can, and that what
it waits for happens, is what fairness adds and TLC checks. Every invariant and every action
property of the passing runs, and the refinements of `ExclusiveLock` and `BlobStore`, are proved.

## 6. Where code and documents disagree

Shown by a run that TLC finds violated:

1. **Two holders** (`lock_race_two_holders`, `state.go:59`). The lock file is
   empty between its creation and the write of the pid. Who reads it then
   takes it for stale, removes it and creates its own. The comment promises an
   exclusive lock.
2. **Shutdown that never escalates** (`run_wedged`, `lifecycle.go:288`).
   `Powerdown` waits for QMP's answer without a deadline, in front of the timers.
3. **A QEMU with files missing** (`qemu_fetch_overlap`, `download.go:91`). Two
   first calls share one staging directory; one is marked complete after the
   other removed files from it.
4. **A setting without effect** (`startup_accel`, `app.go:150`). `mergeFlags` sets
   `AccelFallback` from the flag also when it was not given, so
   `accel_fallback: false` of a file is lost; `main.go:35` promises that any flag
   can come from the file.

Properties stated in a module that TLC refutes, kept beside the code they are about
without a listed run:

* `Lifecycle!ConsoleReturns`: a console that outlives its guest (`console.go:87`).
  The loop looks at the closed connection only between keys.
* `VzEngine!ResetIsFresh`: a `--reset` that resets nothing (`app.go:505`). The error
  of its `os.Remove` is thrown away, and a persistent run takes the old disk that
  is still there; `Lifecycle`'s `PrepareDisk` returns the error instead.
* `VzEngine!BootsOnFullCopy`: half a base image (`vz_darwin.go:234`). A broken-off
  copy is a non-empty `disk.img`, which the next persistent run boots.

Met while modelling, without a property:

* `dvm clean --with-state` removes the files of a running VM and its lock.
* A pid that belongs to another program by now makes an old lock look held: every
  launch is refused until the file is removed by hand. A lock whose pid was not
  written (full disk), or whose owner may not be signalled (`proc_unix.go:17`, another
  user's), looks stale while it is held, and a second launcher gets in.
* A launcher may be refused in the name of one that has released the lock in
  between, since that one's process has not ended yet (`state.go:55`).
* After a kill, a QEMU that holds none of the next launch's ports is not noticed by
  it: a second one is started on the same overlay, and the two run side by side; QEMU's
  own image locking is then the last barrier (external).
* The overlay of a `--no-persist` run that was killed, or whose deferred removal failed
  (`lifecycle.go:68` drops the error), is what the next plain run boots on.
* A `qemu-img` that fails may leave a partial overlay: `CreateOverlay` removes nothing,
  `Run` returns before it defers the removal (`overlay.go:36`, `lifecycle.go:64`), and
  the next plain run boots on the file because it exists (`overlay.go:23`). An
  `os.Stat` that fails on a good overlay has `qemu-img` write over it; on a good
  `disk.img` (`vz_darwin.go:234`) it has that removed.
* The errors of `ClearPID` (`state.go:75`) and of the lock's release (`state.go:48`)
  are dropped; the file then stays and the pid in it soon names nobody.
* `EnsureQEMU` does not look at the error of `out.Close` (`download.go:243`): a file
  that came short there is installed and marked.
* `dvm status` believes the pid file (`app.go:601`): it reports a VM that a kill,
  or a guest's end behind the console, has left no trace of but the file, and never reports a VZ VM, which has none;
  `README.md:232` of the source says it reports whether the VM is running.
* `dvm clean` removes `.cache/oci` only (`app.go:618`), while the source's
  README says that `.cache` with `.cache/qemu/` is cleared by it; and it takes
  the base image from under overlays that still need it.
* VZ's `shutdown` ignores an error state while it waits and the result of
  `Stop`; an ephemeral disk may be removed under a machine that still runs.
* The cache renames without `fsync`; after a power loss a name may stand for an
  incomplete file, and `Has` looks only at the name.

In port forwarding (`forward_darwin.go`):

* An error of `Accept` ends the loop and leaves the listener open (line 182), though
  the comment says connections are served until the context is cancelled;
  clients then connect to a port that nobody reads for the rest of the run.
* A client that sends something and leaves while the guest is sending may lose its
  request: the write to it fails and `pipe` closes both sides (lines 196 and 197).
  `RequestReaches` excepts it.
* `pipe` (line 196) passes no half-close on to the guest, and passes a reset by the
  guest on as an orderly end. Closing a client's connection while it still
  sends resets it.
* A client that left while its guest server stays silent keeps two descriptors and
  a goroutine until the run ends.
* The services are printed also when an address was not found or a port could
  not be listened on; `startVZ` never looks whether the ports are free.
* The guest's address is looked up once; a guest that changes it is lost.

In configuration and selection:

* `auto` picks `vz` for a raw rootfs also when the guest's architecture is not the
  host's (`app.go`, `resolveEngine`).
* Without `arch` the guest is `x86_64` on linux/arm64, though
  `examples/dvm.yaml:33` and `README.md:270` of the source say it is the host's.
* An `ssh_port` above 65535 passes `Validate`, which checks `ports` only; a
  `--port` argument that does not parse is dropped without a word.
* With `accel_fallback` off, a preferred accelerator that is not there is passed
  over in favour of the next one, the emulator in the end.
* One table by host port serves tcp and udp (`app.go:577`): with both on one host
  port, `vz` may probe the guest port of the udp one. `OptionsFitEngine` excludes
  the case.
* An artifact with a qcow2 and an ext4 layer gives whichever comes first to either
  engine: both types are expected of a rootfs.
* A sidecar that cannot be read is passed over (`pull.go:186`).
* `README.md:245` of the source names `./dvm.yaml` and the user directory as places
  for the file; the code also looks for `myvm.yaml` in both.
* `dvm status` prints the ports of its own flags and file, not of the running VM.

## 7. What is not modelled

* Formatting and layout: QEMU's arguments, the FAT image and YAML of the seed,
  parsing of YAML, of ARP and lease tables and of references beyond their kind;
  logging, and what `status` prints.
* Platform variants: the models take the unix shims; on Windows `processAlive`
  and the control channels differ.
* Power loss: processes die, the machine and its page cache do not.
* External behaviour of QEMU, `qemu-img`, the registry client and
  Virtualization.framework enters as environment actions, free to fail at any
  time; QEMU's image locking and qcow2 content are left out.
* Configuration fields that only reach a text (names, the user, extra QEMU
  arguments, log files).
* When a port is bound: a `Lifecycle` QEMU has its ports from its start, while the real
  one binds them a moment later. A launcher that dies in that moment leaves a QEMU whose
  ports the next launch may still find free; `RivalStopsLaunch` speaks of held ports.
  A foreign program that takes a port after the probe makes QEMU exit by itself,
  which is an exit like any other.
* Links in the QEMU archive, which `extractTarGz` passes over (`download.go:226`):
  an archive is its regular files.
* A stream through the proxy longer than one message each way at a time, and
  writes of the proxy that wait for a slow peer.
* `cache.Verify` has no caller outside its test.

## 8. Plan

1. **Done**: `ExclusiveLock`, `StateLock`, `BlobStore`, `BlobCache`, `Lifecycle`,
   `QemuFetch`, `VzEngine`, `VzNet`, `LaunchConfig`, `OciSelect`, `Startup`, with their
   runs; every safety property of the runs proved, the two refinements included.
2. **`Directory`**: `StateLock` and `Lifecycle` composed, so that what a race or
   a `clean` does to the running VM is stated in one place; with it the refinement
   of the composition to one launch at a time, under `Undisturbed`.
3. **Flow control in `VzNet`**: writes that wait for a peer, and with it what a
   stalled client does to the guest's server.
4. **Bounds for the rest**: a rank such as `StepsLeft` for a pull and for
   `EnsureQEMU`, and an installation that calls without an overlap implement.
5. **Windows**: the control and liveness shims, whose `processAlive` differs.
