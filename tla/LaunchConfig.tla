---------------------------- MODULE LaunchConfig ----------------------------
(***************************************************************************)
(* What dvm is started with: the layers of the configuration (defaults,    *)
(* file, flags) and what the launch of either engine derives from them, as *)
(* operators over records (internal/app/config.go, the helpers of app.go,  *)
(* flag handling of cmd/dvm/main.go, accel.go and dirs.go).                *)
(*                                                                         *)
(* A configuration is a record of all fields; a file is a record of the    *)
(* fields it sets; of the flags "" and 0 are the unset ones, as in Flags.  *)
(* accelPref is the preference list of the host's own system.              *)
(***************************************************************************)
EXTENDS Integers, Sequences

TextFlag   == {"kernel", "initrd", "rootfs", "rootfsVZ", "qemuDir", "arch", "cmdline",
               "ipConfig", "bind", "password", "sshKey", "seedPath"}
NumberFlag == {"memory", "cpus", "sshPort"}

Default ==
    [kernel |-> "", initrd |-> "", rootfs |-> "", rootfsVZ |-> "", qemuDir |-> "",
     arch |-> "", cmdline |-> "", memory |-> 2048, cpus |-> 2, persist |-> TRUE,
     accelPref |-> <<"hw", "tcg">>, accelFallback |-> TRUE,
     ipConfig |-> "cloud-init", bind |-> "127.0.0.1", public |-> FALSE, sshPort |-> 0,
     ports |-> <<>>, probes |-> <<>>,
     seed |-> TRUE, password |-> "", sshKey |-> "", seedPath |-> ""]

\* The flags of a command line that gives none.
NoFlags ==
    [kernel |-> "", initrd |-> "", rootfs |-> "", rootfsVZ |-> "", qemuDir |-> "",
     arch |-> "", cmdline |-> "", memory |-> 0, cpus |-> 0, noPersist |-> FALSE,
     noAccelFallback |-> FALSE, ipConfig |-> "", bind |-> "", sshPort |-> 0,
     ports |-> <<>>, password |-> "", sshKey |-> "", seedPath |-> "",
     config |-> "", engine |-> "auto"]

\* The places looked at for a configuration file, in this order.
SearchPath == <<"./dvm.yaml", "./myvm.yaml", "user/dvm.yaml", "user/myvm.yaml">>

\* The path to read: the one given, or the first that is a file, or none.
resolveConfigPath(explicit, files) ==
    IF explicit # "" THEN explicit
    ELSE IF \E i \in DOMAIN SearchPath : SearchPath[i] \in files
    THEN SearchPath[CHOOSE i \in DOMAIN SearchPath :
                      /\ SearchPath[i] \in files
                      /\ \A j \in 1 .. i - 1 : SearchPath[j] \notin files]
    ELSE ""

\* The file is parsed over the defaults.
Parse(file) ==
    [x \in DOMAIN Default |-> IF x \in DOMAIN file THEN file[x] ELSE Default[x]]

PortNumber == 1 .. 65535

\* A --port argument: what stands for its protocol ("" if nothing) and its numbers,
\* 0 for one that is none.
Parses(spec) ==
    /\ spec.proto \in {"", "tcp", "udp"}
    /\ spec.host \in PortNumber /\ spec.guest \in PortNumber

ParsePortSpec(spec) ==
    [spec EXCEPT !.proto = IF spec.proto = "" THEN "tcp" ELSE spec.proto]

\* Arguments that do not parse are dropped without a word.
AddedPorts(specs) ==
    LET added[i \in 0 .. Len(specs)] ==
          IF i = 0 THEN <<>>
          ELSE IF Parses(specs[i]) THEN Append(added[i - 1], ParsePortSpec(specs[i]))
          ELSE added[i - 1]
    IN  added[Len(specs)]

mergeFlags(c, f) ==
    [x \in DOMAIN c |->
       CASE x \in TextFlag /\ f[x] # ""     -> f[x]
         [] x \in NumberFlag /\ f[x] > 0    -> f[x]
         [] x = "persist" /\ f.noPersist    -> FALSE
         [] x = "accelFallback"             -> ~f.noAccelFallback
         [] x = "ports"                     -> c.ports \o AddedPorts(f.ports)
         [] OTHER                           -> c[x]]

Validate(c) ==
    /\ c.ipConfig \in {"cloud-init", "kernel-dhcp", "kernel-static", "none"}
    /\ c.memory > 0 /\ c.cpus > 0
    /\ c.bind \in {"127.0.0.1", "localhost", "0.0.0.0"}
    /\ c.bind = "0.0.0.0" => c.public
    /\ \A i \in DOMAIN c.ports : /\ c.ports[i].host \in PortNumber
                                 /\ c.ports[i].guest \in PortNumber

-----------------------------------------------------------------------------
\* A host is its system, its architecture, whether vz runs there, and whether its
\* hardware accelerator is there to be used.
GuestArchDefault(host) ==
    IF host.os = "darwin" /\ host.arch = "arm64" THEN "arm64" ELSE "x86_64"

guestArch(c, host) == IF c.arch # "" THEN c.arch ELSE GuestArchDefault(host)

ociArch(arch) == IF arch \in {"arm64", "aarch64"} THEN "arm64" ELSE "amd64"

SystemBinaryName(arch) ==
    IF arch \in {"arm64", "aarch64"} THEN "qemu-system-aarch64" ELSE "qemu-system-x86_64"

\* What is tried, in this order: the preferred ones that are there, each once, and
\* the emulator ("tcg") in any case.
AccelCandidates(pref, host) ==
    LET list == IF pref = <<>> THEN <<"hw", "tcg">> ELSE pref
        usable(i) == /\ list[i] = "tcg" \/ (list[i] = "hw" /\ host.hw)
                     /\ \A j \in 1 .. i - 1 : list[j] # list[i]
        out[i \in 0 .. Len(list)] ==
            IF i = 0 THEN <<>>
            ELSE IF usable(i) THEN Append(out[i - 1], list[i]) ELSE out[i - 1]
    IN  out[Len(list)]
        \o (IF \E i \in DOMAIN list : list[i] = "tcg" THEN <<>> ELSE <<"tcg">>)

Candidates(c, host) ==
    LET all == AccelCandidates(c.accelPref, host)
    IN  IF c.accelFallback THEN all ELSE <<all[1]>>

vzRootfsConfigured(c, Raw) == c.rootfsVZ # "" \/ c.rootfs \in Raw

\* Raw: the references with "ext4", "raw" or ".img" in them.
resolveEngine(flag, c, host, Raw) ==
    IF flag \in {"qemu", "vz"} THEN flag
    ELSE IF host.vz /\ vzRootfsConfigured(c, Raw) THEN "vz" ELSE "qemu"

\* The references a launch resolves, in this order.
Component == <<"kernel", "initrd", "rootfs">>

References(c, engine) ==
    [kernel |-> c.kernel, initrd |-> c.initrd,
     rootfs |-> IF engine = "vz" /\ c.rootfsVZ # "" THEN c.rootfsVZ ELSE c.rootfs]

-----------------------------------------------------------------------------
\* The same table is built for both engines.
portForwards(c) ==
    LET all == IF c.sshPort > 0
               THEN Append(c.ports, [proto |-> "tcp", host |-> c.sshPort, guest |-> 22])
               ELSE c.ports
    IN  [i \in DOMAIN all |->
           [proto |-> IF all[i].proto = "" THEN "tcp" ELSE all[i].proto,
            ip    |-> IF c.bind = "" THEN "127.0.0.1" ELSE c.bind,
            host  |-> all[i].host,
            guest |-> all[i].guest]]

\* Mutant: the forward for ssh is not looked at.
GuestPortWithoutSsh(c, h) ==
    LET at == {i \in DOMAIN c.ports : c.ports[i].host = h}
    IN  IF at = {} THEN h
        ELSE c.ports[CHOOSE i \in at : \A j \in at : j <= i].guest

\* The guest port vz probes for host port h: of the last port with that number,
\* whatever its protocol; the port for ssh is entered last.
GuestPort(c, h) ==
    LET at == {i \in DOMAIN c.ports : c.ports[i].host = h}
    IN  IF c.sshPort > 0 /\ c.sshPort = h THEN 22
        ELSE IF at = {} THEN h
        ELSE c.ports[CHOOSE i \in at : \A j \in at : j <= i].guest

readinessGuestPorts(c) == [i \in DOMAIN c.probes |-> GuestPort(c, c.probes[i])]

\* The seed: an image of the user's, a generated one, or none; net says whether a
\* network configuration is in it.
buildSeed(c) ==
    LET cloudInit == c.ipConfig = "cloud-init"
    IN  IF c.seedPath # "" THEN [kind |-> "image", net |-> FALSE]
        ELSE IF ~c.seed \/ (c.password = "" /\ c.sshKey = "" /\ ~cloudInit)
        THEN [kind |-> "none", net |-> FALSE]
        ELSE [kind |-> "generated", net |-> cloudInit]

\* What the kernel command line says of the network; vz has no static address.
KernelIP(c, engine) ==
    CASE c.ipConfig = "kernel-dhcp"   -> "dhcp"
      [] c.ipConfig = "kernel-static" -> IF engine = "vz" THEN "dhcp" ELSE "static"
      [] OTHER                        -> "none"
=============================================================================
