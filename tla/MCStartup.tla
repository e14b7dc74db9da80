------------------------------ MODULE MCStartup ------------------------------
(* Command lines, files, hosts and artifacts for Startup: a base of each and
   what a single change to it makes, with the pairs that meet in one field. *)
EXTENDS Startup

Spec4(proto, h, g) == [proto |-> proto, host |-> h, guest |-> g]

\* Local files "k", "i", "r"; "raw.img" and "oci-raw" are raw images.
MCForm == [r \in {"k", "i", "r", "raw.img", "oci-k", "oci-r", "oci-raw", "i:tag", "bare"} |->
             CASE r \in {"k", "i", "r", "raw.img"}      -> "path"
               [] r \in {"oci-k", "oci-r", "oci-raw"}   -> "oci"
               [] r = "i:tag"                           -> "tagged"
               [] OTHER                                 -> "bare"]
MCRaw == {"raw.img", "oci-raw"}

F(field, value) == [NoFlags EXCEPT ![field] = value]

MCFlags ==
    {NoFlags} \cup
    {F("kernel", "oci-k"), F("rootfs", "raw.img"), F("rootfsVZ", "oci-raw"),
     F("initrd", "i:tag"), F("initrd", "bare")} \cup
    {F("arch", a) : a \in {"aarch64", "x86_64"}} \cup
    {F("ipConfig", m) : m \in {"kernel-dhcp", "bogus"}} \cup
    {F("bind", b) : b \in {"0.0.0.0", "localhost"}} \cup
    {F("password", "p"), F("sshKey", "s"), F("seedPath", "d")} \cup
    {F("memory", m) : m \in {4096, -1}} \cup
    {F("cpus", 4), F("sshPort", 2222), F("noPersist", TRUE), F("noAccelFallback", TRUE)} \cup
    {F("engine", e) : e \in {"vz", "qemu", "bogus", ""}} \cup
    {F("config", "given"), F("ports", <<Spec4("", 8080, 81), Spec4("tcp", 0, 80)>>)} \cup
    {[F("engine", "vz") EXCEPT !.sshPort = 2222],
     [F("engine", "vz") EXCEPT !.bind = "0.0.0.0"],
     [F("rootfs", "oci-raw") EXCEPT !.kernel = "oci-k", !.initrd = "i:tag"],
     [F("rootfs", "oci-r") EXCEPT !.arch = "aarch64"],
     [F("sshKey", "s") EXCEPT !.ipConfig = "none"]}

Base == [kernel |-> "k", initrd |-> "i", rootfs |-> "r"]
With(r) == [x \in DOMAIN Base \cup DOMAIN r |-> IF x \in DOMAIN r THEN r[x] ELSE Base[x]]

MCFiles ==
    {[ports |-> <<>>]} \cup
    {With(r) : r \in
      {[persist |-> TRUE], [persist |-> FALSE], [memory |-> 1024], [memory |-> 0],
       [accelFallback |-> FALSE], [accelPref |-> <<"hw", "hw">>], [accelPref |-> <<>>],
       [accelPref |-> <<"tcg", "hw">>], [kernel |-> ""],
       [arch |-> "arm64"], [rootfsVZ |-> "raw.img"], [rootfs |-> "oci-r"],
       [bind |-> "0.0.0.0"], [bind |-> ""], [bind |-> "0.0.0.0", public |-> TRUE],
       [seed |-> FALSE], [password |-> "q"],
       [ipConfig |-> "kernel-static"], [ipConfig |-> "none"],
       [probes |-> <<2222, 80>>, sshPort |-> 22],
       [probes |-> <<8080, 9>>, ports |-> <<Spec4("", 8080, 80), Spec4("udp", 5353, 53)>>],
       [probes |-> <<8080>>, ports |-> <<Spec4("tcp", 8080, 80), Spec4("udp", 8080, 53)>>,
        sshPort |-> 2022],
       [ports |-> <<Spec4("tcp", 70000, 80)>>]}}

MCHosts == {[os |-> "darwin", arch |-> "arm64", vz |-> TRUE, hw |-> TRUE],
            [os |-> "linux", arch |-> "amd64", vz |-> FALSE, hw |-> TRUE],
            [os |-> "linux", arch |-> "arm64", vz |-> FALSE, hw |-> FALSE]}

L(type, title, ext, size, digest, sum) ==
    [type |-> type, title |-> title, ext |-> ext, size |-> size,
     digest |-> digest, sum |-> sum]
Manifest(arch, os, layers) == [arch |-> arch, os |-> os, layers |-> layers]

Typed == <<L("text", "disk", ".sha256", 1, "x1", "d1"),
           L("other", "notes", "", 9, "x2", ""),
           L("qcow2", "disk", "", 5, "d1", "")>>
Sized == <<L("other", "a", "", 3, "d3", ""), L("provenance", "", "", 9, "x3", ""),
           L("other", "b", "", 4, "d4", ""), L("other", "c", "", 4, "d5", ""),
           L("other", "b", ".sha256", 8, "x4", "")>>
Contradicted == <<L("qcow2", "disk", "", 5, "d6", ""),
                  L("text", "disk", ".sha256", 1, "x6", "d1")>>

MCArtifact ==
    {[multi |-> FALSE, entries |-> <<Manifest("", "", Typed)>>],
     [multi |-> FALSE, entries |-> <<Manifest("", "", Contradicted)>>],
     [multi |-> TRUE, entries |-> <<Manifest("", "", <<>>), Manifest("amd64", "linux", Typed),
                                    Manifest("arm64", "", Sized)>>],
     [multi |-> TRUE, entries |-> <<Manifest("arm64", "windows", Typed),
                                    Manifest("arm64", "linux", Sized)>>],
     [multi |-> FALSE, entries |-> <<Manifest("", "", <<Sized[5]>>)>>]}
=============================================================================
