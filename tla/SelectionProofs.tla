--------------------------- MODULE SelectionProofs ---------------------------
(* The operators Startup is built from, for all their arguments: what the     *)
(* loops of OciSelect and LaunchConfig return.  A loop is a recursive         *)
(* function of the number of elements looked at; that there is one, and what  *)
(* holds of each of its values, is shown for the set of the numbers for which *)
(* it is so, by Counting, and not by an induction over a predicate.           *)
EXTENDS Startup, WellFoundedInduction, TLAPS

\* The least number of a set, which is what SelectInSeq returns.
LEMMA MinIsLeast ==
    ASSUME NEW I, I \subseteq Nat, I # {}
    PROVE  Min(I) \in I /\ \A j \in I : Min(I) <= j
  <1> DEFINE less == {ss \in Nat \X Nat : ss[1] < ss[2]}
  <1>0. IsWellFoundedOn(less, Nat)
    BY NatLessThanWellFounded, Zenon DEF OpToRel
  <1>1. PICK i \in I : \A j \in I : ~(<<j, i>> \in less)
    <2> HIDE DEF less
    <2> QED BY <1>0, WFMin
  <1>2. ASSUME NEW j \in I PROVE i <= j
    <2>1. j < i => <<j, i>> \in less
      OBVIOUS
    <2> QED BY <1>1, <2>1
  <1> QED BY <1>2 DEF Min

\* A set of numbers that has 0, and every number up to n behind one it has.
LEMMA Counting ==
    ASSUME NEW n \in Nat, NEW J, 0 \in J, \A i \in 1 .. n : i - 1 \in J => i \in J
    PROVE  \A i \in 0 .. n : i \in J
  <1> DEFINE missing == {i \in 0 .. n : i \notin J}
  <1> SUFFICES ASSUME missing # {} PROVE FALSE
    OBVIOUS
  <1> DEFINE m == Min(missing)
  <1>1. m \in missing /\ \A j \in missing : m <= j
    <2>1. missing \subseteq Nat
      OBVIOUS
    <2> HIDE DEF missing
    <2> QED BY <2>1, MinIsLeast
  <1> HIDE DEF m
  <1>2. m \in 1 .. n /\ m - 1 \in 0 .. n
    BY <1>1
  <1>3. m - 1 \in J
    BY <1>1, <1>2
  <1> QED BY <1>1, <1>2, <1>3

\* A loop over n elements that keeps something of T: its values, by the number of
\* elements looked at, when it starts with t.
Loops(n, T, t, step) ==
    {g \in [0 .. n -> T] : g[0] = t /\ \A i \in 1 .. n : g[i] = step[i][g[i - 1]]}

LEMMA Looping ==
    ASSUME NEW n \in Nat, NEW T, NEW t \in T, NEW step \in [1 .. n -> [T -> T]]
    PROVE  Loops(n, T, t, step) # {}
  <1> DEFINE Upto(k) == {g \in [0 .. k -> T] :
                           g[0] = t /\ \A i \in 1 .. k : g[i] = step[i][g[i - 1]]}
             J == {k \in 0 .. n : Upto(k) # {}}
  <1>1. 0 \in J
    <2>1. [i \in 0 .. 0 |-> t] \in Upto(0)
      OBVIOUS
    <2> QED BY <2>1
  <1>2. ASSUME NEW m \in 1 .. n, m - 1 \in J PROVE m \in J
    <2>1. PICK g \in Upto(m - 1) : TRUE
      BY <1>2
    <2> DEFINE h == [i \in 0 .. m |-> IF i = m THEN step[m][g[m - 1]] ELSE g[i]]
    <2>2. /\ g \in [0 .. m - 1 -> T] /\ g[0] = t
          /\ \A i \in 1 .. m - 1 : g[i] = step[i][g[i - 1]]
      OBVIOUS
    <2>3. step[m][g[m - 1]] \in T
      BY <2>2
    <2>4. h \in [0 .. m -> T] /\ h[0] = t
      BY <2>2, <2>3
    <2>5. ASSUME NEW i \in 1 .. m PROVE h[i] = step[i][h[i - 1]]
      <3>1. h[i - 1] = g[i - 1]
        OBVIOUS
      <3>2. CASE i = m
        BY <3>1, <3>2
      <3>3. CASE i # m
        <4>1. h[i] = g[i] /\ i \in 1 .. m - 1
          BY <3>3
        <4> QED BY <2>2, <3>1, <4>1
      <3> QED BY <3>2, <3>3
    <2> HIDE DEF h
    <2>6. h \in Upto(m)
      BY <2>4, <2>5
    <2> QED BY <2>6
  <1>3. n \in J
    <2> HIDE DEF J
    <2>1. \A i \in 1 .. n : i - 1 \in J => i \in J
      BY <1>2
    <2>2. \A i \in 0 .. n : i \in J
      BY <1>1, <2>1, Counting
    <2> QED BY <2>2
  <1> QED BY <1>3 DEF Loops

LEMMA FirstPosition ==
    ASSUME NEW S, NEW s \in Seq(S), NEW I, I \subseteq 1 .. Len(s)
    PROVE  /\ DOMAIN s = 1 .. Len(s)
           /\ I \subseteq Int /\ 0 \notin I
           /\ I # {} => Min(I) \in I /\ \A j \in I : Min(I) <= j
  <1>1. Len(s) \in Nat /\ DOMAIN s = 1 .. Len(s)
    OBVIOUS
  <1>2. I \subseteq Nat /\ I \subseteq Int /\ 0 \notin I
    BY <1>1
  <1> QED BY <1>1, <1>2, MinIsLeast

-----------------------------------------------------------------------------
\* What LargestPayload has after n layers: the first of the largest payloads among
\* them, 0 if all were sidecars (manifest.go:55).
BestOf(layers, n) ==
    {b \in 0 .. n :
       /\ b = 0 => \A j \in 1 .. n : isSidecar(layers[j])
       /\ b # 0 => /\ ~isSidecar(layers[b])
                   /\ \A j \in 1 .. n : \/ isSidecar(layers[j])
                                        \/ layers[j].size < layers[b].size
                                        \/ layers[j].size = layers[b].size /\ b <= j}

\* One layer more.
Larger(layers, i, b) ==
    IF isSidecar(layers[i]) THEN b
    ELSE IF b = 0 \/ layers[i].size > layers[b].size THEN i
    ELSE b

LEMMA LargerIsBest ==
    ASSUME NEW layers, NEW n \in Nat, NEW i \in 1 .. n, NEW b \in BestOf(layers, i - 1),
           \A j \in 1 .. n : layers[j].size \in Int
    PROVE  Larger(layers, i, b) \in BestOf(layers, i)
  <1> DEFINE size(j) == layers[j].size
             plain(j) == ~isSidecar(layers[j])
  <1>0. \A j \in 1 .. n : size(j) \in Int
    OBVIOUS
  <1>1. /\ b \in 0 .. i - 1
        /\ b = 0 => \A j \in 1 .. i - 1 : ~plain(j)
        /\ b # 0 => /\ plain(b)
                    /\ \A j \in 1 .. i - 1 : \/ ~plain(j)
                                             \/ size(j) < size(b)
                                             \/ size(j) = size(b) /\ b <= j
    BY DEF BestOf
  <1> DEFINE c == IF ~plain(i) THEN b ELSE IF b = 0 \/ size(i) > size(b) THEN i ELSE b
  <1>2. c = Larger(layers, i, b)
    BY DEF Larger
  <1> HIDE DEF size, plain
  <1>3. /\ c \in 0 .. i
        /\ c = 0 => \A j \in 1 .. i : ~plain(j)
        /\ c # 0 => /\ plain(c)
                    /\ \A j \in 1 .. i : \/ ~plain(j)
                                         \/ size(j) < size(c)
                                         \/ size(j) = size(c) /\ c <= j
    <2>1. \A j \in 1 .. i : j = i \/ j \in 1 .. i - 1
      OBVIOUS
    <2>2. i \in 1 .. n /\ i \in Int /\ (b # 0 => b \in 1 .. n)
      BY <1>1
    <2>3. CASE ~plain(i)
      BY <1>1, <2>1, <2>3
    <2>4. CASE plain(i) /\ b = 0
      <3>1. c = i
        BY <2>4
      <3> HIDE DEF c
      <3> QED BY <1>1, <2>1, <2>2, <2>4, <3>1
    <2>5. CASE plain(i) /\ b # 0 /\ size(i) > size(b)
      <3>1. c = i
        BY <2>5
      <3>2. ASSUME NEW j \in 1 .. i - 1, plain(j) PROVE size(j) < size(i)
        <4>1. j \in 1 .. n
          OBVIOUS
        <4> QED BY <1>0, <1>1, <2>2, <2>5, <3>2, <4>1
      <3> HIDE DEF c
      <3> QED BY <2>1, <2>2, <2>5, <3>1, <3>2
    <2>6. CASE plain(i) /\ b # 0 /\ ~(size(i) > size(b))
      <3>1. c = b
        BY <2>6
      <3>2. size(i) < size(b) \/ (size(i) = size(b) /\ b <= i)
        BY <1>0, <1>1, <2>2, <2>6
      <3> HIDE DEF c
      <3> QED BY <1>1, <2>1, <2>6, <3>1, <3>2
    <2> QED BY <2>3, <2>4, <2>5, <2>6
  <1> HIDE DEF c
  <1> QED BY <1>2, <1>3 DEF BestOf, size, plain

LEMMA LargestIsBest ==
    ASSUME NEW S, NEW layers \in Seq(S), \A j \in 1 .. Len(layers) : layers[j].size \in Int
    PROVE  LargestPayload(layers) \in BestOf(layers, Len(layers))
  <1> DEFINE n == Len(layers)
             best[i \in 0 .. n] ==
               IF i = 0 THEN 0
               ELSE IF isSidecar(layers[i]) THEN best[i - 1]
               ELSE IF best[i - 1] = 0 \/ layers[i].size > layers[best[i - 1]].size THEN i
               ELSE best[i - 1]
             T == 0 .. n
             step == [i \in 1 .. n |-> [b \in T |-> Larger(layers, i, b)]]
             J == {i \in 0 .. n : best[i] \in BestOf(layers, i)}
  <1>0. n \in Nat
    OBVIOUS
  <1>1. step \in [1 .. n -> [T -> T]]
    <2>1. \A i \in 1 .. n, b \in T : Larger(layers, i, b) \in T
      BY DEF Larger
    <2> HIDE DEF T
    <2> QED BY <2>1
  <1>2. PICK g : g \in Loops(n, T, 0, step)
    <2>1. 0 \in T
      BY <1>0
    <2> HIDE DEF n, step, T, best, J
    <2> QED BY <1>0, <1>1, <2>1, Looping
  <1>g. /\ g \in [0 .. n -> T] /\ g[0] = 0
        /\ \A i \in 1 .. n : g[i] = step[i][g[i - 1]]
    BY <1>2 DEF Loops
  <1>3. ASSUME NEW i \in 1 .. n PROVE g[i] = Larger(layers, i, g[i - 1])
    <2>1. g[i - 1] \in T
      BY <1>0, <1>g
    <2> HIDE DEF T
    <2> QED BY <1>g, <2>1
  <1>4. \E f : f = [i \in 0 .. n |->
                     IF i = 0 THEN 0
                     ELSE IF isSidecar(layers[i]) THEN f[i - 1]
                     ELSE IF f[i - 1] = 0 \/ layers[i].size > layers[f[i - 1]].size THEN i
                     ELSE f[i - 1]]
    <2> HIDE DEF n, step, T
    <2>1. g = [i \in 0 .. n |->
                 IF i = 0 THEN 0
                 ELSE IF isSidecar(layers[i]) THEN g[i - 1]
                 ELSE IF g[i - 1] = 0 \/ layers[i].size > layers[g[i - 1]].size THEN i
                 ELSE g[i - 1]]
      <3>1. g = [i \in 0 .. n |-> g[i]]
        BY <1>g
      <3>2. \A i \in 0 .. n : i = 0 \/ i \in 1 .. n
        BY <1>0
      <3> QED BY <1>g, <1>3, <3>1, <3>2 DEF Larger
    <2> QED BY <2>1
  <1>5. best = [i \in 0 .. n |->
                  IF i = 0 THEN 0
                  ELSE IF isSidecar(layers[i]) THEN best[i - 1]
                  ELSE IF best[i - 1] = 0 \/ layers[i].size > layers[best[i - 1]].size THEN i
                  ELSE best[i - 1]]
    BY <1>4
  <1>6. LargestPayload(layers) = best[n]
    BY DEF LargestPayload
  <1> HIDE DEF best
  <1>7. best[0] = 0 /\ \A i \in 1 .. n : best[i] = Larger(layers, i, best[i - 1])
    <2> HIDE DEF n
    <2>1. 0 \in 0 .. n /\ \A i \in 1 .. n : i \in 0 .. n /\ i # 0
      BY <1>0
    <2> QED BY <1>5, <2>1 DEF Larger
  <1> HIDE DEF n
  <1>8. 0 \in J
    BY <1>0, <1>7 DEF BestOf
  <1>9. ASSUME NEW i \in 1 .. n, i - 1 \in J PROVE i \in J
    <2>1. best[i - 1] \in BestOf(layers, i - 1)
      BY <1>9
    <2>2. \A j \in 1 .. n : layers[j].size \in Int
      BY DEF n
    <2>3. best[i] \in BestOf(layers, i)
      BY <1>0, <1>7, <2>1, <2>2, LargerIsBest
    <2> QED BY <1>0, <2>3
  <1>10. n \in J
    <2> HIDE DEF J
    <2>1. \A i \in 1 .. n : i - 1 \in J => i \in J
      BY <1>9
    <2>2. \A i \in 0 .. n : i \in J
      BY <1>0, <1>8, <2>1, Counting
    <2> QED BY <1>0, <2>2
  <1> QED BY <1>6, <1>10 DEF n

\* The layer that is pulled is the payload, wherever it stands (manifest.go:31).
THEOREM PayloadIsPicked ==
    ASSUME NEW S, NEW name, NEW layers \in Seq(S),
           \A j \in 1 .. Len(layers) : layers[j].size \in Int,
           selectPrimaryLayer(name, layers) # 0
    PROVE  IsPayload(name, layers, selectPrimaryLayer(name, layers))
  <1> DEFINE E == {j \in 1 .. Len(layers) : layers[j].type \in expectedMediaTypes[name]}
             i == selectPrimaryLayer(name, layers)
  <1>1. i = IF E # {} THEN Min(E) ELSE LargestPayload(layers)
    <2>1. Len(layers) \in Nat
      OBVIOUS
    <2>2. E # {} => Min(E) # 0
      <3>1. E \subseteq 1 .. Len(layers)
        OBVIOUS
      <3> HIDE DEF E
      <3> QED BY <3>1, FirstPosition
    <2> QED BY <2>2 DEF selectPrimaryLayer, SelectInSeq
  <1>2. DOMAIN layers = 1 .. Len(layers)
    OBVIOUS
  <1>3. CASE E # {}
    <2>1. E \subseteq 1 .. Len(layers)
      OBVIOUS
    <2>2. i \in E /\ \A j \in E : i <= j
      <3> HIDE DEF E, i
      <3> QED BY <1>1, <1>3, <2>1, FirstPosition
    <2> HIDE DEF i
    <2> QED BY <1>2, <1>3, <2>2 DEF IsPayload, i
  <1>4. CASE E = {}
    <2>1. i \in BestOf(layers, Len(layers)) /\ i # 0
      BY <1>1, <1>4, LargestIsBest
    <2> HIDE DEF i
    <2>2. /\ i \in 1 .. Len(layers) /\ ~isSidecar(layers[i])
          /\ \A j \in 1 .. Len(layers) : \/ isSidecar(layers[j])
                                         \/ layers[j].size < layers[i].size
                                         \/ layers[j].size = layers[i].size /\ i <= j
      BY <2>1 DEF BestOf
    <2> QED BY <1>2, <1>4, <2>2 DEF IsPayload, i
  <1> QED BY <1>3, <1>4

\* Where one architecture name stands for another, it does so for both users of
\* it: the registry's entry and QEMU's binary (app.go:188, command.go:13).
LEMMA OneArchitecture ==
    ASSUME NEW a
    PROVE  ociArch(a) = IF SystemBinaryName(a) = "qemu-system-aarch64"
                        THEN "arm64" ELSE "amd64"
  BY DEF ociArch, SystemBinaryName

LEMMA PlatformFits ==
    ASSUME NEW S, NEW index \in Seq(S), NEW arch, selectPlatformManifest(index, arch) # 0
    PROVE  /\ selectPlatformManifest(index, arch) \in DOMAIN index
           /\ index[selectPlatformManifest(index, arch)].arch = arch
           /\ index[selectPlatformManifest(index, arch)].os \in {"", "linux"}
  <1> DEFINE i == selectPlatformManifest(index, arch)
             I == {j \in 1 .. Len(index) :
                     index[j].arch = arch /\ index[j].os \in {"", "linux"}}
  <1>1. i = IF I # {} THEN Min(I) ELSE 0
    BY DEF selectPlatformManifest, SelectInSeq
  <1>2. I \subseteq 1 .. Len(index)
    OBVIOUS
  <1>3. DOMAIN index = 1 .. Len(index) /\ (I # {} => Min(I) \in I)
    <2> HIDE DEF I
    <2> QED BY <1>2, FirstPosition
  <1> HIDE DEF i
  <1>4. i \in I
    <2> HIDE DEF I
    <2> QED BY <1>1, <1>3 DEF i
  <1> QED BY <1>3, <1>4 DEF i

LEMMA SidecarIsFirst ==
    ASSUME NEW S, NEW name, NEW layers \in Seq(S), NEW k, layers[k].ext = ""
    PROVE  /\ SumsOf(name, layers, k) \subseteq Int
           /\ \/ Sidecar(name, layers, k) = 0 /\ SumsOf(name, layers, k) = {}
              \/ /\ Sidecar(name, layers, k) # 0
                 /\ Sidecar(name, layers, k) \in SumsOf(name, layers, k)
                 /\ \A i \in SumsOf(name, layers, k) : Sidecar(name, layers, k) <= i
  <1> DEFINE t == Title(name, layers[k])
             I == {i \in 1 .. Len(layers) : layers[i].title = t.title
                                            /\ layers[i].ext = ".sha256"}
  <1>1. t.ext = ""
    BY DEF Title
  <1>2. Sidecar(name, layers, k) = IF I # {} THEN Min(I) ELSE 0
    BY <1>1 DEF Sidecar, SelectInSeq
  <1>3. I \subseteq 1 .. Len(layers)
    OBVIOUS
  <1>4. /\ DOMAIN layers = 1 .. Len(layers)
        /\ I \subseteq Int /\ 0 \notin I
        /\ I # {} => Min(I) \in I /\ \A j \in I : Min(I) <= j
    <2> HIDE DEF I
    <2> QED BY <1>3, FirstPosition
  <1>5. I = SumsOf(name, layers, k)
    BY <1>4 DEF SumsOf
  <1> HIDE DEF I
  <1> QED BY <1>2, <1>4, <1>5

-----------------------------------------------------------------------------
\* Every forward is bound to the one address (app.go:231).
LEMMA ForwardsBind ==
    ASSUME NEW c, NEW i \in DOMAIN portForwards(c)
    PROVE  portForwards(c)[i].ip = IF c.bind = "" THEN "127.0.0.1" ELSE c.bind
  <1> DEFINE all == IF c.sshPort > 0
                    THEN Append(c.ports,
                                [proto |-> "tcp", host |-> c.sshPort, guest |-> 22])
                    ELSE c.ports
             forward(j) == [proto |-> IF all[j].proto = "" THEN "tcp" ELSE all[j].proto,
                            ip    |-> IF c.bind = "" THEN "127.0.0.1" ELSE c.bind,
                            host  |-> all[j].host,
                            guest |-> all[j].guest]
  <1>1. portForwards(c) = [j \in DOMAIN all |-> forward(j)]
    BY DEF portForwards
  <1>2. forward(i).ip = IF c.bind = "" THEN "127.0.0.1" ELSE c.bind
    OBVIOUS
  <1> HIDE DEF all, forward
  <1>3. portForwards(c)[i] = forward(i)
    BY <1>1
  <1> QED BY <1>2, <1>3

-----------------------------------------------------------------------------
\* No value twice.
Distinct(s) == \A i, j \in 1 .. Len(s) : s[i] = s[j] => i = j

\* The loop of AccelCandidates, one name more.
Usable(list, h, i) ==
    /\ list[i] = "tcg" \/ (list[i] = "hw" /\ h.hw)
    /\ \A j \in 1 .. i - 1 : list[j] # list[i]

Tried(list, h, i, out) == IF Usable(list, h, i) THEN Append(out, list[i]) ELSE out

\* What it has after n names: names it saw, none twice, and the emulator if that was
\* among them.
Trials(U, list, n) ==
    {out \in Seq(U) :
       /\ \A k \in 1 .. Len(out) : \E m \in 1 .. n : out[k] = list[m]
       /\ Distinct(out)
       /\ \A m \in 1 .. n : list[m] = "tcg" => \E k \in 1 .. Len(out) : out[k] = "tcg"}

LEMMA TriedKeeps ==
    ASSUME NEW U, NEW list \in Seq(U), NEW h, NEW i \in 1 .. Len(list),
           NEW out \in Trials(U, list, i - 1)
    PROVE  Tried(list, h, i, out) \in Trials(U, list, i)
  <1> DEFINE new == Tried(list, h, i, out)
  <1>1. /\ out \in Seq(U) /\ Len(out) \in Nat
        /\ \A k \in 1 .. Len(out) : \E m \in 1 .. i - 1 : out[k] = list[m]
        /\ \A k, l \in 1 .. Len(out) : out[k] = out[l] => k = l
        /\ \A m \in 1 .. i - 1 : list[m] = "tcg" => \E k \in 1 .. Len(out) : out[k] = "tcg"
    BY DEF Trials, Distinct
  <1>2. \A m \in 1 .. i : m = i \/ m \in 1 .. i - 1
    OBVIOUS
  <1>3. CASE Usable(list, h, i)
    <2>1. /\ new \in Seq(U) /\ Len(new) = Len(out) + 1
          /\ new[Len(out) + 1] = list[i]
          /\ \A k \in 1 .. Len(out) : new[k] = out[k]
      BY <1>1, <1>3 DEF Tried
    <2> HIDE DEF new
    <2>2. \A k \in 1 .. Len(new) : k = Len(out) + 1 \/ k \in 1 .. Len(out)
      BY <1>1, <2>1
    <2>3. \A k \in 1 .. Len(new) : \E m \in 1 .. i : new[k] = list[m]
      BY <1>1, <2>1, <2>2
    <2>4. \A k \in 1 .. Len(out) : out[k] # list[i]
      BY <1>1, <1>3 DEF Usable
    <2>5. Distinct(new)
      <3> SUFFICES ASSUME NEW k \in 1 .. Len(new), NEW l \in 1 .. Len(new), new[k] = new[l]
                   PROVE  k = l
        BY DEF Distinct
      <3> QED BY <1>1, <2>1, <2>2, <2>4
    <2>6. ASSUME NEW m \in 1 .. i, list[m] = "tcg"
          PROVE  \E k \in 1 .. Len(new) : new[k] = "tcg"
      <3>1. CASE m = i
        <4>1. Len(out) + 1 \in 1 .. Len(new)
          BY <1>1, <2>1
        <4> QED BY <2>1, <2>6, <3>1, <4>1
      <3>2. CASE m # i
        <4>1. PICK k \in 1 .. Len(out) : out[k] = "tcg"
          BY <1>1, <1>2, <2>6, <3>2
        <4>2. k \in 1 .. Len(new)
          BY <1>1, <2>1
        <4> QED BY <2>1, <4>1, <4>2
      <3> QED BY <3>1, <3>2
    <2> QED BY <2>1, <2>3, <2>5, <2>6 DEF Trials, new
  <1>4. CASE ~Usable(list, h, i)
    <2>1. Tried(list, h, i, out) = out
      BY <1>4 DEF Tried
    <2>2. \A k \in 1 .. Len(out) : \E m \in 1 .. i : out[k] = list[m]
      BY <1>1
    <2>3. ASSUME NEW m \in 1 .. i, list[m] = "tcg"
          PROVE  \E k \in 1 .. Len(out) : out[k] = "tcg"
      <3>1. CASE m = i
        <4>1. PICK j \in 1 .. i - 1 : list[j] = "tcg"
          BY <1>4, <2>3, <3>1 DEF Usable
        <4> QED BY <1>1, <4>1
      <3>2. CASE m # i
        BY <1>1, <1>2, <2>3, <3>2
      <3> QED BY <3>1, <3>2
    <2> QED BY <1>1, <2>1, <2>2, <2>3 DEF Trials, Distinct
  <1> QED BY <1>3, <1>4

\* There is always something to try, nothing twice, and the emulator among it
\* (accel.go:22).
THEOREM AcceleratorsFit ==
    ASSUME NEW S, NEW pref \in Seq(S), NEW h
    PROVE  /\ AccelCandidates(pref, h) \in Seq(S \cup {"hw", "tcg"})
           /\ AccelCandidates(pref, h) # <<>>
           /\ Distinct(AccelCandidates(pref, h))
           /\ \E k \in 1 .. Len(AccelCandidates(pref, h)) : AccelCandidates(pref, h)[k] = "tcg"
  <1> DEFINE U == S \cup {"hw", "tcg"}
             list == IF pref = <<>> THEN <<"hw", "tcg">> ELSE pref
             n == Len(list)
             usable(i) == /\ list[i] = "tcg" \/ (list[i] = "hw" /\ h.hw)
                          /\ \A j \in 1 .. i - 1 : list[j] # list[i]
             out[i \in 0 .. n] ==
               IF i = 0 THEN <<>>
               ELSE IF usable(i) THEN Append(out[i - 1], list[i]) ELSE out[i - 1]
             T == Seq(U)
             step == [i \in 1 .. n |-> [o \in T |-> Tried(list, h, i, o)]]
             J == {i \in 0 .. n : out[i] \in Trials(U, list, i)}
             end == IF \E i \in DOMAIN list : list[i] = "tcg" THEN <<>> ELSE <<"tcg">>
  <1>0. list \in Seq(U) /\ n \in Nat /\ DOMAIN list = 1 .. n
    <2>1. <<"hw", "tcg">> \in Seq(U) /\ pref \in Seq(U)
      OBVIOUS
    <2>2. list \in Seq(U)
      BY <2>1
    <2> HIDE DEF list
    <2> QED BY <2>2
  <1>r. AccelCandidates(pref, h) = out[n] \o end
    BY DEF AccelCandidates
  <1> HIDE DEF list
  <1>1. step \in [1 .. n -> [T -> T]]
    <2>1. \A i \in 1 .. n, o \in T : Tried(list, h, i, o) \in T
      <3>1. \A i \in 1 .. n : list[i] \in U
        BY <1>0
      <3> HIDE DEF U
      <3> QED BY <3>1 DEF Tried
    <2> HIDE DEF T, n
    <2> QED BY <2>1
  <1>2. PICK g : g \in Loops(n, T, <<>>, step)
    <2>1. <<>> \in T
      OBVIOUS
    <2> HIDE DEF n, step, T, out, J
    <2> QED BY <1>0, <1>1, <2>1, Looping
  <1>g. /\ g \in [0 .. n -> T] /\ g[0] = <<>>
        /\ \A i \in 1 .. n : g[i] = step[i][g[i - 1]]
    BY <1>2 DEF Loops
  <1>3. ASSUME NEW i \in 1 .. n PROVE g[i] = Tried(list, h, i, g[i - 1])
    <2>1. g[i - 1] \in T
      <3>1. i - 1 \in 0 .. n
        BY <1>0
      <3> HIDE DEF T, n
      <3> QED BY <1>g, <3>1
    <2> HIDE DEF T
    <2> QED BY <1>g, <2>1
  <1>4. \E f : f = [i \in 0 .. n |->
                     IF i = 0 THEN <<>>
                     ELSE IF usable(i) THEN Append(f[i - 1], list[i]) ELSE f[i - 1]]
    <2>1. \A i \in 1 .. n : g[i] = IF usable(i) THEN Append(g[i - 1], list[i]) ELSE g[i - 1]
      BY <1>3 DEF Tried, Usable
    <2> HIDE DEF n, step, T, usable
    <2>2. g = [i \in 0 .. n |->
                 IF i = 0 THEN <<>>
                 ELSE IF usable(i) THEN Append(g[i - 1], list[i]) ELSE g[i - 1]]
      <3>1. g = [i \in 0 .. n |-> g[i]]
        BY <1>g
      <3>2. \A i \in 0 .. n : i = 0 \/ i \in 1 .. n
        BY <1>0
      <3> QED BY <1>g, <2>1, <3>1, <3>2
    <2> QED BY <2>2
  <1>5. out = [i \in 0 .. n |->
                 IF i = 0 THEN <<>>
                 ELSE IF usable(i) THEN Append(out[i - 1], list[i]) ELSE out[i - 1]]
    <2> HIDE DEF usable
    <2> QED BY <1>4
  <1> HIDE DEF out
  <1>6. out[0] = <<>> /\ \A i \in 1 .. n : out[i] = Tried(list, h, i, out[i - 1])
    <2>1. 0 \in 0 .. n /\ \A i \in 1 .. n : i \in 0 .. n /\ i # 0
      BY <1>0
    <2>2. \A i \in 1 .. n : usable(i) <=> Usable(list, h, i)
      BY DEF Usable
    <2> HIDE DEF n, usable
    <2> QED BY <1>5, <2>1, <2>2 DEF Tried
  <1>7. 0 \in J
    <2>1. <<>> \in Seq(U) /\ Len(<<>>) = 0
      OBVIOUS
    <2>2. <<>> \in Trials(U, list, 0)
      BY <2>1 DEF Trials, Distinct
    <2> QED BY <1>0, <1>6, <2>2
  <1>8. ASSUME NEW i \in 1 .. n, i - 1 \in J PROVE i \in J
    <2>1. out[i - 1] \in Trials(U, list, i - 1)
      BY <1>8
    <2>2. out[i] \in Trials(U, list, i)
      BY <1>0, <1>6, <2>1, TriedKeeps
    <2> QED BY <2>2
  <1>9. out[n] \in Trials(U, list, n)
    <2>1. n \in J
      <3> HIDE DEF J, n
      <3>1. \A i \in 1 .. n : i - 1 \in J => i \in J
        BY <1>8
      <3>2. \A i \in 0 .. n : i \in J
        BY <1>0, <1>7, <3>1, Counting
      <3> QED BY <1>0, <3>2
    <2> QED BY <2>1
  <1> DEFINE o == out[n]
  <1>10. /\ o \in Seq(U) /\ Len(o) \in Nat
         /\ \A k \in 1 .. Len(o) : \E m \in 1 .. n : o[k] = list[m]
         /\ \A k, l \in 1 .. Len(o) : o[k] = o[l] => k = l
         /\ \A m \in 1 .. n : list[m] = "tcg" => \E k \in 1 .. Len(o) : o[k] = "tcg"
    BY <1>9 DEF Trials, Distinct
  <1> HIDE DEF o
  <1>11. CASE \E i \in 1 .. n : list[i] = "tcg"
    <2>1. o \o end = o
      BY <1>0, <1>10, <1>11
    <2>2. \E k \in 1 .. Len(o) : o[k] = "tcg"
      BY <1>10, <1>11
    <2>3. AccelCandidates(pref, h) = o
      <3> HIDE DEF end, n
      <3> QED BY <1>r, <2>1 DEF o
    <2>4. o # <<>>
      BY <2>2
    <2> QED BY <1>10, <2>2, <2>3, <2>4 DEF Distinct
  <1>12. CASE ~ \E i \in 1 .. n : list[i] = "tcg"
    <2>1. end = <<"tcg">>
      BY <1>0, <1>12
    <2> HIDE DEF end
    <2> DEFINE all == o \o <<"tcg">>
    <2>2. /\ all \in Seq(U) /\ Len(all) = Len(o) + 1
          /\ all[Len(o) + 1] = "tcg"
          /\ \A k \in 1 .. Len(o) : all[k] = o[k]
      <3>1. <<"tcg">> \in Seq(U) /\ Len(<<"tcg">>) = 1 /\ <<"tcg">>[1] = "tcg"
        OBVIOUS
      <3> QED BY <1>10, <3>1
    <2>3. all = AccelCandidates(pref, h)
      BY <1>r, <2>1 DEF o
    <2> HIDE DEF all
    <2>4. \A k \in 1 .. Len(all) : k = Len(o) + 1 \/ k \in 1 .. Len(o)
      BY <1>10, <2>2
    <2>5. \A k \in 1 .. Len(o) : o[k] # "tcg"
      BY <1>10, <1>12
    <2>6. Distinct(all)
      <3> SUFFICES ASSUME NEW k \in 1 .. Len(all), NEW l \in 1 .. Len(all), all[k] = all[l]
                   PROVE  k = l
        BY DEF Distinct
      <3> QED BY <1>10, <2>2, <2>4, <2>5
    <2>7. Len(o) + 1 \in 1 .. Len(all) /\ all # <<>>
      BY <1>10, <2>2
    <2> QED BY <2>2, <2>3, <2>6, <2>7
  <1> QED BY <1>11, <1>12

-----------------------------------------------------------------------------
\* The forwards of the command line are a list again (app.go:160).
LEMMA AddedPortsAreList ==
    ASSUME NEW X, NEW specs \in Seq(X)
    PROVE  AddedPorts(specs) \in Seq({ParsePortSpec(x) : x \in X})
  <1> DEFINE n == Len(specs)
             T == Seq({ParsePortSpec(x) : x \in X})
             added[i \in 0 .. n] ==
               IF i = 0 THEN <<>>
               ELSE IF Parses(specs[i]) THEN Append(added[i - 1], ParsePortSpec(specs[i]))
               ELSE added[i - 1]
             Add(i, o) == IF Parses(specs[i]) THEN Append(o, ParsePortSpec(specs[i])) ELSE o
             step == [i \in 1 .. n |-> [o \in T |-> Add(i, o)]]
             J == {i \in 0 .. n : added[i] \in T}
  <1>0. n \in Nat /\ \A i \in 1 .. n : specs[i] \in X
    OBVIOUS
  <1>r. AddedPorts(specs) = added[n]
    BY DEF AddedPorts
  <1>1. ASSUME NEW i \in 1 .. n, NEW o \in T PROVE Add(i, o) \in T
    <2> DEFINE P == {ParsePortSpec(x) : x \in X}
    <2>1. ParsePortSpec(specs[i]) \in P /\ o \in Seq(P)
      BY <1>0
    <2> HIDE DEF P
    <2>2. Append(o, ParsePortSpec(specs[i])) \in Seq(P)
      BY <2>1
    <2> QED BY <2>1, <2>2 DEF P
  <1> HIDE DEF Add
  <1>2. step \in [1 .. n -> [T -> T]]
    <2> HIDE DEF T, n
    <2> QED BY <1>1
  <1>3. PICK g : g \in Loops(n, T, <<>>, step)
    <2>1. <<>> \in T
      OBVIOUS
    <2> HIDE DEF n, step, T, added, J
    <2> QED BY <1>0, <1>2, <2>1, Looping
  <1>g. /\ g \in [0 .. n -> T] /\ g[0] = <<>>
        /\ \A i \in 1 .. n : g[i] = step[i][g[i - 1]]
    BY <1>3 DEF Loops
  <1>4. ASSUME NEW i \in 1 .. n PROVE g[i] = Add(i, g[i - 1])
    <2>1. i - 1 \in 0 .. n
      BY <1>0
    <2> HIDE DEF T
    <2> QED BY <1>g, <2>1
  <1>5. \E f : f = [i \in 0 .. n |->
                     IF i = 0 THEN <<>>
                     ELSE IF Parses(specs[i]) THEN Append(f[i - 1], ParsePortSpec(specs[i]))
                     ELSE f[i - 1]]
    <2> HIDE DEF n, step, T
    <2>1. g = [i \in 0 .. n |->
                 IF i = 0 THEN <<>>
                 ELSE IF Parses(specs[i]) THEN Append(g[i - 1], ParsePortSpec(specs[i]))
                 ELSE g[i - 1]]
      <3>1. g = [i \in 0 .. n |-> g[i]]
        BY <1>g
      <3>2. \A i \in 0 .. n : i = 0 \/ i \in 1 .. n
        BY <1>0
      <3> QED BY <1>g, <1>4, <3>1, <3>2 DEF Add
    <2> QED BY <2>1
  <1>6. added = [i \in 0 .. n |->
                   IF i = 0 THEN <<>>
                   ELSE IF Parses(specs[i]) THEN Append(added[i - 1], ParsePortSpec(specs[i]))
                   ELSE added[i - 1]]
    BY <1>5
  <1> HIDE DEF added
  <1>7. added[0] = <<>> /\ \A i \in 1 .. n : added[i] = Add(i, added[i - 1])
    <2>1. 0 \in 0 .. n /\ \A i \in 1 .. n : i \in 0 .. n /\ i # 0
      BY <1>0
    <2> HIDE DEF n
    <2> QED BY <1>6, <2>1 DEF Add
  <1>8. 0 \in J
    <2>1. <<>> \in T
      OBVIOUS
    <2> HIDE DEF T
    <2> QED BY <1>0, <1>7, <2>1
  <1>9. \A i \in 1 .. n : i - 1 \in J => i \in J
    <2> HIDE DEF T
    <2> QED BY <1>0, <1>1, <1>7
  <1>10. n \in J
    <2> HIDE DEF J, n
    <2>1. \A i \in 0 .. n : i \in J
      BY <1>0, <1>8, <1>9, Counting
    <2> QED BY <1>0, <2>1
  <1> QED BY <1>r, <1>10

\* vz probes the guest port that is behind the forward for a probed host port, when
\* no two forwards have one host port (app.go:249).
THEOREM GuestPortIsForwarded ==
    ASSUME NEW c, NEW X, c.ports \in Seq(X),
           NEW i \in DOMAIN portForwards(c),
           \A j, k \in DOMAIN portForwards(c) :
              portForwards(c)[j].host = portForwards(c)[k].host => j = k
    PROVE  GuestPort(c, portForwards(c)[i].host) = portForwards(c)[i].guest
  <1> DEFINE ssh == [proto |-> "tcp", host |-> c.sshPort, guest |-> 22]
             all == IF c.sshPort > 0 THEN Append(c.ports, ssh) ELSE c.ports
             forward(j) == [proto |-> IF all[j].proto = "" THEN "tcp" ELSE all[j].proto,
                            ip    |-> IF c.bind = "" THEN "127.0.0.1" ELSE c.bind,
                            host  |-> all[j].host,
                            guest |-> all[j].guest]
             n == Len(c.ports)
             h == all[i].host
             at == {j \in DOMAIN c.ports : c.ports[j].host = h}
  <1>1. portForwards(c) = [j \in DOMAIN all |-> forward(j)]
    BY DEF portForwards
  <1>2. /\ DOMAIN portForwards(c) = DOMAIN all
        /\ \A j \in DOMAIN all : /\ portForwards(c)[j].host = all[j].host
                                 /\ portForwards(c)[j].guest = all[j].guest
    <2>1. \A j : forward(j).host = all[j].host /\ forward(j).guest = all[j].guest
      OBVIOUS
    <2> HIDE DEF all, forward
    <2> QED BY <1>1, <2>1
  <1>3. n \in Nat /\ DOMAIN c.ports = 1 .. n
    OBVIOUS
  <1>4. ssh.host = c.sshPort /\ ssh.guest = 22
    OBVIOUS
  <1> HIDE DEF ssh
  <1>5. \A j \in 1 .. n : j \in DOMAIN all /\ all[j] = c.ports[j]
    BY <1>3
  <1>6. i \in DOMAIN all
    BY <1>2
  <1>7. \A j, k \in DOMAIN all : all[j].host = all[k].host => j = k
    BY <1>2
  <1>8. GuestPort(c, h) = all[i].guest
    <2>1. CASE c.sshPort > 0 /\ c.sshPort = h
      <3>1. n + 1 \in DOMAIN all /\ all[n + 1] = ssh
        BY <1>3, <2>1
      <3>2. i = n + 1
        <4> HIDE DEF all
        <4> QED BY <1>4, <1>6, <1>7, <2>1, <3>1
      <3> QED BY <1>4, <2>1, <3>1, <3>2 DEF GuestPort
    <2>2. CASE ~(c.sshPort > 0 /\ c.sshPort = h)
      <3>1. i \in 1 .. n
        <4>1. CASE c.sshPort > 0
          <5>1. DOMAIN all = 1 .. n + 1 /\ all[n + 1] = ssh
            BY <1>3, <4>1
          <5>2. i # n + 1
            BY <1>4, <2>2, <4>1, <5>1
          <5> HIDE DEF all
          <5> QED BY <1>3, <1>6, <5>1, <5>2
        <4>2. CASE ~(c.sshPort > 0)
          BY <1>3, <1>6, <4>2
        <4> QED BY <4>1, <4>2
      <3>2. i \in at /\ \A j \in at : j = i
        <4> HIDE DEF all
        <4> QED BY <1>3, <1>5, <1>6, <1>7, <3>1
      <3>3. i <= i
        BY <1>3, <3>1
      <3> DEFINE last == CHOOSE j \in at : \A k \in at : k <= j
      <3>4. last = i
        <4> HIDE DEF at
        <4> QED BY <3>2, <3>3
      <3>5. GuestPort(c, h) = c.ports[last].guest
        <4>1. at # {}
          BY <3>2
        <4> HIDE DEF h
        <4> QED BY <2>2, <4>1 DEF GuestPort
      <3> HIDE DEF last, all
      <3> QED BY <1>5, <3>1, <3>4, <3>5
    <2> QED BY <2>1, <2>2
  <1> HIDE DEF all
  <1> QED BY <1>2, <1>6, <1>8
=============================================================================
