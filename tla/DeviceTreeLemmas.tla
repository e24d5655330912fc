-------------------------- MODULE DeviceTreeLemmas --------------------------
(***************************************************************************)
(* What the walks of lsblk.go compute, on any acyclic stacking of devices. *)
(*                                                                         *)
(* Reach and Reached say without recursion what is stacked on a device;    *)
(* the walks that DeviceTree defines by recursion, Subtree, All and        *)
(* FilterDeviceRecursive, are shown to find exactly that, in an order that *)
(* a selection keeps.                                                      *)
(***************************************************************************)
EXTENDS DeviceTree, SequenceLemmas

\* The sequences Among concatenates have at most one element each.
LEMMA AmongParts ==
    ASSUME NEW S, NEW s \in Seq(S), NEW P
    PROVE  /\ [i \in DOMAIN s |-> IF s[i] \in P THEN <<s[i]>> ELSE <<>>] \in Seq(Seq(S))
           /\ Len([i \in DOMAIN s |-> IF s[i] \in P THEN <<s[i]>> ELSE <<>>]) = Len(s)
<1>1. Len(s) \in Nat /\ DOMAIN s = 1..Len(s) /\ \A i \in 1..Len(s) : s[i] \in S
  BY LenProperties, ElementOfSeq
<1>2. \A i \in 1..Len(s) : (IF s[i] \in P THEN <<s[i]>> ELSE <<>>) \in Seq(S)
  <2>1. \A x \in S : <<x>> \in Seq(S)
    OBVIOUS
  <2>2. <<>> \in Seq(S)
    BY EmptySeq
  <2> QED
    BY <1>1, <2>1, <2>2
<1> DEFINE parts == [i \in 1..Len(s) |-> IF s[i] \in P THEN <<s[i]>> ELSE <<>>]
<1>3. parts \in [1..Len(s) -> Seq(S)]
  BY <1>2
<1> HIDE DEF parts
<1>4. parts \in Seq(Seq(S)) /\ Len(parts) = Len(s)
  BY <1>1, <1>3
<1> QED
  BY <1>1, <1>4 DEF parts

\* Among keeps exactly the elements in the set.
LEMMA AmongType ==
    ASSUME NEW S, NEW s \in Seq(S), NEW P
    PROVE  /\ Among(s, P) \in Seq(S)
           /\ ToSet(Among(s, P)) = ToSet(s) \cap P
<1> DEFINE parts == [i \in DOMAIN s |-> IF s[i] \in P THEN <<s[i]>> ELSE <<>>]
<1>1. /\ parts \in Seq(Seq(S)) /\ Len(parts) = Len(s)
      /\ DOMAIN s = 1..Len(s) /\ Among(s, P) = FlattenSeq(parts)
  BY AmongParts, LenProperties DEF Among
<1>2. ASSUME NEW i \in 1..Len(s)
      PROVE  ToSet(parts[i]) = {s[i]} \cap P
  <2>1. CASE s[i] \in P
    <3>1. parts[i] = <<s[i]>>
      BY <1>1, <2>1
    <3>2. ToSet(<<s[i]>>) = {s[i]}
      BY DEF ToSet
    <3> QED
      BY <2>1, <3>1, <3>2
  <2>2. CASE s[i] \notin P
    <3>1. parts[i] = <<>>
      BY <1>1, <2>2
    <3>2. ToSet(<<>>) = {}
      BY DEF ToSet
    <3> QED
      BY <2>2, <3>1, <3>2
  <2> QED
    BY <2>1, <2>2
<1> HIDE DEF parts
<1>3. ASSUME NEW x
      PROVE  x \in ToSet(Among(s, P)) <=> x \in ToSet(s) \cap P
  <2>1. x \in ToSet(FlattenSeq(parts)) <=> \E j \in 1..Len(s) : x \in ToSet(parts[j])
    BY <1>1, FlattenElements
  <2>2. x \in ToSet(s) <=> \E j \in 1..Len(s) : x = s[j]
    BY <1>1 DEF ToSet
  <2> QED
    BY <1>1, <1>2, <2>1, <2>2
<1>4. Among(s, P) \in Seq(S)
  BY <1>1, FlattenType
<1> QED
  BY <1>3, <1>4

\* Nothing is among nothing.
LEMMA AmongNone ==
    ASSUME NEW P
    PROVE  Among(<<>>, P) = <<>>
<1>1. [i \in DOMAIN <<>> |-> IF <<>>[i] \in P THEN <<<<>>[i]>> ELSE <<>>] = <<>>
  OBVIOUS
<1> QED
  BY <1>1, FlattenEmpty DEF Among

\* Of one element, Among keeps that or nothing.
LEMMA AmongOne ==
    ASSUME NEW S, NEW x \in S, NEW P
    PROVE  Among(<<x>>, P) = IF x \in P THEN <<x>> ELSE <<>>
<1> DEFINE one == IF x \in P THEN <<x>> ELSE <<>>
<1>1. [i \in DOMAIN <<x>> |-> IF <<x>>[i] \in P THEN <<<<x>>[i]>> ELSE <<>>] = <<one>>
  OBVIOUS
<1>2. one \in Seq(S)
  <2>1. <<x>> \in Seq(S) /\ <<>> \in Seq(S)
    BY EmptySeq
  <2> QED
    BY <2>1
<1>3. FlattenSeq(<<one>>) = one
  <2> HIDE DEF one
  <2> QED
    BY <1>2, FlattenOne
<1> QED
  BY <1>1, <1>3 DEF Among

\* Among distributes over concatenation.
LEMMA AmongConcat ==
    ASSUME NEW S, NEW s \in Seq(S), NEW t \in Seq(S), NEW P
    PROVE  Among(s \o t, P) = Among(s, P) \o Among(t, P)
<1> DEFINE Parts(u) == [i \in DOMAIN u |-> IF u[i] \in P THEN <<u[i]>> ELSE <<>>]
<1>1. /\ s \o t \in Seq(S) /\ Len(s) \in Nat /\ Len(t) \in Nat
      /\ Len(s \o t) = Len(s) + Len(t)
      /\ DOMAIN s = 1..Len(s) /\ DOMAIN t = 1..Len(t)
      /\ DOMAIN (s \o t) = 1..(Len(s) + Len(t))
      /\ \A i \in 1..(Len(s) + Len(t)) :
            (s \o t)[i] = IF i <= Len(s) THEN s[i] ELSE t[i - Len(s)]
  BY ConcatProperties, LenProperties
<1>2. /\ Parts(s) \in Seq(Seq(S)) /\ Len(Parts(s)) = Len(s)
      /\ Parts(t) \in Seq(Seq(S)) /\ Len(Parts(t)) = Len(t)
      /\ Parts(s \o t) \in Seq(Seq(S)) /\ Len(Parts(s \o t)) = Len(s) + Len(t)
  BY <1>1, AmongParts
<1>3. /\ Parts(s) \o Parts(t) \in Seq(Seq(S))
      /\ Len(Parts(s) \o Parts(t)) = Len(s) + Len(t)
      /\ \A i \in 1..(Len(s) + Len(t)) : (Parts(s) \o Parts(t))[i] =
            IF i <= Len(s) THEN Parts(s)[i] ELSE Parts(t)[i - Len(s)]
  <2>1. \A a, b \in Seq(Seq(S)) :
           /\ a \o b \in Seq(Seq(S)) /\ Len(a \o b) = Len(a) + Len(b)
           /\ \A i \in 1..(Len(a) + Len(b)) :
                 (a \o b)[i] = IF i <= Len(a) THEN a[i] ELSE b[i - Len(a)]
    BY ConcatProperties
  <2> HIDE DEF Parts
  <2>2. /\ Parts(s) \o Parts(t) \in Seq(Seq(S))
        /\ Len(Parts(s) \o Parts(t)) = Len(Parts(s)) + Len(Parts(t))
        /\ \A i \in 1..(Len(Parts(s)) + Len(Parts(t))) : (Parts(s) \o Parts(t))[i] =
              IF i <= Len(Parts(s)) THEN Parts(s)[i] ELSE Parts(t)[i - Len(Parts(s))]
    BY <1>2, <2>1
  <2> QED
    BY <1>2, <2>2
<1>4. ASSUME NEW i \in 1..(Len(s) + Len(t))
      PROVE  Parts(s \o t)[i] = (Parts(s) \o Parts(t))[i]
  <2>1. CASE i <= Len(s)
    <3>1. i \in DOMAIN s /\ (s \o t)[i] = s[i]
      BY <1>1, <2>1
    <3>2. Parts(s \o t)[i] = Parts(s)[i]
      BY <1>1, <3>1
    <3> QED
      BY <1>3, <2>1, <3>2
  <2>2. CASE ~(i <= Len(s))
    <3>1. i - Len(s) \in DOMAIN t /\ (s \o t)[i] = t[i - Len(s)]
      BY <1>1, <2>2
    <3>2. Parts(s \o t)[i] = Parts(t)[i - Len(s)]
      BY <1>1, <3>1
    <3> QED
      BY <1>3, <2>2, <3>2
  <2> QED
    BY <2>1, <2>2
<1>5. Parts(s \o t) = Parts(s) \o Parts(t)
  <2> HIDE DEF Parts
  <2> QED
    BY <1>2, <1>3, <1>4, SeqEqual
<1>6. FlattenSeq(Parts(s) \o Parts(t)) = FlattenSeq(Parts(s)) \o FlattenSeq(Parts(t))
  <2> HIDE DEF Parts
  <2> QED
    BY <1>2, FlattenConcat
<1> QED
  BY <1>5, <1>6 DEF Among

\* Among distributes over flattening.
LEMMA AmongFlatten ==
    ASSUME NEW S, NEW seqs \in Seq(Seq(S)), NEW P
    PROVE  Among(FlattenSeq(seqs), P) = FlattenSeq([i \in DOMAIN seqs |-> Among(seqs[i], P)])
<1>1. Len(seqs) \in Nat /\ DOMAIN seqs = 1..Len(seqs) /\ \A i \in 1..Len(seqs) : seqs[i] \in Seq(S)
  BY LenProperties, ElementOfSeq
<1> DEFINE kept == [i \in DOMAIN seqs |-> Among(seqs[i], P)]
<1>2. kept \in Seq(Seq(S)) /\ Len(kept) = Len(seqs)
  <2>1. kept \in [1..Len(seqs) -> Seq(S)]
    BY <1>1, AmongType
  <2> HIDE DEF kept
  <2> QED
    BY <1>1, <2>1
<1>3. \A i \in 1..Len(seqs) : kept[i] = Among(seqs[i], P)
  BY <1>1
<1> HIDE DEF kept
<1> DEFINE T == {p \in Nat \X Seq(S) : Among(p[2], P) = FlattenSeq(Prefix(kept, p[1]))}
<1>4. <<0, <<>>>> \in T
  <2>1. Among(<<>>, P) = <<>> /\ Prefix(kept, 0) = <<>> /\ FlattenSeq(<<>>) = <<>>
    BY <1>2, AmongNone, PrefixProperties, FlattenEmpty
  <2>2. <<>> \in Seq(S)
    BY EmptySeq
  <2> QED
    BY <2>1, <2>2
<1>5. ASSUME NEW i \in 0..Len(seqs), NEW t \in Seq(S), i + 1 <= Len(seqs), <<i, t>> \in T
      PROVE  <<i + 1, t \o seqs[i + 1]>> \in T
  <2>1. i + 1 \in 1..Len(seqs) /\ i + 1 \in Nat
    BY <1>1, <1>5
  <2>2. seqs[i + 1] \in Seq(S) /\ kept[i + 1] \in Seq(S) /\ kept[i + 1] = Among(seqs[i + 1], P)
    BY <1>1, <1>2, <1>3, <2>1, ElementOfSeq
  <2>3. t \o seqs[i + 1] \in Seq(S)
    BY <2>2, ConcatProperties
  <2>4. Among(t \o seqs[i + 1], P) = Among(t, P) \o kept[i + 1]
    <3>1. \A u \in Seq(S) : Among(t \o u, P) = Among(t, P) \o Among(u, P)
      BY AmongConcat
    <3> QED
      BY <2>2, <3>1
  <2>5. /\ Prefix(kept, i) \in Seq(Seq(S))
        /\ Prefix(kept, i + 1) = Append(Prefix(kept, i), kept[i + 1])
    BY <1>2, <1>5, PrefixProperties
  <2>6. FlattenSeq(Prefix(kept, i + 1)) = FlattenSeq(Prefix(kept, i)) \o kept[i + 1]
    BY <2>2, <2>5, FlattenAppend
  <2>7. Among(t, P) = FlattenSeq(Prefix(kept, i))
    BY <1>5
  <2> QED
    BY <2>1, <2>3, <2>4, <2>6, <2>7
<1>6. <<Len(seqs), FlattenSeq(seqs)>> \in T
  <2> HIDE DEF T
  <2> QED
    BY <1>4, <1>5, FlattenInduction
<1>7. Prefix(kept, Len(seqs)) = kept
  BY <1>2, PrefixProperties
<1> QED
  BY <1>6, <1>7 DEF kept

\* Two selections in a row are one by the intersection.
LEMMA AmongAmong ==
    ASSUME NEW S, NEW s \in Seq(S), NEW P, NEW Q
    PROVE  Among(Among(s, P), Q) = Among(s, P \cap Q)
<1> DEFINE parts == [i \in DOMAIN s |-> IF s[i] \in P THEN <<s[i]>> ELSE <<>>]
<1>1. /\ parts \in Seq(Seq(S)) /\ DOMAIN parts = DOMAIN s
      /\ Among(s, P) = FlattenSeq(parts)
  BY AmongParts DEF Among
<1>2. ASSUME NEW i \in DOMAIN s
      PROVE  Among(parts[i], Q) = IF s[i] \in P \cap Q THEN <<s[i]>> ELSE <<>>
  <2>1. s[i] \in S
    BY LenProperties, ElementOfSeq
  <2>2. CASE s[i] \in P
    <3>1. parts[i] = <<s[i]>>
      BY <2>2
    <3> QED
      BY <2>1, <2>2, <3>1, AmongOne
  <2>3. CASE s[i] \notin P
    <3>1. parts[i] = <<>>
      BY <2>3
    <3> QED
      BY <2>3, <3>1, AmongNone
  <2> QED
    BY <2>2, <2>3
<1> HIDE DEF parts
<1>3. Among(FlattenSeq(parts), Q) = FlattenSeq([i \in DOMAIN parts |-> Among(parts[i], Q)])
  BY <1>1, AmongFlatten
<1>4. [i \in DOMAIN parts |-> Among(parts[i], Q)]
         = [i \in DOMAIN s |-> IF s[i] \in P \cap Q THEN <<s[i]>> ELSE <<>>]
  BY <1>1, <1>2
<1> QED
  BY <1>1, <1>3, <1>4 DEF Among

\* A selection repeats nothing that was not repeated.
LEMMA AmongOnce ==
    ASSUME NEW S, NEW s \in Seq(S), NEW P, NEW X, Once(s, X)
    PROVE  Once(Among(s, P), X)
<1> DEFINE parts == [i \in DOMAIN s |-> IF s[i] \in P THEN <<s[i]>> ELSE <<>>]
<1>1. /\ parts \in Seq(Seq(S)) /\ Len(parts) = Len(s) /\ DOMAIN s = 1..Len(s)
      /\ Among(s, P) = FlattenSeq(parts)
  BY AmongParts, LenProperties DEF Among
<1>2. ASSUME NEW i \in 1..Len(s)
      PROVE  Once(parts[i], X) /\ ToSet(parts[i]) \subseteq {s[i]}
  <2>1. parts[i] = <<s[i]>> \/ parts[i] = <<>>
    BY <1>1
  <2>2. /\ Once(<<s[i]>>, X) /\ ToSet(<<s[i]>>) = {s[i]}
        /\ Once(<<>>, X) /\ ToSet(<<>>) = {}
    BY DEF Once, ToSet
  <2> QED
    BY <2>1, <2>2
<1> HIDE DEF parts
<1>3. \A i, j \in 1..Len(s) : i # j => ToSet(parts[i]) \cap ToSet(parts[j]) \cap X = {}
  BY <1>1, <1>2 DEF Once
<1> QED
  BY <1>1, <1>2, <1>3, FlattenOnce

-----------------------------------------------------------------------------
\* For each device some devices, in an order.
Lists == [Names -> Seq(Names)]

\* C contains what is on top of its devices.
Closed(kd, C) == \A n \in C : \A i \in DOMAIN kd[n] : kd[n][i] \in C

\* No stacking in circles, so that every set of devices has one with nothing
\* of the set directly on top.
Acyclic(kd) ==
    \A T \in SUBSET Names : T # {} => \E n \in T : \A i \in DOMAIN kd[n] : kd[n][i] \notin T

\* What is stacked on n, directly or not, and n: the least closed set with n.
Reach(kd, n) == {m \in Names : \A C \in SUBSET Names : n \in C /\ Closed(kd, C) => m \in C}

\* What is stacked on the disks.
Reached(kd) ==
    {m \in Names : \A C \in SUBSET Names : ToSet(Disks) \subseteq C /\ Closed(kd, C) => m \in C}

\* What is on top of a device are devices.
LEMMA KidsAreNames ==
    ASSUME NEW kd \in Lists, NEW n \in Names
    PROVE  /\ kd[n] \in Seq(Names) /\ Len(kd[n]) \in Nat /\ DOMAIN kd[n] = 1..Len(kd[n])
           /\ \A i \in DOMAIN kd[n] : kd[n][i] \in Names
<1>1. kd[n] \in Seq(Names)
  BY DEF Lists
<1> QED
  BY <1>1, LenProperties, ElementOfSeq

\* Induction over an acyclic stacking, from the top down to the disks, stated
\* of a set: what holds of a device if it holds of all on top of it holds of all.
LEMMA TreeInduction ==
    ASSUME NEW kd \in Lists, Acyclic(kd), NEW T,
           \A n \in Names : (\A i \in DOMAIN kd[n] : kd[n][i] \in T) => n \in T
    PROVE  Names \subseteq T
<1> SUFFICES ASSUME Names \ T # {}
             PROVE  FALSE
  OBVIOUS
<1>1. PICK n \in Names \ T : \A i \in DOMAIN kd[n] : kd[n][i] \notin Names \ T
  BY DEF Acyclic
<1>2. \A i \in DOMAIN kd[n] : kd[n][i] \in T
  BY <1>1, KidsAreNames
<1> QED
  BY <1>1, <1>2

\* One step of Reach: the device itself, or what a device on top of it reaches.
LEMMA ReachStep ==
    ASSUME NEW kd \in Lists, NEW n \in Names, NEW m
    PROVE  m \in Reach(kd, n) <=> m = n \/ \E i \in DOMAIN kd[n] : m \in Reach(kd, kd[n][i])
<1>1. n \in Reach(kd, n)
  BY DEF Reach
<1>2. ASSUME NEW i \in DOMAIN kd[n], m \in Reach(kd, kd[n][i])
      PROVE  m \in Reach(kd, n)
  BY <1>2 DEF Reach, Closed
<1>3. ASSUME m \in Reach(kd, n), m # n, \A i \in DOMAIN kd[n] : m \notin Reach(kd, kd[n][i])
      PROVE  FALSE
  <2> DEFINE C == {n} \cup {x \in Names : \E i \in DOMAIN kd[n] : x \in Reach(kd, kd[n][i])}
  <2>1. C \subseteq Names /\ n \in C /\ m \notin C
    BY <1>3
  <2>2. ASSUME NEW x \in C, NEW i \in DOMAIN kd[x]
        PROVE  kd[x][i] \in C
    <3>1. kd[x][i] \in Names
      BY <2>1, KidsAreNames
    <3>2. CASE x = n
      <4>1. kd[n][i] \in Reach(kd, kd[n][i])
        BY <3>1, <3>2 DEF Reach
      <4> QED
        BY <3>1, <3>2, <4>1
    <3>3. CASE x # n
      <4>1. PICK j \in DOMAIN kd[n] : x \in Reach(kd, kd[n][j])
        BY <3>3
      <4>2. kd[x][i] \in Reach(kd, kd[n][j])
        BY <3>1, <4>1 DEF Reach, Closed
      <4> QED
        BY <3>1, <4>1, <4>2
    <3> QED
      BY <3>2, <3>3
  <2>3. Closed(kd, C)
    BY <2>2 DEF Closed
  <2> HIDE DEF C
  <2> QED
    BY <1>3, <2>1, <2>3 DEF Reach
<1> QED
  BY <1>1, <1>2, <1>3

\* The same for the disks.
LEMMA ReachedStep ==
    ASSUME NEW kd \in Lists, NEW m
    PROVE  m \in Reached(kd) <=> \E d \in ToSet(Disks) : m \in Reach(kd, d)
<1>1. ToSet(Disks) \subseteq Names
  BY DisksAssumption, ToSetType
<1>2. ASSUME NEW d \in ToSet(Disks), m \in Reach(kd, d)
      PROVE  m \in Reached(kd)
  BY <1>2 DEF Reach, Reached
<1>3. ASSUME m \in Reached(kd), \A d \in ToSet(Disks) : m \notin Reach(kd, d)
      PROVE  FALSE
  <2> DEFINE C == {x \in Names : \E d \in ToSet(Disks) : x \in Reach(kd, d)}
  <2>1. C \subseteq Names /\ m \notin C
    BY <1>3
  <2>2. ToSet(Disks) \subseteq C
    BY <1>1 DEF Reach
  <2>3. ASSUME NEW x \in C, NEW i \in DOMAIN kd[x]
        PROVE  kd[x][i] \in C
    <3>1. kd[x][i] \in Names
      BY KidsAreNames
    <3>2. PICK d \in ToSet(Disks) : x \in Reach(kd, d)
      OBVIOUS
    <3>3. kd[x][i] \in Reach(kd, d)
      BY <3>1, <3>2 DEF Reach, Closed
    <3> QED
      BY <3>1, <3>3
  <2>4. Closed(kd, C)
    BY <2>3 DEF Closed
  <2> HIDE DEF C
  <2> QED
    BY <1>3, <2>1, <2>2, <2>4 DEF Reached
<1> QED
  BY <1>2, <1>3

\* What is on top of a reached device is reached.
LEMMA ReachedClosed ==
    ASSUME NEW kd \in Lists
    PROVE  /\ ToSet(Disks) \subseteq Reached(kd)
           /\ Closed(kd, Reached(kd))
           /\ Reached(kd) \subseteq Names
<1>1. ToSet(Disks) \subseteq Names
  BY DisksAssumption, ToSetType
<1>2. ASSUME NEW x \in Reached(kd), NEW i \in DOMAIN kd[x]
      PROVE  kd[x][i] \in Reached(kd)
  <2>1. x \in Names
    BY DEF Reached
  <2>2. kd[x][i] \in Names
    BY <2>1, KidsAreNames
  <2> QED
    BY <2>2 DEF Reached, Closed
<1> QED
  BY <1>1, <1>2 DEF Reached, Closed

\* Stacking something on a device with nothing on it loses nothing.
LEMMA ReachedGrows ==
    ASSUME NEW kd \in Lists, NEW more \in Lists,
           \A n \in Names : kd[n] = <<>> \/ more[n] = kd[n]
    PROVE  Reached(kd) \subseteq Reached(more)
<1>1. ASSUME NEW C \in SUBSET Names, Closed(more, C)
      PROVE  Closed(kd, C)
  <2>1. ASSUME NEW n \in C, NEW i \in DOMAIN kd[n]
        PROVE  kd[n][i] \in C
    <3>1. kd[n] # <<>>
      OBVIOUS
    <3>2. more[n] = kd[n]
      BY <3>1
    <3> QED
      BY <1>1, <3>2 DEF Closed
  <2> QED
    BY <2>1 DEF Closed
<1> QED
  BY <1>1 DEF Reached

-----------------------------------------------------------------------------
\* One step of a walk: what is kept of the device, then the walks above it.
Body(own, kd, f, n) == own[n] \o FlattenSeq([i \in DOMAIN kd[n] |-> f[kd[n][i]]])

\* A step depends only on the walks above the device.
LEMMA BodyAgrees ==
    ASSUME NEW own, NEW kd, NEW f, NEW g, NEW n,
           \A i \in DOMAIN kd[n] : f[kd[n][i]] = g[kd[n][i]]
    PROVE  Body(own, kd, f, n) = Body(own, kd, g, n)
<1>1. [i \in DOMAIN kd[n] |-> f[kd[n][i]]] = [i \in DOMAIN kd[n] |-> g[kd[n][i]]]
  OBVIOUS
<1> QED
  BY <1>1 DEF Body

\* A function that obeys the recursion on a set of devices closed under kids.
Partial(own, kd, f, D) ==
    /\ D \subseteq Names /\ Closed(kd, D)
    /\ \A n \in D : f[n] = Body(own, kd, f, n)

\* Two such functions are equal where both are defined.
LEMMA PartialsAgree ==
    ASSUME NEW kd \in Lists, Acyclic(kd), NEW own,
           NEW f, NEW D, Partial(own, kd, f, D),
           NEW g, NEW E, Partial(own, kd, g, E)
    PROVE  \A n \in D \cap E : f[n] = g[n]
<1> DEFINE T == {n \in Names : n \in D \cap E => f[n] = g[n]}
<1>1. ASSUME NEW n \in Names, \A i \in DOMAIN kd[n] : kd[n][i] \in T
      PROVE  n \in T
  <2> SUFFICES ASSUME n \in D \cap E
               PROVE  f[n] = g[n]
    OBVIOUS
  <2>1. \A i \in DOMAIN kd[n] : f[kd[n][i]] = g[kd[n][i]]
    BY <1>1 DEF Partial, Closed
  <2>2. Body(own, kd, f, n) = Body(own, kd, g, n)
    BY <2>1, BodyAgrees
  <2> QED
    BY <2>2 DEF Partial
<1>2. Names \subseteq T
  <2> HIDE DEF T
  <2> QED
    BY <1>1, TreeInduction
<1> QED
  BY <1>2 DEF Partial

\* The recursion has a solution: the walks of lsblk.go end on every acyclic
\* stacking.  Partial solutions agree, so their union is one, and it is total.
LEMMA WalkExists ==
    ASSUME NEW kd \in Lists, Acyclic(kd), NEW own
    PROVE  \E f : f = [n \in Names |-> Body(own, kd, f, n)]
<1> DEFINE Has(n, D, f) == Partial(own, kd, f, D) /\ n \in D
           Dom == {n \in Names : \E D, f : Has(n, D, f)}
           F == [n \in Dom |-> CHOOSE v : \E D, f : Has(n, D, f) /\ v = f[n]]
<1>1. ASSUME NEW n \in Dom, NEW D, NEW f, Has(n, D, f)
      PROVE  F[n] = f[n]
  <2> DEFINE Value(v) == \E E, g : Has(n, E, g) /\ v = g[n]
  <2>1. Value(f[n])
    BY <1>1
  <2>2. Value(CHOOSE v : Value(v))
    <3> HIDE DEF Value
    <3> QED
      BY <2>1
  <2>3. F[n] = CHOOSE v : Value(v)
    OBVIOUS
  <2>4. PICK E, g : Has(n, E, g) /\ F[n] = g[n]
    BY <2>2, <2>3
  <2> QED
    BY <1>1, <2>4, PartialsAgree
<1> HIDE DEF F
<1>2. Partial(own, kd, F, Dom)
  <2>1. ASSUME NEW n \in Dom
        PROVE  /\ \A i \in DOMAIN kd[n] : kd[n][i] \in Dom
               /\ F[n] = Body(own, kd, F, n)
    <3>1. PICK D, f : Has(n, D, f)
      OBVIOUS
    <3>2. ASSUME NEW i \in DOMAIN kd[n]
          PROVE  kd[n][i] \in Dom /\ Has(kd[n][i], D, f)
      BY <3>1 DEF Partial, Closed
    <3>3. \A i \in DOMAIN kd[n] : F[kd[n][i]] = f[kd[n][i]]
      <4> HIDE DEF Has, Dom
      <4> QED
        BY <1>1, <3>2
    <3>4. Body(own, kd, F, n) = Body(own, kd, f, n)
      BY <3>3, BodyAgrees
    <3>5. F[n] = f[n]
      BY <1>1, <3>1
    <3>6. f[n] = Body(own, kd, f, n)
      BY <3>1 DEF Partial
    <3> QED
      BY <3>2, <3>4, <3>5, <3>6
  <2> HIDE DEF Has
  <2> QED
    BY <2>1 DEF Partial, Closed
<1>3. ASSUME NEW n \in Names, \A i \in DOMAIN kd[n] : kd[n][i] \in Dom
      PROVE  n \in Dom
  <2> SUFFICES ASSUME n \notin Dom
               PROVE  FALSE
    OBVIOUS
  <2> DEFINE D == Dom \cup {n}
             g == [x \in D |-> IF x = n THEN Body(own, kd, F, n) ELSE F[x]]
  <2>1. \A x \in Dom : x \in D /\ x # n /\ g[x] = F[x]
    OBVIOUS
  <2>2. \A x \in D : \A i \in DOMAIN kd[x] : kd[x][i] \in Dom
    BY <1>2, <1>3 DEF Partial, Closed
  <2>3. g[n] = Body(own, kd, F, n)
    OBVIOUS
  <2> HIDE DEF g, Has
  <2>4. \A x \in D : Body(own, kd, g, x) = Body(own, kd, F, x)
    <3> HIDE DEF D, Dom
    <3> QED
      BY <2>1, <2>2, BodyAgrees
  <2>5. \A x \in D : g[x] = Body(own, kd, g, x)
    BY <1>2, <2>1, <2>3, <2>4 DEF Partial
  <2>6. Partial(own, kd, g, D)
    BY <2>2, <2>5 DEF Partial, Closed
  <2>7. Has(n, D, g)
    BY <2>6 DEF Has
  <2> HIDE DEF D
  <2> QED
    BY <2>7
<1>4. Names \subseteq Dom
  <2> HIDE DEF Dom
  <2> QED
    BY <1>3, TreeInduction
<1>5. Dom = Names
  BY <1>4
<1>6. F = [n \in Names |-> F[n]]
  BY <1>5 DEF F
<1>7. \A n \in Names : F[n] = Body(own, kd, F, n)
  BY <1>2, <1>5 DEF Partial
<1> HIDE DEF Dom
<1>8. [n \in Names |-> F[n]] = [n \in Names |-> Body(own, kd, F, n)]
  BY <1>7
<1> QED
  BY <1>6, <1>8

\* f obeys the recursion.
Walks(own, kd, f) == \A n \in Names : f[n] = Body(own, kd, f, n)

\* A walk is a sequence of devices.
LEMMA WalkType ==
    ASSUME NEW kd \in Lists, Acyclic(kd), NEW own \in Lists,
           NEW f, Walks(own, kd, f)
    PROVE  /\ \A n \in Names : f[n] \in Seq(Names)
           /\ \A n \in Names : /\ [i \in DOMAIN kd[n] |-> f[kd[n][i]]] \in Seq(Seq(Names))
                               /\ Len([i \in DOMAIN kd[n] |-> f[kd[n][i]]]) = Len(kd[n])
<1> DEFINE T == {n \in Names : f[n] \in Seq(Names)}
           Parts(n) == [i \in DOMAIN kd[n] |-> f[kd[n][i]]]
<1>1. ASSUME NEW n \in Names, \A i \in DOMAIN kd[n] : kd[n][i] \in T
      PROVE  Parts(n) \in Seq(Seq(Names)) /\ Len(Parts(n)) = Len(kd[n])
  <2>1. Parts(n) \in [1..Len(kd[n]) -> Seq(Names)] /\ Len(kd[n]) \in Nat
    BY <1>1, KidsAreNames
  <2> HIDE DEF Parts
  <2> QED
    BY <2>1
<1>2. ASSUME NEW n \in Names, \A i \in DOMAIN kd[n] : kd[n][i] \in T
      PROVE  n \in T
  <2>1. FlattenSeq(Parts(n)) \in Seq(Names)
    <3> HIDE DEF Parts
    <3> QED
      BY <1>1, <1>2, FlattenType
  <2>2. own[n] \in Seq(Names)
    BY DEF Lists
  <2>3. own[n] \o FlattenSeq(Parts(n)) \in Seq(Names)
    <3> HIDE DEF Parts
    <3> QED
      BY <2>1, <2>2, ConcatProperties
  <2> QED
    BY <2>3 DEF Walks, Body
<1>3. Names \subseteq T
  <2> HIDE DEF T
  <2> QED
    BY <1>2, TreeInduction
<1> QED
  BY <1>1, <1>3, KidsAreNames

\* A walk from n finds what is kept of the devices that n reaches.
LEMMA WalkElements ==
    ASSUME NEW kd \in Lists, Acyclic(kd), NEW own \in Lists, NEW f, Walks(own, kd, f), NEW x
    PROVE  \A n \in Names : x \in ToSet(f[n]) <=> \E m \in Reach(kd, n) : x \in ToSet(own[m])
<1> DEFINE T == {n \in Names : x \in ToSet(f[n]) <=> \E m \in Reach(kd, n) : x \in ToSet(own[m])}
           Parts(n) == [i \in DOMAIN kd[n] |-> f[kd[n][i]]]
<1>1. ASSUME NEW n \in Names, \A i \in DOMAIN kd[n] : kd[n][i] \in T
      PROVE  n \in T
  <2>1. /\ Parts(n) \in Seq(Seq(Names)) /\ Len(Parts(n)) = Len(kd[n])
        /\ DOMAIN kd[n] = 1..Len(kd[n]) /\ own[n] \in Seq(Names)
    <3>1. Parts(n) \in Seq(Seq(Names)) /\ Len(Parts(n)) = Len(kd[n])
      BY WalkType
    <3>2. DOMAIN kd[n] = 1..Len(kd[n])
      BY KidsAreNames
    <3>3. own[n] \in Seq(Names)
      BY DEF Lists
    <3> QED
      BY <3>1, <3>2, <3>3
  <2>2. x \in ToSet(FlattenSeq(Parts(n))) <=> \E i \in DOMAIN kd[n] : x \in ToSet(f[kd[n][i]])
    <3>1. \A i \in DOMAIN kd[n] : Parts(n)[i] = f[kd[n][i]]
      OBVIOUS
    <3> HIDE DEF Parts, T
    <3>2. x \in ToSet(FlattenSeq(Parts(n))) <=> \E i \in 1..Len(Parts(n)) : x \in ToSet(Parts(n)[i])
      BY <2>1, FlattenElements
    <3> QED
      BY <2>1, <3>1, <3>2
  <2>3. ToSet(f[n]) = ToSet(own[n]) \cup ToSet(FlattenSeq(Parts(n)))
    <3>1. f[n] = own[n] \o FlattenSeq(Parts(n))
      BY DEF Walks, Body
    <3> HIDE DEF Parts, T
    <3>2. FlattenSeq(Parts(n)) \in Seq(Names)
      BY <2>1, FlattenType
    <3> QED
      BY <2>1, <3>1, <3>2, ToSetConcat
  <2>4. \A i \in DOMAIN kd[n] :
           x \in ToSet(f[kd[n][i]]) <=> \E m \in Reach(kd, kd[n][i]) : x \in ToSet(own[m])
    BY <1>1
  <2>5. (\E m \in Reach(kd, n) : x \in ToSet(own[m]))
           <=> \/ x \in ToSet(own[n])
               \/ \E i \in DOMAIN kd[n] : \E m \in Reach(kd, kd[n][i]) : x \in ToSet(own[m])
    BY ReachStep
  <2> HIDE DEF Parts
  <2> QED
    BY <2>2, <2>3, <2>4, <2>5
<1>2. Names \subseteq T
  <2> HIDE DEF T
  <2> QED
    BY <1>1, TreeInduction
<1> QED
  BY <1>2

\* To keep less of each device is to select from the walk.
LEMMA WalkAmong ==
    ASSUME NEW kd \in Lists, Acyclic(kd), NEW P,
           NEW own \in Lists, NEW f, Walks(own, kd, f),
           NEW less \in Lists, NEW g, Walks(less, kd, g),
           \A n \in Names : less[n] = Among(own[n], P)
    PROVE  \A n \in Names : g[n] = Among(f[n], P)
<1> DEFINE T == {n \in Names : g[n] = Among(f[n], P)}
           Parts(n) == [i \in DOMAIN kd[n] |-> f[kd[n][i]]]
           Less(n) == [i \in DOMAIN kd[n] |-> g[kd[n][i]]]
<1>1. ASSUME NEW n \in Names, \A i \in DOMAIN kd[n] : kd[n][i] \in T
      PROVE  n \in T
  <2>1. Parts(n) \in Seq(Seq(Names)) /\ own[n] \in Seq(Names) /\ DOMAIN Parts(n) = DOMAIN kd[n]
    <3>1. Parts(n) \in Seq(Seq(Names))
      BY WalkType
    <3>2. own[n] \in Seq(Names)
      BY DEF Lists
    <3> QED
      BY <3>1, <3>2
  <2>2. Less(n) = [i \in DOMAIN Parts(n) |-> Among(Parts(n)[i], P)]
    BY <1>1
  <2>3. f[n] = own[n] \o FlattenSeq(Parts(n)) /\ g[n] = less[n] \o FlattenSeq(Less(n))
    BY DEF Walks, Body
  <2> HIDE DEF Parts, Less
  <2>4. Among(FlattenSeq(Parts(n)), P) = FlattenSeq(Less(n))
    BY <2>1, <2>2, AmongFlatten
  <2>5. FlattenSeq(Parts(n)) \in Seq(Names)
    BY <2>1, FlattenType
  <2>6. Among(own[n] \o FlattenSeq(Parts(n)), P)
           = Among(own[n], P) \o Among(FlattenSeq(Parts(n)), P)
    BY <2>1, <2>5, AmongConcat
  <2> QED
    BY <2>3, <2>4, <2>6
<1>2. Names \subseteq T
  <2> HIDE DEF T
  <2> QED
    BY <1>1, TreeInduction
<1> QED
  BY <1>2

\* What FlattenDevices keeps of a device: all of it.
OwnName == [n \in Names |-> <<n>>]

\* OwnName gives each device a sequence of devices.
LEMMA OwnNameType == OwnName \in Lists
  BY DEF OwnName, Lists

\* No device of X is reached twice from the same one.
Separate(kd, X) ==
    \A n \in Names :
        /\ \A i \in DOMAIN kd[n] : n \in X => n \notin Reach(kd, kd[n][i])
        /\ \A i, j \in DOMAIN kd[n] :
              i # j => Reach(kd, kd[n][i]) \cap Reach(kd, kd[n][j]) \cap X = {}

\* A walk that keeps all finds no device of X twice, if no path leads to it twice.
LEMMA WalkOnce ==
    ASSUME NEW kd \in Lists, Acyclic(kd), NEW f, Walks(OwnName, kd, f), NEW X, Separate(kd, X)
    PROVE  \A n \in Names : ToSet(f[n]) = Reach(kd, n) /\ Once(f[n], X)
<1>1. ASSUME NEW n \in Names
      PROVE  ToSet(f[n]) = Reach(kd, n)
  <2>1. ASSUME NEW x
        PROVE  x \in ToSet(f[n]) <=> x \in Reach(kd, n)
    <3>1. x \in ToSet(f[n]) <=> \E m \in Reach(kd, n) : x \in ToSet(OwnName[m])
      BY OwnNameType, WalkElements
    <3>2. \A m \in Reach(kd, n) : ToSet(OwnName[m]) = {m}
      BY DEF OwnName, Reach, ToSet
    <3> QED
      BY <3>1, <3>2
  <2> QED
    BY <2>1
<1> DEFINE T == {n \in Names : Once(f[n], X)}
           Parts(n) == [i \in DOMAIN kd[n] |-> f[kd[n][i]]]
<1>2. ASSUME NEW n \in Names, \A i \in DOMAIN kd[n] : kd[n][i] \in T
      PROVE  n \in T
  <2>1. /\ Parts(n) \in Seq(Seq(Names)) /\ Len(Parts(n)) = Len(kd[n])
        /\ DOMAIN kd[n] = 1..Len(kd[n]) 
    <3>1. Parts(n) \in Seq(Seq(Names)) /\ Len(Parts(n)) = Len(kd[n])
      BY OwnNameType, WalkType
    <3>2. DOMAIN kd[n] = 1..Len(kd[n])
      BY KidsAreNames
    <3> QED
      BY <3>1, <3>2
  <2>2. ASSUME NEW i \in DOMAIN kd[n]
        PROVE  Once(Parts(n)[i], X)
               /\ ToSet(Parts(n)[i]) = Reach(kd, kd[n][i])
    BY <1>1, <1>2, KidsAreNames
  <2>3. f[n] = <<n>> \o FlattenSeq(Parts(n))
    BY DEF Walks, Body, OwnName
  <2> HIDE DEF Parts, T
  <2>4. FlattenSeq(Parts(n)) \in Seq(Names)
    BY <2>1, FlattenType
  <2>5. Once(FlattenSeq(Parts(n)), X)
    <3>1. \A i, j \in 1..Len(Parts(n)) : i # j => ToSet(Parts(n)[i]) \cap ToSet(Parts(n)[j]) \cap X = {}
      <4>1. DOMAIN kd[n] = 1..Len(Parts(n))
        BY <2>1
      <4> QED
        BY <2>2, <4>1 DEF Separate
    <3>2. \A i \in 1..Len(Parts(n)) : Once(Parts(n)[i], X)
      <4>1. DOMAIN kd[n] = 1..Len(Parts(n))
        BY <2>1
      <4> QED
        BY <2>2, <4>1
    <3> QED
      BY <2>1, <3>1, <3>2, FlattenOnce
  <2>6. ToSet(<<n>>) \cap ToSet(FlattenSeq(Parts(n))) \cap X = {}
    <3>1. ASSUME n \in X
          PROVE  n \notin ToSet(FlattenSeq(Parts(n)))
      <4>1. n \in ToSet(FlattenSeq(Parts(n)))
               => \E i \in 1..Len(Parts(n)) : n \in ToSet(Parts(n)[i])
        BY <2>1, FlattenElements
      <4>2. DOMAIN kd[n] = 1..Len(Parts(n))
        BY <2>1
      <4> QED
        BY <2>2, <3>1, <4>1, <4>2 DEF Separate
    <3>2. ToSet(<<n>>) = {n}
      BY DEF ToSet
    <3> QED
      BY <3>1, <3>2
  <2>7. Once(<<n>>, X)
    BY DEF Once
  <2>8. Once(<<n>> \o FlattenSeq(Parts(n)), X)
    <3>1. <<n>> \in Seq(Names)
      OBVIOUS
    <3> QED
      BY <2>4, <2>5, <2>6, <2>7, <3>1, OnceConcat
  <2> QED
    BY <2>3, <2>8 DEF T
<1>3. Names \subseteq T
  <2> HIDE DEF T
  <2> QED
    BY <1>2, TreeInduction
<1> QED
  BY <1>1, <1>3

-----------------------------------------------------------------------------
\* Subtree, as DeviceTree defines it, obeys the recursion.
LEMMA SubtreeWalks ==
    ASSUME kids \in Lists, Acyclic(kids)
    PROVE  Walks(OwnName, kids, Subtree)
<1> DEFINE Obeys(f) == f = [n \in Names |-> Body(OwnName, kids, f, n)]
           Def(f) == f = [n \in Names |-> <<n>> \o FlattenSeq([i \in DOMAIN kids[n] |-> f[kids[n][i]]])]
<1>1. PICK f : Obeys(f)
  BY WalkExists
<1>2. ASSUME NEW g
      PROVE  Obeys(g) <=> Def(g)
  <2>1. [n \in Names |-> Body(OwnName, kids, g, n)]
          = [n \in Names |-> <<n>> \o FlattenSeq([i \in DOMAIN kids[n] |-> g[kids[n][i]]])]
    BY DEF Body, OwnName
  <2> QED
    BY <2>1
<1>3. Def(f)
  BY <1>1, <1>2
<1>4. Def(CHOOSE g : Def(g))
  <2> HIDE DEF Def
  <2> QED
    BY <1>3
<1>5. Subtree = CHOOSE g : Def(g)
  BY DEF Subtree
<1>6. Obeys(Subtree)
  <2> HIDE DEF Def, Obeys
  <2> QED
    BY <1>2, <1>4, <1>5
<1>7. \A n \in Names : [m \in Names |-> Body(OwnName, kids, Subtree, m)][n]
                          = Body(OwnName, kids, Subtree, n)
  OBVIOUS
<1> QED
  BY <1>6, <1>7 DEF Walks

\* The stacking of the machine can be walked.
IsTree == kids \in Lists /\ Acyclic(kids)

\* What DeviceTree walks from n is what n reaches.
LEMMA BelowIsReach ==
    ASSUME IsTree
    PROVE  \A n \in Names : Subtree[n] \in Seq(Names) /\ Below(n) = Reach(kids, n)
<1>1. kids \in Lists /\ Acyclic(kids) /\ OwnName \in Lists /\ Walks(OwnName, kids, Subtree)
  BY SubtreeWalks, OwnNameType DEF IsTree
<1>2. ASSUME NEW n \in Names
      PROVE  Subtree[n] \in Seq(Names)
  BY <1>1, WalkType
<1>3. ASSUME NEW n \in Names, NEW x
      PROVE  x \in ToSet(Subtree[n]) <=> x \in Reach(kids, n)
  <2>1. x \in ToSet(Subtree[n]) <=> \E m \in Reach(kids, n) : x \in ToSet(OwnName[m])
    BY <1>1, WalkElements
  <2>2. \A m \in Reach(kids, n) : ToSet(OwnName[m]) = {m}
    BY DEF OwnName, Reach, ToSet
  <2> QED
    BY <2>1, <2>2
<1> QED
  BY <1>2, <1>3 DEF Below

\* The disks are devices.
LEMMA DisksAreNames ==
    /\ Disks \in Seq(Names) /\ Len(Disks) \in Nat /\ DOMAIN Disks = 1..Len(Disks)
    /\ \A i \in DOMAIN Disks : Disks[i] \in Names
    /\ ToSet(Disks) \subseteq Names
  BY DisksAssumption, LenProperties, ElementOfSeq, ToSetType

\* The walks from all disks, one after the other.
LEMMA WalkFromDisks ==
    ASSUME NEW f, \A n \in Names : f[n] \in Seq(Names)
    PROVE  /\ [i \in DOMAIN Disks |-> f[Disks[i]]] \in Seq(Seq(Names))
           /\ Len([i \in DOMAIN Disks |-> f[Disks[i]]]) = Len(Disks)
<1> DEFINE walks == [i \in DOMAIN Disks |-> f[Disks[i]]]
<1>1. walks \in [1..Len(Disks) -> Seq(Names)] /\ Len(Disks) \in Nat
  BY DisksAreNames
<1> HIDE DEF walks
<1>2. walks \in Seq(Seq(Names)) /\ Len(walks) = Len(Disks)
  BY <1>1
<1> QED
  BY <1>2 DEF walks

\* The flat list holds exactly what the disks reach.
LEMMA AllIsReached ==
    ASSUME IsTree
    PROVE  /\ All \in Seq(Names)
           /\ ToSet(All) = Reached(kids)
<1> DEFINE walks == [i \in DOMAIN Disks |-> Subtree[Disks[i]]]
<1>1. walks \in Seq(Seq(Names)) /\ Len(walks) = Len(Disks) /\ DOMAIN Disks = 1..Len(Disks)
  BY BelowIsReach, WalkFromDisks, DisksAreNames
<1>2. All = FlattenSeq(walks)
  BY DEF All, FlattenDevices
<1>3. \A i \in DOMAIN Disks : ToSet(walks[i]) = Reach(kids, Disks[i])
  BY BelowIsReach, DisksAreNames DEF Below
<1> HIDE DEF walks
<1>4. All \in Seq(Names)
  BY <1>1, <1>2, FlattenType
<1>5. ASSUME NEW x
      PROVE  x \in ToSet(All) <=> x \in Reached(kids)
  <2>1. x \in ToSet(All) <=> \E i \in 1..Len(walks) : x \in ToSet(walks[i])
    BY <1>1, <1>2, FlattenElements
  <2>2. x \in Reached(kids) <=> \E d \in ToSet(Disks) : x \in Reach(kids, d)
    BY ReachedStep DEF IsTree
  <2>3. x \in Reached(kids) <=> \E i \in DOMAIN Disks : x \in Reach(kids, Disks[i])
    BY <2>2 DEF ToSet
  <2> QED
    BY <1>1, <1>3, <2>1, <2>3
<1> QED
  BY <1>4, <1>5

\* The flat list repeats no device of X that only one path leads to.
LEMMA AllOnce ==
    ASSUME IsTree, NEW X, Separate(kids, X),
           \A i, j \in DOMAIN Disks :
              i # j => Reach(kids, Disks[i]) \cap Reach(kids, Disks[j]) \cap X = {}
    PROVE  Once(All, X)
<1> DEFINE walks == [i \in DOMAIN Disks |-> Subtree[Disks[i]]]
<1>1. walks \in Seq(Seq(Names)) /\ Len(walks) = Len(Disks) /\ DOMAIN Disks = 1..Len(Disks)
  BY BelowIsReach, WalkFromDisks, DisksAreNames
<1>2. All = FlattenSeq(walks)
  BY DEF All, FlattenDevices
<1>3. \A n \in Names : ToSet(Subtree[n]) = Reach(kids, n) /\ Once(Subtree[n], X)
  BY SubtreeWalks, WalkOnce DEF IsTree
<1>4. \A i \in 1..Len(Disks) : ToSet(walks[i]) = Reach(kids, Disks[i]) /\ Once(walks[i], X)
  BY <1>1, <1>3, DisksAreNames
<1> HIDE DEF walks
<1>5. \A i, j \in 1..Len(walks) : i # j => ToSet(walks[i]) \cap ToSet(walks[j]) \cap X = {}
  BY <1>1, <1>4
<1> QED
  BY <1>1, <1>2, <1>4, <1>5, FlattenOnce

-----------------------------------------------------------------------------
\* What a filter may be.
Filters == [Names -> [skip : BOOLEAN, stop : BOOLEAN]]

\* What a filter keeps of a device.
Kept(filter) == [n \in Names |-> IF filter[n].skip THEN <<>> ELSE <<n>>]
\* Where a filter lets the walk go on.
Descent(filter) == [n \in Names |-> IF filter[n].stop THEN <<>> ELSE kids[n]]

\* A filter cuts branches off and adds none.
LEMMA DescentIsTree ==
    ASSUME IsTree, NEW filter \in Filters
    PROVE  Descent(filter) \in Lists /\ Acyclic(Descent(filter)) /\ Kept(filter) \in Lists
<1>1. kids \in Lists /\ Acyclic(kids)
  BY DEF IsTree
<1>2. \A n \in Names : Descent(filter)[n] = <<>> \/ Descent(filter)[n] = kids[n]
  BY DEF Descent
<1>3. Descent(filter) \in Lists
  <2>1. \A n \in Names : (IF filter[n].stop THEN <<>> ELSE kids[n]) \in Seq(Names)
    BY <1>1, EmptySeq DEF Lists
  <2> QED
    BY <2>1 DEF Descent, Lists
<1>4. Kept(filter) \in Lists
  <2>1. \A n \in Names : (IF filter[n].skip THEN <<>> ELSE <<n>>) \in Seq(Names)
    <3>1. <<>> \in Seq(Names) /\ \A n \in Names : <<n>> \in Seq(Names)
      BY EmptySeq
    <3> QED
      BY <3>1
  <2> QED
    BY <2>1 DEF Kept, Lists
<1>5. ASSUME NEW T \in SUBSET Names, T # {}
      PROVE  \E n \in T : \A i \in DOMAIN Descent(filter)[n] : Descent(filter)[n][i] \notin T
  <2>1. PICK n \in T : \A i \in DOMAIN kids[n] : kids[n][i] \notin T
    BY <1>1, <1>5 DEF Acyclic
  <2>2. CASE Descent(filter)[n] = <<>>
    BY <2>2
  <2>3. CASE Descent(filter)[n] = kids[n]
    BY <2>1, <2>3
  <2> QED
    BY <1>2, <2>2, <2>3
<1> QED
  BY <1>3, <1>4, <1>5 DEF Acyclic

\* filterDeviceRecursive is a walk of what the filter leaves.
LEMMA FilterWalks ==
    ASSUME IsTree, NEW filter \in Filters
    PROVE  Walks(Kept(filter), Descent(filter), FilterDeviceRecursive(filter))
<1> DEFINE own == Kept(filter)
           kd == Descent(filter)
           Obeys(f) == f = [n \in Names |-> Body(own, kd, f, n)]
           Def(f) == f = [n \in Names |->
                            (IF filter[n].skip THEN <<>> ELSE <<n>>) \o
                            (IF filter[n].stop THEN <<>>
                             ELSE FlattenSeq([i \in DOMAIN kids[n] |-> f[kids[n][i]]]))]
<1>1. PICK f : Obeys(f)
  BY DescentIsTree, WalkExists
<1>2. ASSUME NEW g
      PROVE  Obeys(g) <=> Def(g)
  <2>1. ASSUME NEW n \in Names
        PROVE  Body(own, kd, g, n) =
                  (IF filter[n].skip THEN <<>> ELSE <<n>>) \o
                  (IF filter[n].stop THEN <<>>
                   ELSE FlattenSeq([i \in DOMAIN kids[n] |-> g[kids[n][i]]]))
    <3>1. own[n] = IF filter[n].skip THEN <<>> ELSE <<n>>
      BY DEF Kept
    <3>2. CASE filter[n].stop
      <4>1. kd[n] = <<>>
        BY <3>2 DEF Descent
      <4>2. [i \in DOMAIN kd[n] |-> g[kd[n][i]]] = <<>>
        BY <4>1
      <4> QED
        BY <3>1, <3>2, <4>2, FlattenEmpty DEF Body
    <3>3. CASE ~filter[n].stop
      <4>1. kd[n] = kids[n]
        BY <3>3 DEF Descent
      <4> QED
        BY <3>1, <3>3, <4>1 DEF Body
    <3> QED
      BY <3>2, <3>3
  <2> HIDE DEF own, kd
  <2> QED
    BY <2>1
<1>3. Def(f)
  BY <1>1, <1>2
<1>4. Def(CHOOSE g : Def(g))
  <2> HIDE DEF Def
  <2> QED
    BY <1>3
<1>5. FilterDeviceRecursive(filter) = CHOOSE g : Def(g)
  BY DEF FilterDeviceRecursive
<1> DEFINE r == FilterDeviceRecursive(filter)
<1>6. Obeys(r)
  <2> HIDE DEF Def, Obeys, r
  <2> QED
    BY <1>2, <1>4, <1>5 DEF r
<1>7. \A n \in Names : [m \in Names |-> Body(own, kd, r, m)][n] = Body(own, kd, r, n)
  OBVIOUS
<1> QED
  BY <1>6, <1>7 DEF Walks

\* A filter that never stops selects from the flat list: a device is kept or
\* not whatever is below it.
LEMMA FilterSelects ==
    ASSUME IsTree, NEW filter \in Filters, \A n \in Names : ~filter[n].stop
    PROVE  GetBlockDevices(filter) = Among(All, {n \in Names : ~filter[n].skip})
<1> DEFINE P == {n \in Names : ~filter[n].skip}
           kept == FilterDeviceRecursive(filter)
           walks == [i \in DOMAIN Disks |-> Subtree[Disks[i]]]
<1>1. kids \in Lists /\ Acyclic(kids) /\ Walks(OwnName, kids, Subtree) /\ OwnName \in Lists
  BY SubtreeWalks, OwnNameType DEF IsTree
<1>2. Descent(filter) = kids
  <2>1. \A n \in Names : (IF filter[n].stop THEN <<>> ELSE kids[n]) = kids[n]
    OBVIOUS
  <2>2. kids = [n \in Names |-> kids[n]]
    BY <1>1 DEF Lists
  <2> QED
    BY <2>1, <2>2 DEF Descent
<1>3. Kept(filter) \in Lists /\ Walks(Kept(filter), kids, kept)
  BY <1>2, DescentIsTree, FilterWalks
<1>4. \A n \in Names : Kept(filter)[n] = Among(OwnName[n], P)
  <2>1. ASSUME NEW n \in Names
        PROVE  Among(<<n>>, P) = IF n \in P THEN <<n>> ELSE <<>>
    BY AmongOne
  <2> QED
    BY <2>1 DEF Kept, OwnName
<1>5. \A n \in Names : kept[n] = Among(Subtree[n], P)
  <2> HIDE DEF P, kept
  <2> QED
    BY <1>1, <1>3, <1>4, WalkAmong
<1>6. walks \in Seq(Seq(Names)) /\ DOMAIN walks = DOMAIN Disks
  BY BelowIsReach, WalkFromDisks
<1>7. All = FlattenSeq(walks)
  BY DEF All, FlattenDevices
<1>8. GetBlockDevices(filter) = FlattenSeq([i \in DOMAIN Disks |-> kept[Disks[i]]])
  BY DEF GetBlockDevices
<1> HIDE DEF kept, P
<1>9. [i \in DOMAIN Disks |-> kept[Disks[i]]] = [i \in DOMAIN walks |-> Among(walks[i], P)]
  BY <1>5, <1>6, DisksAreNames
<1> HIDE DEF walks
<1>10. Among(FlattenSeq(walks), P) = FlattenSeq([i \in DOMAIN walks |-> Among(walks[i], P)])
  BY <1>6, AmongFlatten
<1> QED
  BY <1>7, <1>8, <1>9, <1>10 DEF P

\* A search that stops at the device it looks for finds it.
LEMMA SearchFinds ==
    ASSUME IsTree, NEW name \in Names
    PROVE  GetBlockDevice(name) = IF name \in ToSet(All) THEN name ELSE NoName
<1> DEFINE filter == [n \in Names |-> Answer(n # name, n = name)]
           kept == FilterDeviceRecursive(filter)
           kd == Descent(filter)
           walks == [i \in DOMAIN Disks |-> kept[Disks[i]]]
<1>1. filter \in Filters /\ \A n \in Names : /\ filter[n].skip <=> n # name
                                             /\ filter[n].stop <=> n = name
  BY DEF Filters, Answer
<1> HIDE DEF filter
<1>2. /\ kd \in Lists /\ Acyclic(kd) /\ Kept(filter) \in Lists
      /\ Walks(Kept(filter), kd, kept)
      /\ kids \in Lists /\ Acyclic(kids)
  BY <1>1, DescentIsTree, FilterWalks DEF IsTree
<1>3. \A n \in Names : n # name => kd[n] = kids[n]
  BY <1>1 DEF Descent
<1>4. \A n \in Names : n = name => kd[n] = <<>>
  BY <1>1 DEF Descent
<1> HIDE DEF kept, kd
<1>5. ASSUME NEW n \in Names
      PROVE  /\ kept[n] \in Seq(Names)
             /\ \A x : x \in ToSet(kept[n]) <=> x = name /\ name \in Reach(kids, n)
  <2>1. ASSUME NEW x
        PROVE  x \in ToSet(kept[n]) <=> x = name /\ name \in Reach(kd, n)
    <3>1. x \in ToSet(kept[n]) <=> \E m \in Reach(kd, n) : x \in ToSet(Kept(filter)[m])
      <4> DEFINE own == Kept(filter)
      <4>1. own \in Lists /\ Walks(own, kd, kept)
        BY <1>2
      <4> HIDE DEF own
      <4>2. x \in ToSet(kept[n]) <=> \E m \in Reach(kd, n) : x \in ToSet(own[m])
        BY <1>2, <4>1, WalkElements
      <4> QED
        BY <4>2 DEF own
    <3>2. \A m \in Reach(kd, n) : ToSet(Kept(filter)[m]) = IF m = name THEN {m} ELSE {}
      <4>1. ASSUME NEW m \in Names
            PROVE  ToSet(Kept(filter)[m]) = IF m = name THEN {m} ELSE {}
        <5>1. Kept(filter)[m] = IF m = name THEN <<m>> ELSE <<>>
          BY <1>1 DEF Kept
        <5>2. ToSet(<<m>>) = {m} /\ ToSet(<<>>) = {}
          BY DEF ToSet
        <5> QED
          BY <5>1, <5>2
      <4> QED
        BY <4>1 DEF Reach
    <3> QED
      BY <3>1, <3>2
  <2>2. name \in Reach(kd, n) => name \in Reach(kids, n)
    <3>1. ASSUME NEW C \in SUBSET Names, Closed(kids, C)
          PROVE  Closed(kd, C)
      BY <1>3, <1>4, <3>1 DEF Closed
    <3> QED
      BY <3>1 DEF Reach
  <2>3. name \in Reach(kids, n) => name \in Reach(kd, n)
    <3>1. ASSUME NEW C \in SUBSET Names, Closed(kd, C), name \notin C
          PROVE  Closed(kids, C)
      BY <1>3, <3>1 DEF Closed
    <3> QED
      BY <3>1 DEF Reach
  <2>4. kept[n] \in Seq(Names)
    BY <1>2, WalkType
  <2> QED
    BY <2>1, <2>2, <2>3, <2>4
<1>6. walks \in Seq(Seq(Names)) /\ Len(walks) = Len(Disks) /\ DOMAIN Disks = 1..Len(Disks)
  BY <1>5, WalkFromDisks, DisksAreNames
<1>7. \A i \in 1..Len(walks) : \A x : x \in ToSet(walks[i]) <=> x = name /\ name \in Reach(kids, Disks[i])
  BY <1>5, <1>6, DisksAreNames
<1> DEFINE found == FlattenSeq(walks)
<1> HIDE DEF walks
<1>8. found \in Seq(Names)
  BY <1>6, FlattenType
<1>9. ASSUME NEW x
      PROVE  x \in ToSet(found) <=> x = name /\ name \in ToSet(All)
  <2>1. x \in ToSet(found) <=> \E i \in 1..Len(walks) : x \in ToSet(walks[i])
    BY <1>6, FlattenElements
  <2>2. name \in ToSet(All) <=> \E d \in ToSet(Disks) : name \in Reach(kids, d)
    BY <1>2, AllIsReached, ReachedStep
  <2>3. name \in ToSet(All) <=> \E i \in DOMAIN Disks : name \in Reach(kids, Disks[i])
    BY <2>2 DEF ToSet
  <2>4. x \in ToSet(found) <=> \E i \in DOMAIN Disks : x = name /\ name \in Reach(kids, Disks[i])
    <3>1. 1..Len(walks) = DOMAIN Disks
      BY <1>6
    <3>2. \A i \in 1..Len(walks) : x \in ToSet(walks[i]) <=> x = name /\ name \in Reach(kids, Disks[i])
      BY <1>7
    <3> HIDE DEF found
    <3>3. x \in ToSet(found) <=> \E i \in 1..Len(walks) : x = name /\ name \in Reach(kids, Disks[i])
      BY <2>1, <3>2
    <3> QED
      BY <3>1, <3>3
  <2> QED
    BY <2>3, <2>4
<1>10. GetBlockDevice(name) = IF found = <<>> THEN NoName ELSE found[1]
  BY DEF GetBlockDevice, GetBlockDevices, filter, kept, walks
<1> HIDE DEF found
<1>11. CASE found = <<>>
  <2>1. ToSet(<<>>) = {}
    BY DEF ToSet
  <2> QED
    BY <1>9, <1>10, <1>11, <2>1
<1>12. CASE found # <<>>
  <2>1. found[1] \in ToSet(found)
    BY <1>8, <1>12, EmptySeq, LenProperties DEF ToSet
  <2> QED
    BY <1>9, <1>10, <1>12, <2>1
<1> QED
  BY <1>11, <1>12
=============================================================================
