--------------------------- MODULE SequenceLemmas ---------------------------
(***************************************************************************)
(* Facts about FlattenSeq and ToSet of the community modules, for          *)
(* sequences of any length.                                                *)
(*                                                                         *)
(* The induction principles are stated of sets: a set in which there is    *)
(* the start and each successor contains everything, since its complement  *)
(* would have a least element.  FlattenSeq is defined by a recursive       *)
(* function, which is a CHOOSE; FlattenSteps shows that there is one to    *)
(* choose.                                                                 *)
(***************************************************************************)
EXTENDS SequencesExt, SequenceTheorems, WellFoundedInduction, TLAPS

\* Induction over the naturals, stated of a set instead of a predicate.
LEMMA SetInduction ==
    ASSUME NEW T \in SUBSET Nat, 0 \in T, \A n \in T : n + 1 \in T
    PROVE  T = Nat
<1>1. SUFFICES ASSUME T # Nat
               PROVE  FALSE
  OBVIOUS
<1>2. PICK x \in Nat \ T : \A y \in Nat \ T : <<y, x>> \notin OpToRel(<, Nat)
  <2>1. Nat \ T \subseteq Nat /\ Nat \ T # {}
    BY <1>1
  <2> QED
    BY <2>1, NatLessThanWellFounded, WFMin
<1>3. x # 0 /\ x - 1 \in Nat /\ x - 1 < x
  OBVIOUS
<1>4. <<x - 1, x>> \in OpToRel(<, Nat)
  BY <1>3 DEF OpToRel
<1>5. x - 1 \in T
  BY <1>2, <1>3, <1>4
<1> QED
  BY <1>3, <1>5

\* Induction from 1 up to n.
LEMMA UpToInduction ==
    ASSUME NEW n \in Nat, NEW T,
           1 \in T, \A i \in 1..n : i \in T /\ i + 1 <= n => i + 1 \in T
    PROVE  1..n \subseteq T
<1> DEFINE U == {k \in Nat : k + 1 \in 1..n => k + 1 \in T}
<1>1. 0 \in U
  OBVIOUS
<1>2. \A k \in U : k + 1 \in U
  OBVIOUS
<1>3. U = Nat
  <2> HIDE DEF U
  <2>1. U \in SUBSET Nat
    BY DEF U
  <2> QED
    BY <1>1, <1>2, <2>1, SetInduction
<1>4. ASSUME NEW i \in 1..n
      PROVE  i \in T
  <2>1. i - 1 \in Nat /\ (i - 1) + 1 = i
    OBVIOUS
  <2>2. i - 1 \in U
    <3> HIDE DEF U
    <3> QED
      BY <1>3, <2>1
  <2> QED
    BY <2>1, <2>2
<1> QED
  BY <1>4

\* FlattenSeq is the last of a series of partial concatenations: the recursive
\* function in its definition exists.
LEMMA FlattenSteps ==
    ASSUME NEW seqs, Len(seqs) \in Nat, Len(seqs) # 0
    PROVE  \E f : /\ DOMAIN f = 1..Len(seqs)
                  /\ f[1] = seqs[1]
                  /\ \A i \in 1..Len(seqs) : i + 1 <= Len(seqs) => f[i + 1] = f[i] \o seqs[i + 1]
                  /\ FlattenSeq(seqs) = f[Len(seqs)]
<1> DEFINE N == Len(seqs)
           Steps(f, n) == /\ f = [i \in 1..n |-> f[i]]
                          /\ n >= 1 => f[1] = seqs[1]
                          /\ \A i \in 1..n : i # 1 => f[i] = f[i - 1] \o seqs[i]
           T == {n \in Nat : \E f : Steps(f, n)}
<1>1. 0 \in T
  <2>1. Steps([i \in 1..0 |-> 0], 0)
    OBVIOUS
  <2> QED
    BY <2>1
<1>2. ASSUME NEW n \in T
      PROVE  n + 1 \in T
  <2>1. PICK f : Steps(f, n)
    OBVIOUS
  <2> DEFINE new == IF n = 0 THEN seqs[1] ELSE f[n] \o seqs[n + 1]
             g == [i \in 1..(n + 1) |-> IF i = n + 1 THEN new ELSE f[i]]
  <2> HIDE DEF new
  <2>2. g = [i \in 1..(n + 1) |-> g[i]]
    OBVIOUS
  <2>3. g[1] = seqs[1]
    <3>1. CASE n = 0
      BY <3>1 DEF new
    <3>2. CASE n # 0
      BY <2>1, <3>2
    <3> QED
      BY <3>1, <3>2
  <2>4. ASSUME NEW i \in 1..(n + 1), i # 1
        PROVE  g[i] = g[i - 1] \o seqs[i]
    <3>1. i - 1 \in 1..n /\ i - 1 # n + 1
      BY <2>4
    <3>2. g[i - 1] = f[i - 1]
      BY <3>1
    <3>3. CASE i = n + 1
      <4>1. g[i] = new /\ n # 0 /\ i - 1 = n
        BY <2>4, <3>3
      <4> QED
        BY <3>2, <3>3, <4>1 DEF new
    <3>4. CASE i # n + 1
      <4>1. i \in 1..n
        BY <3>4
      <4>2. g[i] = f[i]
        BY <3>4
      <4>3. f[i] = f[i - 1] \o seqs[i]
        BY <2>1, <2>4, <4>1
      <4> QED
        BY <3>2, <4>2, <4>3
    <3> QED
      BY <3>3, <3>4
  <2>5. Steps(g, n + 1)
    BY <2>2, <2>3, <2>4
  <2>6. n + 1 \in Nat
    OBVIOUS
  <2> HIDE DEF Steps, g
  <2> QED
    BY <2>5, <2>6
<1>3. N \in T
  <2> HIDE DEF T
  <2>1. T \in SUBSET Nat
    BY DEF T
  <2> QED
    BY <1>1, <1>2, <2>1, SetInduction
<1>4. PICK g : Steps(g, N)
  BY <1>3
<1>5. N >= 1 /\ 1 \in 1..N
  OBVIOUS
<1> DEFINE Defined(f) == f = [i \in 1..N |-> IF i = 1 THEN seqs[i] ELSE f[i - 1] \o seqs[i]]
<1>6. Defined(g)
  <2>1. ASSUME NEW i \in 1..N
        PROVE  g[i] = IF i = 1 THEN seqs[i] ELSE g[i - 1] \o seqs[i]
    <3>1. CASE i = 1
      BY <1>4, <1>5, <3>1
    <3>2. CASE i # 1
      BY <1>4, <3>2
    <3> QED
      BY <3>1, <3>2
  <2>2. g = [i \in 1..N |-> g[i]]
    BY <1>4
  <2>3. [i \in 1..N |-> g[i]] = [i \in 1..N |-> IF i = 1 THEN seqs[i] ELSE g[i - 1] \o seqs[i]]
    BY <2>1
  <2> QED
    BY <2>2, <2>3
<1>7. Defined(CHOOSE f : Defined(f))
  <2> HIDE DEF Defined
  <2> QED
    BY <1>6
<1>8. FlattenSeq(seqs) = (CHOOSE f : Defined(f))[N]
  BY DEF FlattenSeq
<1> DEFINE f == CHOOSE h : Defined(h)
<1> HIDE DEF f
<1>9. f = [i \in 1..N |-> IF i = 1 THEN seqs[i] ELSE f[i - 1] \o seqs[i]]
  BY <1>7 DEF f
<1>10. DOMAIN f = 1..N /\ \A i \in 1..N : f[i] = IF i = 1 THEN seqs[i] ELSE f[i - 1] \o seqs[i]
  BY <1>9
<1>11. FlattenSeq(seqs) = f[N]
  BY <1>8 DEF f
<1>12. ASSUME NEW i \in 1..N, i + 1 <= N
       PROVE  f[i + 1] = f[i] \o seqs[i + 1]
  <2>1. i + 1 \in 1..N /\ i + 1 # 1 /\ (i + 1) - 1 = i
    BY <1>12
  <2> QED
    BY <1>10, <2>1
<1>13. f[1] = seqs[1]
  BY <1>5, <1>10
<1> QED
  BY <1>10, <1>11, <1>12, <1>13

\* Nothing flattens to nothing.
LEMMA FlattenEmpty == FlattenSeq(<<>>) = <<>>
  BY DEF FlattenSeq

\* What holds of nothing and is kept by each concatenation holds of the result.
\* T is a set of pairs: how many sequences are done, and what they have given.
LEMMA FlattenInduction ==
    ASSUME NEW S, NEW seqs \in Seq(Seq(S)), NEW T,
           <<0, <<>>>> \in T,
           \A i \in 0..Len(seqs), t \in Seq(S) :
              i + 1 <= Len(seqs) /\ <<i, t>> \in T => <<i + 1, t \o seqs[i + 1]>> \in T
    PROVE  FlattenSeq(seqs) \in Seq(S) /\ <<Len(seqs), FlattenSeq(seqs)>> \in T
<1> DEFINE N == Len(seqs)
<1>1. N \in Nat /\ \A i \in 1..N : seqs[i] \in Seq(S)
  BY LenProperties, ElementOfSeq
<1>2. CASE N = 0
  <2>1. seqs = <<>>
    BY <1>2, EmptySeq
  <2>2. <<>> \in Seq(S)
    BY EmptySeq
  <2> QED
    BY <1>2, <2>1, <2>2, FlattenEmpty
<1>3. CASE N # 0
  <2>1. PICK f : /\ f[1] = seqs[1]
                 /\ \A i \in 1..N : i + 1 <= N => f[i + 1] = f[i] \o seqs[i + 1]
                 /\ FlattenSeq(seqs) = f[N]
    BY <1>1, <1>3, FlattenSteps
  <2> DEFINE U == {i \in 1..N : f[i] \in Seq(S) /\ <<i, f[i]>> \in T}
  <2>2. 1 \in U
    <3>1. 1 \in 1..N /\ 0 \in 0..N /\ 0 + 1 <= N
      BY <1>1, <1>3
    <3>2. seqs[1] \in Seq(S) /\ <<>> \in Seq(S) /\ <<>> \o seqs[1] = seqs[1]
      BY <1>1, <3>1, EmptySeq, ConcatEmptySeq
    <3>3. <<0 + 1, <<>> \o seqs[0 + 1]>> \in T
      BY <3>1, <3>2
    <3>4. 0 + 1 = 1
      OBVIOUS
    <3>5. <<1, seqs[1]>> \in T
      BY <3>2, <3>3, <3>4
    <3> QED
      BY <2>1, <3>1, <3>2, <3>5
  <2>3. ASSUME NEW i \in 1..N, i \in U, i + 1 <= N
        PROVE  i + 1 \in U
    <3>1. i + 1 \in 1..N /\ i \in 0..N
      BY <1>1, <2>3
    <3>2. f[i + 1] = f[i] \o seqs[i + 1] /\ f[i] \in Seq(S) /\ <<i, f[i]>> \in T
      BY <2>1, <2>3
    <3>3. f[i + 1] \in Seq(S)
      BY <1>1, <3>1, <3>2, ConcatProperties
    <3>4. <<i + 1, f[i] \o seqs[i + 1]>> \in T
      BY <2>3, <3>1, <3>2
    <3> QED
      BY <3>1, <3>2, <3>3, <3>4
  <2>4. 1..N \subseteq U
    <3> HIDE DEF U, N
    <3> QED
      BY <1>1, <2>2, <2>3, UpToInduction
  <2>5. N \in U
    BY <1>1, <1>3, <2>4
  <2> QED
    BY <2>1, <2>5
<1> QED
  BY <1>2, <1>3

\* Sequences over S flatten to a sequence over S.
LEMMA FlattenType ==
    ASSUME NEW S, NEW seqs \in Seq(Seq(S))
    PROVE  FlattenSeq(seqs) \in Seq(S)
<1> DEFINE T == Nat \X Seq(S)
<1>1. <<0, <<>>>> \in T
  BY EmptySeq
<1>2. ASSUME NEW i \in 0..Len(seqs), NEW t \in Seq(S), i + 1 <= Len(seqs)
      PROVE  <<i + 1, t \o seqs[i + 1]>> \in T
  <2>1. i + 1 \in 1..Len(seqs) /\ i + 1 \in Nat
    BY <1>2, LenProperties
  <2>2. seqs[i + 1] \in Seq(S)
    BY <2>1, ElementOfSeq
  <2> QED
    BY <2>1, <2>2, ConcatProperties
<1> QED
  <2> HIDE DEF T
  <2> QED
    BY <1>1, <1>2, FlattenInduction

\* The last sequence comes last.
LEMMA FlattenAppend ==
    ASSUME NEW S, NEW seqs \in Seq(Seq(S)), NEW s \in Seq(S)
    PROVE  FlattenSeq(Append(seqs, s)) = FlattenSeq(seqs) \o s
<1> DEFINE N == Len(seqs)
           more == Append(seqs, s)
<1>1. /\ N \in Nat
      /\ more \in Seq(Seq(S)) /\ Len(more) = N + 1
      /\ \A i \in 1..N : more[i] = seqs[i]
      /\ more[N + 1] = s
  BY LenProperties, AppendProperties
<1>2. PICK g : /\ g[1] = more[1]
               /\ \A i \in 1..(N + 1) : i + 1 <= N + 1 => g[i + 1] = g[i] \o more[i + 1]
               /\ FlattenSeq(more) = g[N + 1]
  <2>1. Len(more) # 0 /\ Len(more) \in Nat
    BY <1>1
  <2> HIDE DEF more
  <2> QED
    BY <1>1, <2>1, FlattenSteps
<1> HIDE DEF more
<1>3. CASE N = 0
  <2>1. FlattenSeq(seqs) = <<>>
    BY <1>3, EmptySeq, FlattenEmpty
  <2>2. FlattenSeq(more) = s
    BY <1>1, <1>2, <1>3
  <2>3. <<>> \o s = s
    BY ConcatEmptySeq
  <2> QED
    BY <2>1, <2>2, <2>3 DEF more
<1>4. CASE N # 0
  <2>1. PICK f : /\ f[1] = seqs[1]
                 /\ \A i \in 1..N : i + 1 <= N => f[i + 1] = f[i] \o seqs[i + 1]
                 /\ FlattenSeq(seqs) = f[N]
    BY <1>1, <1>4, FlattenSteps
  <2> DEFINE U == {i \in 1..N : f[i] = g[i]}
  <2>2. 1 \in U
    BY <1>1, <1>2, <1>4, <2>1
  <2>3. ASSUME NEW i \in 1..N, i \in U, i + 1 <= N
        PROVE  i + 1 \in U
    <3>1. i + 1 \in 1..N /\ i \in 1..(N + 1) /\ i + 1 <= N + 1
      BY <1>1, <2>3
    <3>2. f[i + 1] = f[i] \o seqs[i + 1] /\ g[i + 1] = g[i] \o more[i + 1]
      BY <1>2, <2>1, <2>3, <3>1
    <3> QED
      BY <1>1, <2>3, <3>1, <3>2
  <2>4. 1..N \subseteq U
    <3> HIDE DEF U, N
    <3> QED
      BY <1>1, <2>2, <2>3, UpToInduction
  <2>5. N \in 1..N /\ N \in 1..(N + 1) /\ N + 1 <= N + 1
    BY <1>1, <1>4
  <2>6. f[N] = g[N]
    BY <2>4, <2>5
  <2>7. g[N + 1] = g[N] \o more[N + 1]
    BY <1>2, <2>5
  <2> QED
    BY <1>1, <1>2, <2>1, <2>6, <2>7 DEF more
<1> QED
  BY <1>3, <1>4

\* A prefix, as a function.
Prefix(seqs, n) == [i \in 1..n |-> seqs[i]]

\* Prefixes run from nothing to all, one element at a time.
LEMMA PrefixProperties ==
    ASSUME NEW S, NEW seqs \in Seq(S)
    PROVE  /\ Prefix(seqs, 0) = <<>>
           /\ Prefix(seqs, Len(seqs)) = seqs
           /\ \A n \in 0..Len(seqs) : Prefix(seqs, n) \in Seq(S) /\ Len(Prefix(seqs, n)) = n
           /\ \A n \in 0..Len(seqs) :
                 n + 1 <= Len(seqs) => Prefix(seqs, n + 1) = Append(Prefix(seqs, n), seqs[n + 1])
<1>1. Len(seqs) \in Nat /\ \A i \in 1..Len(seqs) : seqs[i] \in S
  BY LenProperties, ElementOfSeq
<1>2. ASSUME NEW n \in 0..Len(seqs)
      PROVE  Prefix(seqs, n) \in Seq(S) /\ Len(Prefix(seqs, n)) = n
  BY <1>1 DEF Prefix
<1>3. Prefix(seqs, 0) = <<>>
  BY <1>1, <1>2, EmptySeq
<1>4. Prefix(seqs, Len(seqs)) = seqs
  BY <1>1, LenProperties DEF Prefix
<1>5. ASSUME NEW n \in 0..Len(seqs), n + 1 <= Len(seqs)
      PROVE  Prefix(seqs, n + 1) = Append(Prefix(seqs, n), seqs[n + 1])
  <2>1. n + 1 \in 0..Len(seqs) /\ n + 1 \in 1..Len(seqs)
    BY <1>1, <1>5
  <2>2. /\ Prefix(seqs, n) \in Seq(S) /\ Len(Prefix(seqs, n)) = n
        /\ Prefix(seqs, n + 1) \in Seq(S) /\ Len(Prefix(seqs, n + 1)) = n + 1
    BY <1>2, <2>1
  <2>3. /\ Append(Prefix(seqs, n), seqs[n + 1]) \in Seq(S)
        /\ Len(Append(Prefix(seqs, n), seqs[n + 1])) = n + 1
        /\ \A i \in 1..n : Append(Prefix(seqs, n), seqs[n + 1])[i] = Prefix(seqs, n)[i]
        /\ Append(Prefix(seqs, n), seqs[n + 1])[n + 1] = seqs[n + 1]
    BY <1>1, <2>1, <2>2, AppendProperties
  <2>4. \A i \in 1..(n + 1) : Prefix(seqs, n + 1)[i] = Append(Prefix(seqs, n), seqs[n + 1])[i]
    BY <1>1, <2>3 DEF Prefix
  <2> QED
    BY <2>2, <2>3, <2>4, SeqEqual
<1> QED
  BY <1>2, <1>3, <1>4, <1>5

\* One sequence flattens to itself.
LEMMA FlattenOne ==
    ASSUME NEW S, NEW s \in Seq(S)
    PROVE  FlattenSeq(<<s>>) = s
<1>1. <<>> \in Seq(Seq(S)) /\ Append(<<>>, s) = <<s>>
  BY EmptySeq
<1>2. FlattenSeq(Append(<<>>, s)) = FlattenSeq(<<>>) \o s
  BY <1>1, FlattenAppend
<1>3. <<>> \o s = s
  BY ConcatEmptySeq
<1> QED
  BY <1>1, <1>2, <1>3, FlattenEmpty

\* Concatenation and appending associate.
LEMMA ConcatAppend ==
    ASSUME NEW S, NEW a \in Seq(S), NEW p \in Seq(S), NEW e \in S
    PROVE  a \o Append(p, e) = Append(a \o p, e)
<1>1. Append(p, e) = p \o <<e>> /\ <<e>> \in Seq(S) /\ a \o p \in Seq(S)
  BY AppendIsConcat, ConcatProperties
<1>2. Append(a \o p, e) = (a \o p) \o <<e>>
  BY <1>1, AppendIsConcat
<1> QED
  BY <1>1, <1>2, ConcatAssociative

\* FlattenSeq distributes over concatenation.
LEMMA FlattenConcat ==
    ASSUME NEW S, NEW a \in Seq(Seq(S)), NEW b \in Seq(Seq(S))
    PROVE  FlattenSeq(a \o b) = FlattenSeq(a) \o FlattenSeq(b)
<1>1. FlattenSeq(a) \in Seq(S) /\ Len(b) \in Nat
  BY FlattenType, LenProperties
<1> DEFINE T == {p \in Nat \X Seq(S) :
                    FlattenSeq(a \o Prefix(b, p[1])) = FlattenSeq(a) \o p[2]}
<1>2. <<0, <<>>>> \in T
  <2>1. Prefix(b, 0) = <<>> /\ a \o <<>> = a /\ FlattenSeq(a) \o <<>> = FlattenSeq(a)
    BY <1>1, PrefixProperties, ConcatEmptySeq
  <2> QED
    BY <2>1, EmptySeq
<1>3. ASSUME NEW i \in 0..Len(b), NEW t \in Seq(S), i + 1 <= Len(b), <<i, t>> \in T
      PROVE  <<i + 1, t \o b[i + 1]>> \in T
  <2>1. i + 1 \in 1..Len(b) /\ b[i + 1] \in Seq(S) /\ i + 1 \in Nat
    <3>1. i + 1 \in 1..Len(b)
      BY <1>1, <1>3
    <3> QED
      BY <3>1, ElementOfSeq
  <2>2. /\ Prefix(b, i) \in Seq(Seq(S))
        /\ Prefix(b, i + 1) = Append(Prefix(b, i), b[i + 1])
    BY <1>3, PrefixProperties
  <2>3. a \o Append(Prefix(b, i), b[i + 1]) = Append(a \o Prefix(b, i), b[i + 1])
    <3>1. \A p \in Seq(Seq(S)), e \in Seq(S) : a \o Append(p, e) = Append(a \o p, e)
      BY ConcatAppend
    <3> QED
      BY <2>1, <2>2, <3>1
  <2>4. FlattenSeq(a \o Prefix(b, i + 1)) = FlattenSeq(a \o Prefix(b, i)) \o b[i + 1]
    <3>1. a \o Prefix(b, i) \in Seq(Seq(S))
      BY <2>2, ConcatProperties
    <3> QED
      BY <2>1, <2>2, <2>3, <3>1, FlattenAppend
  <2>5. (FlattenSeq(a) \o t) \o b[i + 1] = FlattenSeq(a) \o (t \o b[i + 1])
    <3>1. \A u \in Seq(S) : (FlattenSeq(a) \o t) \o u = FlattenSeq(a) \o (t \o u)
      BY <1>1, ConcatAssociative
    <3> QED
      BY <2>1, <3>1
  <2>6. FlattenSeq(a \o Prefix(b, i)) = FlattenSeq(a) \o t
    BY <1>3
  <2>7. t \o b[i + 1] \in Seq(S)
    BY <2>1, ConcatProperties
  <2> QED
    BY <2>1, <2>4, <2>5, <2>6, <2>7
<1>4. <<Len(b), FlattenSeq(b)>> \in T
  <2> HIDE DEF T
  <2> QED
    BY <1>2, <1>3, FlattenInduction
<1> QED
  BY <1>4, PrefixProperties

\* The elements of a concatenation are those of both.
LEMMA ToSetConcat ==
    ASSUME NEW S, NEW s \in Seq(S), NEW t \in Seq(S)
    PROVE  ToSet(s \o t) = ToSet(s) \cup ToSet(t)
<1>1. Range(s \o t) = Range(s) \cup Range(t)
  BY RangeConcatenation
<1> QED
  BY <1>1 DEF ToSet, Range

\* The elements of a sequence over S are in S; the empty sequence has none.
LEMMA ToSetType ==
    ASSUME NEW S, NEW s \in Seq(S)
    PROVE  /\ ToSet(s) \subseteq S
           /\ ToSet(<<>>) = {}
           /\ ToSet(s) = {s[i] : i \in 1..Len(s)}
  BY LenProperties, ElementOfSeq DEF ToSet

\* The elements of the flat sequence are those of the sequences in it.
LEMMA FlattenElements ==
    ASSUME NEW S, NEW seqs \in Seq(Seq(S)), NEW x
    PROVE  x \in ToSet(FlattenSeq(seqs)) <=> \E j \in 1..Len(seqs) : x \in ToSet(seqs[j])
<1>1. Len(seqs) \in Nat
  BY LenProperties
<1> DEFINE T == {p \in Nat \X Seq(S) :
                    x \in ToSet(p[2]) <=> \E j \in 1..p[1] : x \in ToSet(seqs[j])}
<1>2. <<0, <<>>>> \in T
  <2>1. <<>> \in Seq(S) /\ ToSet(<<>>) = {} /\ ~ \E j \in 1..0 : x \in ToSet(seqs[j])
    BY EmptySeq DEF ToSet
  <2> QED
    BY <2>1
<1>3. ASSUME NEW i \in 0..Len(seqs), NEW t \in Seq(S), i + 1 <= Len(seqs), <<i, t>> \in T
      PROVE  <<i + 1, t \o seqs[i + 1]>> \in T
  <2>1. i + 1 \in 1..Len(seqs) /\ i + 1 \in Nat
    BY <1>1, <1>3
  <2>2. seqs[i + 1] \in Seq(S)
    BY <2>1, ElementOfSeq
  <2>3. t \o seqs[i + 1] \in Seq(S) /\ ToSet(t \o seqs[i + 1]) = ToSet(t) \cup ToSet(seqs[i + 1])
    BY <2>2, ConcatProperties, ToSetConcat
  <2>4. x \in ToSet(t) <=> \E j \in 1..i : x \in ToSet(seqs[j])
    BY <1>3
  <2>5. \A j : j \in 1..(i + 1) <=> j \in 1..i \/ j = i + 1
    BY <1>1
  <2>6. x \in ToSet(t \o seqs[i + 1]) <=> \E j \in 1..(i + 1) : x \in ToSet(seqs[j])
    BY <2>3, <2>4, <2>5
  <2> QED
    BY <2>1, <2>3, <2>6
<1>4. <<Len(seqs), FlattenSeq(seqs)>> \in T
  <2> HIDE DEF T
  <2> QED
    BY <1>2, <1>3, FlattenInduction
<1> QED
  BY <1>4

\* No element of X occurs twice.
Once(s, X) == \A i, j \in DOMAIN s : s[i] = s[j] /\ s[i] \in X => i = j

\* Two sequences without common elements in X repeat nothing of X if neither does.
LEMMA OnceConcat ==
    ASSUME NEW S, NEW s \in Seq(S), NEW t \in Seq(S), NEW X,
           Once(s, X), Once(t, X), ToSet(s) \cap ToSet(t) \cap X = {}
    PROVE  Once(s \o t, X)
<1>1. /\ s \o t \in Seq(S) /\ Len(s) \in Nat /\ Len(t) \in Nat
      /\ DOMAIN s = 1..Len(s) /\ DOMAIN t = 1..Len(t)
      /\ DOMAIN (s \o t) = 1..(Len(s) + Len(t))
      /\ \A i \in 1..(Len(s) + Len(t)) :
            (s \o t)[i] = IF i <= Len(s) THEN s[i] ELSE t[i - Len(s)]
  BY ConcatProperties, LenProperties
<1> DEFINE c == s \o t
<1> HIDE DEF c
<1>2. SUFFICES ASSUME NEW i \in 1..(Len(s) + Len(t)), NEW j \in 1..(Len(s) + Len(t)),
                      c[i] = c[j], c[i] \in X
               PROVE  i = j
  BY <1>1 DEF Once, c
<1>3. ASSUME NEW k \in 1..(Len(s) + Len(t))
      PROVE  /\ k <= Len(s) => k \in 1..Len(s) /\ c[k] = s[k] /\ c[k] \in ToSet(s)
             /\ ~(k <= Len(s)) => /\ k - Len(s) \in 1..Len(t) /\ c[k] = t[k - Len(s)]
                                  /\ c[k] \in ToSet(t)
  <2>1. CASE k <= Len(s)
    <3>1. k \in 1..Len(s) /\ c[k] = s[k]
      BY <1>1, <2>1 DEF c
    <3> QED
      BY <1>1, <2>1, <3>1 DEF ToSet
  <2>2. CASE ~(k <= Len(s))
    <3>1. k - Len(s) \in 1..Len(t) /\ c[k] = t[k - Len(s)]
      BY <1>1, <2>2 DEF c
    <3> QED
      BY <1>1, <2>2, <3>1 DEF ToSet
  <2> QED
    BY <2>1, <2>2
<1>4. CASE i <= Len(s) /\ j <= Len(s)
  BY <1>1, <1>2, <1>3, <1>4 DEF Once
<1>5. CASE ~(i <= Len(s)) /\ ~(j <= Len(s))
  <2>1. i - Len(s) = j - Len(s)
    BY <1>1, <1>2, <1>3, <1>5 DEF Once
  <2> QED
    BY <1>1, <2>1
<1>6. CASE (i <= Len(s)) # (j <= Len(s))
  BY <1>2, <1>3, <1>6
<1> QED
  BY <1>4, <1>5, <1>6

\* The same for any number of sequences.
LEMMA FlattenOnce ==
    ASSUME NEW S, NEW seqs \in Seq(Seq(S)), NEW X,
           \A i \in 1..Len(seqs) : Once(seqs[i], X),
           \A i, j \in 1..Len(seqs) : i # j => ToSet(seqs[i]) \cap ToSet(seqs[j]) \cap X = {}
    PROVE  Once(FlattenSeq(seqs), X)
<1>1. Len(seqs) \in Nat
  BY LenProperties
<1> DEFINE T == {p \in Nat \X Seq(S) :
                    /\ Once(p[2], X)
                    /\ \A x \in ToSet(p[2]) : \E j \in 1..p[1] : x \in ToSet(seqs[j])}
<1>2. <<0, <<>>>> \in T
  <2>1. <<>> \in Seq(S) /\ ToSet(<<>>) = {} /\ Once(<<>>, X)
    BY EmptySeq DEF ToSet, Once
  <2> QED
    BY <2>1
<1>3. ASSUME NEW i \in 0..Len(seqs), NEW t \in Seq(S), i + 1 <= Len(seqs), <<i, t>> \in T
      PROVE  <<i + 1, t \o seqs[i + 1]>> \in T
  <2>1. i + 1 \in 1..Len(seqs) /\ i + 1 \in Nat
    BY <1>1, <1>3
  <2>2. seqs[i + 1] \in Seq(S)
    BY <2>1, ElementOfSeq
  <2>3. t \o seqs[i + 1] \in Seq(S) /\ ToSet(t \o seqs[i + 1]) = ToSet(t) \cup ToSet(seqs[i + 1])
    BY <2>2, ConcatProperties, ToSetConcat
  <2>4. Once(t, X) /\ \A x \in ToSet(t) : \E j \in 1..i : x \in ToSet(seqs[j])
    BY <1>3
  <2>5. \A j : j \in 1..(i + 1) <=> j \in 1..i \/ j = i + 1
    BY <1>1
  <2>6. \A j \in 1..i : j \in 1..Len(seqs) /\ j # i + 1
    BY <1>1, <1>3
  <2>7. ToSet(t) \cap ToSet(seqs[i + 1]) \cap X = {}
    BY <2>1, <2>4, <2>6
  <2>8. Once(t \o seqs[i + 1], X)
    BY <2>1, <2>2, <2>4, <2>7, OnceConcat
  <2>9. \A x \in ToSet(t \o seqs[i + 1]) : \E j \in 1..(i + 1) : x \in ToSet(seqs[j])
    BY <2>3, <2>4, <2>5
  <2> QED
    BY <2>1, <2>3, <2>8, <2>9
<1>4. <<Len(seqs), FlattenSeq(seqs)>> \in T
  <2> HIDE DEF T
  <2> QED
    BY <1>2, <1>3, FlattenInduction
<1> QED
  BY <1>4
=============================================================================
