------------------------- MODULE ProviderRequestProofs -------------------------
(* What holds of every request of a conversation, and of every answer, for   *)
(* any number of answers, calls and messages, with proofs.                   *)
EXTENDS ProviderRequest, FiniteSetTheorems, SequenceTheorems, WellFoundedInduction, TLAPS

-----------------------------------------------------------------------------
(* Induction, and recursion along a sequence.                              *)

\* The least of a set of naturals.
LEMMA Smallest == ASSUME NEW S, S \subseteq Nat, S # {} PROVE \E m \in S : \A x \in S : m <= x
<1> DEFINE R == {ss \in Nat \X Nat : ss[1] < ss[2]}
<1>1. IsWellFoundedOn(R, Nat)
    BY NatLessThanWellFounded DEF OpToRel
<1>2. \E m \in S : \A y \in S : ~(<<y, m>> \in R)
  <2> HIDE DEF R
  <2> QED BY <1>1, WFMin
<1>3. PICK m \in S : \A y \in S : ~(y < m)
    BY <1>2
<1> QED BY <1>3

\* A set that has 0, and with a number below n the next one, has them all up to n.
LEMMA UpTo ==
  ASSUME NEW n \in Nat, NEW S, 0 \in S, \A i \in 0 .. n - 1 : i \in S => i + 1 \in S
  PROVE  0 .. n \subseteq S
<1> DEFINE out == (0 .. n) \ S
<1> SUFFICES ASSUME out # {} PROVE FALSE
    OBVIOUS
<1>1. out \subseteq Nat
    OBVIOUS
<1>2. PICK m \in out : \A x \in out : m <= x
  <2> HIDE DEF out
  <2> QED BY <1>1, Smallest
<1>3. m # 0 /\ m \in 0 .. n
    OBVIOUS
<1>4. m - 1 \in 0 .. n - 1 /\ m - 1 \notin out
    BY <1>2, <1>3
<1> QED BY <1>4

\* What is computed from b by n steps.
Reaches(F, b, step, n) == F[0] = b /\ \A i \in 1 .. n : F[i] = step[<<F[i - 1], i>>]

\* It is there, whatever the steps are.
LEMMA Recursion ==
  ASSUME NEW V, NEW b \in V, NEW n \in Nat, NEW step \in [V \X (1 .. n) -> V]
  PROVE  \E F \in [0 .. n -> V] : Reaches(F, b, step, n)
<1> DEFINE Good(k) == \E F \in [0 .. k -> V] : Reaches(F, b, step, k)
           S == {k \in 0 .. n : Good(k)}
<1>1. Good(0)
  <2>1. [i \in 0 .. 0 |-> b] \in [0 .. 0 -> V] /\ Reaches([i \in 0 .. 0 |-> b], b, step, 0)
      BY DEF Reaches
  <2> QED BY <2>1
<1>2. ASSUME NEW k \in 0 .. n - 1, Good(k) PROVE Good(k + 1)
  <2>1. PICK F \in [0 .. k -> V] : Reaches(F, b, step, k)
      BY <1>2
  <2> DEFINE x == step[<<F[k], k + 1>>]
             G == [i \in 0 .. k + 1 |-> IF i = k + 1 THEN x ELSE F[i]]
  <2>2. F[k] \in V /\ k + 1 \in 1 .. n
      BY <2>1
  <2>3. x \in V
      BY <2>2
  <2>4. G \in [0 .. k + 1 -> V] /\ G[0] = F[0] /\ G[k + 1] = x /\ \A i \in 0 .. k : G[i] = F[i]
    <3> HIDE DEF x
    <3> QED BY <2>1, <2>3
  <2>5. ASSUME NEW i \in 1 .. k + 1 PROVE G[i] = step[<<G[i - 1], i>>]
    <3>1. CASE i = k + 1
      <4>1. i - 1 = k /\ G[k] = F[k]
          BY <2>4, <3>1
      <4>2. G[k + 1] = step[<<F[k], k + 1>>]
          BY <2>4
      <4> HIDE DEF G
      <4> QED BY <3>1, <4>1, <4>2
    <3>2. CASE i \in 1 .. k
      <4>1. F[i] = step[<<F[i - 1], i>>] /\ i \in 0 .. k /\ i - 1 \in 0 .. k
          BY <2>1, <3>2 DEF Reaches
      <4>2. G[i] = F[i] /\ G[i - 1] = F[i - 1]
          BY <2>4, <4>1
      <4> HIDE DEF G
      <4> QED BY <4>1, <4>2
    <3> QED BY <3>1, <3>2
  <2> HIDE DEF G
  <2> QED BY <2>1, <2>4, <2>5 DEF Reaches
<1>3. 0 .. n \subseteq S
  <2>1. 0 \in S /\ \A i \in 0 .. n - 1 : i \in S => i + 1 \in S
    <3> HIDE DEF Good
    <3> QED BY <1>1, <1>2
  <2> HIDE DEF S
  <2> QED BY <2>1, UpTo
<1>4. n \in S
    BY <1>3
<1> QED BY <1>4

-----------------------------------------------------------------------------
(* FlattenSeq.                                                             *)

\* A function on 1 .. n is a sequence.
LEMMA Listed ==
  ASSUME NEW S, NEW n \in Nat, NEW f \in [1 .. n -> S]
  PROVE  f \in Seq(S) /\ Len(f) = n /\ DOMAIN f = 1 .. n
<1>1. f \in Seq(S)
    BY SeqDef
<1>2. Len(f) \in Nat /\ DOMAIN f = 1 .. Len(f) /\ DOMAIN f = 1 .. n
    BY <1>1, LenProperties
<1> QED BY <1>1, <1>2

\* The sequences are put together one after another.
Joined(G, ss) == G[0] = <<>> /\ \A i \in 1 .. Len(ss) : G[i] = G[i - 1] \o ss[i]

LEMMA Flatten ==
  ASSUME NEW S, NEW ss \in Seq(Seq(S))
  PROVE  \E G \in [0 .. Len(ss) -> Seq(S)] : Joined(G, ss) /\ FlattenSeq(ss) = G[Len(ss)]
<1> DEFINE n == Len(ss)
           step == [x \in Seq(S) \X (1 .. n) |-> x[1] \o ss[x[2]]]
<1>1. n \in Nat /\ \A i \in 1 .. n : ss[i] \in Seq(S)
    OBVIOUS
<1>2. step \in [Seq(S) \X (1 .. n) -> Seq(S)]
  <2>1. ASSUME NEW s \in Seq(S), NEW i \in 1 .. n PROVE s \o ss[i] \in Seq(S)
      BY <1>1, ConcatProperties
  <2> HIDE DEF n
  <2> QED BY <2>1
<1>3. PICK G \in [0 .. n -> Seq(S)] : Reaches(G, <<>>, step, n)
  <2>1. <<>> \in Seq(S)
      OBVIOUS
  <2> HIDE DEF n, step
  <2> QED BY <1>1, <1>2, <2>1, Recursion
<1>4. G[0] = <<>> /\ \A i \in 1 .. n : G[i] = G[i - 1] \o ss[i]
  <2>1. ASSUME NEW i \in 1 .. n PROVE step[<<G[i - 1], i>>] = G[i - 1] \o ss[i]
    <3>1. i - 1 \in 0 .. n
        BY <1>1
    <3>2. <<G[i - 1], i>> \in Seq(S) \X (1 .. n)
        BY <1>3, <3>1
    <3> HIDE DEF n
    <3> QED BY <3>2
  <2> HIDE DEF step, n
  <2> QED BY <1>3, <2>1 DEF Reaches
<1>5. CASE n = 0
  <2>1. ss = <<>> /\ FlattenSeq(ss) = ss
      BY <1>5 DEF FlattenSeq
  <2> QED BY <1>3, <1>4, <1>5, <2>1 DEF Joined
<1>6. CASE n # 0
  <2> DEFINE F[i \in 1 .. n] == IF i = 1 THEN ss[i] ELSE F[i - 1] \o ss[i]
             H == [i \in 1 .. n |-> G[i]]
  <2>1. FlattenSeq(ss) = F[n]
      BY <1>6 DEF FlattenSeq
  <2>2. H = [i \in 1 .. n |-> IF i = 1 THEN ss[i] ELSE H[i - 1] \o ss[i]]
    <3>1. ASSUME NEW i \in 1 .. n PROVE G[i] = IF i = 1 THEN ss[i] ELSE H[i - 1] \o ss[i]
      <4>1. CASE i = 1
        <5>0. 1 \in 1 .. n /\ 1 - 1 = 0
            BY <4>1
        <5>1. G[1] = <<>> \o ss[1] /\ ss[1] \in Seq(S)
          <6> HIDE DEF n, H
          <6> QED BY <1>1, <1>4, <5>0
        <5>2. <<>> \o ss[1] = ss[1]
            BY <5>1
        <5> QED BY <4>1, <5>1, <5>2
      <4>2. CASE i # 1
        <5>1. i - 1 \in 1 .. n
            BY <1>1, <4>2
        <5>2. H[i - 1] = G[i - 1]
            BY <5>1
        <5> QED BY <1>4, <4>2, <5>2
      <4> QED BY <4>1, <4>2
    <3> QED BY <3>1
  <2>3. F = [i \in 1 .. n |-> IF i = 1 THEN ss[i] ELSE F[i - 1] \o ss[i]]
    <3> HIDE DEF H, n
    <3> QED BY <2>2 DEF F
  <2>4. 0 .. n \subseteq {i \in 0 .. n : i # 0 => F[i] = G[i]}
    <3> DEFINE T == {i \in 0 .. n : i # 0 => F[i] = G[i]}
    <3>1. 0 \in T
        BY <1>1
    <3>2. ASSUME NEW i \in 0 .. n - 1, i \in T PROVE i + 1 \in T
      <4>1. i + 1 \in 1 .. n /\ (i + 1) - 1 = i
          BY <1>1
      <4>2. F[i + 1] = IF i + 1 = 1 THEN ss[i + 1] ELSE F[i] \o ss[i + 1]
        <5> HIDE DEF F, n
        <5> QED BY <2>3, <4>1
      <4>3. G[i + 1] = G[i] \o ss[i + 1]
          BY <1>4, <4>1
      <4>4. CASE i = 0
        <5>0. 1 \in 1 .. n /\ 1 - 1 = 0
            BY <4>1, <4>4
        <5>1. ss[1] \in Seq(S) /\ G[1] = <<>> \o ss[1]
          <6> HIDE DEF n, H, F
          <6> QED BY <1>1, <1>4, <5>0
        <5>2. <<>> \o ss[1] = ss[1]
            BY <5>1
        <5>3. F[1] = ss[1]
            BY <4>2, <4>4
        <5> HIDE DEF F, n
        <5> QED BY <4>1, <4>4, <5>1, <5>2, <5>3
      <4>5. CASE i # 0
        <5>1. F[i] = G[i] /\ i + 1 # 1
            BY <3>2, <4>5
        <5>2. F[i + 1] = F[i] \o ss[i + 1]
          <6> HIDE DEF F, n
          <6> QED BY <4>2, <5>1
        <5>3. i + 1 \in 0 .. n /\ F[i + 1] = G[i + 1]
          <6> HIDE DEF F, n
          <6> QED BY <4>1, <4>3, <5>1, <5>2
        <5> HIDE DEF F, n
        <5> QED BY <5>3
      <4> QED BY <4>4, <4>5
    <3> HIDE DEF T, n, F
    <3> QED BY <1>1, <3>1, <3>2, UpTo DEF T
  <2>5. F[n] = G[n]
    <3>1. n \in 0 .. n
        BY <1>1
    <3> HIDE DEF F, n
    <3> QED BY <1>6, <2>4, <3>1
  <2> HIDE DEF F
  <2> QED BY <1>3, <1>4, <2>1, <2>5 DEF Joined
<1> QED BY <1>5, <1>6

\* Two sequences with the same first n elements.
SameUpTo(n, ss, tt) ==
    /\ n \in Nat /\ Len(ss) \in Nat /\ Len(tt) \in Nat /\ n <= Len(ss) /\ n <= Len(tt)
    /\ \A i \in 1 .. n : ss[i] = tt[i]

\* What is put together of equal sequences is equal.
LEMMA Agree ==
  ASSUME NEW ss, NEW tt, NEW G, NEW H, NEW n, Joined(G, ss), Joined(H, tt), SameUpTo(n, ss, tt)
  PROVE  G[n] = H[n]
<1>0. /\ n \in Nat /\ Len(ss) \in Nat /\ Len(tt) \in Nat /\ n <= Len(ss) /\ n <= Len(tt)
      /\ \A i \in 1 .. n : ss[i] = tt[i]
    BY DEF SameUpTo
<1> DEFINE T == {i \in 0 .. n : G[i] = H[i]}
<1>1. 0 \in T
    BY <1>0 DEF Joined
<1>2. ASSUME NEW i \in 0 .. n - 1, i \in T PROVE i + 1 \in T
  <2>1. i + 1 \in 1 .. Len(ss) /\ i + 1 \in 1 .. Len(tt) /\ (i + 1) - 1 = i /\ i + 1 \in 1 .. n
      BY <1>0
  <2>2. G[i + 1] = G[i] \o ss[i + 1] /\ H[i + 1] = H[i] \o tt[i + 1]
      BY <2>1 DEF Joined
  <2>3. G[i] = H[i] /\ ss[i + 1] = tt[i + 1] /\ i + 1 \in 0 .. n
      BY <1>0, <1>2, <2>1
  <2> QED BY <2>2, <2>3
<1>3. 0 .. n \subseteq T
  <2> HIDE DEF T
  <2> QED BY <1>0, <1>1, <1>2, UpTo
<1>4. n \in 0 .. n
    BY <1>0
<1> QED BY <1>3, <1>4

\* A sequence more.
LEMMA FlattenAppend ==
  ASSUME NEW S, NEW ss, ss \in Seq(Seq(S)), NEW x, x \in Seq(S)
  PROVE  FlattenSeq(Append(ss, x)) = FlattenSeq(ss) \o x
<1> DEFINE tt == Append(ss, x)
<1>1. /\ tt \in Seq(Seq(S)) /\ Len(tt) = Len(ss) + 1 /\ tt[Len(ss) + 1] = x
      /\ \A i \in 1 .. Len(ss) : tt[i] = ss[i]
    BY AppendProperties
<1>2. Len(ss) \in Nat
    OBVIOUS
<1> HIDE DEF tt
<1>3. PICK G : G \in [0 .. Len(ss) -> Seq(S)] /\ Joined(G, ss) /\ FlattenSeq(ss) = G[Len(ss)]
    BY Flatten
<1>4. PICK H : H \in [0 .. Len(tt) -> Seq(S)] /\ Joined(H, tt) /\ FlattenSeq(tt) = H[Len(tt)]
    BY <1>1, Flatten
<1>5. G[Len(ss)] = H[Len(ss)]
  <2>1. SameUpTo(Len(ss), ss, tt)
      BY <1>1, <1>2 DEF SameUpTo
  <2>2. Joined(G, ss)
      BY <1>3
  <2>3. Joined(H, tt)
      BY <1>4
  <2> QED BY ONLY <2>1, <2>2, <2>3, Agree
<1>6. H[Len(ss) + 1] = H[Len(ss)] \o tt[Len(ss) + 1]
  <2>1. Len(ss) + 1 \in 1 .. Len(tt) /\ (Len(ss) + 1) - 1 = Len(ss)
      BY <1>1, <1>2
  <2> QED BY <1>4, <2>1 DEF Joined
<1> QED BY <1>1, <1>3, <1>4, <1>5, <1>6 DEF tt

\* Of no sequences; of any, a sequence.
LEMMA FlattenType ==
  ASSUME NEW S
  PROVE  /\ FlattenSeq(<<>>) = <<>>
         /\ \A ss \in Seq(Seq(S)) : FlattenSeq(ss) \in Seq(S)
<1>1. ASSUME NEW ss \in Seq(Seq(S)) PROVE FlattenSeq(ss) \in Seq(S)
  <2>1. PICK G \in [0 .. Len(ss) -> Seq(S)] : Joined(G, ss) /\ FlattenSeq(ss) = G[Len(ss)]
      BY Flatten
  <2>2. Len(ss) \in 0 .. Len(ss)
      OBVIOUS
  <2> QED BY <2>1, <2>2
<1> QED BY <1>1 DEF FlattenSeq

\* Of nothing but single elements, after k times nothing.
LEMMA FlattenSingles ==
  ASSUME NEW S, NEW c \in Seq(S), NEW k \in Nat, NEW ss \in Seq(Seq(S)), Len(ss) = k + Len(c),
         \A i \in 1 .. k : ss[i] = <<>>, \A i \in 1 .. Len(c) : ss[k + i] = <<c[i]>>
  PROVE  FlattenSeq(ss) = c
<1> DEFINE l == Len(c)
           size(n) == IF n <= k THEN 0 ELSE n - k
<1>0. l \in Nat /\ Len(ss) = k + l
    OBVIOUS
<1>1. PICK G \in [0 .. Len(ss) -> Seq(S)] : Joined(G, ss) /\ FlattenSeq(ss) = G[Len(ss)]
    BY Flatten
<1> DEFINE T == {n \in 0 .. k + l : Len(G[n]) = size(n) /\ \A j \in 1 .. size(n) : G[n][j] = c[j]}
<1>2. 0 \in T
    BY <1>0, <1>1 DEF Joined
<1>3. ASSUME NEW n \in 0 .. (k + l) - 1, n \in T PROVE n + 1 \in T
  <2>1. n + 1 \in 1 .. Len(ss) /\ (n + 1) - 1 = n /\ n \in 0 .. Len(ss) /\ n + 1 \in 0 .. k + l
      BY <1>0
  <2>2. G[n + 1] = G[n] \o ss[n + 1] /\ G[n] \in Seq(S)
      BY <1>1, <2>1 DEF Joined
  <2>3. CASE n + 1 <= k
    <3>1. ss[n + 1] = <<>>
        BY <2>1, <2>3
    <3>2. G[n + 1] = G[n]
      <4>1. G[n] \o <<>> = G[n]
          BY <2>2
      <4> QED BY <2>2, <3>1, <4>1
    <3>3. size(n + 1) = 0 /\ size(n) = 0
        BY <2>1, <2>3
    <3> HIDE DEF size
    <3> QED BY <1>3, <2>1, <3>2, <3>3
  <2>4. CASE n + 1 > k
    <3>1. n + 1 - k \in 1 .. l /\ k + (n + 1 - k) = n + 1 /\ size(n) = n - k /\ size(n + 1) = n + 1 - k
        BY <1>0, <2>1, <2>4
    <3>2. ss[n + 1] = <<c[n + 1 - k]>> /\ c[n + 1 - k] \in S
      <4>1. n + 1 - k \in 1 .. Len(c)
          BY <3>1
      <4>2. ss[k + (n + 1 - k)] = <<c[n + 1 - k]>> /\ c[n + 1 - k] \in S
        <5> DEFINE i == n + 1 - k
        <5>1. i \in 1 .. Len(c)
            BY <4>1
        <5>2. ss[k + i] = <<c[i]>> /\ c[i] \in S
          <6> HIDE DEF i, size, l, T
          <6> QED BY <5>1
        <5> QED BY <5>2
      <4> HIDE DEF size, l, T
      <4> QED BY <3>1, <4>2
    <3>3. /\ Len(G[n + 1]) = Len(G[n]) + 1
          /\ \A j \in 1 .. Len(G[n]) : G[n + 1][j] = G[n][j]
          /\ G[n + 1][Len(G[n]) + 1] = c[n + 1 - k]
      <4>1. G[n + 1] = G[n] \o <<c[n + 1 - k]>>
          BY <2>2, <3>2
      <4> HIDE DEF size, T
      <4> QED BY <2>2, <3>2, <4>1
    <3>4. Len(G[n]) = n - k /\ \A j \in 1 .. n - k : G[n][j] = c[j]
        BY <1>3, <3>1
    <3>5. ASSUME NEW j \in 1 .. n + 1 - k PROVE G[n + 1][j] = c[j]
      <4>1. j \in 1 .. n - k \/ j = (n - k) + 1
          BY <2>1, <3>1
      <4>2. (n - k) + 1 = n + 1 - k
          BY <2>1
      <4> QED BY <3>3, <3>4, <4>1, <4>2
    <3>6. Len(G[n + 1]) = n + 1 - k
        BY <2>1, <3>3, <3>4
    <3> QED BY <2>1, <3>1, <3>5, <3>6
  <2> QED BY <2>1, <2>3, <2>4
<1>4. 0 .. k + l \subseteq T
  <2>1. k + l \in Nat
      BY <1>0
  <2> HIDE DEF T, l
  <2> QED BY <1>2, <1>3, <2>1, UpTo
<1>5. k + l \in T /\ size(k + l) = l
  <2>1. k + l \in 0 .. k + l
      BY <1>0
  <2>2. k + l \in T
    <3> HIDE DEF T, l
    <3> QED BY <1>4, <2>1
  <2>3. size(k + l) = l
    <3> HIDE DEF T, l
    <3> QED BY <1>0
  <2> QED BY <2>2, <2>3
<1>6. Len(G[k + l]) = l /\ \A j \in 1 .. l : G[k + l][j] = c[j]
    BY <1>5
<1>7. G[k + l] \in Seq(S)
    BY <1>0, <1>1
<1> QED BY <1>0, <1>1, <1>6, <1>7, SeqEqual

\* flat is the sequences of ss one after another, the i-th after its first at[i] places.
Places(at, ss, flat) ==
    /\ at \in [1 .. Len(ss) -> Nat]
    /\ \A i \in 1 .. Len(ss) : \A j \in 1 .. Len(ss[i]) :
            at[i] + j \in 1 .. Len(flat) /\ flat[at[i] + j] = ss[i][j]
    /\ \A p \in 1 .. Len(flat) : \E i \in 1 .. Len(ss) : \E j \in 1 .. Len(ss[i]) : p = at[i] + j
    /\ \A i, k \in 1 .. Len(ss) : i < k => at[i] + Len(ss[i]) <= at[k]

LEMMA FlattenPlaces ==
  ASSUME NEW S, NEW ss \in Seq(Seq(S))
  PROVE  \E at \in [1 .. Len(ss) -> Nat] : Places(at, ss, FlattenSeq(ss))
<1> DEFINE n == Len(ss)
<1>1. n \in Nat /\ \A i \in 1 .. n : ss[i] \in Seq(S) /\ Len(ss[i]) \in Nat
    OBVIOUS
<1>2. PICK G \in [0 .. n -> Seq(S)] : Joined(G, ss) /\ FlattenSeq(ss) = G[n]
    BY Flatten
<1> DEFINE at == [i \in 1 .. n |-> Len(G[i - 1])]
           Put(k) ==
             /\ \A i \in 1 .. k : \A j \in 1 .. Len(ss[i]) :
                    at[i] + j \in 1 .. Len(G[k]) /\ G[k][at[i] + j] = ss[i][j]
             /\ \A p \in 1 .. Len(G[k]) : \E i \in 1 .. k : \E j \in 1 .. Len(ss[i]) : p = at[i] + j
             /\ \A i \in 1 .. k : at[i] + Len(ss[i]) <= Len(G[k])
           T == {k \in 0 .. n : Put(k)}
<1>3. at \in [1 .. n -> Nat]
  <2>1. ASSUME NEW i \in 1 .. n PROVE Len(G[i - 1]) \in Nat
    <3>1. i - 1 \in 0 .. n
        BY <1>1
    <3>2. G[i - 1] \in Seq(S)
        BY <1>2, <3>1
    <3> QED BY <3>2
  <2> QED BY <2>1
<1>4. 0 \in T
    BY <1>1, <1>2 DEF Joined
<1>5. ASSUME NEW k \in 0 .. n - 1, k \in T PROVE k + 1 \in T
  <2>1. k \in 0 .. n /\ k + 1 \in 1 .. n /\ k + 1 \in 0 .. n /\ (k + 1) - 1 = k
      BY <1>1
  <2>2. G[k + 1] = G[k] \o ss[k + 1] /\ at[k + 1] = Len(G[k])
      BY <1>2, <2>1 DEF Joined
  <2>3. G[k] \in Seq(S) /\ ss[k + 1] \in Seq(S)
      BY <1>1, <1>2, <2>1
  <2> HIDE DEF at
  <2>4. Put(k)
      BY <1>5
  <2> DEFINE g == G[k]
             x == ss[k + 1]
             h == G[k + 1]
  <2>5. g \in Seq(S) /\ x \in Seq(S) /\ h = g \o x
      BY <2>2, <2>3
  <2>6. /\ Len(h) = Len(g) + Len(x) /\ Len(g) \in Nat /\ Len(x) \in Nat
        /\ \A j \in 1 .. Len(g) : h[j] = g[j]
        /\ \A j \in 1 .. Len(x) : h[Len(g) + j] = x[j]
    <3> HIDE DEF g, x, h
    <3>1. Len(g) \in Nat /\ Len(x) \in Nat /\ Len(g \o x) = Len(g) + Len(x)
        BY <2>5
    <3>2. ASSUME NEW j \in 1 .. Len(g) PROVE (g \o x)[j] = g[j]
        BY <2>5
    <3>3. ASSUME NEW j \in 1 .. Len(x) PROVE (g \o x)[Len(g) + j] = x[j]
        BY <2>5
    <3> QED BY <2>5, <3>1, <3>2, <3>3
  <2>7. \A i \in 1 .. k + 1 : i \in 1 .. k \/ i = k + 1
      BY <2>1
  <2>8. ASSUME NEW i \in 1 .. k + 1, NEW j \in 1 .. Len(ss[i])
        PROVE  at[i] + j \in 1 .. Len(h) /\ h[at[i] + j] = ss[i][j]
    <3>1. CASE i \in 1 .. k
      <4>1. at[i] + j \in 1 .. Len(g) /\ g[at[i] + j] = ss[i][j]
          BY <2>4, <3>1
      <4> HIDE DEF g, x, h
      <4>2. at[i] + j \in 1 .. Len(h)
          BY <2>6, <4>1
      <4> QED BY <2>6, <4>1, <4>2
    <3>2. CASE i = k + 1
      <4>1. at[i] = Len(g) /\ ss[i] = x /\ j \in 1 .. Len(x)
          BY <2>2, <3>2
      <4> HIDE DEF g, x, h
      <4>2. Len(g) + j \in 1 .. Len(h)
          BY ONLY <2>6, <4>1
      <4>3. h[Len(g) + j] = x[j]
          BY ONLY <2>6, <4>1
      <4> QED BY ONLY <4>1, <4>2, <4>3
    <3> QED BY <2>7, <3>1, <3>2
  <2>9. ASSUME NEW p \in 1 .. Len(h)
        PROVE  \E i \in 1 .. k + 1 : \E j \in 1 .. Len(ss[i]) : p = at[i] + j
    <3>1. CASE p \in 1 .. Len(g)
      <4>1. PICK i \in 1 .. k : \E j \in 1 .. Len(ss[i]) : p = at[i] + j
          BY <2>4, <3>1
      <4>2. i \in 1 .. k + 1
          BY <2>1
      <4> HIDE DEF g, x, h
      <4> QED BY <4>1, <4>2
    <3>2. CASE p > Len(g)
      <4>1. p - Len(g) \in 1 .. Len(x) /\ p = Len(g) + (p - Len(g))
        <5> HIDE DEF g, x, h
        <5> QED BY <2>6, <3>2
      <4>2. p - Len(g) \in 1 .. Len(ss[k + 1]) /\ p = at[k + 1] + (p - Len(g)) /\ k + 1 \in 1 .. k + 1
          BY <2>1, <2>2, <4>1
      <4> HIDE DEF g, x, h
      <4> QED BY <4>2
    <3> HIDE DEF g, x, h
    <3> QED BY <2>6, <3>1, <3>2
  <2>10. ASSUME NEW i \in 1 .. k + 1 PROVE at[i] + Len(ss[i]) <= Len(h)
    <3>1. CASE i \in 1 .. k
      <4>1. at[i] + Len(ss[i]) <= Len(g) /\ i \in 1 .. n
          BY <1>1, <2>1, <2>4, <3>1
      <4>2. at[i] + Len(ss[i]) \in Nat
        <5> HIDE DEF n, g, x, h
        <5>1. at[i] \in Nat /\ Len(ss[i]) \in Nat
            BY <1>1, <1>3, <4>1
        <5> QED BY <5>1
      <4> HIDE DEF g, x, h
      <4> QED BY <2>6, <4>1, <4>2
    <3>2. CASE i = k + 1
      <4>1. at[i] = Len(g) /\ ss[i] = x
          BY <2>2, <3>2
      <4> HIDE DEF g, x, h
      <4> QED BY <2>6, <4>1
    <3> QED BY <2>7, <3>1, <3>2
  <2>11. Put(k + 1)
      BY <2>8, <2>9, <2>10
  <2> HIDE DEF Put
  <2> QED BY <2>1, <2>11
<1>6. 0 .. n \subseteq T
  <2> HIDE DEF T, n
  <2> QED BY <1>1, <1>4, <1>5, UpTo
<1>7. ASSUME NEW i \in 1 .. n, NEW k \in 1 .. n, i < k PROVE at[i] + Len(ss[i]) <= at[k]
  <2>1. k - 1 \in 0 .. n /\ i \in 1 .. k - 1
      BY <1>1, <1>7
  <2>2. Put(k - 1)
    <3> HIDE DEF Put
    <3> QED BY <1>6, <2>1
  <2>3. at[i] + Len(ss[i]) <= Len(G[k - 1])
    <3> HIDE DEF at
    <3> QED BY <2>1, <2>2
  <2> QED BY <2>3
<1>8. Put(n)
  <2>1. n \in 0 .. n
      BY <1>1
  <2> HIDE DEF Put, n
  <2> QED BY <1>6, <2>1
<1> HIDE DEF at
<1>9. Places(at, ss, G[n])
    BY <1>3, <1>7, <1>8 DEF Places
<1> QED BY <1>2, <1>3, <1>9

\* Of sequences after others.
LEMMA Associative ==
  ASSUME NEW S, NEW a, a \in Seq(S), NEW b, b \in Seq(S), NEW c, c \in Seq(S)
  PROVE  (a \o b) \o c = a \o (b \o c)
BY ConcatAssociative

\* The same of terms: the solver instantiates what it need not look into.
Over(S, s) == s \in Seq(S)
Associates(a, b, c) == (a \o b) \o c = a \o (b \o c)

LEMMA TermsAssociate ==
  ASSUME NEW S, NEW a, Over(S, a), NEW b, Over(S, b), NEW c, Over(S, c)
  PROVE  Associates(a, b, c)
BY ConcatAssociative DEF Over, Associates

LEMMA FlattenConcat ==
  ASSUME NEW S, NEW ss, ss \in Seq(Seq(S)), NEW tt, tt \in Seq(Seq(S))
  PROVE  FlattenSeq(ss \o tt) = FlattenSeq(ss) \o FlattenSeq(tt)
<1> DEFINE uu == ss \o tt
           m  == Len(ss)
           n  == Len(tt)
<1>1. /\ uu \in Seq(Seq(S)) /\ Len(uu) = m + n /\ m \in Nat /\ n \in Nat
      /\ \A i \in 1 .. m : ss[i] = uu[i]
      /\ \A j \in 1 .. n : uu[m + j] = tt[j]
  <2>1. m \in Nat /\ n \in Nat /\ uu \in Seq(Seq(S)) /\ Len(uu) = m + n
      BY ConcatProperties
  <2>2. ASSUME NEW i \in 1 .. m PROVE ss[i] = uu[i]
      OBVIOUS
  <2>3. ASSUME NEW j \in 1 .. n PROVE uu[m + j] = tt[j]
      OBVIOUS
  <2> QED BY <2>1, <2>2, <2>3
<1> HIDE DEF uu
<1>2. PICK G : G \in [0 .. m -> Seq(S)] /\ Joined(G, ss) /\ FlattenSeq(ss) = G[m]
    BY Flatten
<1>3. PICK H : H \in [0 .. n -> Seq(S)] /\ Joined(H, tt) /\ FlattenSeq(tt) = H[n]
    BY Flatten
<1>4. PICK K : K \in [0 .. Len(uu) -> Seq(S)] /\ Joined(K, uu) /\ FlattenSeq(uu) = K[Len(uu)]
    BY <1>1, Flatten
<1>5. G[m] = K[m]
  <2>1. SameUpTo(m, ss, uu)
      BY <1>1 DEF SameUpTo
  <2> HIDE DEF m
  <2>2. Joined(G, ss)
      BY <1>2
  <2>3. Joined(K, uu)
      BY <1>4
  <2> QED BY ONLY <2>1, <2>2, <2>3, Agree
<1> DEFINE T == {j \in 0 .. n : K[m + j] = G[m] \o H[j]}
<1>6. 0 \in T
  <2>1. H[0] = <<>> /\ m + 0 = m /\ m \in 0 .. m /\ 0 \in 0 .. n
      BY <1>1, <1>3 DEF Joined
  <2>2. G[m] \in Seq(S)
      BY <1>2, <2>1
  <2>3. G[m] \o <<>> = G[m]
      BY <2>2
  <2> HIDE DEF m, n
  <2> QED BY <1>5, <2>1, <2>3
<1>7. ASSUME NEW j \in 0 .. n - 1, j \in T PROVE j + 1 \in T
  <2>1. /\ j \in 0 .. n /\ j + 1 \in 1 .. n /\ j + 1 \in 0 .. n /\ (j + 1) - 1 = j
        /\ m + (j + 1) \in 1 .. Len(uu) /\ (m + (j + 1)) - 1 = m + j /\ m \in 0 .. m
    <3>1. m \in Nat /\ n \in Nat /\ Len(uu) = m + n
        BY <1>1
    <3> HIDE DEF m, n, T
    <3> QED BY <3>1
  <2>2. H[j + 1] = H[j] \o tt[j + 1]
      BY <1>3, <2>1 DEF Joined
  <2>3. K[m + (j + 1)] = K[m + j] \o uu[m + (j + 1)]
      BY <1>4, <2>1 DEF Joined
  <2>4. uu[m + (j + 1)] = tt[j + 1] /\ tt[j + 1] \in Seq(S)
      BY <1>1, <2>1
  <2>5. G[m] \in Seq(S) /\ H[j] \in Seq(S)
      BY <1>2, <1>3, <2>1
  <2>6. K[m + j] = G[m] \o H[j]
      BY <1>7
  <2>7. (G[m] \o H[j]) \o tt[j + 1] = G[m] \o (H[j] \o tt[j + 1])
    <3>1. Over(S, G[m]) /\ Over(S, H[j]) /\ Over(S, tt[j + 1])
        BY <2>4, <2>5 DEF Over
    <3>2. Associates(G[m], H[j], tt[j + 1])
        BY <3>1, TermsAssociate
    <3> QED BY <3>2 DEF Associates
  <2>8. K[m + (j + 1)] = G[m] \o H[j + 1]
    <3> HIDE DEF m, n, T
    <3> QED BY <2>2, <2>3, <2>4, <2>6, <2>7
  <2> HIDE DEF m, n
  <2> QED BY <2>1, <2>8
<1>8. 0 .. n \subseteq T
  <2> HIDE DEF T, n
  <2> QED BY <1>1, <1>6, <1>7, UpTo
<1>9. K[m + n] = G[m] \o H[n]
  <2>1. n \in 0 .. n
      BY <1>1
  <2> HIDE DEF n, m
  <2> QED BY <1>8, <2>1
<1> HIDE DEF m, n, T
<1> QED BY <1>1, <1>2, <1>3, <1>4, <1>9 DEF uu

-----------------------------------------------------------------------------
(* What a message adds to a request.                                       *)

AdapterOK == adapter \in {"openai", "anthropic", "gemini", "qwen"}

\* A message of the transcript: only an answer has calls.
Message(m) == m \in MessageType /\ (m.role # "assistant" => m.calls = <<>>)

\* The thought of an answer that goes back to Anthropic, the items that go back to OpenAI.
ThoughtBack(m) == adapter = "anthropic" /\ m.role = "assistant" /\ m.thought # 0 /\ m.signed # 0
ItemsBack(m)   == adapter = "openai" /\ m.role = "assistant" /\ m.reasoning # 0

\* Its parts, around its calls.
Before(m) ==
    CASE m.role = "assistant" /\ adapter = "openai" ->
            IF m.reasoning # 0 THEN <<Thought("reasoning", m.reasoning, 0)>> ELSE <<>>
      [] m.role = "assistant" /\ adapter = "anthropic" ->
            (IF m.thought # 0 /\ m.signed # 0 THEN <<Thought("thinking", m.thought, m.signed)>> ELSE <<>>)
            \o Texts(m)
      [] m.role = "assistant" /\ adapter = "gemini" ->
            IF m.calls = <<>> /\ ~m.text THEN <<Part("text")>> ELSE Texts(m)
      [] m.role = "assistant" /\ adapter = "qwen" -> Texts(m)
      [] m.role = "tool" -> IF adapter = "gemini" THEN Images(m) ELSE <<>>
      [] m.role = "user" -> IF adapter = "gemini" /\ ~m.text /\ ~m.image THEN <<Part("text")>>
                            ELSE Texts(m) \o Images(m)

After(m) == CASE m.role = "tool" -> <<OutPart(m)>>
              [] m.role = "user" -> <<>>
              [] m.role = "assistant" -> IF adapter = "openai" THEN Texts(m) ELSE <<>>

Content(m) == (Before(m) \o CallParts(m)) \o After(m)

LEMMA PartTypes ==
  ASSUME NEW m, m \in MessageType
  PROVE  /\ Texts(m) \in Seq(PartType) /\ Images(m) \in Seq(PartType)
         /\ CallParts(m) \in Seq(PartType) /\ Len(CallParts(m)) = Len(m.calls)
         /\ Len(m.calls) \in Nat /\ DOMAIN m.calls = 1 .. Len(m.calls)
         /\ \A k \in 1 .. Len(m.calls) : CallParts(m)[k] = CallPart(m.calls[k])
         /\ OutPart(m) \in PartType
         /\ Part("text") \in PartType
         /\ Thought("thinking", m.thought, m.signed) \in PartType
         /\ Thought("reasoning", m.reasoning, 0) \in PartType
<1>1. MaxAnswers \in Nat /\ MaxCalls \in Nat
    BY ProviderAssumption
<1>2. \A is \in {"text", "image", "thinking", "reasoning", "call", "output"} : Part(is) \in PartType
    BY <1>1 DEF Part, PartType, NoId
<1>3. /\ m.thought \in 0 .. MaxAnswers /\ m.reasoning \in 0 .. MaxAnswers /\ m.signed \in Nat
      /\ m.calls \in Seq(CallType) /\ m.of \in Ids \cup {NoId}
      /\ m.result \in {"none", "first", "second", "interrupted"}
    BY DEF MessageType
<1>4. \A n \in 0 .. MaxAnswers, b \in Nat : <<n, b>> \in (0 .. MaxAnswers) \X Nat
    OBVIOUS
<1>5. Thought("thinking", m.thought, m.signed) \in PartType /\ Thought("reasoning", m.reasoning, 0) \in PartType
    BY <1>3, <1>4 DEF Thought, Part, PartType
<1>6. \A id \in Ids \cup {NoId} : id \in (0 .. MaxAnswers) \X Nat
    BY <1>1 DEF Ids, NoId
<1>7. OutPart(m) \in PartType
    BY <1>3, <1>6 DEF OutPart, Part, PartType
<1>8. /\ Len(m.calls) \in Nat /\ DOMAIN m.calls = 1 .. Len(m.calls)
      /\ \A k \in 1 .. Len(m.calls) : m.calls[k] \in CallType
    BY <1>3
<1>9. \A c \in CallType : CallPart(c) \in PartType
    BY <1>6 DEF CallType, CallPart, Part, PartType
<1>10. CallParts(m) \in [1 .. Len(m.calls) -> PartType]
    BY <1>8, <1>9 DEF CallParts
<1>11. CallParts(m) \in Seq(PartType) /\ Len(CallParts(m)) = Len(m.calls)
    BY <1>8, <1>10, Listed
<1>12. Texts(m) \in Seq(PartType) /\ Images(m) \in Seq(PartType)
    BY <1>2 DEF Texts, Images
<1>13. \A k \in 1 .. Len(m.calls) : CallParts(m)[k] = CallPart(m.calls[k])
    BY <1>8 DEF CallParts
<1> QED BY <1>2, <1>5, <1>7, <1>8, <1>11, <1>12, <1>13

\* Nothing of another kind is around the calls; a thought comes first.
Ahead(m, b) ==
    /\ b \in Seq(PartType)
    /\ \A j \in 1 .. Len(b) :
            /\ b[j].is \in {"text", "image", "thinking", "reasoning"}
            /\ b[j].is = "thinking" => j = 1 /\ ThoughtBack(m)
            /\ b[j].is = "reasoning" => j = 1 /\ ItemsBack(m)
    /\ ThoughtBack(m) => 1 \in 1 .. Len(b) /\ b[1] = Thought("thinking", m.thought, m.signed)
    /\ ItemsBack(m) => 1 \in 1 .. Len(b) /\ b[1] = Thought("reasoning", m.reasoning, 0)

Behind(m, a) ==
    /\ a \in Seq(PartType)
    /\ IF m.role = "tool" THEN a = <<OutPart(m)>> ELSE \A j \in 1 .. Len(a) : a[j].is = "text"

LEMMA Around == ASSUME AdapterOK, NEW m, Message(m) PROVE Ahead(m, Before(m)) /\ Behind(m, After(m))
<1>0. m \in MessageType /\ m.role \in {"user", "assistant", "tool"}
    BY DEF Message, MessageType
<1> DEFINE x == Thought("thinking", m.thought, m.signed)
           y == Thought("reasoning", m.reasoning, 0)
           t == Part("text")
           i == Part("image")
<1>1. /\ x.is = "thinking" /\ y.is = "reasoning" /\ t.is = "text" /\ i.is = "image"
      /\ x \in PartType /\ y \in PartType /\ t \in PartType /\ i \in PartType
    BY <1>0, PartTypes, ProviderAssumption DEF Thought, Part, PartType, NoId
<1>2. OutPart(m) \in PartType
    BY <1>0, PartTypes
<1>3. Texts(m) = (IF m.text THEN <<t>> ELSE <<>>) /\ Images(m) = (IF m.image THEN <<i>> ELSE <<>>)
    BY DEF Texts, Images
<1>4. \A z : Len(<<z>>) = 1 /\ 1 .. Len(<<z>>) = {1} /\ <<z>>[1] = z
    OBVIOUS
<1>5. \A z, w : Len(<<z, w>>) = 2 /\ 1 .. Len(<<z, w>>) = {1, 2} /\ <<z, w>>[1] = z /\ <<z, w>>[2] = w
    OBVIOUS
<1>6. \A z, w \in PartType : <<z>> \in Seq(PartType) /\ <<z, w>> \in Seq(PartType)
    OBVIOUS
<1>7. <<>> \in Seq(PartType) /\ 1 .. Len(<<>>) = {}
    OBVIOUS
<1>8. ASSUME ~ThoughtBack(m), ~ItemsBack(m)
      PROVE  Ahead(m, <<>>) /\ Ahead(m, <<t>>) /\ Ahead(m, <<i>>) /\ Ahead(m, <<t, i>>)
  <2>1. Ahead(m, <<>>)
      BY <1>7, <1>8 DEF Ahead
  <2>2. \A z \in {t, i} : Ahead(m, <<z>>)
    <3> HIDE DEF x, y, t, i
    <3> QED BY <1>1, <1>4, <1>6, <1>8 DEF Ahead
  <2>3. Ahead(m, <<t, i>>)
    <3> HIDE DEF x, y, t, i
    <3> QED BY <1>1, <1>5, <1>6, <1>8 DEF Ahead
  <2> QED BY <2>1, <2>2, <2>3
<1>9. ASSUME ThoughtBack(m), ~ItemsBack(m) PROVE Ahead(m, <<x>>) /\ Ahead(m, <<x, t>>)
  <2>1. ThoughtBack(m) => x = Thought("thinking", m.thought, m.signed)
      OBVIOUS
  <2> HIDE DEF x, y, t, i
  <2>2. Ahead(m, <<x>>)
      BY <1>1, <1>4, <1>6, <1>9, <2>1 DEF Ahead
  <2>3. Ahead(m, <<x, t>>)
      BY <1>1, <1>5, <1>6, <1>9, <2>1 DEF Ahead
  <2> QED BY <2>2, <2>3
<1>10. ASSUME ~ThoughtBack(m), ItemsBack(m) PROVE Ahead(m, <<y>>)
  <2>1. y = Thought("reasoning", m.reasoning, 0)
      OBVIOUS
  <2> HIDE DEF x, y, t, i
  <2> QED BY <1>1, <1>4, <1>6, <1>10, <2>1 DEF Ahead
<1>11. /\ m.role = "tool" => Behind(m, <<OutPart(m)>>)
       /\ m.role # "tool" => Behind(m, <<>>) /\ Behind(m, <<t>>)
  <2> HIDE DEF x, y, t, i
  <2> QED BY <1>1, <1>2, <1>4, <1>6, <1>7 DEF Behind
<1>12. \A z, w : <<z>> \o <<w>> = <<z, w>> /\ <<z>> \o <<>> = <<z>> /\ <<>> \o <<z>> = <<z>> /\ <<>> \o <<>> = <<>>
  <2>1. ASSUME NEW z, NEW w PROVE <<z>> \o <<w>> = <<z, w>>
    <3>1. <<z>> \in Seq({z, w}) /\ <<w>> \in Seq({z, w}) /\ <<z, w>> \in Seq({z, w})
        OBVIOUS
    <3>2. <<z>> \o <<w>> \in Seq({z, w}) /\ Len(<<z>> \o <<w>>) = 2
        BY <3>1
    <3>3. (<<z>> \o <<w>>)[1] = z /\ (<<z>> \o <<w>>)[2] = w
        BY <3>1
    <3> DEFINE u == <<z>> \o <<w>>
               v == <<z, w>>
    <3>4. u \in Seq({z, w})
        BY <3>2
    <3>5. v \in Seq({z, w})
        BY <3>1
    <3>6. Len(u) = Len(v)
        BY <3>2
    <3>7. \A k \in 1 .. Len(u) : u[k] = v[k]
        BY <3>2, <3>3
    <3>8. u = v
      <4> HIDE DEF u, v
      <4> QED BY <3>4, <3>5, <3>6, <3>7, SeqEqual
    <3> QED BY <3>8
  <2>2. \A z : <<z>> \o <<>> = <<z>>
      OBVIOUS
  <2>3. \A z : <<>> \o <<z>> = <<z>>
      OBVIOUS
  <2>4. <<>> \o <<>> = <<>>
      OBVIOUS
  <2> QED BY <2>1, <2>2, <2>3, <2>4
<1>13. CASE m.role = "user"
  <2>1. After(m) = <<>> /\ ~ThoughtBack(m) /\ ~ItemsBack(m)
      BY <1>13 DEF After, ThoughtBack, ItemsBack
  <2>2. Before(m) = IF adapter = "gemini" /\ ~m.text /\ ~m.image THEN <<t>> ELSE Texts(m) \o Images(m)
      BY <1>13 DEF Before
  <2>3. Before(m) \in {<<t>>, <<t, i>>, <<i>>, <<>>}
    <3> HIDE DEF t, i
    <3> QED BY <1>3, <1>12, <2>2
  <2> HIDE DEF t, i, x, y
  <2> QED BY <1>8, <1>11, <1>13, <2>1, <2>3
<1>14. CASE m.role = "tool"
  <2>1. After(m) = <<OutPart(m)>> /\ ~ThoughtBack(m) /\ ~ItemsBack(m)
      BY <1>14 DEF After, ThoughtBack, ItemsBack
  <2>2. Before(m) \in {<<i>>, <<>>}
      BY <1>3, <1>14 DEF Before
  <2> HIDE DEF t, i, x, y
  <2> QED BY <1>8, <1>11, <1>14, <2>1, <2>2
<1>15. CASE m.role = "assistant"
  <2>1. After(m) \in {<<t>>, <<>>}
      BY <1>3, <1>15 DEF After
  <2>2. Behind(m, After(m))
    <3> HIDE DEF t, i, x, y
    <3> QED BY <1>11, <1>15, <2>1
  <2>3. CASE adapter = "openai"
    <3>1. Before(m) = IF m.reasoning # 0 THEN <<y>> ELSE <<>>
        BY <1>15, <2>3 DEF Before
    <3>2. ~ThoughtBack(m) /\ (ItemsBack(m) <=> m.reasoning # 0)
        BY <1>15, <2>3 DEF ThoughtBack, ItemsBack
    <3> HIDE DEF t, i, x, y
    <3> QED BY <1>8, <1>10, <2>2, <3>1, <3>2
  <2>4. CASE adapter = "anthropic"
    <3>1. Before(m) = (IF m.thought # 0 /\ m.signed # 0 THEN <<x>> ELSE <<>>) \o Texts(m)
        BY <1>15, <2>4 DEF Before
    <3>2. (ThoughtBack(m) <=> (m.thought # 0 /\ m.signed # 0)) /\ ~ItemsBack(m)
        BY <1>15, <2>4 DEF ThoughtBack, ItemsBack
    <3> HIDE DEF t, i, x, y
    <3>3. IF ThoughtBack(m) THEN Before(m) \in {<<x>>, <<x, t>>} ELSE Before(m) \in {<<t>>, <<>>}
        BY <1>3, <1>12, <3>1, <3>2
    <3> QED BY <1>8, <1>9, <2>2, <3>2, <3>3
  <2>5. CASE adapter \in {"gemini", "qwen"}
    <3>1. ~ThoughtBack(m) /\ ~ItemsBack(m)
        BY <2>5 DEF ThoughtBack, ItemsBack
    <3>2. Before(m) \in {<<t>>, <<>>}
        BY <1>3, <1>15, <2>5 DEF Before
    <3> HIDE DEF t, i, x, y
    <3> QED BY <1>8, <2>2, <3>1, <3>2
  <2> QED BY <2>3, <2>4, <2>5 DEF AdapterOK
<1> QED BY <1>0, <1>13, <1>14, <1>15

\* d is a, b and c, one after another.
InThree(S, a, b, c, d) ==
    /\ d \in Seq(S) /\ Len(a) \in Nat /\ Len(b) \in Nat /\ Len(c) \in Nat
    /\ Len(d) = Len(a) + Len(b) + Len(c)
    /\ \A j \in 1 .. Len(a) : d[j] = a[j]
    /\ \A j \in 1 .. Len(b) : d[Len(a) + j] = b[j]
    /\ \A j \in 1 .. Len(c) : d[Len(a) + Len(b) + j] = c[j]

LEMMA Three ==
  ASSUME NEW S, NEW a, NEW b, NEW c, a \in Seq(S), b \in Seq(S), c \in Seq(S), NEW d, d = (a \o b) \o c
  PROVE  InThree(S, a, b, c, d)
<1> DEFINE e == a \o b
<1>1. /\ e \in Seq(S) /\ Len(a) \in Nat /\ Len(b) \in Nat /\ Len(e) = Len(a) + Len(b) /\ Len(c) \in Nat
      /\ \A j \in 1 .. Len(a) : e[j] = a[j]
      /\ \A j \in 1 .. Len(b) : e[Len(a) + j] = b[j]
  <2>1. e \in Seq(S) /\ Len(a) \in Nat /\ Len(b) \in Nat /\ Len(c) \in Nat /\ Len(e) = Len(a) + Len(b)
      BY ConcatProperties
  <2>2. ASSUME NEW j \in 1 .. Len(a) PROVE e[j] = a[j]
      OBVIOUS
  <2>3. ASSUME NEW j \in 1 .. Len(b) PROVE e[Len(a) + j] = b[j]
      OBVIOUS
  <2> QED BY <2>1, <2>2, <2>3
<1>2. d = e \o c
    OBVIOUS
<1> HIDE DEF e
<1>3. /\ d \in Seq(S) /\ Len(d) = Len(e) + Len(c)
      /\ \A j \in 1 .. Len(e) : d[j] = e[j]
      /\ \A j \in 1 .. Len(c) : d[Len(e) + j] = c[j]
  <2>1. d \in Seq(S) /\ Len(d) = Len(e) + Len(c)
      BY <1>1, <1>2, ConcatProperties
  <2>2. ASSUME NEW j \in 1 .. Len(e) PROVE d[j] = e[j]
      BY <1>1, <1>2
  <2>3. ASSUME NEW j \in 1 .. Len(c) PROVE d[Len(e) + j] = c[j]
      BY <1>1, <1>2
  <2> QED BY <2>1, <2>2, <2>3
<1>4. \A j \in 1 .. Len(b) : Len(a) + j \in 1 .. Len(e)
    BY <1>1
<1>5. \A j \in 1 .. Len(a) : j \in 1 .. Len(e)
    BY <1>1
<1>6. /\ \A j \in 1 .. Len(a) : d[j] = a[j]
      /\ \A j \in 1 .. Len(b) : d[Len(a) + j] = b[j]
    BY <1>1, <1>3, <1>4, <1>5
<1>7. \A j \in 1 .. Len(c) : d[Len(a) + Len(b) + j] = c[j]
    BY <1>1, <1>3
<1> QED BY <1>1, <1>3, <1>6, <1>7 DEF InThree

\* What a message's parts are: its calls in order, after a others; its result; its thought.
CallsAt(m, c, a) ==
    /\ a \in Nat /\ a + Len(m.calls) <= Len(c)
    /\ \A k \in 1 .. Len(m.calls) : c[a + k] = CallPart(m.calls[k])
    /\ \A j \in 1 .. Len(c) : c[j].is = "call" => j - a \in 1 .. Len(m.calls)

ResultAt(m, c) ==
    IF m.role = "tool"
    THEN \E o \in 1 .. Len(c) : c[o] = OutPart(m) /\ \A j \in 1 .. Len(c) : c[j].is = "output" => j = o
    ELSE \A j \in 1 .. Len(c) : c[j].is # "output"

ThoughtFirst(m, c) ==
    /\ \A j \in 1 .. Len(c) : /\ c[j].is = "thinking" => j = 1 /\ ThoughtBack(m)
                              /\ c[j].is = "reasoning" => j = 1 /\ ItemsBack(m)
    /\ ThoughtBack(m) => 1 \in 1 .. Len(c) /\ c[1] = Thought("thinking", m.thought, m.signed)
    /\ ItemsBack(m) => 1 \in 1 .. Len(c) /\ c[1] = Thought("reasoning", m.reasoning, 0)

Carries(m, c) == (\E a \in Nat : CallsAt(m, c, a)) /\ ResultAt(m, c) /\ ThoughtFirst(m, c)

LEMMA Carried ==
  ASSUME AdapterOK, NEW m, Message(m)
  PROVE  Content(m) \in Seq(PartType) /\ Carries(m, Content(m))
<1> DEFINE a == Before(m)
           b == CallParts(m)
           e == After(m)
           c == Content(m)
<1>1. Ahead(m, a) /\ Behind(m, e)
    BY Around
<1>2. m \in MessageType
    BY DEF Message
<1>3. /\ b \in Seq(PartType) /\ Len(b) = Len(m.calls) /\ Len(m.calls) \in Nat
      /\ \A k \in 1 .. Len(m.calls) : b[k] = CallPart(m.calls[k])
    BY <1>2, PartTypes
<1>4. a \in Seq(PartType) /\ e \in Seq(PartType) /\ c = (a \o b) \o e
    BY <1>1 DEF Ahead, Behind, Content
<1> HIDE DEF a, b, e, c
<1>5. /\ c \in Seq(PartType) /\ Len(a) \in Nat /\ Len(b) \in Nat /\ Len(e) \in Nat
      /\ Len(c) = Len(a) + Len(b) + Len(e)
      /\ \A j \in 1 .. Len(a) : c[j] = a[j]
      /\ \A j \in 1 .. Len(b) : c[Len(a) + j] = b[j]
      /\ \A j \in 1 .. Len(e) : c[Len(a) + Len(b) + j] = e[j]
  <2>1. a \in Seq(PartType)
      BY <1>4
  <2>2. b \in Seq(PartType)
      BY <1>3
  <2>3. e \in Seq(PartType)
      BY <1>4
  <2>4. c = (a \o b) \o e
      BY <1>4
  <2>5. InThree(PartType, a, b, e, c)
      BY ONLY <2>1, <2>2, <2>3, <2>4, Three
  <2> QED BY ONLY <2>5 DEF InThree
<1>6. ASSUME NEW j \in 1 .. Len(c)
      PROVE  \/ j \in 1 .. Len(a)
             \/ j - Len(a) \in 1 .. Len(b) /\ c[j] = b[j - Len(a)]
             \/ j - Len(a) - Len(b) \in 1 .. Len(e) /\ c[j] = e[j - Len(a) - Len(b)]
  <2>1. CASE j > Len(a) /\ j <= Len(a) + Len(b)
    <3>1. j - Len(a) \in 1 .. Len(b) /\ Len(a) + (j - Len(a)) = j
        BY <1>5, <2>1
    <3> QED BY <1>5, <3>1
  <2>2. CASE j > Len(a) + Len(b)
    <3>1. j - Len(a) - Len(b) \in 1 .. Len(e) /\ Len(a) + Len(b) + (j - Len(a) - Len(b)) = j
        BY <1>5, <2>2
    <3> QED BY <1>5, <3>1
  <2> QED BY <1>5, <2>1, <2>2
<1>7. \A k \in 1 .. Len(m.calls) : CallPart(m.calls[k]).is = "call"
    BY DEF CallPart, Part
<1>8. OutPart(m).is = "output"
    BY DEF OutPart, Part
<1>9. \A j \in 1 .. Len(b) : b[j].is = "call"
    BY <1>3, <1>7
<1>10. \A j \in 1 .. Len(e) : e[j].is \in {"text", "output"} /\ (m.role # "tool" => e[j].is = "text")
  <2>1. CASE m.role = "tool"
    <3>1. e = <<OutPart(m)>>
        BY <1>1, <2>1 DEF Behind
    <3> QED BY <1>8, <2>1, <3>1
  <2>2. CASE m.role # "tool"
      BY <1>1, <2>2 DEF Behind
  <2> QED BY <2>1, <2>2
<1>11. \A j \in 1 .. Len(a) : a[j].is \in {"text", "image", "thinking", "reasoning"}
    BY <1>1 DEF Ahead
<1>12. CallsAt(m, c, Len(a))
  <2>1. ASSUME NEW j \in 1 .. Len(c), c[j].is = "call" PROVE j - Len(a) \in 1 .. Len(m.calls)
      BY <1>3, <1>5, <1>6, <1>10, <1>11, <2>1
  <2>2. \A k \in 1 .. Len(m.calls) : c[Len(a) + k] = CallPart(m.calls[k])
      BY <1>3, <1>5
  <2> QED BY <1>3, <1>5, <2>1, <2>2 DEF CallsAt
<1>13. ResultAt(m, c)
  <2>1. CASE m.role = "tool"
    <3>1. e = <<OutPart(m)>>
        BY <1>1, <2>1 DEF Behind
    <3>2. Len(e) = 1 /\ e[1] = OutPart(m)
        BY <3>1
    <3> DEFINE o == Len(a) + Len(b) + 1
    <3>3. o \in 1 .. Len(c) /\ c[o] = OutPart(m)
        BY <1>5, <3>2
    <3>4. ASSUME NEW j \in 1 .. Len(c), c[j].is = "output" PROVE j = o
      <4>1. j - Len(a) - Len(b) \in 1 .. Len(e)
          BY <1>5, <1>6, <1>9, <1>11, <3>4
      <4> QED BY <1>5, <3>2, <4>1
    <3> HIDE DEF o
    <3> QED BY <2>1, <3>3, <3>4 DEF ResultAt
  <2>2. CASE m.role # "tool"
    <3>1. ASSUME NEW j \in 1 .. Len(c) PROVE c[j].is # "output"
        BY <1>5, <1>6, <1>9, <1>10, <1>11, <2>2
    <3> QED BY <2>2, <3>1 DEF ResultAt
  <2> QED BY <2>1, <2>2
<1>14. ThoughtFirst(m, c)
  <2>1. ASSUME NEW j \in 1 .. Len(c), c[j].is \in {"thinking", "reasoning"} PROVE j \in 1 .. Len(a) /\ c[j] = a[j]
      BY <1>5, <1>6, <1>9, <1>10, <2>1
  <2>2. ASSUME NEW j \in 1 .. Len(c)
        PROVE  /\ c[j].is = "thinking" => j = 1 /\ ThoughtBack(m)
               /\ c[j].is = "reasoning" => j = 1 /\ ItemsBack(m)
      BY <1>1, <2>1 DEF Ahead
  <2>3. 1 \in 1 .. Len(a) => 1 \in 1 .. Len(c) /\ c[1] = a[1]
      BY <1>5
  <2> QED BY <1>1, <2>2, <2>3 DEF Ahead, ThoughtFirst
<1> QED BY <1>5, <1>12, <1>13, <1>14 DEF Carries, c

-----------------------------------------------------------------------------
(* A request says what its messages add, in order.                         *)

\* The parts of each turn, and of all.
Lists(w) == [i \in DOMAIN w |-> w[i].parts]
Said(w)  == FlattenSeq(Lists(w))

LEMMA ListsType ==
  ASSUME NEW w, w \in Seq(TurnType)
  PROVE  /\ Lists(w) \in Seq(Seq(PartType)) /\ Len(Lists(w)) = Len(w) /\ Len(w) \in Nat
         /\ \A i \in 1 .. Len(w) : Lists(w)[i] = w[i].parts
<1>1. Len(w) \in Nat /\ DOMAIN w = 1 .. Len(w) /\ \A i \in 1 .. Len(w) : w[i] \in TurnType
    OBVIOUS
<1>2. \A i \in 1 .. Len(w) : w[i].parts \in Seq(PartType)
    BY <1>1 DEF TurnType
<1>3. Lists(w) \in [1 .. Len(w) -> Seq(PartType)] /\ \A i \in 1 .. Len(w) : Lists(w)[i] = w[i].parts
    BY <1>1, <1>2 DEF Lists
<1>4. Lists(w) \in Seq(Seq(PartType)) /\ Len(Lists(w)) = Len(w)
    BY <1>1, <1>3, Listed
<1> QED BY <1>1, <1>3, <1>4

\* Sequences are equal by their elements.
LEMMA SameSeq ==
  ASSUME NEW S, NEW s, NEW t, s \in Seq(S), t \in Seq(S), Len(s) = Len(t),
         \A i \in 1 .. Len(s) : s[i] = t[i]
  PROVE  s = t
BY SeqEqual

LEMMA SaidConcat ==
  ASSUME NEW w, NEW v, w \in Seq(TurnType), v \in Seq(TurnType)
  PROVE  w \o v \in Seq(TurnType) /\ Said(w \o v) = Said(w) \o Said(v)
<1> DEFINE u == w \o v
           l == Lists(w)
           m == Lists(v)
           n == Lists(u)
<1>1. /\ u \in Seq(TurnType) /\ Len(u) = Len(w) + Len(v) /\ Len(w) \in Nat /\ Len(v) \in Nat
      /\ \A i \in 1 .. Len(w) : u[i] = w[i]
      /\ \A i \in 1 .. Len(v) : u[Len(w) + i] = v[i]
  <2>1. u \in Seq(TurnType) /\ Len(u) = Len(w) + Len(v) /\ Len(w) \in Nat /\ Len(v) \in Nat
      BY ConcatProperties
  <2>2. ASSUME NEW i \in 1 .. Len(w) PROVE u[i] = w[i]
      OBVIOUS
  <2>3. ASSUME NEW i \in 1 .. Len(v) PROVE u[Len(w) + i] = v[i]
      OBVIOUS
  <2> QED BY <2>1, <2>2, <2>3
<1> HIDE DEF u
<1>2. l \in Seq(Seq(PartType)) /\ Len(l) = Len(w) /\ \A i \in 1 .. Len(w) : l[i] = w[i].parts
    BY ListsType
<1>3. m \in Seq(Seq(PartType)) /\ Len(m) = Len(v) /\ \A i \in 1 .. Len(v) : m[i] = v[i].parts
    BY ListsType
<1>4. n \in Seq(Seq(PartType)) /\ Len(n) = Len(u) /\ \A i \in 1 .. Len(u) : n[i] = u[i].parts
    BY <1>1, ListsType
<1> HIDE DEF l, m, n
<1>5. l \o m \in Seq(Seq(PartType)) /\ Len(l \o m) = Len(n)
  <2>1. l \in Seq(Seq(PartType)) /\ m \in Seq(Seq(PartType))
      BY <1>2, <1>3
  <2>2. l \o m \in Seq(Seq(PartType)) /\ Len(l \o m) = Len(l) + Len(m)
      BY ONLY <2>1
  <2> QED BY <1>1, <1>2, <1>3, <1>4, <2>2
<1>6. ASSUME NEW i \in 1 .. Len(n) PROVE n[i] = (l \o m)[i]
  <2>1. CASE i \in 1 .. Len(w)
    <3>1. n[i] = w[i].parts /\ l[i] = w[i].parts
        BY <1>1, <1>2, <1>4, <2>1
    <3>2. (l \o m)[i] = l[i]
        BY <1>2, <1>3, <2>1
    <3> QED BY <3>1, <3>2
  <2>2. CASE i > Len(w)
    <3> DEFINE j == i - Len(w)
    <3>1. j \in 1 .. Len(v) /\ i = Len(w) + j
        BY <1>1, <1>4, <2>2
    <3> HIDE DEF j
    <3>2. n[i] = v[j].parts /\ m[j] = v[j].parts
        BY <1>1, <1>3, <1>4, <3>1
    <3>3. (l \o m)[i] = m[j]
        BY <1>2, <1>3, <3>1
    <3> QED BY <3>2, <3>3
  <2>3. i \in 1 .. Len(w) \/ i > Len(w)
    <3>1. Len(n) = Len(w) + Len(v) /\ Len(w) \in Nat /\ Len(v) \in Nat
        BY <1>1, <1>4
    <3> QED BY <3>1
  <2> QED BY <2>1, <2>2, <2>3
<1>7. n = l \o m
    BY <1>4, <1>5, <1>6, SameSeq
<1>8. FlattenSeq(l \o m) = FlattenSeq(l) \o FlattenSeq(m)
    BY <1>2, <1>3, FlattenConcat
<1> QED BY <1>1, <1>7, <1>8 DEF Said, l, m, n, u

\* Of one turn, its parts.
LEMMA SaidTurn ==
  ASSUME NEW t, t \in TurnType
  PROVE  <<t>> \in Seq(TurnType) /\ Said(<<t>>) = t.parts
<1>1. <<t>> \in Seq(TurnType) /\ Len(<<t>>) = 1 /\ <<t>>[1] = t
    OBVIOUS
<1> DEFINE l == Lists(<<t>>)
<1>2. l \in Seq(Seq(PartType)) /\ Len(l) = 1 /\ l[1] = t.parts
  <2> DEFINE w == <<t>>
  <2>1. w \in Seq(TurnType) /\ Len(w) = 1 /\ w[1] = t /\ 1 \in 1 .. 1
      BY <1>1
  <2>2. Lists(w) \in Seq(Seq(PartType)) /\ Len(Lists(w)) = 1 /\ Lists(w)[1] = t.parts
    <3> HIDE DEF w
    <3> QED BY <2>1, ListsType
  <2> QED BY <2>2
<1> HIDE DEF l
<1>3. PICK G : G \in [0 .. Len(l) -> Seq(PartType)] /\ Joined(G, l) /\ FlattenSeq(l) = G[Len(l)]
    BY <1>2, Flatten
<1>4. G[0] = <<>> /\ G[1] = G[0] \o l[1]
  <2>1. 1 \in 1 .. Len(l) /\ 1 - 1 = 0
      BY <1>2
  <2> QED BY <1>3, <2>1 DEF Joined
<1>5. l[1] \in Seq(PartType)
    BY <1>2
<1>6. <<>> \o l[1] = l[1]
    BY <1>5
<1> QED BY <1>1, <1>2, <1>3, <1>4, <1>6 DEF Said, l

LEMMA SaidAppend ==
  ASSUME NEW w, NEW t, w \in Seq(TurnType), t \in TurnType
  PROVE  Append(w, t) \in Seq(TurnType) /\ Said(Append(w, t)) = Said(w) \o t.parts
<1>1. Append(w, t) = w \o <<t>>
    BY AppendIsConcat
<1>2. <<t>> \in Seq(TurnType) /\ Said(<<t>>) = t.parts
    BY SaidTurn
<1>3. w \o <<t>> \in Seq(TurnType) /\ Said(w \o <<t>>) = Said(w) \o Said(<<t>>)
    BY <1>2, SaidConcat
<1> QED BY <1>1, <1>2, <1>3

\* OpenAI's items: a turn each.
LEMMA SaidItems ==
  ASSUME NEW items, items \in Seq(PartType)
  PROVE  /\ [i \in DOMAIN items |-> Turn("assistant", <<items[i]>>)] \in Seq(TurnType)
         /\ Said([i \in DOMAIN items |-> Turn("assistant", <<items[i]>>)]) = items
<1> DEFINE w == [i \in DOMAIN items |-> Turn("assistant", <<items[i]>>)]
           l == Lists(w)
<1>1. Len(items) \in Nat /\ DOMAIN items = 1 .. Len(items) /\ \A i \in 1 .. Len(items) : items[i] \in PartType
    OBVIOUS
<1>2. \A i \in 1 .. Len(items) : /\ Turn("assistant", <<items[i]>>) \in TurnType
                                 /\ Turn("assistant", <<items[i]>>).parts = <<items[i]>>
    BY <1>1 DEF Turn, TurnType
<1>3. w \in [1 .. Len(items) -> TurnType] /\ \A i \in 1 .. Len(items) : w[i].parts = <<items[i]>>
    BY <1>1, <1>2
<1> HIDE DEF w
<1>4. w \in Seq(TurnType) /\ Len(w) = Len(items)
    BY <1>1, <1>3, Listed
<1>5. l \in Seq(Seq(PartType)) /\ Len(l) = Len(items) /\ \A i \in 1 .. Len(items) : l[i] = <<items[i]>>
    BY <1>3, <1>4, ListsType
<1> HIDE DEF l
<1>6. FlattenSeq(l) = items
  <2>1. Len(l) = 0 + Len(items)
      BY <1>1, <1>5
  <2>2. \A i \in 1 .. 0 : l[i] = <<>>
      OBVIOUS
  <2>3. \A i \in 1 .. Len(items) : l[0 + i] = <<items[i]>>
      BY <1>5
  <2>4. 0 \in Nat
      OBVIOUS
  <2> QED BY <1>5, <2>1, <2>2, <2>3, <2>4, FlattenSingles
<1> QED BY <1>4, <1>6 DEF Said, l, w

LEMMA NothingMore == ASSUME NEW S PROVE \A s \in Seq(S) : s \o <<>> = s /\ <<>> \o s = s
BY ConcatEmptySeq

\* A sequence is its front and its last.
LEMMA FrontLast ==
  ASSUME NEW S, NEW w, w \in Seq(S), w # <<>>
  PROVE  /\ Front(w) \in Seq(S) /\ Last(w) \in S /\ w = Append(Front(w), Last(w))
         /\ Len(w) \in Nat \ {0} /\ Len(Front(w)) = Len(w) - 1
         /\ \A i \in 1 .. Len(w) - 1 : Front(w)[i] = w[i]
<1>1. Len(w) \in Nat \ {0} /\ \A i \in 1 .. Len(w) : w[i] \in S
    BY EmptySeq
<1>2. /\ SubSeq(w, 1, Len(w) - 1) \in Seq(S)
      /\ Len(SubSeq(w, 1, Len(w) - 1)) = Len(w) - 1
      /\ \A i \in 1 .. Len(w) - 1 : SubSeq(w, 1, Len(w) - 1)[i] = w[i]
  <2> DEFINE n == Len(w) - 1
             f == SubSeq(w, 1, n)
  <2>1. n \in Nat /\ \A i \in 1 .. n : w[i] \in S
      BY <1>1
  <2>2. f \in Seq(S) /\ Len(f) = n /\ \A i \in 1 .. n : f[i] = w[i]
    <3> HIDE DEF n
    <3>1. 1 \in Int /\ n \in Int
        BY <2>1
    <3>2. f \in Seq(S) /\ Len(f) = (IF 1 <= n THEN n - 1 + 1 ELSE 0) /\ \A i \in 1 .. n - 1 + 1 : f[i] = w[1 + i - 1]
        BY <2>1, <3>1, SubSeqProperties
    <3>3. n - 1 + 1 = n /\ (IF 1 <= n THEN n - 1 + 1 ELSE 0) = n
        BY <2>1
    <3>4. \A i \in 1 .. n : 1 + i - 1 = i
        BY <2>1
    <3> HIDE DEF f
    <3> QED BY <3>2, <3>3, <3>4
  <2> QED BY <2>2
<1>3. Front(w) \in Seq(S) /\ Len(Front(w)) = Len(w) - 1 /\ \A i \in 1 .. Len(w) - 1 : Front(w)[i] = w[i]
    BY <1>2 DEF Front
<1>4. Last(w) \in S /\ Last(w) = w[Len(w)]
    BY <1>1 DEF Last
<1> DEFINE u == Append(Front(w), Last(w))
<1>5. u \in Seq(S) /\ Len(u) = Len(w)
    BY <1>1, <1>3, <1>4, AppendProperties
<1>6. ASSUME NEW i \in 1 .. Len(w) PROVE w[i] = u[i]
  <2>1. CASE i = Len(w)
      BY <1>1, <1>3, <1>4, <2>1, AppendProperties
  <2>2. CASE i \in 1 .. Len(w) - 1
      BY <1>1, <1>3, <1>4, <2>2, AppendProperties
  <2>3. i = Len(w) \/ i \in 1 .. Len(w) - 1
      BY <1>1
  <2> QED BY <2>1, <2>2, <2>3
<1>7. w = u
  <2> HIDE DEF u
  <2> QED BY <1>5, <1>6, SameSeq
<1> QED BY <1>1, <1>3, <1>4, <1>7

\* A message's parts come after what was said.
LEMMA AddsSaid ==
  ASSUME AdapterOK, NEW m, Message(m), NEW w, w \in Seq(TurnType)
  PROVE  Adds(w, m) \in Seq(TurnType) /\ Said(Adds(w, m)) = Said(w) \o Content(m)
<1>1. m \in MessageType /\ m.role \in {"user", "assistant", "tool"}
    BY DEF Message, MessageType
<1> DEFINE T == Texts(m)
           I == Images(m)
           P == CallParts(m)
           o == OutPart(m)
           b == Before(m)
           c == Content(m)
<1>2. /\ T \in Seq(PartType) /\ I \in Seq(PartType) /\ P \in Seq(PartType) /\ o \in PartType
      /\ Len(P) = Len(m.calls) /\ Part("text") \in PartType
    BY <1>1, PartTypes
<1>3. Ahead(m, Before(m)) /\ c \in Seq(PartType)
    BY Around, Carried
<1>4. b \in Seq(PartType) /\ <<o>> \in Seq(PartType) /\ <<>> \in Seq(PartType)
    BY <1>2, <1>3 DEF Ahead
<1>5. m.role # "assistant" => P = <<>>
  <2>1. m.role # "assistant" => Len(P) = 0
      BY <1>2 DEF Message
  <2> HIDE DEF P
  <2> QED BY <1>2, <2>1, EmptySeq
<1>6. /\ m.role = "user" => c = b
      /\ m.role = "tool" => c = b \o <<o>>
      /\ m.role = "assistant" /\ adapter # "openai" => c = b \o P
  <2>1. /\ m.role = "user" => c = (b \o P) \o <<>>
        /\ m.role = "tool" => c = (b \o P) \o <<o>>
        /\ m.role = "assistant" /\ adapter # "openai" => c = (b \o P) \o <<>>
      BY <1>1 DEF Content, After
  <2> HIDE DEF b, P, o, c
  <2>2. b \o P \in Seq(PartType) /\ b \o <<>> = b
      BY <1>2, <1>4, ConcatProperties
  <2>3. (b \o P) \o <<>> = b \o P
      BY <2>2
  <2> QED BY <1>5, <2>1, <2>2, <2>3
<1>7. ASSUME NEW role \in {"user", "assistant", "model", "tool"}, NEW ps, ps \in Seq(PartType)
      PROVE  Turn(role, ps) \in TurnType /\ Turn(role, ps).parts = ps
    BY <1>7 DEF Turn, TurnType
<1>8. ASSUME NEW role \in {"user", "assistant", "model", "tool"}, NEW ps, ps \in Seq(PartType)
      PROVE  /\ Append(w, Turn(role, ps)) \in Seq(TurnType)
             /\ Said(Append(w, Turn(role, ps))) = Said(w) \o ps
  <2> DEFINE t == Turn(role, ps)
  <2>1. t \in TurnType /\ t.parts = ps
      BY <1>7, <1>8
  <2> HIDE DEF t
  <2>2. Append(w, t) \in Seq(TurnType) /\ Said(Append(w, t)) = Said(w) \o t.parts
      BY <2>1, SaidAppend
  <2>3. Append(w, t) \in Seq(TurnType) /\ Said(Append(w, t)) = Said(w) \o ps
      BY <2>1, <2>2
  <2> QED BY <2>3 DEF t
<1>9. \A t : w \o <<t>> = Append(w, t)
    OBVIOUS
<1> HIDE DEF T, I, P, o, b, c
<1>10. CASE adapter = "openai"
  <2>1. Adds(w, m) = w \o OpenAITurns(m)
      BY <1>10 DEF Adds
  <2>2. CASE m.role = "user"
    <3>1. OpenAITurns(m) = <<Turn("user", b)>>
        BY <1>10, <2>2 DEF OpenAITurns, b, Before, T, I
    <3>2. Adds(w, m) = Append(w, Turn("user", b))
        BY <1>9, <2>1, <3>1
    <3> QED BY <1>4, <1>6, <1>8, <2>2, <3>2 DEF c
  <2>3. CASE m.role = "tool"
    <3>1. OpenAITurns(m) = <<Turn("tool", <<o>>)>>
        BY <1>10, <2>3 DEF OpenAITurns, o
    <3>2. b = <<>>
        BY <1>10, <2>3 DEF Before, b
    <3>3. c = <<o>>
      <4>1. <<>> \o <<o>> = <<o>>
          BY <1>4
      <4> QED BY <1>6, <2>3, <3>2, <4>1
    <3>4. Adds(w, m) = Append(w, Turn("tool", <<o>>))
        BY <1>9, <2>1, <3>1
    <3> QED BY <1>4, <1>8, <3>3, <3>4 DEF c
  <2>4. CASE m.role = "assistant"
    <3>1. c = (b \o P) \o T
        BY <1>10, <2>4 DEF Content, After, b, c, P, T
    <3>2. OpenAITurns(m) = [i \in DOMAIN c |-> Turn("assistant", <<c[i]>>)]
      <4>1. b = IF m.reasoning # 0 THEN <<Thought("reasoning", m.reasoning, 0)>> ELSE <<>>
          BY <1>10, <2>4 DEF Before, b
      <4> DEFINE items == (IF m.reasoning # 0 THEN <<Thought("reasoning", m.reasoning, 0)>> ELSE <<>>)
                          \o CallParts(m) \o Texts(m)
      <4>2. items = c
          BY <3>1, <4>1 DEF P, T
      <4>3. OpenAITurns(m) = [i \in DOMAIN items |-> Turn("assistant", <<items[i]>>)]
          BY <2>4 DEF OpenAITurns
      <4> HIDE DEF items
      <4> QED BY <4>2, <4>3
    <3>3. OpenAITurns(m) \in Seq(TurnType) /\ Said(OpenAITurns(m)) = c
        BY <1>3, <3>2, SaidItems
    <3>4. w \o OpenAITurns(m) \in Seq(TurnType) /\ Said(w \o OpenAITurns(m)) = Said(w) \o Said(OpenAITurns(m))
        BY <3>3, SaidConcat
    <3> QED BY <2>1, <3>3, <3>4 DEF c
  <2> QED BY <1>1, <2>2, <2>3, <2>4 DEF c
<1>11. CASE adapter = "gemini"
  <2>1. Adds(w, m) = Append(w, GeminiTurn(m))
      BY <1>11 DEF Adds
  <2>2. \E role \in {"model", "user"} : GeminiTurn(m) = Turn(role, c)
    <3> DEFINE parts == CASE m.role = "tool" -> Images(m) \o <<OutPart(m)>>
                          [] m.role = "user" -> Texts(m) \o Images(m)
                          [] OTHER -> Texts(m) \o CallParts(m)
               all == IF parts = <<>> THEN <<Part("text")>> ELSE parts
    <3>1. GeminiTurn(m) = Turn(IF m.role = "assistant" THEN "model" ELSE "user", all)
        BY DEF GeminiTurn
    <3>2. all = c
      <4>1. CASE m.role = "tool"
        <5>1. parts = b \o <<o>> /\ b = I
            BY <1>11, <4>1 DEF Before, b, o, I
        <5>2. b \o <<o>> # <<>>
            BY <1>4
        <5> HIDE DEF parts
        <5> QED BY <1>6, <4>1, <5>1, <5>2
      <4>2. CASE m.role = "user"
        <5>1. parts = T \o I
            BY <4>2 DEF T, I
        <5>2. T \o I = <<>> <=> (~m.text /\ ~m.image)
          <6>1. (T = <<>> <=> ~m.text) /\ (I = <<>> <=> ~m.image)
              BY DEF T, I, Texts, Images
          <6>2. T \o I = <<>> <=> (T = <<>> /\ I = <<>>)
              BY <1>2
          <6> QED BY <6>1, <6>2
        <5>3. b = IF ~m.text /\ ~m.image THEN <<Part("text")>> ELSE T \o I
            BY <1>11, <4>2 DEF Before, b, T, I
        <5> HIDE DEF parts
        <5> QED BY <1>6, <4>2, <5>1, <5>2, <5>3
      <4>3. CASE m.role = "assistant"
        <5>1. parts = T \o P
            BY <4>3 DEF T, P
        <5>2. b = IF m.calls = <<>> /\ ~m.text THEN <<Part("text")>> ELSE T
            BY <1>11, <4>3 DEF Before, b, T
        <5>3. m.calls = <<>> <=> P = <<>>
          <6>1. m.calls \in Seq(CallType)
              BY <1>1 DEF MessageType
          <6> QED BY <1>2, <6>1, EmptySeq
        <5>4. T = <<>> <=> ~m.text
            BY DEF T, Texts
        <5>5. T \o P = <<>> <=> (T = <<>> /\ P = <<>>)
            BY <1>2
        <5>6. <<Part("text")>> \o <<>> = <<Part("text")>>
            BY <1>2
        <5> HIDE DEF parts
        <5> QED BY <1>6, <1>11, <4>3, <5>1, <5>2, <5>3, <5>4, <5>5, <5>6
      <4> QED BY <1>1, <4>1, <4>2, <4>3
    <3> HIDE DEF parts, all
    <3> QED BY <3>1, <3>2
  <2> QED BY <1>3, <1>8, <2>1, <2>2 DEF c
<1>12. CASE adapter = "qwen"
  <2>1. Adds(w, m) = Append(w, QwenTurn(m))
      BY <1>12 DEF Adds
  <2>2. \E role \in {"user", "tool", "assistant"} : QwenTurn(m) = Turn(role, c)
    <3>1. CASE m.role = "user"
        BY <1>6, <1>12, <3>1 DEF QwenTurn, Before, b
    <3>2. CASE m.role = "tool"
      <4>1. b = <<>> /\ QwenTurn(m) = Turn("tool", <<o>>)
          BY <1>12, <3>2 DEF QwenTurn, Before, b, o
      <4>2. <<>> \o <<o>> = <<o>>
          BY <1>4
      <4> QED BY <1>6, <3>2, <4>1, <4>2
    <3>3. CASE m.role = "assistant"
        BY <1>6, <1>12, <3>3 DEF QwenTurn, Before, b, P
    <3> QED BY <1>1, <3>1, <3>2, <3>3
  <2> QED BY <1>3, <1>8, <2>1, <2>2 DEF c
<1>13. CASE adapter = "anthropic"
  <2>1. Adds(w, m) = AnthropicAdds(w, m)
      BY <1>13 DEF Adds
  <2>2. CASE m.role = "user"
    <3>1. AnthropicAdds(w, m) = Append(w, Turn("user", b))
        BY <1>13, <2>2 DEF AnthropicAdds, b, Before
    <3> QED BY <1>4, <1>6, <1>8, <2>1, <2>2, <3>1 DEF c
  <2>3. CASE m.role = "tool"
    <3>0. c = <<o>>
      <4>1. b = <<>>
          BY <1>13, <2>3 DEF Before, b
      <4>2. <<>> \o <<o>> = <<o>>
          BY <1>4
      <4> QED BY <1>6, <2>3, <4>1, <4>2
    <3>1. CASE ~Joins(w)
      <4>1. AnthropicAdds(w, m) = Append(w, Turn("user", <<o>>))
          BY <2>3, <3>1 DEF AnthropicAdds, o
      <4> QED BY <1>4, <1>8, <2>1, <3>0, <4>1 DEF c
    <3>2. CASE Joins(w)
      <4>1. AnthropicAdds(w, m) = Front(w) \o <<Turn("user", Last(w).parts \o <<o>>)>>
          BY <2>3, <3>2 DEF AnthropicAdds, o
      <4>2. w # <<>>
          BY <3>2 DEF Joins
      <4> DEFINE f == Front(w)
                 l == Last(w)
                 t == Turn("user", l.parts \o <<o>>)
      <4>3. f \in Seq(TurnType) /\ l \in TurnType /\ w = Append(f, l)
          BY <4>2, FrontLast
      <4> HIDE DEF f, l
      <4>4. l.parts \in Seq(PartType)
          BY <4>3 DEF TurnType
      <4>5. l.parts \o <<o>> \in Seq(PartType)
          BY <1>4, <4>4, ConcatProperties
      <4>6. t \in TurnType /\ t.parts = l.parts \o <<o>>
          BY <1>7, <4>5
      <4> HIDE DEF t
      <4>7. Append(f, t) \in Seq(TurnType) /\ Said(Append(f, t)) = Said(f) \o t.parts
          BY <4>3, <4>6, SaidAppend
      <4>8. Said(w) = Said(f) \o l.parts
          BY <4>3, SaidAppend
      <4>9. Said(f) \in Seq(PartType)
          BY <4>3, ListsType, FlattenType DEF Said
      <4>10. (Said(f) \o l.parts) \o <<o>> = Said(f) \o (l.parts \o <<o>>)
        <5> DEFINE x == Said(f)
                   y == l.parts
                   z == <<o>>
        <5>1. x \in Seq(PartType) /\ y \in Seq(PartType) /\ z \in Seq(PartType)
            BY <1>4, <4>4, <4>9
        <5>2. (x \o y) \o z = x \o (y \o z)
          <6> HIDE DEF x, y, z
          <6> QED BY <5>1, Associative
        <5> QED BY <5>2
      <4>11. Adds(w, m) = Append(f, t)
        <5>1. f \o <<t>> = Append(f, t)
            BY <4>3
        <5> QED BY <2>1, <4>1, <5>1 DEF f, l, t
      <4> QED BY <3>0, <4>6, <4>7, <4>8, <4>10, <4>11 DEF c
    <3> QED BY <3>1, <3>2
  <2>4. CASE m.role = "assistant"
    <3> DEFINE blocks == (IF m.thought # 0 /\ m.signed # 0 THEN <<Thought("thinking", m.thought, m.signed)>> ELSE <<>>)
                         \o Texts(m) \o CallParts(m)
    <3>1. blocks = b \o P
        BY <1>13, <2>4 DEF Before, b, P
    <3>2. c = blocks
        BY <1>6, <1>13, <2>4, <3>1
    <3>3. AnthropicAdds(w, m) = IF blocks = <<>> THEN w ELSE Append(w, Turn("assistant", blocks))
        BY <2>4 DEF AnthropicAdds
    <3> HIDE DEF blocks
    <3>4. CASE c = <<>>
      <4>1. Said(w) \in Seq(PartType)
          BY ListsType, FlattenType DEF Said
      <4>2. Said(w) \o <<>> = Said(w)
          BY <4>1
      <4> QED BY <2>1, <3>2, <3>3, <3>4, <4>2 DEF c
    <3>5. CASE c # <<>>
        BY <1>3, <1>8, <2>1, <3>2, <3>3, <3>5 DEF c
    <3> QED BY <3>4, <3>5
  <2> QED BY <1>1, <2>2, <2>3, <2>4
<1> QED BY <1>10, <1>11, <1>12, <1>13 DEF AdapterOK

\* What the request is after each message.
Wire(ms, W) ==
    /\ W \in [0 .. Len(ms) -> Seq(TurnType)] /\ W[0] = <<>>
    /\ \A k \in 1 .. Len(ms) : W[k] = Adds(W[k - 1], ms[k])

Messages(ms) == ms \in Seq(MessageType) /\ \A i \in 1 .. Len(ms) : Message(ms[i])

LEMMA WireOf ==
  ASSUME AdapterOK, NEW ms, Messages(ms)
  PROVE  \E W : Wire(ms, W) /\ Request(ms) = W[Len(ms)]
<1> DEFINE n == Len(ms)
           V == Seq(TurnType)
           step == [x \in V \X (1 .. n) |-> Adds(x[1], ms[x[2]])]
<1>1. n \in Nat /\ \A i \in 1 .. n : Message(ms[i])
    BY DEF Messages
<1>2. step \in [V \X (1 .. n) -> V]
  <2>1. ASSUME NEW w \in V, NEW i \in 1 .. n PROVE Adds(w, ms[i]) \in V
      BY <1>1, AddsSaid
  <2> HIDE DEF n, V
  <2> QED BY <2>1
<1>3. PICK W : W \in [0 .. n -> V] /\ Reaches(W, <<>>, step, n)
  <2>1. <<>> \in V
      OBVIOUS
  <2> HIDE DEF n, V, step
  <2> QED BY <1>1, <1>2, <2>1, Recursion
<1>4. W[0] = <<>> /\ \A i \in 1 .. n : W[i] = Adds(W[i - 1], ms[i])
  <2>1. ASSUME NEW i \in 1 .. n PROVE step[<<W[i - 1], i>>] = Adds(W[i - 1], ms[i])
    <3>1. i - 1 \in 0 .. n
        BY <1>1
    <3> HIDE DEF n, V
    <3>2. <<W[i - 1], i>> \in V \X (1 .. n)
        BY <1>3, <3>1
    <3> QED BY <3>2
  <2> HIDE DEF step, n
  <2> QED BY <1>3, <2>1 DEF Reaches
<1> HIDE DEF step
<1> DEFINE wire[k \in 0 .. n] == IF k = 0 THEN <<>> ELSE Adds(wire[k - 1], ms[k])
<1>5. W = [k \in 0 .. n |-> IF k = 0 THEN <<>> ELSE Adds(W[k - 1], ms[k])]
  <2>1. ASSUME NEW k \in 0 .. n PROVE W[k] = IF k = 0 THEN <<>> ELSE Adds(W[k - 1], ms[k])
    <3>1. k # 0 => k \in 1 .. n
        BY <1>1
    <3> QED BY <1>4, <3>1
  <2>2. W = [k \in 0 .. n |-> W[k]]
    <3> HIDE DEF n, V
    <3> QED BY <1>3
  <2> HIDE DEF n, wire
  <2> QED BY <2>1, <2>2
<1>6. wire = [k \in 0 .. n |-> IF k = 0 THEN <<>> ELSE Adds(wire[k - 1], ms[k])]
  <2> HIDE DEF n
  <2> QED BY <1>5 DEF wire
<1>7. Request(ms) = wire[n]
    BY DEF Request
<1> HIDE DEF wire
<1> DEFINE T == {k \in 0 .. n : wire[k] = W[k]}
<1>8. 0 \in T
  <2>1. 0 \in 0 .. n
      BY <1>1
  <2> HIDE DEF n
  <2> QED BY <1>4, <1>6, <2>1
<1>9. ASSUME NEW k \in 0 .. n - 1, k \in T PROVE k + 1 \in T
  <2>1. k + 1 \in 1 .. n /\ k + 1 \in 0 .. n /\ (k + 1) - 1 = k /\ k + 1 # 0
      BY <1>1
  <2> HIDE DEF n
  <2>2. wire[k + 1] = Adds(wire[k], ms[k + 1])
      BY <1>6, <2>1
  <2>3. W[k + 1] = Adds(W[k], ms[k + 1])
      BY <1>4, <2>1
  <2>4. wire[k] = W[k]
      BY <1>9
  <2> QED BY <2>1, <2>2, <2>3, <2>4
<1>10. 0 .. n \subseteq T
  <2> HIDE DEF T, n
  <2> QED BY <1>1, <1>8, <1>9, UpTo
<1>11. wire[n] = W[n]
  <2>1. n \in 0 .. n
      BY <1>1
  <2> HIDE DEF n
  <2> QED BY <1>10, <2>1
<1>12. Wire(ms, W)
    BY <1>3, <1>4 DEF Wire
<1> QED BY <1>7, <1>11, <1>12

Contents(ms) == [k \in DOMAIN ms |-> Content(ms[k])]

LEMMA ContentsType ==
  ASSUME AdapterOK, NEW ms, Messages(ms)
  PROVE  /\ Contents(ms) \in Seq(Seq(PartType)) /\ Len(Contents(ms)) = Len(ms) /\ Len(ms) \in Nat
         /\ \A i \in 1 .. Len(ms) : Contents(ms)[i] = Content(ms[i]) /\ Content(ms[i]) \in Seq(PartType)
<1>1. Len(ms) \in Nat /\ DOMAIN ms = 1 .. Len(ms) /\ \A i \in 1 .. Len(ms) : Message(ms[i])
    BY DEF Messages
<1>2. \A i \in 1 .. Len(ms) : Content(ms[i]) \in Seq(PartType)
    BY <1>1, Carried
<1>3. Contents(ms) \in [1 .. Len(ms) -> Seq(PartType)] /\ \A i \in 1 .. Len(ms) : Contents(ms)[i] = Content(ms[i])
    BY <1>1, <1>2 DEF Contents
<1>4. Contents(ms) \in Seq(Seq(PartType)) /\ Len(Contents(ms)) = Len(ms)
    BY <1>1, <1>3, Listed
<1> QED BY <1>1, <1>2, <1>3, <1>4

\* A request says the contents of its messages, one after another.
LEMMA RequestSays ==
  ASSUME AdapterOK, NEW ms, Messages(ms)
  PROVE  Request(ms) \in Seq(TurnType) /\ Said(Request(ms)) = FlattenSeq(Contents(ms))
<1> DEFINE n == Len(ms)
           cs == Contents(ms)
<1>1. cs \in Seq(Seq(PartType)) /\ Len(cs) = n /\ n \in Nat /\ \A i \in 1 .. n : cs[i] = Content(ms[i])
    BY ContentsType
<1>2. PICK W : Wire(ms, W) /\ Request(ms) = W[n]
    BY WireOf
<1> HIDE DEF cs
<1>3. PICK G : G \in [0 .. Len(cs) -> Seq(PartType)] /\ Joined(G, cs) /\ FlattenSeq(cs) = G[Len(cs)]
    BY <1>1, Flatten
<1> DEFINE T == {k \in 0 .. n : Said(W[k]) = G[k]}
<1>4. 0 \in T
  <2>1. W[0] = <<>> /\ G[0] = <<>>
      BY <1>2, <1>3 DEF Wire, Joined
  <2>2. <<>> \in Seq(TurnType)
      OBVIOUS
  <2>3. Lists(<<>>) = <<>>
    <3>1. Lists(<<>>) \in Seq(Seq(PartType)) /\ Len(Lists(<<>>)) = 0
        BY <2>2, ListsType
    <3> QED BY <3>1, EmptySeq
  <2>4. Said(<<>>) = <<>>
      BY <2>3, FlattenType DEF Said
  <2> QED BY <1>1, <2>1, <2>4
<1>5. ASSUME NEW k \in 0 .. n - 1, k \in T PROVE k + 1 \in T
  <2>1. k \in 0 .. n /\ k + 1 \in 1 .. n /\ k + 1 \in 0 .. n /\ (k + 1) - 1 = k
      BY <1>1
  <2>2. W[k + 1] = Adds(W[k], ms[k + 1]) /\ W[k] \in Seq(TurnType)
      BY <1>2, <2>1 DEF Wire
  <2>3. G[k + 1] = G[k] \o cs[k + 1]
      BY <1>1, <1>3, <2>1 DEF Joined
  <2>4. Message(ms[k + 1])
      BY <2>1 DEF Messages
  <2>5. Said(W[k + 1]) = Said(W[k]) \o Content(ms[k + 1])
      BY <2>2, <2>4, AddsSaid
  <2>6. Said(W[k]) = G[k] /\ cs[k + 1] = Content(ms[k + 1])
      BY <1>1, <1>5, <2>1
  <2> HIDE DEF n
  <2> QED BY <2>1, <2>3, <2>5, <2>6
<1>6. 0 .. n \subseteq T
  <2> HIDE DEF T, n
  <2> QED BY <1>1, <1>4, <1>5, UpTo
<1>7. Said(W[n]) = G[n] /\ W[n] \in Seq(TurnType)
  <2>1. n \in 0 .. n
      BY <1>1
  <2>2. W[n] \in Seq(TurnType)
      BY <1>2, <2>1 DEF Wire
  <2> HIDE DEF n
  <2> QED BY <1>6, <2>1, <2>2
<1> QED BY <1>1, <1>2, <1>3, <1>7 DEF cs

-----------------------------------------------------------------------------
(* sanitize_tool_messages.                                                 *)

\* A transcript: each call once, results after their calls, a thought with its answer only.
Transcript(ms) ==
    /\ Messages(ms)
    /\ \A i, j \in 1 .. Len(ms) : \A k \in 1 .. Len(ms[i].calls), l \in 1 .. Len(ms[j].calls) :
            ms[i].calls[k].id = ms[j].calls[l].id => i = j /\ k = l
    /\ \A i \in 1 .. Len(ms) : ms[i].role = "tool" =>
            \E j \in 1 .. i - 1 : \E k \in 1 .. Len(ms[j].calls) : ms[j].calls[k].id = ms[i].of
    /\ \A i, j \in 1 .. Len(ms) :
            /\ ms[i].thought # 0 /\ ms[i].thought = ms[j].thought => i = j
            /\ ms[i].reasoning # 0 /\ ms[i].reasoning = ms[j].reasoning => i = j

\* The interrupted outputs u of the calls cs that have no result in ids.
Filled(cs, ids, u) ==
    /\ \A j \in 1 .. Len(u) : \E k \in 1 .. Len(cs) : cs[k].id \notin ids /\ u[j] = Interrupted(cs[k])
    /\ \A k \in 1 .. Len(cs) : cs[k].id \notin ids => \E j \in 1 .. Len(u) : u[j] = Interrupted(cs[k])
    /\ \A j, l \in 1 .. Len(u) : u[j].of = u[l].of => j = l

LEMMA PlainType == Plain \in MessageType /\ Plain.calls = <<>>
BY ProviderAssumption DEF Plain, MessageType

LEMMA Interrupts ==
  ASSUME NEW c, c \in CallType
  PROVE  Interrupted(c) \in MessageType /\ Message(Interrupted(c)) /\ Interrupted(c).of = c.id
         /\ Interrupted(c).role = "tool" /\ Interrupted(c).result = "interrupted"
         /\ Interrupted(c).calls = <<>> /\ Interrupted(c).thought = 0 /\ Interrupted(c).reasoning = 0
<1>1. c.id \in Ids
    BY DEF CallType
<1>2. Interrupted(c) \in MessageType
    BY <1>1, PlainType DEF Interrupted, MessageType
<1>3. /\ Interrupted(c).of = c.id /\ Interrupted(c).role = "tool" /\ Interrupted(c).result = "interrupted"
      /\ Interrupted(c).calls = <<>> /\ Interrupted(c).thought = 0 /\ Interrupted(c).reasoning = 0
    BY DEF Interrupted, Plain
<1> QED BY <1>2, <1>3 DEF Message

LEMMA Fills ==
  ASSUME NEW ms, Transcript(ms), NEW i, i \in 1 .. Len(ms)
  PROVE  Unanswered(ms, i) \in Seq(MessageType) /\ Filled(ms[i].calls, Answered(ms), Unanswered(ms, i))
<1> DEFINE cs == ms[i].calls
           ids == Answered(ms)
           n == Len(cs)
           os == [k \in DOMAIN cs |-> IF cs[k].id \in ids THEN <<>> ELSE <<Interrupted(cs[k])>>]
           u == Unanswered(ms, i)
<1>1. ms[i] \in MessageType
    BY DEF Transcript, Messages
<1>2. cs \in Seq(CallType) /\ n \in Nat /\ DOMAIN cs = 1 .. n /\ \A k \in 1 .. n : cs[k] \in CallType
    BY <1>1 DEF MessageType
<1>3. u = FlattenSeq(os)
    BY DEF Unanswered, AnsweredAnywhere
<1> HIDE DEF cs, ids, n, u
<1>4. os \in [1 .. n -> Seq(MessageType)]
  <2>1. ASSUME NEW k \in 1 .. n
        PROVE  (IF cs[k].id \in ids THEN <<>> ELSE <<Interrupted(cs[k])>>) \in Seq(MessageType)
      BY <1>2, Interrupts
  <2> QED BY <1>2, <2>1
<1>5. /\ \A k \in 1 .. n : os[k] = IF cs[k].id \in ids THEN <<>> ELSE <<Interrupted(cs[k])>>
      /\ os \in Seq(Seq(MessageType)) /\ Len(os) = n
    BY <1>2, <1>4, Listed
<1> HIDE DEF os
<1>6. u \in Seq(MessageType)
    BY <1>3, <1>5, FlattenType
<1>7. PICK at : Places(at, os, u)
    BY <1>3, <1>5, FlattenPlaces
<1>8. /\ at \in [1 .. n -> Nat]
      /\ \A k \in 1 .. n : \A j \in 1 .. Len(os[k]) : at[k] + j \in 1 .. Len(u) /\ u[at[k] + j] = os[k][j]
      /\ \A p \in 1 .. Len(u) : \E k \in 1 .. n : \E j \in 1 .. Len(os[k]) : p = at[k] + j
    BY <1>5, <1>7 DEF Places
<1>9. ASSUME NEW p \in 1 .. Len(u)
      PROVE  \E k \in 1 .. n : cs[k].id \notin ids /\ u[p] = Interrupted(cs[k]) /\ p = at[k] + 1
  <2>1. PICK k \in 1 .. n : \E j \in 1 .. Len(os[k]) : p = at[k] + j
      BY <1>8
  <2>2. PICK j \in 1 .. Len(os[k]) : p = at[k] + j
      BY <2>1
  <2>3. cs[k].id \notin ids
    <3>1. SUFFICES ASSUME cs[k].id \in ids PROVE FALSE
        OBVIOUS
    <3>2. os[k] = <<>>
        BY <1>5, <3>1
    <3> QED BY <2>2, <3>2
  <2>4. os[k] = <<Interrupted(cs[k])>>
      BY <1>5, <2>3
  <2>5. j = 1 /\ os[k][1] = Interrupted(cs[k])
      BY <2>2, <2>4
  <2>6. u[p] = os[k][j]
      BY <1>8, <2>2
  <2> QED BY <2>2, <2>3, <2>5, <2>6
<1>10. ASSUME NEW k \in 1 .. n, cs[k].id \notin ids PROVE \E j \in 1 .. Len(u) : u[j] = Interrupted(cs[k])
  <2>1. os[k] = <<Interrupted(cs[k])>>
      BY <1>5, <1>10
  <2>2. 1 \in 1 .. Len(os[k]) /\ os[k][1] = Interrupted(cs[k])
      BY <2>1
  <2>3. at[k] + 1 \in 1 .. Len(u) /\ u[at[k] + 1] = os[k][1]
      BY <1>8, <2>2
  <2> QED BY <2>2, <2>3
<1>11. \A k, l \in 1 .. n : cs[k].id = cs[l].id => k = l
    BY DEF Transcript, cs, n
<1>12. ASSUME NEW p \in 1 .. Len(u), NEW q \in 1 .. Len(u), u[p].of = u[q].of PROVE p = q
  <2>1. PICK k \in 1 .. n : u[p] = Interrupted(cs[k]) /\ p = at[k] + 1
      BY <1>9
  <2>2. PICK l \in 1 .. n : u[q] = Interrupted(cs[l]) /\ q = at[l] + 1
      BY <1>9
  <2>3. u[p].of = cs[k].id /\ u[q].of = cs[l].id
      BY <1>2, <2>1, <2>2, Interrupts
  <2> QED BY <1>11, <1>12, <2>1, <2>2, <2>3
<1>13. Filled(cs, ids, u)
    BY <1>9, <1>10, <1>12 DEF Filled, n
<1> QED BY <1>6, <1>13 DEF cs, ids, u

Blocks(ms) == [i \in DOMAIN ms |-> IF SentBefore(ms, i) THEN <<>> ELSE <<ms[i]>> \o Unanswered(ms, i)]

\* A row that is kept, with what is filled in after it.
Block(ms, i, b) ==
    /\ SentBefore(ms, i) => Len(b) = 0
    /\ ~SentBefore(ms, i) =>
        /\ 1 \in 1 .. Len(b) /\ b[1] = ms[i]
        /\ \A j \in 1 .. Len(b) : j # 1 =>
               \E k \in 1 .. Len(ms[i].calls) :
                    ms[i].calls[k].id \notin Answered(ms) /\ b[j] = Interrupted(ms[i].calls[k])
        /\ \A k \in 1 .. Len(ms[i].calls) : ms[i].calls[k].id \notin Answered(ms) =>
               \E j \in 1 .. Len(b) : j # 1 /\ b[j] = Interrupted(ms[i].calls[k])
        /\ \A j, l \in 1 .. Len(b) : j # 1 /\ l # 1 /\ b[j].of = b[l].of => j = l

LEMMA BlocksAre ==
  ASSUME NEW ms, Transcript(ms)
  PROVE  /\ Blocks(ms) \in Seq(Seq(MessageType)) /\ Len(Blocks(ms)) = Len(ms) /\ Len(ms) \in Nat
         /\ \A i \in 1 .. Len(ms) : Block(ms, i, Blocks(ms)[i])
         /\ Sanitize(ms) = FlattenSeq(Blocks(ms))
<1>1. Len(ms) \in Nat /\ DOMAIN ms = 1 .. Len(ms) /\ \A i \in 1 .. Len(ms) : ms[i] \in MessageType
    BY DEF Transcript, Messages
<1>2. ASSUME NEW i \in 1 .. Len(ms)
      PROVE  Blocks(ms)[i] \in Seq(MessageType) /\ Block(ms, i, Blocks(ms)[i])
  <2> DEFINE b == Blocks(ms)[i]
             u == Unanswered(ms, i)
             x == ms[i]
             cs == ms[i].calls
  <2>1. b = IF SentBefore(ms, i) THEN <<>> ELSE <<x>> \o u
      BY <1>1 DEF Blocks
  <2>2. u \in Seq(MessageType) /\ Filled(cs, Answered(ms), u)
      BY Fills
  <2>3. x \in MessageType
      BY <1>1
  <2> HIDE DEF b, u, x, cs
  <2>4. CASE SentBefore(ms, i)
    <3>1. b = <<>> /\ b \in Seq(MessageType) /\ Len(b) = 0
        BY <2>1, <2>4
    <3> QED BY <2>4, <3>1 DEF Block, b
  <2>5. CASE ~SentBefore(ms, i)
    <3>1. b = <<x>> \o u /\ <<x>> \in Seq(MessageType) /\ Len(<<x>>) = 1 /\ <<x>>[1] = x
        BY <2>1, <2>3, <2>5
    <3>2. b \in Seq(MessageType) /\ Len(b) = 1 + Len(u) /\ Len(u) \in Nat /\ b[1] = x
        BY <2>2, <3>1
    <3>3. \A j \in 1 .. Len(u) : b[1 + j] = u[j]
        BY <2>2, <3>1
    <3>4. ASSUME NEW j \in 1 .. Len(b), j # 1 PROVE j - 1 \in 1 .. Len(u) /\ b[j] = u[j - 1]
      <4>1. j - 1 \in 1 .. Len(u) /\ 1 + (j - 1) = j
          BY <3>2, <3>4
      <4> QED BY <3>3, <4>1
    <3>5. ASSUME NEW j \in 1 .. Len(b), j # 1
          PROVE  \E k \in 1 .. Len(cs) : cs[k].id \notin Answered(ms) /\ b[j] = Interrupted(cs[k])
      <4>1. j - 1 \in 1 .. Len(u) /\ b[j] = u[j - 1]
          BY <3>4, <3>5
      <4>2. \A l \in 1 .. Len(u) : \E k \in 1 .. Len(cs) : cs[k].id \notin Answered(ms) /\ u[l] = Interrupted(cs[k])
          BY <2>2 DEF Filled
      <4> QED BY <4>1, <4>2
    <3>6. ASSUME NEW k \in 1 .. Len(cs), cs[k].id \notin Answered(ms)
          PROVE  \E j \in 1 .. Len(b) : j # 1 /\ b[j] = Interrupted(cs[k])
      <4>1. PICK j \in 1 .. Len(u) : u[j] = Interrupted(cs[k])
          BY <2>2, <3>6 DEF Filled
      <4>2. 1 + j \in 1 .. Len(b) /\ 1 + j # 1 /\ b[1 + j] = u[j]
          BY <3>2, <3>3
      <4> QED BY <4>1, <4>2
    <3>7. ASSUME NEW j \in 1 .. Len(b), NEW l \in 1 .. Len(b), j # 1, l # 1, b[j].of = b[l].of PROVE j = l
      <4>0. \A y, z \in 1 .. Len(u) : u[y].of = u[z].of => y = z
          BY <2>2 DEF Filled
      <4>2. j - 1 \in 1 .. Len(u) /\ b[j] = u[j - 1] /\ l - 1 \in 1 .. Len(u) /\ b[l] = u[l - 1]
          BY <3>4, <3>7
      <4>1. j - 1 = l - 1
          BY <3>7, <4>0, <4>2
      <4> QED BY <4>1
    <3>8. 1 \in 1 .. Len(b) /\ b[1] = ms[i]
        BY <3>2 DEF x
    <3>9. Block(ms, i, b)
        BY <2>5, <3>5, <3>6, <3>7, <3>8 DEF Block, cs
    <3> QED BY <3>2, <3>9 DEF b
  <2> QED BY <2>4, <2>5
<1>3. Blocks(ms) = [i \in 1 .. Len(ms) |-> Blocks(ms)[i]]
    BY <1>1 DEF Blocks
<1>4. Blocks(ms) \in [1 .. Len(ms) -> Seq(MessageType)]
    BY <1>2, <1>3
<1>5. Blocks(ms) \in Seq(Seq(MessageType)) /\ Len(Blocks(ms)) = Len(ms)
    BY <1>1, <1>4, Listed
<1>6. Sanitize(ms) = FlattenSeq(Blocks(ms))
    BY DEF Sanitize, Blocks
<1> QED BY <1>1, <1>2, <1>5, <1>6

\* What is told of a call is its first result.
LEMMA FirstResult ==
  ASSUME NEW ms, Messages(ms), NEW id, id \in Answered(ms)
  PROVE  \E i \in 1 .. Len(ms) : ms[i].role = "tool" /\ ms[i].of = id /\ ~SentBefore(ms, i)
<1> DEFINE rs == {i \in 1 .. Len(ms) : ms[i].role = "tool" /\ ms[i].of = id}
<1>1. Len(ms) \in Nat /\ DOMAIN ms = 1 .. Len(ms)
    BY DEF Messages
<1>2. rs \subseteq Nat /\ rs # {}
    BY <1>1 DEF Answered, At
<1>3. PICK i \in rs : \A j \in rs : i <= j
  <2> HIDE DEF rs
  <2> QED BY <1>2, Smallest
<1>4. ~SentBefore(ms, i)
  <2>1. SUFFICES ASSUME NEW j \in 1 .. i - 1, ms[j].role = "tool", ms[j].of = ms[i].of PROVE FALSE
      BY DEF SentBefore
  <2>2. j \in rs /\ j < i
      BY <1>1, <2>1
  <2>3. i <= j
    <3> HIDE DEF rs
    <3> QED BY <1>3, <2>2
  <2> QED BY <1>1, <2>2, <2>3
<1> QED BY <1>3, <1>4

LEMMA TellsFirst ==
  ASSUME NEW ms, Messages(ms), NEW i, i \in 1 .. Len(ms), ms[i].role = "tool", ~SentBefore(ms, i)
  PROVE  Told(ms, ms[i].of) = ms[i].result
<1> DEFINE rs == {j \in At("tool", ms) : ms[j].of = ms[i].of}
<1>1. Len(ms) \in Nat /\ DOMAIN ms = 1 .. Len(ms)
    BY DEF Messages
<1>2. i \in rs
    BY <1>1 DEF At
<1>3. ASSUME NEW j \in rs PROVE i <= j
  <2>1. j \in 1 .. Len(ms) /\ ms[j].role = "tool" /\ ms[j].of = ms[i].of
      BY <1>1 DEF At
  <2>2. j \notin 1 .. i - 1
      BY <2>1 DEF SentBefore
  <2> QED BY <1>1, <2>1, <2>2
<1>4. rs \subseteq Int
    BY <1>1 DEF At
<1>5. Min(rs) = i
  <2>1. \A x \in rs : (\A y \in rs : x <= y) => x = i
    <3> HIDE DEF rs
    <3> QED BY <1>2, <1>3, <1>4
  <2> HIDE DEF rs
  <2> QED BY <1>2, <1>3, <2>1 DEF Min
<1>6. Told(ms, ms[i].of) = IF rs = {} THEN "interrupted" ELSE ms[Min(rs)].result
    BY DEF Told
<1> HIDE DEF rs
<1> QED BY <1>2, <1>5, <1>6

LEMMA TellsNothing ==
  ASSUME NEW ms, NEW id, id \notin Answered(ms)
  PROVE  Told(ms, id) = "interrupted"
BY DEF Told, Answered

\* Every call has one result after it, its first or an interrupted one; no row of another
\* kind is lost or added.
Clean(ms, san) ==
    /\ Transcript(san)
    /\ \A p, q \in 1 .. Len(san) :
            san[p].role = "tool" /\ san[q].role = "tool" /\ san[p].of = san[q].of => p = q
    /\ \A p \in 1 .. Len(san) : \A k \in 1 .. Len(san[p].calls) :
            \E q \in p + 1 .. Len(san) : san[q].role = "tool" /\ san[q].of = san[p].calls[k].id
    /\ \A q \in 1 .. Len(san) : san[q].role = "tool" => san[q].result = Told(ms, san[q].of)
    /\ \A i \in 1 .. Len(ms) : ms[i].role # "tool" => \E p \in 1 .. Len(san) : san[p] = ms[i]
    /\ \A p \in 1 .. Len(san) : san[p].role # "tool" => \E i \in 1 .. Len(ms) : san[p] = ms[i]

\* A result that no other message came before is not moved behind one.
InTime(ms, i, id) ==
    \A j, l \in 1 .. Len(ms) : i < j /\ j < l /\ ms[l].of = id => ms[j].role = "tool"

StaysInTime(ms, san) ==
    \A i \in 1 .. Len(ms) : \A k \in 1 .. Len(ms[i].calls) : InTime(ms, i, ms[i].calls[k].id) =>
        \A x \in 1 .. Len(san) : san[x] = ms[i] =>
            \E q \in x + 1 .. Len(san) :
                /\ san[q].role = "tool" /\ san[q].of = ms[i].calls[k].id
                /\ \A y \in x + 1 .. q : san[y].role = "tool"

LEMMA Sanitized ==
  ASSUME NEW ms, Transcript(ms)
  PROVE  Clean(ms, Sanitize(ms)) /\ StaysInTime(ms, Sanitize(ms))
<1> DEFINE bs == Blocks(ms)
           san == Sanitize(ms)
<1>1. /\ bs \in Seq(Seq(MessageType)) /\ Len(bs) = Len(ms) /\ Len(ms) \in Nat
      /\ \A i \in 1 .. Len(ms) : Block(ms, i, bs[i])
      /\ san = FlattenSeq(bs)
    BY BlocksAre
<1> HIDE DEF bs, san
<1>2. PICK at : Places(at, bs, san)
    BY <1>1, FlattenPlaces
<1>3. san \in Seq(MessageType)
    BY <1>1, FlattenType
<1>4. /\ at \in [1 .. Len(ms) -> Nat]
      /\ \A i \in 1 .. Len(ms) : \A j \in 1 .. Len(bs[i]) :
              at[i] + j \in 1 .. Len(san) /\ san[at[i] + j] = bs[i][j]
      /\ \A p \in 1 .. Len(san) : \E i \in 1 .. Len(ms) : \E j \in 1 .. Len(bs[i]) : p = at[i] + j
      /\ \A i, k \in 1 .. Len(ms) : i < k => at[i] + Len(bs[i]) <= at[k]
    BY <1>1, <1>2 DEF Places
<1>5. /\ Messages(ms)
      /\ \A i, j \in 1 .. Len(ms) : \A k \in 1 .. Len(ms[i].calls), l \in 1 .. Len(ms[j].calls) :
            ms[i].calls[k].id = ms[j].calls[l].id => i = j /\ k = l
      /\ \A i \in 1 .. Len(ms) : ms[i].role = "tool" =>
            \E j \in 1 .. i - 1 : \E k \in 1 .. Len(ms[j].calls) : ms[j].calls[k].id = ms[i].of
      /\ \A i, j \in 1 .. Len(ms) :
            /\ ms[i].thought # 0 /\ ms[i].thought = ms[j].thought => i = j
            /\ ms[i].reasoning # 0 /\ ms[i].reasoning = ms[j].reasoning => i = j
    BY DEF Transcript
<1>6. \A i \in 1 .. Len(ms) : Message(ms[i]) /\ ms[i] \in MessageType
    BY <1>5 DEF Messages
<1>7. \A i \in 1 .. Len(bs) : Len(bs[i]) \in Nat
    BY <1>1
\* A kept row is the first of its block.
<1> DEFINE KeptAt(p, i) == i \in 1 .. Len(ms) /\ ~SentBefore(ms, i) /\ p = at[i] + 1 /\ p \in 1 .. Len(san)
                           /\ san[p] = ms[i]
           FilledAt(p, i, j, k) == /\ i \in 1 .. Len(ms) /\ ~SentBefore(ms, i) /\ p = at[i] + j
                                   /\ j \in 1 .. Len(bs[i]) /\ j # 1 /\ p \in 1 .. Len(san)
                                   /\ k \in 1 .. Len(ms[i].calls)
                                   /\ ms[i].calls[k].id \notin Answered(ms)
                                   /\ san[p] = Interrupted(ms[i].calls[k]) /\ san[p] = bs[i][j]
<1>8. ASSUME NEW p, p \in 1 .. Len(san)
      PROVE  (\E i : KeptAt(p, i)) \/ (\E i, j, k : FilledAt(p, i, j, k))
  <2>1. PICK i \in 1 .. Len(ms) : \E j \in 1 .. Len(bs[i]) : p = at[i] + j
      BY <1>4, <1>8
  <2>2. PICK j \in 1 .. Len(bs[i]) : p = at[i] + j
      BY <2>1
  <2>3. Block(ms, i, bs[i]) /\ Len(bs[i]) \in Nat /\ san[p] = bs[i][j]
      BY <1>1, <1>4, <1>7, <2>2
  <2>4. ~SentBefore(ms, i)
      BY <2>2, <2>3 DEF Block
  <2>5. CASE j = 1
      BY <1>8, <2>2, <2>3, <2>4, <2>5 DEF Block
  <2>6. CASE j # 1
    <3>1. PICK k \in 1 .. Len(ms[i].calls) :
              ms[i].calls[k].id \notin Answered(ms) /\ bs[i][j] = Interrupted(ms[i].calls[k])
        BY <2>3, <2>4, <2>6 DEF Block
    <3>2. FilledAt(p, i, j, k)
        BY <1>8, <2>2, <2>3, <2>4, <2>6, <3>1
    <3> HIDE DEF FilledAt
    <3> QED BY <3>2
  <2> QED BY <2>5, <2>6
<1>9. ASSUME NEW i, i \in 1 .. Len(ms), ~SentBefore(ms, i) PROVE KeptAt(at[i] + 1, i)
  <2>1. Block(ms, i, bs[i])
      BY <1>1, <1>9
  <2>2. 1 \in 1 .. Len(bs[i]) /\ bs[i][1] = ms[i]
      BY <1>9, <2>1 DEF Block
  <2> QED BY <1>4, <1>9, <2>2
<1>10. ASSUME NEW i, i \in 1 .. Len(ms), ~SentBefore(ms, i), NEW k, k \in 1 .. Len(ms[i].calls),
              ms[i].calls[k].id \notin Answered(ms)
       PROVE  \E j : FilledAt(at[i] + j, i, j, k)
  <2>1. Block(ms, i, bs[i])
      BY <1>1, <1>10
  <2>2. PICK j \in 1 .. Len(bs[i]) : j # 1 /\ bs[i][j] = Interrupted(ms[i].calls[k])
      BY <1>10, <2>1 DEF Block
  <2>3. FilledAt(at[i] + j, i, j, k)
      BY <1>4, <1>10, <2>2
  <2> HIDE DEF FilledAt
  <2> QED BY <2>3
\* What the two are.
<1>11. ASSUME NEW p, NEW i, NEW j, NEW k, FilledAt(p, i, j, k)
       PROVE  /\ san[p].role = "tool" /\ san[p].calls = <<>> /\ san[p].thought = 0 /\ san[p].reasoning = 0
              /\ san[p].of = ms[i].calls[k].id /\ san[p].result = "interrupted" /\ Message(san[p])
              /\ KeptAt(at[i] + 1, i) /\ at[i] + 1 < p /\ at[i] \in Nat
  <2>1. ms[i].calls[k] \in CallType
    <3>1. ms[i].calls \in Seq(CallType)
        BY <1>6, <1>11 DEF MessageType
    <3> QED BY <1>11, <3>1
  <2>2. at[i] + 1 < p /\ at[i] \in Nat
    <3>1. at[i] \in Nat /\ Len(bs[i]) \in Nat
        BY <1>1, <1>4, <1>7, <1>11
    <3> QED BY <1>11, <3>1
  <2>3. KeptAt(at[i] + 1, i)
    <3>1. i \in 1 .. Len(ms) /\ ~SentBefore(ms, i)
        BY <1>11
    <3> HIDE DEF KeptAt, FilledAt
    <3> QED BY <1>9, <3>1
  <2>4. san[p] = Interrupted(ms[i].calls[k])
      BY <1>11
  <2> HIDE DEF KeptAt, FilledAt
  <2> QED BY <2>1, <2>2, <2>3, <2>4, Interrupts
<1>12. ASSUME NEW p, NEW q, NEW i, NEW j, KeptAt(p, i), KeptAt(q, j)
       PROVE  /\ i = j => p = q
              /\ i < j => p < q
  <2>1. i < j => at[i] + Len(bs[i]) <= at[j]
      BY <1>4, <1>12
  <2>2. Len(bs[i]) \in Nat /\ at[i] \in Nat /\ at[j] \in Nat
      BY <1>1, <1>4, <1>7, <1>12
  <2>3. 1 \in 1 .. Len(bs[i])
    <3>1. Block(ms, i, bs[i])
        BY <1>1, <1>12
    <3> QED BY <1>12, <3>1 DEF Block
  <2>4. p = at[i] + 1 /\ q = at[j] + 1
      BY <1>12
  <2> HIDE DEF KeptAt
  <2>5. i = j => p = q
      BY <2>4
  <2>6. i < j => p < q
      BY <2>1, <2>2, <2>3, <2>4
  <2> QED BY <2>5, <2>6
<1>13. \A i \in 1 .. Len(ms) : ms[i].role # "tool" => ~SentBefore(ms, i)
    BY DEF SentBefore
<1>14. ASSUME NEW i, i \in 1 .. Len(ms), NEW k, k \in 1 .. Len(ms[i].calls) PROVE ms[i].role = "assistant"
  <2>1. ms[i].role # "assistant" => ms[i].calls = <<>>
      BY <1>6, <1>14 DEF Message
  <2> QED BY <1>14, <2>1
<1> HIDE DEF KeptAt, FilledAt
<1>15. ASSUME NEW p, p \in 1 .. Len(san), NEW k, k \in 1 .. Len(san[p].calls)
       PROVE  \E i : KeptAt(p, i) /\ k \in 1 .. Len(ms[i].calls)
  <2>1. CASE \E i : KeptAt(p, i)
      BY <1>15, <2>1 DEF KeptAt
  <2>2. CASE \E i, j, l : FilledAt(p, i, j, l)
    <3>1. san[p].calls = <<>>
        BY <1>11, <2>2
    <3> QED BY <1>15, <3>1
  <2> QED BY <1>8, <1>15, <2>1, <2>2
<1>16. Messages(san)
  <2>1. ASSUME NEW p, p \in 1 .. Len(san) PROVE Message(san[p])
    <3>1. CASE \E i : KeptAt(p, i)
        BY <1>6, <3>1 DEF KeptAt
    <3>2. CASE \E i, j, k : FilledAt(p, i, j, k)
        BY <1>11, <3>2
    <3> QED BY <1>8, <2>1, <3>1, <3>2
  <2> QED BY <1>3, <2>1 DEF Messages
<1>17. ASSUME NEW p, NEW q, NEW k, NEW l, p \in 1 .. Len(san), q \in 1 .. Len(san),
              k \in 1 .. Len(san[p].calls), l \in 1 .. Len(san[q].calls),
              san[p].calls[k].id = san[q].calls[l].id
       PROVE  p = q /\ k = l
  <2>1. PICK i : KeptAt(p, i) /\ k \in 1 .. Len(ms[i].calls)
      BY <1>15, <1>17
  <2>2. PICK j : KeptAt(q, j) /\ l \in 1 .. Len(ms[j].calls)
      BY <1>15, <1>17
  <2>3. i \in 1 .. Len(ms) /\ j \in 1 .. Len(ms) /\ san[p] = ms[i] /\ san[q] = ms[j]
      BY <2>1, <2>2 DEF KeptAt
  <2>4. i = j /\ k = l
      BY <1>5, <1>17, <2>1, <2>2, <2>3
  <2> QED BY <1>12, <2>1, <2>2, <2>4
<1>18. ASSUME NEW p, p \in 1 .. Len(san), san[p].role = "tool"
       PROVE  \E q \in 1 .. p - 1 : \E k \in 1 .. Len(san[q].calls) : san[q].calls[k].id = san[p].of
  <2>1. CASE \E i : KeptAt(p, i)
    <3>1. PICK i : KeptAt(p, i)
        BY <2>1
    <3>2. i \in 1 .. Len(ms) /\ san[p] = ms[i]
        BY <3>1 DEF KeptAt
    <3>3. PICK j \in 1 .. i - 1 : \E k \in 1 .. Len(ms[j].calls) : ms[j].calls[k].id = ms[i].of
        BY <1>5, <1>18, <3>2
    <3>4. j \in 1 .. Len(ms) /\ j < i
        BY <1>1, <3>2, <3>3
    <3>5. ms[j].role = "assistant"
        BY <1>14, <3>3, <3>4
    <3>6. KeptAt(at[j] + 1, j)
        BY <1>9, <1>13, <3>4, <3>5
    <3>7. at[j] + 1 < p
        BY <1>12, <3>1, <3>4, <3>6
    <3>8. at[j] + 1 \in 1 .. Len(san) /\ san[at[j] + 1] = ms[j] /\ at[j] \in Nat
        BY <1>4, <3>4, <3>6 DEF KeptAt
    <3>9. at[j] + 1 \in 1 .. p - 1
        BY <1>18, <3>7, <3>8
    <3> QED BY <3>2, <3>3, <3>8, <3>9
  <2>2. CASE \E i, j, k : FilledAt(p, i, j, k)
    <3>1. PICK i, j, k : FilledAt(p, i, j, k)
        BY <2>2
    <3>2. san[p].of = ms[i].calls[k].id /\ KeptAt(at[i] + 1, i) /\ at[i] + 1 < p /\ at[i] \in Nat
        BY <1>11, <3>1
    <3>3. k \in 1 .. Len(ms[i].calls)
        BY <3>1 DEF FilledAt
    <3>4. san[at[i] + 1] = ms[i]
        BY <3>2 DEF KeptAt
    <3>5. at[i] + 1 \in 1 .. p - 1
        BY <1>18, <3>2
    <3> QED BY <3>2, <3>3, <3>4, <3>5
  <2> QED BY <1>8, <1>18, <2>1, <2>2
<1>19. ASSUME NEW p, NEW q, p \in 1 .. Len(san), q \in 1 .. Len(san)
       PROVE  /\ san[p].thought # 0 /\ san[p].thought = san[q].thought => p = q
              /\ san[p].reasoning # 0 /\ san[p].reasoning = san[q].reasoning => p = q
  <2>1. ASSUME NEW r, r \in 1 .. Len(san), san[r].thought # 0 \/ san[r].reasoning # 0
        PROVE  \E i : KeptAt(r, i)
      BY <1>8, <1>11, <2>1
  <2>2. ASSUME san[p].thought # 0, san[p].thought = san[q].thought PROVE p = q
    <3>1. PICK i : KeptAt(p, i)
        BY <1>19, <2>1, <2>2
    <3>2. PICK j : KeptAt(q, j)
        BY <1>19, <2>1, <2>2
    <3>3. i = j
        BY <1>5, <2>2, <3>1, <3>2 DEF KeptAt
    <3> QED BY <1>12, <3>1, <3>2, <3>3
  <2>3. ASSUME san[p].reasoning # 0, san[p].reasoning = san[q].reasoning PROVE p = q
    <3>1. PICK i : KeptAt(p, i)
        BY <1>19, <2>1, <2>3
    <3>2. PICK j : KeptAt(q, j)
        BY <1>19, <2>1, <2>3
    <3>3. i = j
        BY <1>5, <2>3, <3>1, <3>2 DEF KeptAt
    <3> QED BY <1>12, <3>1, <3>2, <3>3
  <2> QED BY <2>2, <2>3
<1>20. Transcript(san)
  <2>1. \A i, j \in 1 .. Len(san) : \A k \in 1 .. Len(san[i].calls), l \in 1 .. Len(san[j].calls) :
            san[i].calls[k].id = san[j].calls[l].id => i = j /\ k = l
      BY <1>17
  <2>2. \A i \in 1 .. Len(san) : san[i].role = "tool" =>
            \E j \in 1 .. i - 1 : \E k \in 1 .. Len(san[j].calls) : san[j].calls[k].id = san[i].of
      BY <1>18
  <2>3. \A i, j \in 1 .. Len(san) :
            /\ san[i].thought # 0 /\ san[i].thought = san[j].thought => i = j
            /\ san[i].reasoning # 0 /\ san[i].reasoning = san[j].reasoning => i = j
      BY <1>19
  <2> QED BY <1>16, <2>1, <2>2, <2>3 DEF Transcript
<1>21. ASSUME NEW p, NEW i, KeptAt(p, i), san[p].role = "tool" PROVE san[p].of \in Answered(ms)
  <2>1. i \in DOMAIN ms /\ san[p] = ms[i]
      BY <1>5, <1>21 DEF KeptAt, Messages
  <2> QED BY <1>21, <2>1 DEF Answered, At
<1>22. ASSUME NEW p, NEW i, NEW j, NEW k, FilledAt(p, i, j, k) PROVE san[p].of \notin Answered(ms)
  <2>1. san[p].of = ms[i].calls[k].id
      BY <1>11, <1>22
  <2>2. ms[i].calls[k].id \notin Answered(ms)
      BY <1>22 DEF FilledAt
  <2> QED BY <2>1, <2>2
<1>23. ASSUME NEW p, NEW q, p \in 1 .. Len(san), q \in 1 .. Len(san),
              san[p].role = "tool", san[q].role = "tool", san[p].of = san[q].of
       PROVE  p = q
  <2>1. CASE san[p].of \in Answered(ms)
    <3>1. PICK i : KeptAt(p, i)
        BY <1>8, <1>22, <1>23, <2>1
    <3>2. PICK j : KeptAt(q, j)
        BY <1>8, <1>22, <1>23, <2>1
    <3>3. /\ i \in 1 .. Len(ms) /\ j \in 1 .. Len(ms) /\ ms[i] = san[p] /\ ms[j] = san[q]
          /\ ~SentBefore(ms, i) /\ ~SentBefore(ms, j)
        BY <3>1, <3>2 DEF KeptAt
    <3>4. i \notin 1 .. j - 1 /\ j \notin 1 .. i - 1
        BY <1>23, <3>3 DEF SentBefore
    <3>5. i = j
        BY <1>1, <3>3, <3>4
    <3> QED BY <1>12, <3>1, <3>2, <3>5
  <2>2. CASE san[p].of \notin Answered(ms)
    <3>1. PICK i, j, k : FilledAt(p, i, j, k)
        BY <1>8, <1>21, <1>23, <2>2
    <3>2. PICK x, y, z : FilledAt(q, x, y, z)
        BY <1>8, <1>21, <1>23, <2>2
    <3>3. /\ i \in 1 .. Len(ms) /\ x \in 1 .. Len(ms) /\ k \in 1 .. Len(ms[i].calls) /\ z \in 1 .. Len(ms[x].calls)
          /\ p = at[i] + j /\ q = at[x] + y /\ j \in 1 .. Len(bs[i]) /\ y \in 1 .. Len(bs[x]) /\ j # 1 /\ y # 1
          /\ san[p] = bs[i][j] /\ san[q] = bs[x][y] /\ ~SentBefore(ms, i)
        BY <3>1, <3>2 DEF FilledAt
    <3>4. san[p].of = ms[i].calls[k].id /\ san[q].of = ms[x].calls[z].id
        BY <1>11, <3>1, <3>2
    <3>5. i = x
      <4>1. ms[i].calls[k].id = ms[x].calls[z].id
          BY <1>23, <3>4
      <4> QED BY <1>5, <3>3, <4>1
    <3>6. Block(ms, i, bs[i])
        BY <1>1, <3>3
    <3>7. j = y
        BY <1>23, <3>3, <3>5, <3>6 DEF Block
    <3> QED BY <3>3, <3>5, <3>7
  <2> QED BY <2>1, <2>2
<1>24. ASSUME NEW p, p \in 1 .. Len(san), NEW k, k \in 1 .. Len(san[p].calls)
       PROVE  \E q \in p + 1 .. Len(san) : san[q].role = "tool" /\ san[q].of = san[p].calls[k].id
  <2>1. PICK i : KeptAt(p, i) /\ k \in 1 .. Len(ms[i].calls)
      BY <1>15, <1>24
  <2>2. i \in 1 .. Len(ms) /\ san[p] = ms[i] /\ ~SentBefore(ms, i) /\ p = at[i] + 1
      BY <2>1 DEF KeptAt
  <2> DEFINE id == ms[i].calls[k].id
  <2>3. Len(san) \in Nat
      BY <1>3
  <2>4. CASE id \in Answered(ms)
    <3>1. PICK j \in 1 .. Len(ms) : ms[j].role = "tool" /\ ms[j].of = id /\ ~SentBefore(ms, j)
      <4> HIDE DEF id
      <4> QED BY <1>5, <2>4, FirstResult
    <3>2. PICK l \in 1 .. j - 1 : \E m \in 1 .. Len(ms[l].calls) : ms[l].calls[m].id = ms[j].of
        BY <1>5, <3>1
    <3>3. l \in 1 .. Len(ms) /\ l < j
        BY <1>1, <3>1, <3>2
    <3>4. l = i
        BY <1>5, <2>1, <2>2, <3>1, <3>2, <3>3
    <3>5. KeptAt(at[j] + 1, j)
        BY <1>9, <3>1
    <3>6. p < at[j] + 1
        BY <1>12, <2>1, <3>3, <3>4, <3>5
    <3>7. at[j] + 1 \in 1 .. Len(san) /\ san[at[j] + 1] = ms[j]
        BY <3>5 DEF KeptAt
    <3>8. at[j] + 1 \in p + 1 .. Len(san)
        BY <1>24, <2>3, <3>6, <3>7
    <3> QED BY <2>2, <3>1, <3>7, <3>8
  <2>5. CASE id \notin Answered(ms)
    <3>1. PICK j : FilledAt(at[i] + j, i, j, k)
        BY <1>10, <2>1, <2>2, <2>5
    <3>2. san[at[i] + j].role = "tool" /\ san[at[i] + j].of = id /\ at[i] + 1 < at[i] + j
        BY <1>11, <3>1
    <3>3. at[i] + j \in 1 .. Len(san)
        BY <3>1 DEF FilledAt
    <3>4. at[i] + j \in p + 1 .. Len(san)
        BY <1>24, <2>2, <2>3, <3>2, <3>3
    <3> QED BY <2>2, <3>2, <3>4
  <2> QED BY <2>4, <2>5
<1>25. ASSUME NEW q, q \in 1 .. Len(san), san[q].role = "tool" PROVE san[q].result = Told(ms, san[q].of)
  <2>1. CASE \E i : KeptAt(q, i)
    <3>1. PICK i : KeptAt(q, i)
        BY <2>1
    <3>2. i \in 1 .. Len(ms) /\ san[q] = ms[i] /\ ~SentBefore(ms, i)
        BY <3>1 DEF KeptAt
    <3> QED BY <1>5, <1>25, <3>2, TellsFirst
  <2>2. CASE \E i, j, k : FilledAt(q, i, j, k)
    <3>1. san[q].result = "interrupted" /\ san[q].of \notin Answered(ms)
        BY <1>11, <1>22, <2>2
    <3> QED BY <3>1, TellsNothing
  <2> QED BY <1>8, <1>25, <2>1, <2>2
<1>26. ASSUME NEW i, i \in 1 .. Len(ms), ms[i].role # "tool" PROVE \E p \in 1 .. Len(san) : san[p] = ms[i]
  <2>1. KeptAt(at[i] + 1, i)
      BY <1>9, <1>13, <1>26
  <2> QED BY <2>1 DEF KeptAt
<1>27. ASSUME NEW p, p \in 1 .. Len(san), san[p].role # "tool" PROVE \E i \in 1 .. Len(ms) : san[p] = ms[i]
  <2>1. PICK i : KeptAt(p, i)
      BY <1>8, <1>11, <1>27
  <2> QED BY <2>1 DEF KeptAt
<1>28. Clean(ms, san)
    BY <1>20, <1>23, <1>24, <1>25, <1>26, <1>27 DEF Clean
<1> DEFINE Followed(i, k, x) ==
             \E q \in x + 1 .. Len(san) : /\ san[q].role = "tool" /\ san[q].of = ms[i].calls[k].id
                                          /\ \A y \in x + 1 .. q : san[y].role = "tool"
<1>29. ASSUME NEW i, i \in 1 .. Len(ms), NEW k, k \in 1 .. Len(ms[i].calls), InTime(ms, i, ms[i].calls[k].id),
              NEW x, x \in 1 .. Len(san), san[x] = ms[i]
       PROVE  Followed(i, k, x)
  <2> DEFINE id == ms[i].calls[k].id
  <2>1. KeptAt(x, i)
    <3>1. PICK r : KeptAt(x, r) /\ k \in 1 .. Len(ms[r].calls)
        BY <1>15, <1>29
    <3>2. r \in 1 .. Len(ms) /\ ms[r] = ms[i]
        BY <1>29, <3>1 DEF KeptAt
    <3>3. r = i
        BY <1>5, <1>29, <3>1, <3>2
    <3> QED BY <3>1, <3>3
  <2>2. x = at[i] + 1 /\ ~SentBefore(ms, i) /\ at[i] \in Nat /\ Len(san) \in Nat /\ Len(bs[i]) \in Nat
      BY <1>1, <1>3, <1>7, <1>4, <1>29, <2>1 DEF KeptAt
  <2>3. ASSUME NEW y, y \in 1 .. Len(san), x < y, NEW r, KeptAt(y, r) PROVE r \in 1 .. Len(ms) /\ i < r
    <3>1. r \in 1 .. Len(ms)
        BY <2>3 DEF KeptAt
    <3>2. r # i /\ ~(r < i)
      <4>1. r = i => y = x
          BY <1>12, <2>1, <2>3
      <4>2. r < i => y < x
          BY <1>12, <2>1, <2>3
      <4>3. x \in Nat /\ y \in Nat
          BY <1>29, <2>3
      <4> QED BY <2>3, <4>1, <4>2, <4>3
    <3> QED BY <1>1, <1>29, <3>1, <3>2
  <2>4. CASE id \in Answered(ms)
    <3>1. PICK j \in 1 .. Len(ms) : ms[j].role = "tool" /\ ms[j].of = id /\ ~SentBefore(ms, j)
      <4> HIDE DEF id
      <4> QED BY <1>5, <2>4, FirstResult
    <3>2. PICK l \in 1 .. j - 1 : \E m \in 1 .. Len(ms[l].calls) : ms[l].calls[m].id = ms[j].of
        BY <1>5, <3>1
    <3>3. l \in 1 .. Len(ms) /\ l < j
        BY <1>1, <3>1, <3>2
    <3>4. l = i
        BY <1>5, <1>29, <3>1, <3>2, <3>3
    <3>5. KeptAt(at[j] + 1, j)
        BY <1>9, <3>1
    <3> DEFINE q == at[j] + 1
    <3>6. x < q /\ q \in 1 .. Len(san) /\ san[q] = ms[j]
      <4>1. KeptAt(q, j)
          BY <3>5
      <4>2. x < q
        <5> HIDE DEF q
        <5> QED BY <1>12, <2>1, <3>3, <3>4, <4>1
      <4> QED BY <4>1, <4>2 DEF KeptAt
    <3>7. q \in x + 1 .. Len(san)
      <4> HIDE DEF q, id, KeptAt, FilledAt
      <4>1. x \in Nat /\ Len(san) \in Nat
          BY <1>29, <2>2
      <4> QED BY <3>6, <4>1
    <3>8. KeptAt(q, j)
        BY <3>5
    <3> HIDE DEF q
    <3>9. ASSUME NEW y \in x + 1 .. q PROVE san[y].role = "tool"
      <4>1. y \in 1 .. Len(san) /\ x < y /\ y <= q /\ y \in Nat /\ q \in Nat
        <5>1. x \in Nat /\ 1 <= x /\ q \in Nat /\ q <= Len(san) /\ Len(san) \in Nat
            BY <1>29, <2>2, <3>6
        <5> HIDE DEF KeptAt, FilledAt, id
        <5> QED BY <3>9, <5>1
      <4>2. CASE \E r : KeptAt(y, r)
        <5>1. PICK r : KeptAt(y, r)
            BY <4>2
        <5>2. r \in 1 .. Len(ms) /\ i < r
            BY <2>3, <4>1, <5>1
        <5>3. ~(j < r)
          <6>1. j < r => q < y
              BY <1>12, <3>8, <5>1
          <6> QED BY <4>1, <6>1
        <5>4. ms[r].role = "tool"
          <6>1. CASE r = j
              BY <3>1, <6>1
          <6>2. CASE r < j
              BY <1>29, <3>1, <5>2, <6>2 DEF InTime
          <6> QED BY <1>1, <5>2, <5>3, <6>1, <6>2
        <5> QED BY <5>1, <5>4 DEF KeptAt
      <4>3. CASE \E r, z, m : FilledAt(y, r, z, m)
          BY <1>11, <4>3
      <4> QED BY <1>8, <4>1, <4>2, <4>3
    <3> QED BY <3>1, <3>6, <3>7, <3>9
  <2>5. CASE id \notin Answered(ms)
    <3>1. PICK j : FilledAt(at[i] + j, i, j, k)
        BY <1>10, <1>29, <2>2, <2>5
    <3> DEFINE q == at[i] + j
    <3>2. san[q].role = "tool" /\ san[q].of = id /\ x < q
        BY <1>11, <2>2, <3>1
    <3>3. q \in 1 .. Len(san) /\ j \in 1 .. Len(bs[i])
        BY <3>1 DEF FilledAt
    <3>4. q \in x + 1 .. Len(san)
      <4> HIDE DEF q, id, KeptAt, FilledAt
      <4>1. x \in Nat /\ Len(san) \in Nat
          BY <1>29, <2>2
      <4> QED BY <3>2, <3>3, <4>1
    <3>5. q <= at[i] + Len(bs[i])
        BY <2>2, <3>3
    <3> HIDE DEF q
    <3>6. ASSUME NEW y \in x + 1 .. q PROVE san[y].role = "tool"
      <4>1. y \in 1 .. Len(san) /\ x < y /\ y <= q /\ y \in Nat /\ q \in Nat
        <5>1. x \in Nat /\ 1 <= x /\ q \in Nat /\ q <= Len(san) /\ Len(san) \in Nat
            BY <1>29, <2>2, <3>3
        <5> HIDE DEF KeptAt, FilledAt, id
        <5> QED BY <3>6, <5>1
      <4>2. CASE \E r : KeptAt(y, r)
        <5>1. PICK r : KeptAt(y, r)
            BY <4>2
        <5>2. r \in 1 .. Len(ms) /\ i < r
            BY <2>3, <4>1, <5>1
        <5>3. at[i] + Len(bs[i]) <= at[r] /\ y = at[r] + 1 /\ at[r] \in Nat
            BY <1>4, <1>29, <5>1, <5>2 DEF KeptAt
        <5> QED BY <2>2, <3>5, <4>1, <5>3
      <4>3. CASE \E r, z, m : FilledAt(y, r, z, m)
          BY <1>11, <4>3
      <4> QED BY <1>8, <4>1, <4>2, <4>3
    <3> QED BY <3>2, <3>4, <3>6
  <2> QED BY <2>4, <2>5
<1>30. StaysInTime(ms, san)
  <2>1. ASSUME NEW i \in 1 .. Len(ms), NEW k \in 1 .. Len(ms[i].calls), InTime(ms, i, ms[i].calls[k].id),
               NEW x \in 1 .. Len(san), san[x] = ms[i]
        PROVE  Followed(i, k, x)
    <3> HIDE DEF Followed
    <3> QED BY ONLY <1>29, <2>1
  <2> QED BY <2>1 DEF StaysInTime
<1> QED BY <1>28, <1>30 DEF san

-----------------------------------------------------------------------------
(* What a request of clean messages says.                                  *)

\* The message each part of sent comes from, in order, and what comes of each message once.
Spoken(row, san, sent) ==
    /\ row \in [1 .. Len(sent) -> 1 .. Len(san)]
    /\ \A p, q \in 1 .. Len(sent) : row[p] < row[q] => p < q
    /\ \A p, q \in 1 .. Len(sent) :
            /\ row[p] = row[q] /\ sent[p].is = sent[q].is /\ sent[p].id = sent[q].id
            /\ sent[p].is \in {"call", "output", "thinking", "reasoning"}
            => p = q
    /\ \A p \in 1 .. Len(sent) :
            /\ sent[p].is = "call" => \E k \in 1 .. Len(san[row[p]].calls) :
                                          sent[p] = CallPart(san[row[p]].calls[k])
            /\ sent[p].is = "output" => san[row[p]].role = "tool" /\ sent[p] = OutPart(san[row[p]])
            /\ sent[p].is = "thinking" => /\ ThoughtBack(san[row[p]])
                                          /\ sent[p] = Thought("thinking", san[row[p]].thought, san[row[p]].signed)
            /\ sent[p].is = "reasoning" => /\ ItemsBack(san[row[p]])
                                           /\ sent[p] = Thought("reasoning", san[row[p]].reasoning, 0)
    /\ \A i \in 1 .. Len(san) :
            /\ \A k \in 1 .. Len(san[i].calls) :
                    \E p \in 1 .. Len(sent) : row[p] = i /\ sent[p] = CallPart(san[i].calls[k])
            /\ san[i].role = "tool" => \E p \in 1 .. Len(sent) : row[p] = i /\ sent[p] = OutPart(san[i])
            /\ ThoughtBack(san[i]) =>
                    \E p \in 1 .. Len(sent) : row[p] = i /\ sent[p] = Thought("thinking", san[i].thought, san[i].signed)
            /\ ItemsBack(san[i]) =>
                    \E p \in 1 .. Len(sent) : row[p] = i /\ sent[p] = Thought("reasoning", san[i].reasoning, 0)

LEMMA Speaks ==
  ASSUME AdapterOK, NEW san, Transcript(san), NEW sent, sent = Said(Request(san))
  PROVE  sent \in Seq(PartType) /\ \E row : Spoken(row, san, sent)
<1> DEFINE cs == Contents(san)
<1>0. Messages(san)
    BY DEF Transcript
<1>1. /\ cs \in Seq(Seq(PartType)) /\ Len(cs) = Len(san) /\ Len(san) \in Nat
      /\ \A i \in 1 .. Len(san) : cs[i] = Content(san[i]) /\ cs[i] \in Seq(PartType)
    BY <1>0, ContentsType
<1>2. sent = FlattenSeq(cs)
    BY <1>0, RequestSays
<1>3. \A i \in 1 .. Len(san) : Carries(san[i], cs[i])
    BY <1>0, <1>1, Carried DEF Messages
<1> HIDE DEF cs
<1>4. sent \in Seq(PartType)
    BY <1>1, <1>2, FlattenType
<1>5. PICK at : Places(at, cs, sent)
    BY <1>1, <1>2, FlattenPlaces
<1>6. /\ at \in [1 .. Len(san) -> Nat]
      /\ \A i \in 1 .. Len(san) : \A j \in 1 .. Len(cs[i]) :
              at[i] + j \in 1 .. Len(sent) /\ sent[at[i] + j] = cs[i][j]
      /\ \A p \in 1 .. Len(sent) : \E i \in 1 .. Len(san) : \E j \in 1 .. Len(cs[i]) : p = at[i] + j
      /\ \A i, k \in 1 .. Len(san) : i < k => at[i] + Len(cs[i]) <= at[k]
    BY <1>1, <1>5 DEF Places
<1>7. \A i \in 1 .. Len(san) : Len(cs[i]) \in Nat /\ at[i] \in Nat
  <2>1. \A i \in 1 .. Len(san) : cs[i] \in Seq(PartType)
      BY <1>1
  <2>2. \A i \in 1 .. Len(san) : Len(cs[i]) \in Nat
      BY <2>1
  <2>3. \A i \in 1 .. Len(san) : at[i] \in Nat
      BY <1>6
  <2> QED BY <2>2, <2>3
<1> DEFINE In(p, i) == i \in 1 .. Len(san) /\ \E j \in 1 .. Len(cs[i]) : p = at[i] + j
           row == [p \in 1 .. Len(sent) |-> CHOOSE i : In(p, i)]
<1>8. \A p \in 1 .. Len(sent) : \E i : In(p, i)
    BY <1>6
<1>9. ASSUME NEW p \in 1 .. Len(sent)
      PROVE  In(p, row[p]) /\ row[p] \in 1 .. Len(san)
  <2>1. In(p, row[p])
    <3> HIDE DEF In
    <3> QED BY <1>8
  <2> QED BY <2>1
<1>10. ASSUME NEW p, NEW q, NEW i, NEW k, In(p, i), In(q, k), i < k PROVE p < q
  <2>1. PICK j \in 1 .. Len(cs[i]) : p = at[i] + j
      BY <1>10
  <2>2. PICK l \in 1 .. Len(cs[k]) : q = at[k] + l
      BY <1>10
  <2>3. at[i] + Len(cs[i]) <= at[k] /\ Len(cs[i]) \in Nat /\ at[i] \in Nat /\ at[k] \in Nat /\ Len(cs[k]) \in Nat
      BY <1>6, <1>7, <1>10
  <2> QED BY <2>1, <2>2, <2>3
<1>11. ASSUME NEW p \in 1 .. Len(sent), NEW i, In(p, i) PROVE row[p] = i
  <2>1. In(p, row[p]) /\ row[p] \in 1 .. Len(san) /\ i \in 1 .. Len(san)
      BY <1>9, <1>11
  <2> HIDE DEF In, row
  <2>2. ~(row[p] < i)
    <3> DEFINE r == row[p]
    <3>1. In(p, r) /\ In(p, i) /\ p \in Nat
        BY <1>11, <2>1
    <3>2. ~(r < i)
      <4> HIDE DEF r
      <4>1. r < i => p < p
          BY <1>10, <3>1
      <4> QED BY <3>1, <4>1
    <3> QED BY <3>2
  <2>3. ~(i < row[p])
    <3> DEFINE r == row[p]
    <3>1. In(p, r) /\ In(p, i) /\ p \in Nat
        BY <1>11, <2>1
    <3>2. ~(i < r)
      <4> HIDE DEF r
      <4>1. i < r => p < p
          BY <1>10, <3>1
      <4> QED BY <3>1, <4>1
    <3> QED BY <3>2
  <2> QED BY <1>1, <2>1, <2>2, <2>3
<1>12. row \in [1 .. Len(sent) -> 1 .. Len(san)]
  <2>1. ASSUME NEW p \in 1 .. Len(sent) PROVE (CHOOSE i : In(p, i)) \in 1 .. Len(san)
    <3>1. In(p, CHOOSE i : In(p, i))
      <4> HIDE DEF In
      <4> QED BY <1>8
    <3> QED BY <3>1
  <2> HIDE DEF In
  <2> QED BY <2>1
<1>13. ASSUME NEW p \in 1 .. Len(sent)
       PROVE  /\ row[p] \in 1 .. Len(san)
              /\ \E j \in 1 .. Len(cs[row[p]]) : p = at[row[p]] + j /\ sent[p] = cs[row[p]][j]
  <2>1. In(p, row[p])
      BY <1>9
  <2> HIDE DEF row
  <2> QED BY <1>6, <2>1
<1>14. ASSUME NEW i \in 1 .. Len(san), NEW j \in 1 .. Len(cs[i])
       PROVE  \E p \in 1 .. Len(sent) : row[p] = i /\ sent[p] = cs[i][j]
  <2>1. at[i] + j \in 1 .. Len(sent) /\ sent[at[i] + j] = cs[i][j] /\ In(at[i] + j, i)
      BY <1>6
  <2> HIDE DEF row, In
  <2> QED BY <1>11, <2>1
<1>15. ASSUME NEW p \in 1 .. Len(sent), NEW q \in 1 .. Len(sent), row[p] < row[q] PROVE p < q
  <2> HIDE DEF row, In
  <2> QED BY <1>9, <1>10, <1>15
<1> HIDE DEF row, In
<1>16. ASSUME NEW p \in 1 .. Len(sent)
       PROVE  /\ sent[p].is = "call" => \E k \in 1 .. Len(san[row[p]].calls) :
                                            sent[p] = CallPart(san[row[p]].calls[k])
              /\ sent[p].is = "output" => san[row[p]].role = "tool" /\ sent[p] = OutPart(san[row[p]])
              /\ sent[p].is = "thinking" => /\ ThoughtBack(san[row[p]])
                                            /\ sent[p] = Thought("thinking", san[row[p]].thought, san[row[p]].signed)
              /\ sent[p].is = "reasoning" => /\ ItemsBack(san[row[p]])
                                             /\ sent[p] = Thought("reasoning", san[row[p]].reasoning, 0)
  <2>1. PICK j \in 1 .. Len(cs[row[p]]) : sent[p] = cs[row[p]][j]
      BY <1>13
  <2>2. Carries(san[row[p]], cs[row[p]])
      BY <1>3, <1>13
  <2> DEFINE m == san[row[p]]
             c == cs[row[p]]
  <2>3. Carries(m, c) /\ j \in 1 .. Len(c) /\ sent[p] = c[j]
      BY <2>1, <2>2
  <2>4. m.calls \in Seq(CallType)
      BY <1>0, <1>13 DEF Messages, Message, MessageType
  <2> HIDE DEF m, c
  <2>5. PICK a \in Nat : CallsAt(m, c, a)
      BY <2>3 DEF Carries
  <2>6. ASSUME c[j].is = "call" PROVE \E k \in 1 .. Len(m.calls) : c[j] = CallPart(m.calls[k])
    <3>1. j - a \in 1 .. Len(m.calls)
        BY <2>3, <2>5, <2>6 DEF CallsAt
    <3>2. c[a + (j - a)] = CallPart(m.calls[j - a])
        BY <2>5, <3>1 DEF CallsAt
    <3>3. a + (j - a) = j
        BY <2>3, <2>5
    <3> QED BY <3>1, <3>2, <3>3
  <2>7. c[j].is = "output" => m.role = "tool" /\ c[j] = OutPart(m)
      BY <2>3 DEF Carries, ResultAt
  <2>8. /\ c[j].is = "thinking" => ThoughtBack(m) /\ c[j] = Thought("thinking", m.thought, m.signed)
        /\ c[j].is = "reasoning" => ItemsBack(m) /\ c[j] = Thought("reasoning", m.reasoning, 0)
      BY <2>3 DEF Carries, ThoughtFirst
  <2> QED BY <2>3, <2>6, <2>7, <2>8 DEF m
<1>17. ASSUME NEW i \in 1 .. Len(san)
       PROVE  /\ \A k \in 1 .. Len(san[i].calls) :
                      \E p \in 1 .. Len(sent) : row[p] = i /\ sent[p] = CallPart(san[i].calls[k])
              /\ san[i].role = "tool" => \E p \in 1 .. Len(sent) : row[p] = i /\ sent[p] = OutPart(san[i])
              /\ ThoughtBack(san[i]) =>
                      \E p \in 1 .. Len(sent) : row[p] = i /\ sent[p] = Thought("thinking", san[i].thought, san[i].signed)
              /\ ItemsBack(san[i]) =>
                      \E p \in 1 .. Len(sent) : row[p] = i /\ sent[p] = Thought("reasoning", san[i].reasoning, 0)
  <2>1. Carries(san[i], cs[i])
      BY <1>3
  <2>2. PICK a \in Nat : CallsAt(san[i], cs[i], a)
      BY <2>1 DEF Carries
  <2>3. ASSUME NEW k \in 1 .. Len(san[i].calls)
        PROVE  \E p \in 1 .. Len(sent) : row[p] = i /\ sent[p] = CallPart(san[i].calls[k])
    <3>1. cs[i][a + k] = CallPart(san[i].calls[k]) /\ a + Len(san[i].calls) <= Len(cs[i])
        BY <2>2 DEF CallsAt
    <3>2. Len(san[i].calls) \in Nat
      <4>1. san[i].calls \in Seq(CallType)
          BY <1>0 DEF Messages, Message, MessageType
      <4> QED BY <4>1
    <3>3. a + k \in 1 .. Len(cs[i])
        BY <1>7, <3>1, <3>2
    <3>4. \E p \in 1 .. Len(sent) : row[p] = i /\ sent[p] = cs[i][a + k]
        BY <1>14, <3>3
    <3> QED BY <3>1, <3>4
  <2>4. ASSUME san[i].role = "tool"
        PROVE  \E p \in 1 .. Len(sent) : row[p] = i /\ sent[p] = OutPart(san[i])
    <3>1. PICK o \in 1 .. Len(cs[i]) : cs[i][o] = OutPart(san[i])
        BY <2>1, <2>4 DEF Carries, ResultAt
    <3> QED BY <1>14, <3>1
  <2>5. ASSUME ThoughtBack(san[i])
        PROVE  \E p \in 1 .. Len(sent) : row[p] = i /\ sent[p] = Thought("thinking", san[i].thought, san[i].signed)
    <3>1. 1 \in 1 .. Len(cs[i]) /\ cs[i][1] = Thought("thinking", san[i].thought, san[i].signed)
        BY <2>1, <2>5 DEF Carries, ThoughtFirst
    <3> QED BY <1>14, <3>1
  <2>6. ASSUME ItemsBack(san[i])
        PROVE  \E p \in 1 .. Len(sent) : row[p] = i /\ sent[p] = Thought("reasoning", san[i].reasoning, 0)
    <3>1. 1 \in 1 .. Len(cs[i]) /\ cs[i][1] = Thought("reasoning", san[i].reasoning, 0)
        BY <2>1, <2>6 DEF Carries, ThoughtFirst
    <3> QED BY <1>14, <3>1
  <2> QED BY <2>3, <2>4, <2>5, <2>6
<1>18. ASSUME NEW p \in 1 .. Len(sent), NEW q \in 1 .. Len(sent),
              row[p] = row[q], sent[p].is = sent[q].is, sent[p].id = sent[q].id,
              sent[p].is \in {"call", "output", "thinking", "reasoning"}
       PROVE  p = q
  <2> DEFINE i == row[p]
  <2>0. i \in 1 .. Len(san)
      BY <1>13
  <2>1. PICK j \in 1 .. Len(cs[i]) : p = at[i] + j /\ sent[p] = cs[i][j]
      BY <1>13
  <2>2. PICK l \in 1 .. Len(cs[i]) : q = at[i] + l /\ sent[q] = cs[i][l]
      BY <1>13, <1>18
  <2> HIDE DEF i
  <2>3. Carries(san[i], cs[i])
      BY <1>3, <2>0
  <2>4. j = l
    <3>1. CASE sent[p].is = "call"
      <4>1. PICK a \in Nat : CallsAt(san[i], cs[i], a)
          BY <2>3 DEF Carries
      <4>2. j - a \in 1 .. Len(san[i].calls) /\ l - a \in 1 .. Len(san[i].calls)
          BY <1>18, <2>1, <2>2, <3>1, <4>1 DEF CallsAt
      <4>3. a + (j - a) = j /\ a + (l - a) = l
          BY <4>1, <2>1, <2>2
      <4>4. cs[i][j] = CallPart(san[i].calls[j - a]) /\ cs[i][l] = CallPart(san[i].calls[l - a])
        <5>1. \A k \in 1 .. Len(san[i].calls) : cs[i][a + k] = CallPart(san[i].calls[k])
            BY <4>1 DEF CallsAt
        <5> QED BY <4>2, <4>3, <5>1
      <4>5. san[i].calls[j - a].id = san[i].calls[l - a].id
          BY <1>18, <2>1, <2>2, <4>4 DEF CallPart, Part
      <4>6. j - a = l - a
        <5>1. \A x, y \in 1 .. Len(san[i].calls) : san[i].calls[x].id = san[i].calls[y].id => x = y
            BY <2>0 DEF Transcript
        <5> QED BY <4>2, <4>5, <5>1
      <4> QED BY <4>3, <4>6
    <3>2. CASE sent[p].is = "output"
      <4>1. cs[i][j].is = "output" /\ cs[i][l].is = "output"
          BY <1>18, <2>1, <2>2, <3>2
      <4> QED BY <2>3, <4>1 DEF Carries, ResultAt
    <3>3. CASE sent[p].is \in {"thinking", "reasoning"}
      <4>1. cs[i][j].is \in {"thinking", "reasoning"} /\ cs[i][l].is \in {"thinking", "reasoning"}
          BY <1>18, <2>1, <2>2, <3>3
      <4>2. j = 1 /\ l = 1
          BY <2>3, <4>1 DEF Carries, ThoughtFirst
      <4> QED BY <4>2
    <3> QED BY <1>18, <3>1, <3>2, <3>3
  <2> QED BY <2>1, <2>2, <2>4
<1>19. Spoken(row, san, sent)
    BY <1>12, <1>15, <1>16, <1>17, <1>18 DEF Spoken
<1> QED BY <1>4, <1>19

-----------------------------------------------------------------------------
(* The last request, and the transcript it was made of.                    *)

Requested == request = Request(Sanitize(asked))

LEMMA PartsAre ==
  /\ \A c : CallPart(c).is = "call" /\ CallPart(c).id = c.id /\ CallPart(c).signed = c.signed
  /\ \A m : OutPart(m).is = "output" /\ OutPart(m).id = m.of /\ OutPart(m).result = m.result
  /\ \A n, b : /\ Thought("thinking", n, b).is = "thinking" /\ Thought("thinking", n, b).id = <<n, b>>
               /\ Thought("reasoning", n, b).is = "reasoning" /\ Thought("reasoning", n, b).id = <<n, b>>
BY DEF CallPart, OutPart, Thought, Part

\* What is sent, and of which message of the sanitized transcript.
LEMMA SentIs ==
  ASSUME AdapterOK, Transcript(asked), Requested
  PROVE  /\ Sent \in Seq(PartType) /\ Clean(asked, Sanitize(asked))
         /\ Len(Sent) \in Nat /\ DOMAIN Sent = 1 .. Len(Sent)
         /\ \E row : Spoken(row, Sanitize(asked), Sent)
<1>1. Clean(asked, Sanitize(asked))
    BY Sanitized
<1>2. Transcript(Sanitize(asked))
    BY <1>1 DEF Clean
<1>3. Sent = Said(Request(Sanitize(asked)))
    BY DEF Sent, Said, Lists, Requested
<1>4. Sent \in Seq(PartType) /\ \E row : Spoken(row, Sanitize(asked), Sent)
    BY <1>2, <1>3, Speaks
<1> QED BY <1>1, <1>4, LenProperties

LEMMA PairedOf == ASSUME AdapterOK, Transcript(asked), Requested PROVE Paired
<1> DEFINE san == Sanitize(asked)
           sent == Sent
<1>1. /\ Clean(asked, san) /\ Len(sent) \in Nat /\ DOMAIN sent = 1 .. Len(sent)
      /\ \E row : Spoken(row, san, sent)
    BY SentIs
<1> HIDE DEF san, sent
<1>2. PICK row : Spoken(row, san, sent)
    BY <1>1
<1>3. Transcript(san)
    BY <1>1 DEF Clean
<1>4. /\ \A p \in 1 .. Len(sent) : row[p] \in 1 .. Len(san)
      /\ \A p, q \in 1 .. Len(sent) : row[p] < row[q] => p < q
    BY <1>2 DEF Spoken
<1>5. Len(san) \in Nat
    BY <1>3 DEF Transcript, Messages
<1>6. ASSUME NEW p \in 1 .. Len(sent), sent[p].is = "call"
      PROVE  \E k \in 1 .. Len(san[row[p]].calls) : sent[p].id = san[row[p]].calls[k].id
  <2>1. PICK k \in 1 .. Len(san[row[p]].calls) : sent[p] = CallPart(san[row[p]].calls[k])
      BY <1>2, <1>6 DEF Spoken
  <2>2. sent[p].id = san[row[p]].calls[k].id
      BY <2>1, PartsAre
  <2> QED BY <2>2
<1>7. ASSUME NEW q \in 1 .. Len(sent), sent[q].is = "output"
      PROVE  /\ san[row[q]].role = "tool" /\ sent[q].id = san[row[q]].of
             /\ sent[q].result = Told(asked, sent[q].id)
  <2>1. san[row[q]].role = "tool" /\ sent[q] = OutPart(san[row[q]])
      BY <1>2, <1>7 DEF Spoken
  <2>2. sent[q].id = san[row[q]].of /\ sent[q].result = san[row[q]].result
      BY <2>1, PartsAre
  <2>3. san[row[q]].result = Told(asked, san[row[q]].of)
      BY <1>1, <1>4, <2>1 DEF Clean
  <2> QED BY <2>1, <2>2, <2>3
<1>8. ASSUME NEW p \in 1 .. Len(sent), sent[p].is = "call"
      PROVE  \E q \in p + 1 .. Len(sent) : /\ sent[q].is = "output" /\ sent[q].id = sent[p].id
                                           /\ sent[q].result = Told(asked, sent[p].id)
  <2>1. PICK k \in 1 .. Len(san[row[p]].calls) : sent[p].id = san[row[p]].calls[k].id
      BY <1>6, <1>8
  <2>2. row[p] \in 1 .. Len(san)
      BY <1>4
  <2>3. PICK i \in row[p] + 1 .. Len(san) : san[i].role = "tool" /\ san[i].of = san[row[p]].calls[k].id
      BY <1>1, <2>1, <2>2 DEF Clean
  <2>4. i \in 1 .. Len(san) /\ row[p] < i
      BY <1>5, <2>2, <2>3
  <2>5. PICK q \in 1 .. Len(sent) : row[q] = i /\ sent[q] = OutPart(san[i])
      BY <1>2, <2>3, <2>4 DEF Spoken
  <2>6. sent[q].is = "output" /\ sent[q].id = sent[p].id
      BY <2>1, <2>3, <2>5, PartsAre
  <2>7. sent[q].result = Told(asked, sent[p].id)
      BY <1>7, <2>6
  <2>8. q \in p + 1 .. Len(sent)
    <3>1. p < q
        BY <1>4, <2>4, <2>5
    <3> QED BY <1>1, <3>1
  <2> QED BY <2>6, <2>7, <2>8
<1>9. ASSUME NEW q \in 1 .. Len(sent), sent[q].is = "output"
      PROVE  \E p \in 1 .. q - 1 : sent[p].is = "call" /\ sent[p].id = sent[q].id
  <2>1. san[row[q]].role = "tool" /\ sent[q].id = san[row[q]].of /\ row[q] \in 1 .. Len(san)
      BY <1>4, <1>7, <1>9
  <2>2. PICK j \in 1 .. row[q] - 1 : \E k \in 1 .. Len(san[j].calls) : san[j].calls[k].id = san[row[q]].of
      BY <1>3, <2>1 DEF Transcript
  <2>3. PICK k \in 1 .. Len(san[j].calls) : san[j].calls[k].id = san[row[q]].of
      BY <2>2
  <2>4. j \in 1 .. Len(san) /\ j < row[q]
      BY <1>5, <2>1, <2>2
  <2>5. PICK p \in 1 .. Len(sent) : row[p] = j /\ sent[p] = CallPart(san[j].calls[k])
      BY <1>2, <2>4 DEF Spoken
  <2>6. sent[p].is = "call" /\ sent[p].id = sent[q].id
      BY <2>1, <2>3, <2>5, PartsAre
  <2>7. p \in 1 .. q - 1
    <3>1. p < q
        BY <1>4, <2>4, <2>5
    <3> QED BY <1>1, <3>1
  <2> QED BY <2>6, <2>7
<1>10. ASSUME NEW p \in 1 .. Len(sent), NEW q \in 1 .. Len(sent), sent[p].is = sent[q].is,
              sent[p].is \in {"call", "output"}, sent[p].id = sent[q].id
       PROVE  p = q
  <2>0. row[p] \in 1 .. Len(san) /\ row[q] \in 1 .. Len(san)
      BY <1>4
  <2>1. row[p] = row[q]
    <3>1. CASE sent[p].is = "call"
      <4>1. PICK k \in 1 .. Len(san[row[p]].calls) : sent[p].id = san[row[p]].calls[k].id
          BY <1>6, <3>1
      <4>2. PICK l \in 1 .. Len(san[row[q]].calls) : sent[q].id = san[row[q]].calls[l].id
          BY <1>6, <1>10, <3>1
      <4>3. san[row[p]].calls[k].id = san[row[q]].calls[l].id
          BY <1>10, <4>1, <4>2
      <4>4. \A i, j \in 1 .. Len(san) : \A x \in 1 .. Len(san[i].calls), y \in 1 .. Len(san[j].calls) :
                san[i].calls[x].id = san[j].calls[y].id => i = j /\ x = y
          BY <1>3 DEF Transcript
      <4> QED BY <2>0, <4>1, <4>2, <4>3, <4>4
    <3>2. CASE sent[p].is = "output"
      <4>1. /\ san[row[p]].role = "tool" /\ san[row[q]].role = "tool"
            /\ san[row[p]].of = san[row[q]].of
          BY <1>7, <1>10, <3>2
      <4> QED BY <1>1, <2>0, <4>1 DEF Clean
    <3> QED BY <1>10, <3>1, <3>2
  <2> QED BY <1>2, <1>10, <2>1 DEF Spoken
<1> HIDE DEF Spoken
<1> QED BY <1>1, <1>8, <1>9, <1>10 DEF Paired, sent

-----------------------------------------------------------------------------
(* The transcript, and the answers the model made.                         *)

\* The n-th answer: its calls are numbered by it; its thought is told in its blocks.
Answering(n, a) ==
    /\ a \in MessageType /\ a.role = "assistant" /\ a.image = FALSE /\ a.of = NoId /\ a.result = "none"
    /\ Len(a.calls) <= MaxCalls
    /\ \A k \in 1 .. Len(a.calls) : a.calls[k].id = <<n, k>> /\ a.calls[k].whole = FALSE
    /\ a.reasoning \in {0, n}

\* The row of the n-th answer made: all of it, its thinking blocks as one, but for a
\* signature or reasoning items beside no thought.
StoredRow(n, e, r) ==
    /\ r \in MessageType /\ r.role = "assistant" /\ r.text = e.answer.text
    /\ r.calls = [i \in DOMAIN e.answer.calls |-> [e.answer.calls[i] EXCEPT !.whole = TRUE]]
    /\ r.thought = ThoughtOf(n, e.thinking)
    /\ r.signed = IF r.thought # 0 \/ store = "memory" THEN Signature(e.thinking) ELSE 0
    /\ r.reasoning = IF r.thought # 0 \/ store = "memory" THEN e.answer.reasoning ELSE 0

LEMMA ThoughtOfIs ==
  ASSUME NEW n \in Nat \ {0}, NEW t
  PROVE  /\ ThoughtOf(n, t) \in {0, n}
         /\ ThoughtOf(n, t) # 0 <=> \E b \in DOMAIN t : t[b].told
BY DEF ThoughtOf

\* The signature that is kept is the first.
LEMMA SignatureIs ==
  ASSUME NEW t \in Seq(BlockType)
  PROVE  /\ Signature(t) \in Nat
         /\ \A b : b \in FirstSigned(t) <=> b = Signature(t) /\ b # 0
<1> DEFINE F == FirstSigned(t)
<1>1. DOMAIN t = 1 .. Len(t) /\ Len(t) \in Nat
    OBVIOUS
<1>2. \A b \in F : b \in Nat /\ b # 0
    BY <1>1 DEF FirstSigned
<1>3. ASSUME NEW b \in F, NEW c \in F PROVE b = c
  <2>1. /\ b \in 1 .. Len(t) /\ t[b].signed /\ \A d \in 1 .. b - 1 : ~t[d].signed
        /\ c \in 1 .. Len(t) /\ t[c].signed /\ \A d \in 1 .. c - 1 : ~t[d].signed
      BY <1>1, <1>3 DEF FirstSigned
  <2>2. ~(b < c) /\ ~(c < b)
      BY <1>1, <2>1
  <2> QED BY <1>1, <2>1, <2>2
<1> HIDE DEF F
<1>4. CASE F = {}
  <2>1. Signature(t) = 0
      BY <1>4 DEF Signature, F
  <2> QED BY <1>4, <2>1 DEF F
<1>5. CASE F # {}
  <2>1. Signature(t) \in F
      BY <1>5 DEF Signature, F
  <2> QED BY <1>2, <1>3, <2>1 DEF F
<1> QED BY <1>4, <1>5

\* Every answer made has its row, and every row of an answer was made, in order.
History ==
    /\ made \in Seq([answer : MessageType, thinking : Seq(BlockType), row : 1 .. Len(rows)]) /\ Len(made) <= MaxAnswers
    /\ \A n \in 1 .. Len(made) : /\ Answering(n, made[n].answer)
                                 /\ StoredRow(n, made[n], rows[made[n].row])
    /\ \A i \in 1 .. Len(rows) : rows[i].role = "assistant" => \E n \in 1 .. Len(made) : made[n].row = i
    /\ \A n, k \in 1 .. Len(made) : n < k => made[n].row < made[k].row

\* Results come after their calls; only answers have calls and thoughts.
RowsOK ==
    /\ Messages(rows)
    /\ \A i \in 1 .. Len(rows) : rows[i].role = "tool" =>
            \E j \in 1 .. i - 1 : \E k \in 1 .. Len(rows[j].calls) : rows[j].calls[k].id = rows[i].of
    /\ \A i \in 1 .. Len(rows) : rows[i].role # "assistant" => rows[i].thought = 0 /\ rows[i].reasoning = 0

\* Row i holds the n-th answer.
Holding(i, n) ==
    /\ made[n].row = i /\ Answering(n, made[n].answer)
    /\ StoredRow(n, made[n], rows[i])
    /\ Len(rows[i].calls) = Len(made[n].answer.calls) /\ Len(rows[i].calls) \in Nat
    /\ \A k \in 1 .. Len(rows[i].calls) :
            /\ rows[i].calls[k].id = <<n, k>>
            /\ rows[i].calls[k].signed = made[n].answer.calls[k].signed

LEMMA HistoryIs ==
  ASSUME History, RowsOK
  PROVE  /\ Len(rows) \in Nat /\ Len(made) \in Nat /\ Len(made) <= MaxAnswers /\ DOMAIN made = 1 .. Len(made)
         /\ made \in Seq([answer : MessageType, thinking : Seq(BlockType), row : 1 .. Len(rows)])
         /\ \A n \in 1 .. Len(made) : /\ made[n].row \in 1 .. Len(rows) /\ made[n].answer \in MessageType
                                        /\ made[n].thinking \in Seq(BlockType)
<1>1. Len(rows) \in Nat
    BY DEF RowsOK, Messages
<1> DEFINE R == [answer : MessageType, thinking : Seq(BlockType), row : 1 .. Len(rows)]
<1>2. made \in Seq(R) /\ Len(made) <= MaxAnswers
    BY DEF History
<1>3. \A n \in 1 .. Len(made) : made[n] \in R
  <2> HIDE DEF R
  <2> QED BY <1>2
<1>4. Len(made) \in Nat /\ DOMAIN made = 1 .. Len(made)
  <2> HIDE DEF R
  <2> QED BY <1>2, LenProperties
<1> QED BY <1>1, <1>2, <1>3, <1>4

\* A row of an answer, and the answer.
LEMMA RowOfAnswer ==
  ASSUME History, RowsOK, NEW i, i \in 1 .. Len(rows), rows[i].role = "assistant"
  PROVE  \E n \in 1 .. Len(made) : Holding(i, n)
<1>1. PICK n \in 1 .. Len(made) : made[n].row = i
    BY DEF History
<1> DEFINE a == made[n].answer
           r == rows[i]
<1>2. /\ Answering(n, a) /\ StoredRow(n, made[n], r)
      /\ r.calls = [k \in DOMAIN a.calls |-> [a.calls[k] EXCEPT !.whole = TRUE]]
    BY <1>1 DEF History, StoredRow
<1> HIDE DEF a, r
<1>3. a.calls \in Seq(CallType)
    BY <1>2 DEF Answering, MessageType
<1>4. /\ Len(a.calls) \in Nat /\ DOMAIN a.calls = 1 .. Len(a.calls)
      /\ \A k \in 1 .. Len(a.calls) : a.calls[k] \in CallType
    BY <1>3
<1>5. r.calls = [k \in 1 .. Len(a.calls) |-> [a.calls[k] EXCEPT !.whole = TRUE]]
    BY <1>2, <1>4
<1>6. r.calls \in Seq(CallType)
    BY <1>2 DEF StoredRow, MessageType
<1>7. Len(r.calls) \in Nat /\ DOMAIN r.calls = 1 .. Len(r.calls)
    BY <1>6
<1>8. DOMAIN r.calls = 1 .. Len(a.calls)
    BY <1>5
<1>9. Len(r.calls) = Len(a.calls)
    BY <1>4, <1>7, <1>8
<1>10. ASSUME NEW k \in 1 .. Len(r.calls)
       PROVE  r.calls[k].id = <<n, k>> /\ r.calls[k].signed = a.calls[k].signed
  <2>1. k \in 1 .. Len(a.calls) /\ a.calls[k] \in CallType
      BY <1>4, <1>9
  <2>2. r.calls[k] = [a.calls[k] EXCEPT !.whole = TRUE]
      BY <1>5, <2>1
  <2>3. r.calls[k].id = a.calls[k].id /\ r.calls[k].signed = a.calls[k].signed
      BY <2>1, <2>2 DEF CallType
  <2>4. a.calls[k].id = <<n, k>>
      BY <1>2, <2>1 DEF Answering
  <2> QED BY <2>3, <2>4
<1>11. /\ Answering(n, a) /\ StoredRow(n, made[n], r) /\ Len(r.calls) = Len(a.calls) /\ Len(r.calls) \in Nat
       /\ \A k \in 1 .. Len(r.calls) : r.calls[k].id = <<n, k>> /\ r.calls[k].signed = a.calls[k].signed
    BY <1>2, <1>7, <1>9, <1>10
<1> QED BY <1>1, <1>11 DEF a, r, Holding

LEMMA TranscriptRows == ASSUME History, RowsOK PROVE Transcript(rows)
<1>1. Messages(rows) /\ Len(rows) \in Nat /\ \A i \in 1 .. Len(rows) : Message(rows[i])
    BY DEF RowsOK, Messages
<1>2. ASSUME NEW i, i \in 1 .. Len(rows), NEW k, k \in 1 .. Len(rows[i].calls)
      PROVE  rows[i].role = "assistant"
  <2>1. rows[i].role # "assistant" => rows[i].calls = <<>>
      BY <1>1, <1>2 DEF Message
  <2> QED BY <1>2, <2>1
<1>3. ASSUME NEW i, NEW j, i \in 1 .. Len(rows), j \in 1 .. Len(rows),
             NEW k, NEW l, k \in 1 .. Len(rows[i].calls), l \in 1 .. Len(rows[j].calls),
             rows[i].calls[k].id = rows[j].calls[l].id
      PROVE  i = j /\ k = l
  <2>0. ASSUME NEW x, x \in 1 .. Len(rows), NEW y, y \in 1 .. Len(rows[x].calls)
        PROVE  \E n \in 1 .. Len(made) : made[n].row = x /\ rows[x].calls[y].id = <<n, y>>
    <3>1. rows[x].role = "assistant"
        BY <1>2, <2>0
    <3>2. PICK n \in 1 .. Len(made) : Holding(x, n)
        BY <2>0, <3>1, RowOfAnswer
    <3> QED BY <2>0, <3>2 DEF Holding
  <2>1. PICK n \in 1 .. Len(made) : made[n].row = i /\ rows[i].calls[k].id = <<n, k>>
      BY <1>3, <2>0
  <2>2. PICK m \in 1 .. Len(made) : made[m].row = j /\ rows[j].calls[l].id = <<m, l>>
      BY <1>3, <2>0
  <2>3. n = m /\ k = l
    <3>1. <<n, k>> = <<m, l>>
        BY <1>3, <2>1, <2>2
    <3> QED BY <3>1
  <2> QED BY <2>1, <2>2, <2>3
<1>4. ASSUME NEW i, NEW j, i \in 1 .. Len(rows), j \in 1 .. Len(rows)
      PROVE  /\ rows[i].thought # 0 /\ rows[i].thought = rows[j].thought => i = j
             /\ rows[i].reasoning # 0 /\ rows[i].reasoning = rows[j].reasoning => i = j
  <2>1. ASSUME NEW x, x \in 1 .. Len(rows), rows[x].thought # 0 \/ rows[x].reasoning # 0
        PROVE  \E n \in 1 .. Len(made) : /\ made[n].row = x
                                         /\ rows[x].thought \in {0, n} /\ rows[x].reasoning \in {0, n}
    <3>1. rows[x].role = "assistant"
        BY <2>1 DEF RowsOK
    <3>2. PICK n \in 1 .. Len(made) : Holding(x, n)
        BY <2>1, <3>1, RowOfAnswer
    <3>3. made[n].row = x /\ Answering(n, made[n].answer) /\ StoredRow(n, made[n], rows[x])
        BY <3>2 DEF Holding
    <3>4. rows[x].thought \in {0, n}
      <4>1. rows[x].thought = ThoughtOf(n, made[n].thinking)
          BY <3>3 DEF StoredRow
      <4>2. n \in Nat \ {0}
          BY HistoryIs
      <4> QED BY <4>1, <4>2, ThoughtOfIs
    <3>5. rows[x].reasoning \in {0, n}
        BY <3>3 DEF Answering, StoredRow
    <3> QED BY <3>3, <3>4, <3>5
  <2>2. ASSUME rows[i].thought # 0, rows[i].thought = rows[j].thought PROVE i = j
    <3>1. PICK n \in 1 .. Len(made) : made[n].row = i /\ rows[i].thought \in {0, n}
        BY <1>4, <2>1, <2>2
    <3>2. PICK m \in 1 .. Len(made) : made[m].row = j /\ rows[j].thought \in {0, m}
        BY <1>4, <2>1, <2>2
    <3> QED BY <2>2, <3>1, <3>2
  <2>3. ASSUME rows[i].reasoning # 0, rows[i].reasoning = rows[j].reasoning PROVE i = j
    <3>1. PICK n \in 1 .. Len(made) : made[n].row = i /\ rows[i].reasoning \in {0, n}
        BY <1>4, <2>1, <2>3
    <3>2. PICK m \in 1 .. Len(made) : made[m].row = j /\ rows[j].reasoning \in {0, m}
        BY <1>4, <2>1, <2>3
    <3> QED BY <2>3, <3>1, <3>2
  <2> QED BY <2>2, <2>3
<1>5. \A i, j \in 1 .. Len(rows) : \A k \in 1 .. Len(rows[i].calls), l \in 1 .. Len(rows[j].calls) :
            rows[i].calls[k].id = rows[j].calls[l].id => i = j /\ k = l
    BY <1>3
<1>6. \A i, j \in 1 .. Len(rows) :
            /\ rows[i].thought # 0 /\ rows[i].thought = rows[j].thought => i = j
            /\ rows[i].reasoning # 0 /\ rows[i].reasoning = rows[j].reasoning => i = j
    BY <1>4
<1>7. \A i \in 1 .. Len(rows) : rows[i].role = "tool" =>
            \E j \in 1 .. i - 1 : \E k \in 1 .. Len(rows[j].calls) : rows[j].calls[k].id = rows[i].of
    BY DEF RowsOK
<1> QED BY <1>1, <1>5, <1>6, <1>7 DEF Transcript

\* The rows a request was made of.
AskedOK == asked \in Seq(MessageType) /\ Len(asked) <= Len(rows) /\ \A i \in 1 .. Len(asked) : asked[i] = rows[i]

LEMMA TranscriptAsked == ASSUME History, RowsOK, AskedOK PROVE Transcript(asked)
<1>1. Transcript(rows)
    BY TranscriptRows
<1>2. /\ asked \in Seq(MessageType) /\ Len(asked) \in Nat /\ Len(rows) \in Nat
      /\ \A i \in 1 .. Len(asked) : i \in 1 .. Len(rows) /\ asked[i] = rows[i]
    BY <1>1 DEF AskedOK, Transcript, Messages
<1>3. Messages(asked)
    BY <1>1, <1>2 DEF Transcript, Messages
<1>4. \A i, j \in 1 .. Len(asked) : \A k \in 1 .. Len(asked[i].calls), l \in 1 .. Len(asked[j].calls) :
            asked[i].calls[k].id = asked[j].calls[l].id => i = j /\ k = l
  <2>1. \A i, j \in 1 .. Len(rows) : \A k \in 1 .. Len(rows[i].calls), l \in 1 .. Len(rows[j].calls) :
              rows[i].calls[k].id = rows[j].calls[l].id => i = j /\ k = l
      BY <1>1 DEF Transcript
  <2>2. SUFFICES ASSUME NEW i \in 1 .. Len(asked), NEW j \in 1 .. Len(asked),
                        NEW k \in 1 .. Len(asked[i].calls), NEW l \in 1 .. Len(asked[j].calls),
                        asked[i].calls[k].id = asked[j].calls[l].id
                 PROVE  i = j /\ k = l
      OBVIOUS
  <2>3. i \in 1 .. Len(rows) /\ asked[i] = rows[i] /\ j \in 1 .. Len(rows) /\ asked[j] = rows[j]
      BY <1>2
  <2>4. /\ k \in 1 .. Len(rows[i].calls) /\ l \in 1 .. Len(rows[j].calls)
        /\ rows[i].calls[k].id = rows[j].calls[l].id
      BY <2>2, <2>3
  <2>5. \A y \in 1 .. Len(rows[i].calls), z \in 1 .. Len(rows[j].calls) :
              rows[i].calls[y].id = rows[j].calls[z].id => i = j /\ y = z
      BY <2>1, <2>3
  <2> QED BY <2>4, <2>5
<1>5. ASSUME NEW i \in 1 .. Len(asked), asked[i].role = "tool"
      PROVE  \E j \in 1 .. i - 1 : \E k \in 1 .. Len(asked[j].calls) : asked[j].calls[k].id = asked[i].of
  <2>1. PICK j \in 1 .. i - 1 : \E k \in 1 .. Len(rows[j].calls) : rows[j].calls[k].id = rows[i].of
      BY <1>1, <1>2, <1>5 DEF Transcript
  <2>2. asked[j] = rows[j] /\ asked[i] = rows[i]
      BY <1>2, <2>1
  <2> QED BY <2>1, <2>2
<1>6. \A i, j \in 1 .. Len(asked) :
            /\ asked[i].thought # 0 /\ asked[i].thought = asked[j].thought => i = j
            /\ asked[i].reasoning # 0 /\ asked[i].reasoning = asked[j].reasoning => i = j
    BY <1>1, <1>2 DEF Transcript
<1> QED BY <1>3, <1>4, <1>5, <1>6 DEF Transcript

LEMMA ThinkingOf == ASSUME AdapterOK, History, RowsOK, AskedOK, Requested PROVE ThinkingGoesOn
<1> DEFINE san == Sanitize(asked)
           sent == Sent
           past == {n \in DOMAIN made : made[n].row <= Len(asked)}
           told == {n \in past : \E b \in DOMAIN made[n].thinking : made[n].thinking[b].told}
           items == {n \in past : made[n].answer.reasoning # 0}
           back(is) == {sent[p].id : p \in {q \in DOMAIN sent : sent[q].is = is}}
<1>0. Transcript(asked)
    BY TranscriptAsked
<1>1. /\ Clean(asked, san) /\ Len(sent) \in Nat /\ DOMAIN sent = 1 .. Len(sent)
      /\ \E row : Spoken(row, san, sent)
    BY <1>0, SentIs
<1> HIDE DEF san, sent
<1>2. PICK row : Spoken(row, san, sent)
    BY <1>1
<1>3. Transcript(san)
    BY <1>1 DEF Clean
<1>4. \A p \in 1 .. Len(sent) : row[p] \in 1 .. Len(san)
    BY <1>2 DEF Spoken
<1>5. /\ Len(asked) \in Nat /\ Len(rows) \in Nat /\ Len(made) \in Nat /\ DOMAIN made = 1 .. Len(made)
      /\ \A i \in 1 .. Len(asked) : i \in 1 .. Len(rows) /\ asked[i] = rows[i]
      /\ \A n \in 1 .. Len(made) : made[n].row \in 1 .. Len(rows)
  <2>1. Len(asked) \in Nat /\ Len(rows) \in Nat
      BY DEF AskedOK, RowsOK, Messages
  <2>2. \A i \in 1 .. Len(asked) : i \in 1 .. Len(rows) /\ asked[i] = rows[i]
      BY <2>1 DEF AskedOK
  <2>3. made \in Seq([answer : MessageType, thinking : Seq(BlockType), row : 1 .. Len(rows)])
      BY DEF History
  <2>4. Len(made) \in Nat /\ DOMAIN made = 1 .. Len(made) /\ \A n \in 1 .. Len(made) : made[n].row \in 1 .. Len(rows)
    <3>1. Len(made) \in Nat /\ DOMAIN made = 1 .. Len(made)
        BY <2>3
    <3>2. \A n \in 1 .. Len(made) : made[n] \in [answer : MessageType, thinking : Seq(BlockType), row : 1 .. Len(rows)]
      <4> DEFINE R == [answer : MessageType, thinking : Seq(BlockType), row : 1 .. Len(rows)]
      <4>1. made \in Seq(R)
          BY <2>3
      <4>2. \A n \in 1 .. Len(made) : made[n] \in R
        <5> HIDE DEF R
        <5> QED BY <4>1
      <4> QED BY <4>2
    <3> QED BY <3>1, <3>2
  <2> QED BY <2>1, <2>2, <2>4
\* An answer whose row was asked is among what is said, and every answer that is.
<1>6. ASSUME NEW x, x \in 1 .. Len(san), san[x].role = "assistant"
      PROVE  \E n \in past : /\ Answering(n, made[n].answer) /\ StoredRow(n, made[n], san[x])
                             /\ \A k \in 1 .. Len(san[x].calls) :
                                  /\ san[x].calls[k].id = <<n, k>>
                                  /\ san[x].calls[k].signed = made[n].answer.calls[k].signed
  <2>1. PICK i \in 1 .. Len(asked) : san[x] = asked[i]
      BY <1>1, <1>6 DEF Clean
  <2>2. i \in 1 .. Len(rows) /\ rows[i] = san[x] /\ rows[i].role = "assistant"
      BY <1>5, <1>6, <2>1
  <2>3. PICK n \in 1 .. Len(made) : Holding(i, n)
      BY <2>2, RowOfAnswer
  <2>4. n \in past /\ Answering(n, made[n].answer)
      BY <1>5, <2>1, <2>3 DEF Holding
  <2>5. /\ StoredRow(n, made[n], san[x])
        /\ \A k \in 1 .. Len(san[x].calls) :
                /\ san[x].calls[k].id = <<n, k>>
                /\ san[x].calls[k].signed = made[n].answer.calls[k].signed
      BY <2>2, <2>3 DEF Holding
  <2> QED BY <2>4, <2>5
<1>7. ASSUME NEW n, n \in past
      PROVE  /\ n \in 1 .. Len(made) /\ Answering(n, made[n].answer)
             /\ \E x \in 1 .. Len(san) : san[x].role = "assistant" /\ StoredRow(n, made[n], san[x])
  <2>1. n \in 1 .. Len(made) /\ made[n].row \in 1 .. Len(asked)
      BY <1>5, <1>7
  <2>2. Answering(n, made[n].answer) /\ StoredRow(n, made[n], rows[made[n].row])
      BY <2>1 DEF History
  <2>3. asked[made[n].row] = rows[made[n].row] /\ rows[made[n].row].role = "assistant"
      BY <1>5, <2>1, <2>2 DEF StoredRow
  <2>4. PICK x \in 1 .. Len(san) : san[x] = asked[made[n].row]
      BY <1>1, <2>1, <2>3 DEF Clean
  <2> QED BY <2>1, <2>2, <2>3, <2>4
\* Whose thought a row has, and which signature.
<1>12. ASSUME NEW n \in past, NEW m, StoredRow(n, made[n], m)
       PROVE  /\ m.thought \in {0, n} /\ n # 0
              /\ m.thought # 0 <=> n \in told
              /\ \A b : b \in FirstSigned(made[n].thinking) <=> b = Signature(made[n].thinking) /\ b # 0
              /\ m.thought # 0 => m.signed = Signature(made[n].thinking)
  <2>1. n \in Nat \ {0} /\ made[n].thinking \in Seq(BlockType)
      BY <1>7, HistoryIs
  <2>2. m.thought = ThoughtOf(n, made[n].thinking)
      BY <1>12 DEF StoredRow
  <2>3. m.thought \in {0, n} /\ (m.thought # 0 <=> n \in told)
      BY <2>1, <2>2, ThoughtOfIs
  <2>4. \A b : b \in FirstSigned(made[n].thinking) <=> b = Signature(made[n].thinking) /\ b # 0
      BY <2>1, SignatureIs
  <2>5. m.thought # 0 => m.signed = Signature(made[n].thinking)
      BY <1>12 DEF StoredRow
  <2> QED BY <2>1, <2>3, <2>4, <2>5
<1> HIDE DEF past, told
<1>8. ASSUME adapter = "anthropic"
      PROVE  back("thinking") = UNION {{<<n, b>> : b \in FirstSigned(made[n].thinking)} : n \in told}
  <2>1. ASSUME NEW p \in 1 .. Len(sent), sent[p].is = "thinking"
        PROVE  \E n \in told : \E b \in FirstSigned(made[n].thinking) : sent[p].id = <<n, b>>
    <3>1. ThoughtBack(san[row[p]]) /\ sent[p] = Thought("thinking", san[row[p]].thought, san[row[p]].signed)
        BY <1>2, <2>1 DEF Spoken
    <3> DEFINE m == san[row[p]]
    <3>2. m.role = "assistant" /\ m.thought # 0 /\ m.signed # 0
        BY <3>1 DEF ThoughtBack
    <3>3. PICK n \in past : StoredRow(n, made[n], m)
        BY <1>4, <1>6, <3>2
    <3>4. sent[p].id = <<m.thought, m.signed>>
        BY <3>1, PartsAre DEF m
    <3> HIDE DEF m
    <3>5. n \in told /\ m.thought = n /\ m.signed \in FirstSigned(made[n].thinking)
        BY <1>12, <3>2, <3>3
    <3> QED BY <3>4, <3>5
  <2>2. ASSUME NEW n \in told, NEW b \in FirstSigned(made[n].thinking)
        PROVE  \E p \in 1 .. Len(sent) : sent[p].is = "thinking" /\ sent[p].id = <<n, b>>
    <3>0. n \in past
        BY DEF told
    <3>1. PICK x \in 1 .. Len(san) : san[x].role = "assistant" /\ StoredRow(n, made[n], san[x])
        BY <1>7, <3>0
    <3>2. san[x].thought = n /\ san[x].thought # 0 /\ san[x].signed = b /\ b # 0
        BY <1>12, <3>0, <3>1
    <3>3. ThoughtBack(san[x])
        BY <1>8, <3>1, <3>2 DEF ThoughtBack
    <3>4. PICK p \in 1 .. Len(sent) : sent[p] = Thought("thinking", san[x].thought, san[x].signed)
        BY <1>2, <3>3 DEF Spoken
    <3>5. sent[p].is = "thinking" /\ sent[p].id = <<n, b>>
        BY <3>2, <3>4, PartsAre
    <3> QED BY <3>5
  <2>3. ASSUME NEW y \in back("thinking")
        PROVE  y \in UNION {{<<n, b>> : b \in FirstSigned(made[n].thinking)} : n \in told}
    <3>1. PICK p \in 1 .. Len(sent) : sent[p].is = "thinking" /\ sent[p].id = y
        BY <1>1
    <3>2. PICK n \in told : \E b \in FirstSigned(made[n].thinking) : y = <<n, b>>
        BY <2>1, <3>1
    <3>3. y \in {<<n, b>> : b \in FirstSigned(made[n].thinking)}
        BY <3>2
    <3> HIDE DEF back
    <3> QED BY <3>3
  <2>4. ASSUME NEW y \in UNION {{<<n, b>> : b \in FirstSigned(made[n].thinking)} : n \in told}
        PROVE  y \in back("thinking")
    <3>1. PICK n \in told : \E b \in FirstSigned(made[n].thinking) : y = <<n, b>>
        OBVIOUS
    <3>2. PICK p \in 1 .. Len(sent) : sent[p].is = "thinking" /\ sent[p].id = y
        BY <2>2, <3>1
    <3> QED BY <1>1, <3>2
  <2> HIDE DEF back
  <2> QED BY <2>3, <2>4
<1>9. ASSUME adapter = "openai"
      PROVE  back("reasoning") = {<<n, 0>> : n \in IF store = "memory" THEN items ELSE items \cap told}
  <2>1. ASSUME NEW p \in 1 .. Len(sent), sent[p].is = "reasoning"
        PROVE  \E n \in items : sent[p].id = <<n, 0>> /\ (store = "memory" \/ n \in told)
    <3>1. ItemsBack(san[row[p]]) /\ sent[p] = Thought("reasoning", san[row[p]].reasoning, 0)
        BY <1>2, <2>1 DEF Spoken
    <3> DEFINE m == san[row[p]]
    <3>2. m.role = "assistant" /\ m.reasoning # 0
        BY <3>1 DEF ItemsBack
    <3>3. PICK n \in past : Answering(n, made[n].answer) /\ StoredRow(n, made[n], m)
        BY <1>4, <1>6, <3>2
    <3>4. sent[p].id = <<m.reasoning, 0>>
        BY <3>1, PartsAre DEF m
    <3> HIDE DEF m
    <3>5. /\ m.reasoning = made[n].answer.reasoning /\ made[n].answer.reasoning \in {0, n}
          /\ store = "memory" \/ m.thought # 0
        BY <3>2, <3>3 DEF Answering, StoredRow
    <3>6. store = "memory" \/ n \in told
        BY <1>12, <3>3, <3>5
    <3> QED BY <3>2, <3>4, <3>5, <3>6
  <2>2. ASSUME NEW n \in items, store = "memory" \/ n \in told
        PROVE  \E p \in 1 .. Len(sent) : sent[p].is = "reasoning" /\ sent[p].id = <<n, 0>>
    <3>1. PICK x \in 1 .. Len(san) : san[x].role = "assistant" /\ StoredRow(n, made[n], san[x])
        BY <1>7
    <3>2. store = "memory" \/ san[x].thought # 0
        BY <1>12, <2>2, <3>1
    <3>3. san[x].reasoning = made[n].answer.reasoning
        BY <3>1, <3>2 DEF StoredRow
    <3>4. san[x].reasoning = n /\ san[x].reasoning # 0
        BY <1>7, <3>3 DEF Answering
    <3>5. ItemsBack(san[x])
        BY <1>9, <3>1, <3>4 DEF ItemsBack
    <3>6. PICK p \in 1 .. Len(sent) : sent[p] = Thought("reasoning", san[x].reasoning, 0)
        BY <1>2, <3>5 DEF Spoken
    <3>7. sent[p].is = "reasoning" /\ sent[p].id = <<n, 0>>
        BY <3>4, <3>6, PartsAre
    <3> QED BY <3>7
  <2> DEFINE N == IF store = "memory" THEN items ELSE items \cap told
  <2>3. \A n : n \in N <=> n \in items /\ (store = "memory" \/ n \in told)
      OBVIOUS
  <2> HIDE DEF N, items
  <2>4. back("reasoning") \subseteq {<<n, 0>> : n \in N}
      BY <1>1, <2>1, <2>3
  <2>5. \A n \in N : \E p \in 1 .. Len(sent) : sent[p].is = "reasoning" /\ sent[p].id = <<n, 0>>
      BY <2>2, <2>3
  <2>6. {<<n, 0>> : n \in N} \subseteq back("reasoning")
      BY <1>1, <2>5
  <2> HIDE DEF back
  <2>7. back("reasoning") = {<<n, 0>> : n \in N}
      BY <2>4, <2>6
  <2> QED BY <2>7 DEF N
<1>10. ASSUME NEW p \in DOMAIN sent, NEW q \in DOMAIN sent, sent[p].is = sent[q].is,
              sent[p].is \in {"thinking", "reasoning"}, sent[p].id[1] = sent[q].id[1]
       PROVE  p = q
  <2>0. p \in 1 .. Len(sent) /\ q \in 1 .. Len(sent) /\ row[p] \in 1 .. Len(san) /\ row[q] \in 1 .. Len(san)
      BY <1>1, <1>4
  <2>1. row[p] = row[q]
    <3>1. CASE sent[p].is = "thinking"
      <4>1. /\ ThoughtBack(san[row[p]]) /\ sent[p] = Thought("thinking", san[row[p]].thought, san[row[p]].signed)
            /\ sent[q] = Thought("thinking", san[row[q]].thought, san[row[q]].signed)
        <5>1. \A x \in 1 .. Len(sent) : sent[x].is = "thinking" =>
                  ThoughtBack(san[row[x]]) /\ sent[x] = Thought("thinking", san[row[x]].thought, san[row[x]].signed)
            BY <1>2 DEF Spoken
        <5>2. sent[p].is = "thinking" /\ sent[q].is = "thinking"
            BY <1>10, <3>1
        <5> QED BY <2>0, <5>1, <5>2
      <4>2. sent[p].id[1] = san[row[p]].thought /\ sent[q].id[1] = san[row[q]].thought
          BY <4>1, PartsAre
      <4>3. san[row[p]].thought # 0 /\ san[row[p]].thought = san[row[q]].thought
          BY <1>10, <4>1, <4>2 DEF ThoughtBack
      <4> QED BY <1>3, <2>0, <4>3 DEF Transcript
    <3>2. CASE sent[p].is = "reasoning"
      <4>1. /\ ItemsBack(san[row[p]]) /\ sent[p] = Thought("reasoning", san[row[p]].reasoning, 0)
            /\ sent[q] = Thought("reasoning", san[row[q]].reasoning, 0)
        <5>1. \A x \in 1 .. Len(sent) : sent[x].is = "reasoning" =>
                  ItemsBack(san[row[x]]) /\ sent[x] = Thought("reasoning", san[row[x]].reasoning, 0)
            BY <1>2 DEF Spoken
        <5>2. sent[p].is = "reasoning" /\ sent[q].is = "reasoning"
            BY <1>10, <3>2
        <5> QED BY <2>0, <5>1, <5>2
      <4>2. sent[p].id[1] = san[row[p]].reasoning /\ sent[q].id[1] = san[row[q]].reasoning
          BY <4>1, PartsAre
      <4>3. san[row[p]].reasoning # 0 /\ san[row[p]].reasoning = san[row[q]].reasoning
          BY <1>10, <4>1, <4>2 DEF ItemsBack
      <4> QED BY <1>3, <2>0, <4>3 DEF Transcript
    <3> QED BY <1>10, <3>1, <3>2
  <2> QED BY <1>2, <1>10, <2>0, <2>1 DEF Spoken
<1>11. ASSUME NEW p \in DOMAIN sent, sent[p].is = "call"
       PROVE  sent[p].signed = made[sent[p].id[1]].answer.calls[sent[p].id[2]].signed
  <2>0. p \in 1 .. Len(sent) /\ row[p] \in 1 .. Len(san)
      BY <1>1, <1>4
  <2> DEFINE m == san[row[p]]
  <2>1. PICK k \in 1 .. Len(m.calls) : sent[p] = CallPart(m.calls[k])
      BY <1>2, <1>11, <2>0 DEF Spoken
  <2>2. sent[p].id = m.calls[k].id /\ sent[p].signed = m.calls[k].signed
      BY <2>1, PartsAre
  <2>3. m.role = "assistant"
    <3>1. Message(m)
        BY <1>3, <2>0 DEF Transcript, Messages
    <3> HIDE DEF m
    <3> QED BY <2>1, <3>1 DEF Message
  <2>4. PICK n \in past : \A l \in 1 .. Len(m.calls) :
                              /\ m.calls[l].id = <<n, l>>
                              /\ m.calls[l].signed = made[n].answer.calls[l].signed
      BY <1>6, <2>0, <2>3
  <2> HIDE DEF m
  <2>5. sent[p].id = <<n, k>> /\ sent[p].signed = made[n].answer.calls[k].signed
      BY <2>1, <2>2, <2>4
  <2>6. sent[p].id[1] = n /\ sent[p].id[2] = k
      BY <2>5
  <2> QED BY <2>5, <2>6
<1> HIDE DEF back
<1> QED BY <1>8, <1>9, <1>10, <1>11 DEF ThinkingGoesOn, past, told, items, back, sent

-----------------------------------------------------------------------------
(* Anthropic: the results of an answer are in the turn after it.           *)

NoCall(ps) == ps \in Seq(PartType) /\ \A p \in 1 .. Len(ps) : ps[p].is # "call"

\* A turn is added to a request, or a part to its last one.
Added(w, v, t) ==
    /\ v \in Seq(TurnType) /\ Len(v) = Len(w) + 1 /\ v[Len(v)] = t
    /\ \A i \in 1 .. Len(w) : v[i] = w[i]

Extended(w, v, o) ==
    /\ v \in Seq(TurnType) /\ Len(v) = Len(w) /\ w # <<>> /\ w[Len(w)].role = "user"
    /\ v[Len(w)] = Turn("user", w[Len(w)].parts \o <<o>>)
    /\ \A i \in 1 .. Len(w) - 1 : v[i] = w[i]

LEMMA TurnAdded ==
  ASSUME NEW w, w \in Seq(TurnType), NEW t, t \in TurnType
  PROVE  Added(w, Append(w, t), t)
BY AppendProperties DEF Added

LEMMA AnthropicStep ==
  ASSUME adapter = "anthropic", NEW m, Message(m), NEW w, w \in Seq(TurnType)
  PROVE  /\ m.role \in {"user", "assistant", "tool"}
         /\ m.role = "user" => \E ps : NoCall(ps) /\ Added(w, Adds(w, m), Turn("user", ps))
         /\ m.role = "tool" => IF Joins(w) THEN Extended(w, Adds(w, m), OutPart(m))
                               ELSE Added(w, Adds(w, m), Turn("user", <<OutPart(m)>>))
         /\ m.role = "assistant" => \/ Adds(w, m) = w
                                    \/ Added(w, Adds(w, m), Turn("assistant", Content(m)))
<1>1. m \in MessageType /\ m.role \in {"user", "assistant", "tool"}
    BY DEF Message, MessageType
<1> DEFINE T == Texts(m)
           I == Images(m)
           P == CallParts(m)
           o == OutPart(m)
           v == Adds(w, m)
<1>2. /\ T \in Seq(PartType) /\ I \in Seq(PartType) /\ P \in Seq(PartType) /\ o \in PartType
      /\ Part("text") \in PartType
    BY <1>1, PartTypes
<1>3. v = AnthropicAdds(w, m)
    BY DEF Adds
<1>4. ASSUME NEW role \in {"user", "assistant"}, NEW ps, ps \in Seq(PartType)
      PROVE  Turn(role, ps) \in TurnType
    BY <1>4 DEF Turn, TurnType
<1>5. <<o>> \in Seq(PartType)
    BY <1>2
<1>6. CASE m.role = "user"
  <2>1. v = Append(w, Turn("user", T \o I))
      BY <1>3, <1>6 DEF AnthropicAdds
  <2>2. T \o I \in Seq(PartType)
    <3> HIDE DEF T, I
    <3> QED BY <1>2, ConcatProperties
  <2>3. ASSUME NEW p \in 1 .. Len(T \o I) PROVE (T \o I)[p].is # "call"
    <3>1. \A x \in 1 .. Len(T) : T[x].is # "call"
        BY DEF Texts, Part
    <3>2. \A x \in 1 .. Len(I) : I[x].is # "call"
        BY DEF Images, Part
    <3> HIDE DEF T, I
    <3>3. /\ Len(T) \in Nat /\ Len(I) \in Nat /\ Len(T \o I) = Len(T) + Len(I)
          /\ (T \o I)[p] = IF p <= Len(T) THEN T[p] ELSE I[p - Len(T)]
        BY <1>2, ConcatProperties
    <3>4. IF p <= Len(T) THEN p \in 1 .. Len(T) ELSE p - Len(T) \in 1 .. Len(I)
        BY <3>3
    <3> QED BY <3>1, <3>2, <3>3, <3>4
  <2>4. NoCall(T \o I)
      BY <2>2, <2>3 DEF NoCall
  <2>5. Added(w, v, Turn("user", T \o I))
    <3> HIDE DEF v, T, I
    <3> QED BY <1>4, <2>1, <2>2, TurnAdded
  <2> QED BY <1>6, <2>4, <2>5
<1>7. CASE m.role = "tool"
  <2>1. CASE ~Joins(w)
    <3>1. v = Append(w, Turn("user", <<o>>))
        BY <1>3, <1>7, <2>1 DEF AnthropicAdds
    <3>2. Added(w, v, Turn("user", <<o>>))
      <4> HIDE DEF v, o
      <4> QED BY <1>4, <1>5, <3>1, TurnAdded
    <3> QED BY <1>7, <2>1, <3>2
  <2>2. CASE Joins(w)
    <3> DEFINE f == Front(w)
               l == Last(w)
               t == Turn("user", l.parts \o <<o>>)
    <3>1. v = f \o <<t>>
        BY <1>3, <1>7, <2>2 DEF AnthropicAdds
    <3>2. w # <<>> /\ l.role = "user"
        BY <2>2 DEF Joins
    <3>3. /\ f \in Seq(TurnType) /\ l \in TurnType /\ Len(w) \in Nat \ {0} /\ Len(f) = Len(w) - 1
          /\ \A i \in 1 .. Len(w) - 1 : f[i] = w[i]
        BY <3>2, FrontLast
    <3>4. l = w[Len(w)]
        BY DEF Last
    <3>5. l.parts \in Seq(PartType)
      <4> HIDE DEF l
      <4> QED BY <3>3 DEF TurnType
    <3>6. t \in TurnType
      <4>1. l.parts \o <<o>> \in Seq(PartType)
        <5> HIDE DEF l, o
        <5> QED BY <1>5, <3>5, ConcatProperties
      <4> HIDE DEF l, o
      <4> QED BY <1>4, <4>1
    <3>7. t = Turn("user", w[Len(w)].parts \o <<o>>)
        BY <3>4
    <3> HIDE DEF f, l, t, v, o
    <3>8. v = Append(f, t)
        BY <3>1, <3>3
    <3>9. Added(f, v, t)
        BY <3>3, <3>6, <3>8, TurnAdded
    <3>10. v \in Seq(TurnType) /\ Len(v) = Len(w) /\ v[Len(w)] = t /\ \A i \in 1 .. Len(w) - 1 : v[i] = w[i]
        BY <3>3, <3>9 DEF Added
    <3>11. Extended(w, v, o)
        BY <3>2, <3>4, <3>7, <3>10 DEF Extended
    <3> QED BY <1>7, <2>2, <3>11 DEF v, o
  <2> QED BY <2>1, <2>2
<1>8. CASE m.role = "assistant"
  <2> DEFINE b == Before(m)
             c == Content(m)
             blocks == (IF m.thought # 0 /\ m.signed # 0 THEN <<Thought("thinking", m.thought, m.signed)>> ELSE <<>>)
                       \o Texts(m) \o CallParts(m)
  <2>1. v = IF blocks = <<>> THEN w ELSE Append(w, Turn("assistant", blocks))
      BY <1>3, <1>8 DEF AnthropicAdds
  <2>2. blocks = b \o P
      BY <1>8 DEF Before
  <2>3. c = (b \o P) \o <<>> /\ b \in Seq(PartType) /\ c \in Seq(PartType)
      BY <1>8, Around, Carried DEF Content, After, Ahead, AdapterOK
  <2>4. blocks = c
    <3> HIDE DEF b, P, c, blocks
    <3>1. b \o P \in Seq(PartType)
        BY <1>2, <2>3, ConcatProperties
    <3> QED BY <2>2, <2>3, <3>1, NothingMore
  <2> HIDE DEF blocks, c, v
  <2>5. Added(w, Append(w, Turn("assistant", c)), Turn("assistant", c))
      BY <1>4, <2>3, TurnAdded
  <2>6. v = w \/ Added(w, v, Turn("assistant", c))
      BY <2>1, <2>4, <2>5
  <2> QED BY <1>8, <2>6 DEF c, v
<1> QED BY <1>1, <1>6, <1>7, <1>8

\* Turns stay, an answer's unchanged; and only an answer's has calls.
Grows(w, v) ==
    /\ v \in Seq(TurnType) /\ Len(v) \in {Len(w), Len(w) + 1}
    /\ \A i \in 1 .. Len(w) :
            /\ v[i].role = w[i].role /\ (w[i].role = "assistant" => v[i] = w[i])
            /\ w[i].role # "assistant" /\ NoCall(w[i].parts) => NoCall(v[i].parts)
            /\ \A p \in 1 .. Len(w[i].parts) : p \in 1 .. Len(v[i].parts) /\ v[i].parts[p] = w[i].parts[p]

LEMMA OneMore ==
  ASSUME NEW ps, ps \in Seq(PartType), NEW o, o \in PartType, o.is # "call"
  PROVE  /\ ps \o <<o>> \in Seq(PartType) /\ Len(ps \o <<o>>) = Len(ps) + 1 /\ Len(ps) \in Nat
         /\ (ps \o <<o>>)[Len(ps) + 1] = o
         /\ \A p \in 1 .. Len(ps) : p \in 1 .. Len(ps \o <<o>>) /\ (ps \o <<o>>)[p] = ps[p]
         /\ NoCall(ps) => NoCall(ps \o <<o>>)
<1> DEFINE qs == ps \o <<o>>
<1>1. qs = Append(ps, o)
    OBVIOUS
<1> HIDE DEF qs
<1>2. /\ qs \in Seq(PartType) /\ Len(qs) = Len(ps) + 1 /\ Len(ps) \in Nat /\ qs[Len(ps) + 1] = o
      /\ \A p \in 1 .. Len(ps) : p \in 1 .. Len(qs) /\ qs[p] = ps[p]
    BY <1>1, AppendProperties
<1>3. NoCall(ps) => NoCall(qs)
    BY <1>2 DEF NoCall
<1> QED BY <1>2, <1>3 DEF qs

LEMMA AnthropicGrows ==
  ASSUME adapter = "anthropic", NEW m, Message(m), NEW w, w \in Seq(TurnType), NEW v, v = Adds(w, m)
  PROVE  /\ Grows(w, v)
         /\ Len(v) = Len(w) + 1 => \/ m.role = "assistant" /\ v[Len(v)] = Turn("assistant", Content(m))
                                   \/ v[Len(v)].role = "user" /\ NoCall(v[Len(v)].parts)
<1> DEFINE o == OutPart(m)
<1>0. o \in PartType /\ o.is = "output" /\ o.is # "call"
  <2>1. m \in MessageType
      BY DEF Message
  <2> QED BY <2>1, PartTypes, PartsAre
<1> HIDE DEF o
<1>1. \A i \in 1 .. Len(w) : w[i] \in TurnType /\ w[i].parts \in Seq(PartType)
  <2>1. \A i \in 1 .. Len(w) : w[i] \in TurnType
      OBVIOUS
  <2> QED BY <2>1 DEF TurnType
<1>2. Len(w) \in Nat
    OBVIOUS
<1>3. \A role, ps : Turn(role, ps).role = role /\ Turn(role, ps).parts = ps
    BY DEF Turn
<1>4. \A i \in 1 .. Len(w) : Len(w[i].parts) \in Nat
    BY <1>1
<1>5. Grows(w, w)
    BY <1>2 DEF Grows
<1>6. ASSUME NEW t, Added(w, v, t) PROVE Grows(w, v) /\ v[Len(v)] = t
    BY <1>2, <1>6 DEF Grows, Added
<1>7. ASSUME Extended(w, v, o) PROVE Grows(w, v) /\ Len(v) # Len(w) + 1
  <2> DEFINE n == Len(w)
             ps == w[n].parts
  <2>1. /\ v \in Seq(TurnType) /\ Len(v) = n /\ w[n].role = "user" /\ n \in 1 .. n
        /\ v[n] = Turn("user", ps \o <<o>>) /\ \A i \in 1 .. n - 1 : v[i] = w[i]
    <3>1. Len(w) # 0
        BY <1>7, EmptySeq DEF Extended
    <3> QED BY <1>2, <1>7, <3>1 DEF Extended
  <2>2. v[n].role = "user" /\ v[n].parts = ps \o <<o>>
    <3> DEFINE qs == ps \o <<o>>
    <3>1. v[n] = Turn("user", qs)
        BY <2>1
    <3> HIDE DEF qs, n
    <3>2. v[n].role = "user" /\ v[n].parts = qs
        BY <3>1 DEF Turn
    <3> QED BY <3>2 DEF qs
  <2>3. ps \in Seq(PartType)
      BY <1>1, <2>1
  <2> HIDE DEF ps, n
  <2>4. /\ \A p \in 1 .. Len(ps) : p \in 1 .. Len(v[n].parts) /\ v[n].parts[p] = ps[p]
        /\ NoCall(ps) => NoCall(v[n].parts)
      BY <1>0, <2>2, <2>3, OneMore
  <2>5. ASSUME NEW i \in 1 .. Len(w)
        PROVE  /\ v[i].role = w[i].role /\ (w[i].role = "assistant" => v[i] = w[i])
               /\ w[i].role # "assistant" /\ NoCall(w[i].parts) => NoCall(v[i].parts)
               /\ \A p \in 1 .. Len(w[i].parts) : p \in 1 .. Len(v[i].parts) /\ v[i].parts[p] = w[i].parts[p]
    <3>1. CASE i = n
        BY <2>1, <2>2, <2>4, <3>1 DEF ps
    <3>2. CASE i # n
      <4>1. i \in 1 .. n - 1
          BY <1>2, <3>2 DEF n
      <4>2. v[i] = w[i]
          BY <2>1, <4>1
      <4> QED BY <4>2
    <3> QED BY <3>1, <3>2
  <2> QED BY <1>2, <2>1, <2>5 DEF Grows, n
<1>8. <<o>> \in Seq(PartType) /\ NoCall(<<o>>)
    BY <1>0 DEF NoCall
<1>9. CASE m.role = "user"
  <2>1. PICK ps : NoCall(ps) /\ Added(w, v, Turn("user", ps))
      BY <1>9, AnthropicStep
  <2> QED BY <1>3, <1>6, <2>1
<1>10. CASE m.role = "tool"
  <2>1. IF Joins(w) THEN Extended(w, v, o) ELSE Added(w, v, Turn("user", <<o>>))
      BY <1>10, AnthropicStep DEF o
  <2>2. CASE Joins(w)
      BY <1>7, <2>1, <2>2
  <2>3. CASE ~Joins(w)
    <3>1. Grows(w, v) /\ v[Len(v)] = Turn("user", <<o>>)
        BY <1>6, <2>1, <2>3
    <3> QED BY <1>3, <1>8, <3>1
  <2> QED BY <2>2, <2>3
<1>11. CASE m.role = "assistant"
  <2>1. v = w \/ Added(w, v, Turn("assistant", Content(m)))
      BY <1>11, AnthropicStep
  <2>2. CASE v = w
      BY <1>2, <1>5, <2>2
  <2>3. CASE Added(w, v, Turn("assistant", Content(m)))
      BY <1>6, <1>11, <2>3
  <2> QED BY <2>1, <2>2, <2>3
<1> QED BY <1>9, <1>10, <1>11, AnthropicStep

\* Where a turn with calls comes from.
Origin(san, W, y) ==
    \A k \in 1 .. Len(W[y]) :
        /\ W[y][k].role = "assistant" =>
                \E x \in 1 .. y : /\ san[x].role = "assistant" /\ Len(W[x]) = k /\ W[x][k] = W[y][k]
                                  /\ W[y][k] = Turn("assistant", Content(san[x]))
        /\ W[y][k].role # "assistant" => NoCall(W[y][k].parts)

LEMMA WireGrows ==
  ASSUME adapter = "anthropic", NEW san, Messages(san), NEW W, Wire(san, W)
  PROVE  /\ Len(san) \in Nat /\ \A y \in 0 .. Len(san) : W[y] \in Seq(TurnType) /\ Len(W[y]) \in Nat
         /\ \A y \in 0 .. Len(san) - 1 :
                /\ y + 1 \in 1 .. Len(san) /\ Message(san[y + 1]) /\ W[y + 1] = Adds(W[y], san[y + 1])
                /\ Grows(W[y], W[y + 1])
                /\ Len(W[y + 1]) = Len(W[y]) + 1 =>
                        LET t == W[y + 1][Len(W[y + 1])]
                        IN  \/ san[y + 1].role = "assistant" /\ t = Turn("assistant", Content(san[y + 1]))
                            \/ t.role = "user" /\ NoCall(t.parts)
<1>1. Len(san) \in Nat /\ \A y \in 1 .. Len(san) : Message(san[y])
    BY DEF Messages
<1>2. /\ \A y \in 0 .. Len(san) : W[y] \in Seq(TurnType)
      /\ \A k \in 1 .. Len(san) : W[k] = Adds(W[k - 1], san[k])
    BY DEF Wire
<1>3. \A y \in 0 .. Len(san) : Len(W[y]) \in Nat
    BY <1>2
<1>4. ASSUME NEW y \in 0 .. Len(san) - 1
      PROVE  /\ y + 1 \in 1 .. Len(san) /\ Message(san[y + 1]) /\ W[y + 1] = Adds(W[y], san[y + 1])
             /\ Grows(W[y], W[y + 1])
             /\ Len(W[y + 1]) = Len(W[y]) + 1 =>
                        LET t == W[y + 1][Len(W[y + 1])]
                        IN  \/ san[y + 1].role = "assistant" /\ t = Turn("assistant", Content(san[y + 1]))
                            \/ t.role = "user" /\ NoCall(t.parts)
  <2>1. y + 1 \in 1 .. Len(san) /\ (y + 1) - 1 = y /\ y \in 0 .. Len(san)
      BY <1>1
  <2>2. Message(san[y + 1]) /\ W[y + 1] = Adds(W[y], san[y + 1]) /\ W[y] \in Seq(TurnType)
      BY <1>1, <1>2, <2>1
  <2> QED BY <2>1, <2>2, AnthropicGrows
<1> QED BY <1>1, <1>2, <1>3, <1>4

LEMMA Origins ==
  ASSUME adapter = "anthropic", NEW san, Messages(san), NEW W, Wire(san, W)
  PROVE  Origin(san, W, Len(san))
<1> DEFINE n == Len(san)
           S == {y \in 0 .. n : Origin(san, W, y)}
<1>1. n \in Nat /\ \A y \in 0 .. n : W[y] \in Seq(TurnType) /\ Len(W[y]) \in Nat
    BY WireGrows
<1>2. 0 \in S
  <2>1. W[0] = <<>> /\ Len(W[0]) = 0
      BY DEF Wire
  <2> QED BY <1>1, <2>1 DEF Origin
<1>3. ASSUME NEW y \in 0 .. n - 1, y \in S PROVE y + 1 \in S
  <2> DEFINE w == W[y]
             v == W[y + 1]
             m == san[y + 1]
  <2>1. /\ y + 1 \in 1 .. n /\ Grows(w, v)
        /\ Len(v) = Len(w) + 1 => \/ m.role = "assistant" /\ v[Len(v)] = Turn("assistant", Content(m))
                                  \/ v[Len(v)].role = "user" /\ NoCall(v[Len(v)].parts)
      BY WireGrows
  <2>2. Len(w) \in Nat /\ Len(v) \in Nat /\ Len(v) \in {Len(w), Len(w) + 1} /\ y \in Nat
      BY <1>1, <2>1 DEF Grows
  <2>3. Origin(san, W, y)
      BY <1>3
  <2>4. ASSUME NEW k \in 1 .. Len(v)
        PROVE  /\ v[k].role = "assistant" =>
                    \E x \in 1 .. y + 1 : /\ san[x].role = "assistant" /\ Len(W[x]) = k /\ W[x][k] = v[k]
                                          /\ v[k] = Turn("assistant", Content(san[x]))
               /\ v[k].role # "assistant" => NoCall(v[k].parts)
    <3>1. CASE k \in 1 .. Len(w)
      <4>1. /\ v[k].role = w[k].role /\ (w[k].role = "assistant" => v[k] = w[k])
            /\ w[k].role # "assistant" /\ NoCall(w[k].parts) => NoCall(v[k].parts)
          BY <2>1, <3>1 DEF Grows
      <4>2. /\ w[k].role = "assistant" =>
                \E x \in 1 .. y : /\ san[x].role = "assistant" /\ Len(W[x]) = k /\ W[x][k] = w[k]
                                  /\ w[k] = Turn("assistant", Content(san[x]))
            /\ w[k].role # "assistant" => NoCall(w[k].parts)
          BY <2>3, <3>1 DEF Origin
      <4>3. \A x \in 1 .. y : x \in 1 .. y + 1
          BY <2>2
      <4> HIDE DEF w, v
      <4> QED BY <4>1, <4>2, <4>3
    <3>2. CASE k \notin 1 .. Len(w)
      <4>1. Len(v) = Len(w) + 1 /\ k = Len(v)
          BY <2>2, <3>2
      <4>2. CASE m.role = "assistant" /\ v[k] = Turn("assistant", Content(m))
        <5>1. /\ m.role = "assistant" /\ Len(W[y + 1]) = k /\ W[y + 1][k] = v[k]
              /\ v[k] = Turn("assistant", Content(san[y + 1])) /\ v[k].role = "assistant"
            BY <4>1, <4>2 DEF Turn
        <5>2. y + 1 \in 1 .. y + 1
            BY <2>2
        <5> QED BY <5>1, <5>2
      <4>3. CASE v[k].role = "user" /\ NoCall(v[k].parts)
          BY <4>3
      <4> QED BY <2>1, <4>1, <4>2, <4>3
    <3> QED BY <3>1, <3>2
  <2>5. Origin(san, W, y + 1)
      BY <2>4 DEF Origin
  <2>6. y + 1 \in 0 .. n
      BY <1>1, <2>1
  <2> QED BY <2>5, <2>6
<1>4. 0 .. n \subseteq S
  <2> HIDE DEF S, n
  <2> QED BY <1>1, <1>2, <1>3, UpTo
<1> QED BY <1>1, <1>4

Holds(ps, o) == \E p \in 1 .. Len(ps) : ps[p] = o

\* A result after results joins them; one after an answer begins a turn.
LEMMA JoinsResults ==
  ASSUME NEW w, w \in Seq(TurnType), w # <<>>
  PROVE  /\ w[Len(w)].role = "assistant" => ~Joins(w)
         /\ w[Len(w)].role = "user" /\ 1 \in 1 .. Len(w[Len(w)].parts) /\ w[Len(w)].parts[1].is = "output" => Joins(w)
<1>1. Last(w) = w[Len(w)]
    BY DEF Last
<1>2. <<Part("text")>>[1].is = "text"
    BY DEF Part
<1> QED BY <1>1, <1>2 DEF Joins

\* The results that come next to an answer go in the turn after it, and stay.
LEMMA ResultNext ==
  ASSUME adapter = "anthropic", NEW san, Messages(san), NEW W, Wire(san, W),
         NEW x, x \in 1 .. Len(san), NEW k, k \in 1 .. Len(W[x]), Len(W[x]) = k, W[x][k].role = "assistant",
         NEW q, q \in x + 1 .. Len(san), \A y \in x + 1 .. q : san[y].role = "tool"
  PROVE  /\ k + 1 \in 1 .. Len(W[Len(san)])
         /\ Holds(W[Len(san)][k + 1].parts, OutPart(san[q]))
<1> DEFINE n == Len(san)
           ps(y) == W[y][k + 1].parts
           P(y) == /\ k + 1 \in 1 .. Len(W[y]) /\ W[y][k + 1].role = "user"
                   /\ y <= q => Len(W[y]) = k + 1 /\ 1 \in 1 .. Len(ps(y)) /\ ps(y)[1].is = "output"
                   /\ q <= y => Holds(ps(y), OutPart(san[q]))
           S == {y \in 0 .. n : y <= x \/ P(y)}
<1>1. n \in Nat /\ \A y \in 0 .. n : W[y] \in Seq(TurnType) /\ Len(W[y]) \in Nat
    BY WireGrows
<1>2. x \in Nat /\ q \in Nat /\ x < q /\ q <= n /\ x <= n /\ x \in 0 .. n
    BY <1>1
<1>3. k \in Nat /\ 1 <= k
    BY <1>1, <1>2
<1>4. 0 \in S
    BY <1>1, <1>2
<1>5. ASSUME NEW y \in 0 .. n - 1, y \in S PROVE y + 1 \in S
  <2> DEFINE w == W[y]
             v == W[y + 1]
             m == san[y + 1]
             o == OutPart(m)
  <2>1. y + 1 \in 1 .. n /\ Message(m) /\ v = Adds(w, m) /\ Grows(w, v)
    <3>1. \A z \in 0 .. Len(san) - 1 : /\ z + 1 \in 1 .. Len(san) /\ Message(san[z + 1])
                                         /\ W[z + 1] = Adds(W[z], san[z + 1]) /\ Grows(W[z], W[z + 1])
      <4> HIDE DEF S, P, ps
      <4> QED BY WireGrows
    <3> HIDE DEF S, P, ps
    <3> QED BY <3>1
  <2>2. /\ w \in Seq(TurnType) /\ v \in Seq(TurnType) /\ Len(w) \in Nat /\ Len(v) \in Nat
        /\ y \in Nat /\ y + 1 \in 0 .. n /\ y \in 0 .. n
      BY <1>1, <2>1
  <2>3. o.is = "output" /\ o.is # "call" /\ o \in PartType
    <3>1. m \in MessageType
        BY <2>1 DEF Message
    <3> QED BY <3>1, PartTypes, PartsAre
  <2>4. y + 1 <= q /\ x <= y => m.role = "tool"
    <3>1. y + 1 <= q /\ x <= y => y + 1 \in x + 1 .. q
        BY <1>2, <2>2
    <3> QED BY <3>1
  <2>5. m.role = "tool" => IF Joins(w) THEN Extended(w, v, o) ELSE Added(w, v, Turn("user", <<o>>))
    <3> HIDE DEF w, v
    <3> QED BY <2>1, <2>2, AnthropicStep
  <2>6. w # <<>> => /\ w[Len(w)].role = "assistant" => ~Joins(w)
                    /\ w[Len(w)].role = "user" /\ 1 \in 1 .. Len(w[Len(w)].parts)
                       /\ w[Len(w)].parts[1].is = "output" => Joins(w)
    <3> HIDE DEF w
    <3> QED BY <2>2, JoinsResults
  <2>7. CASE y + 1 <= x
      BY <2>2, <2>7
  <2>8. CASE y = x
    <3>1. Len(w) = k /\ w[k].role = "assistant" /\ w # <<>> /\ m.role = "tool"
        BY <1>2, <1>3, <2>4, <2>8
    <3>2. Added(w, v, Turn("user", <<o>>))
      <4> HIDE DEF w, v, m, o
      <4> QED BY <2>5, <2>6, <3>1
    <3>3. Len(v) = k + 1 /\ v[k + 1] = Turn("user", <<o>>)
        BY <3>1, <3>2 DEF Added
    <3>4. v[k + 1].role = "user" /\ v[k + 1].parts = <<o>>
      <4> HIDE DEF v, o
      <4> QED BY <3>3 DEF Turn
    <3>5. Len(<<o>>) = 1 /\ <<o>>[1] = o /\ Holds(<<o>>, o)
        BY DEF Holds
    <3>6. 1 \in 1 .. Len(ps(y + 1)) /\ ps(y + 1)[1].is = "output" /\ Holds(ps(y + 1), o)
        BY <2>3, <3>4, <3>5
    <3>7. k + 1 \in 1 .. Len(v)
        BY <1>3, <3>3
    <3>8. q <= y + 1 => q = y + 1
        BY <1>2, <2>2, <2>8
    <3>9. P(y + 1)
        BY <3>3, <3>4, <3>6, <3>7, <3>8
    <3> QED BY <2>2, <3>9
  <2>9. CASE x < y
    <3>1. P(y)
        BY <1>2, <1>5, <2>2, <2>9
    <3>2. v[k + 1].role = "user" /\ k + 1 \in 1 .. Len(v) /\ k + 1 \in 1 .. Len(w)
      <4>1. Len(v) \in {Len(w), Len(w) + 1} /\ v[k + 1].role = w[k + 1].role
          BY <2>1, <3>1 DEF Grows
      <4> QED BY <1>3, <2>2, <3>1, <4>1
    <3>3. \A p \in 1 .. Len(ps(y)) : p \in 1 .. Len(ps(y + 1)) /\ ps(y + 1)[p] = ps(y)[p]
        BY <2>1, <3>1 DEF Grows
    <3>4. \A a : Holds(ps(y), a) => Holds(ps(y + 1), a)
        BY <3>3 DEF Holds
    <3>5. CASE y + 1 <= q
      <4>1. y <= q /\ m.role = "tool"
          BY <1>2, <2>2, <2>4, <2>9, <3>5
      <4>2. Len(w) = k + 1 /\ 1 \in 1 .. Len(ps(y)) /\ ps(y)[1].is = "output" /\ w[k + 1].role = "user"
          BY <3>1, <4>1
      <4>3. w # <<>>
          BY <1>3, <4>2
      <4>4. Extended(w, v, o)
        <5> HIDE DEF m, o, v
        <5> QED BY <2>5, <2>6, <4>1, <4>2, <4>3
      <4>5. Len(v) = k + 1 /\ v[k + 1] = Turn("user", ps(y) \o <<o>>)
        <5> HIDE DEF o
        <5> QED BY <4>2, <4>4 DEF Extended
      <4>6. ps(y + 1) = ps(y) \o <<o>>
        <5> DEFINE t == ps(y) \o <<o>>
        <5>1. v[k + 1] = Turn("user", t)
            BY <4>5
        <5> HIDE DEF t
        <5>2. v[k + 1].parts = t
            BY <5>1 DEF Turn
        <5> QED BY <5>2 DEF t
      <4>7. ps(y) \in Seq(PartType)
        <5>1. w[k + 1] \in TurnType
            BY <2>2, <3>2
        <5> QED BY <5>1 DEF TurnType
      <4>8. Holds(ps(y + 1), o)
        <5> DEFINE a == ps(y)
                   b == ps(y + 1)
        <5>1. b = a \o <<o>> /\ a \in Seq(PartType)
            BY <4>6, <4>7
        <5> HIDE DEF a, b, o
        <5>2. Len(b) = Len(a) + 1 /\ Len(a) \in Nat /\ b[Len(a) + 1] = o
            BY <2>3, <5>1, OneMore
        <5>3. Len(a) + 1 \in 1 .. Len(b)
            BY <5>2
        <5>4. Holds(b, o)
            BY <5>2, <5>3 DEF Holds
        <5> QED BY <5>4 DEF b
      <4>9. 1 \in 1 .. Len(ps(y + 1)) /\ ps(y + 1)[1].is = "output"
          BY <3>3, <4>2
      <4>10. q <= y + 1 => q = y + 1
          BY <1>2, <2>2, <3>5
      <4>11. P(y + 1)
          BY <3>2, <4>5, <4>8, <4>9, <4>10
      <4> QED BY <2>2, <4>11
    <3>6. CASE q <= y
      <4>1. Holds(ps(y + 1), OutPart(san[q]))
          BY <3>1, <3>4, <3>6
      <4>2. ~(y + 1 <= q)
          BY <1>2, <2>2, <3>6
      <4>3. P(y + 1)
          BY <3>2, <4>1, <4>2
      <4> QED BY <2>2, <4>3
    <3> QED BY <1>2, <2>2, <3>5, <3>6
  <2> QED BY <1>2, <2>2, <2>7, <2>8, <2>9
<1>6. 0 .. n \subseteq S
  <2> HIDE DEF S, n
  <2> QED BY <1>1, <1>4, <1>5, UpTo
<1>7. n \in S /\ ~(n <= x)
    BY <1>1, <1>2, <1>6
<1>8. P(n)
    BY <1>7
<1> QED BY <1>2, <1>8

LEMMA ResultsOf == ASSUME AdapterOK, Transcript(asked), Requested PROVE ResultsNext
<1> DEFINE ids(i, is) == {request[i].parts[p].id :
                             p \in {q \in DOMAIN request[i].parts : request[i].parts[q].is = is}}
           at(calls) == {i \in DOMAIN asked : \E c \in DOMAIN asked[i].calls : asked[i].calls[c].id \in calls}
           late(calls) == \E i \in at(calls) : \E j, l \in DOMAIN asked :
                              i < j /\ j < l /\ asked[j].role # "tool" /\ asked[l].of \in calls
           san == Sanitize(asked)
           n == Len(san)
<1>1. SUFFICES ASSUME adapter = "anthropic", NEW k \in DOMAIN request,
                      ids(k, "call") # {}, ~late(ids(k, "call"))
               PROVE  k + 1 \in DOMAIN request /\ ids(k, "call") \subseteq ids(k + 1, "output")
    BY DEF ResultsNext
<1>2. Clean(asked, san) /\ StaysInTime(asked, san)
    BY Sanitized
<1>3. Messages(san) /\ Messages(asked) /\ request = Request(san)
    BY <1>2 DEF Clean, Transcript, Requested
<1> HIDE DEF san
<1>4. PICK W : Wire(san, W) /\ request = W[n]
    BY <1>3, WireOf
<1>5. n \in Nat /\ W[n] \in Seq(TurnType)
  <2>1. n \in Nat /\ \A y \in 0 .. n : W[y] \in Seq(TurnType)
      BY <1>1, <1>3, <1>4, WireGrows
  <2>2. n \in 0 .. n
      BY <2>1
  <2> QED BY <2>1, <2>2
<1>6. /\ DOMAIN request = 1 .. Len(request) /\ Len(request) \in Nat
      /\ \A i \in 1 .. Len(request) : request[i].parts \in Seq(PartType)
  <2>1. \A i \in 1 .. Len(request) : request[i] \in TurnType
      BY <1>4, <1>5
  <2> QED BY <1>4, <1>5, <2>1 DEF TurnType
<1>7. /\ DOMAIN asked = 1 .. Len(asked) /\ Len(asked) \in Nat
      /\ \A i \in 1 .. Len(asked) : DOMAIN asked[i].calls = 1 .. Len(asked[i].calls)
  <2>1. \A i \in 1 .. Len(asked) : asked[i] \in MessageType
      BY <1>3 DEF Messages
  <2>2. \A i \in 1 .. Len(asked) : asked[i].calls \in Seq(CallType)
      BY <2>1 DEF MessageType
  <2> QED BY <1>3, <2>2 DEF Messages
<1> DEFINE c == request[k].parts
           calls == ids(k, "call")
<1>8. c \in Seq(PartType) /\ DOMAIN c = 1 .. Len(c) /\ k \in 1 .. Len(request)
  <2>1. k \in 1 .. Len(request)
      BY <1>6
  <2>2. c \in Seq(PartType)
      BY <1>6, <2>1
  <2> HIDE DEF c
  <2>3. DOMAIN c = 1 .. Len(c)
      BY <2>2
  <2> QED BY <2>1, <2>2, <2>3
<1>9. PICK p0 \in 1 .. Len(c) : c[p0].is = "call"
    BY <1>1, <1>8
<1>10. PICK x \in 1 .. n : /\ san[x].role = "assistant" /\ Len(W[x]) = k /\ W[x][k] = request[k]
                           /\ request[k] = Turn("assistant", Content(san[x]))
  <2>1. ~NoCall(c)
      BY <1>9 DEF NoCall
  <2>2. Origin(san, W, n)
      BY <1>1, <1>3, <1>4, Origins
  <2> QED BY <1>4, <1>8, <2>1, <2>2 DEF Origin
<1>11. c = Content(san[x])
    BY <1>10 DEF Turn
<1>12. PICK i \in 1 .. Len(asked) : san[x] = asked[i]
    BY <1>2, <1>10 DEF Clean
<1> DEFINE mine == asked[i].calls
<1>13. PICK a \in Nat : /\ a + Len(mine) <= Len(c)
                        /\ \A m \in 1 .. Len(mine) : c[a + m] = CallPart(mine[m])
                        /\ \A j \in 1 .. Len(c) : c[j].is = "call" => j - a \in 1 .. Len(mine)
  <2>1. Message(san[x])
      BY <1>3 DEF Messages
  <2>2. Carries(san[x], c)
      BY <1>11, <2>1, Carried
  <2> HIDE DEF c
  <2> QED BY <1>12, <2>2 DEF Carries, CallsAt
<1>14. ASSUME NEW id \in calls PROVE \E m \in 1 .. Len(mine) : mine[m].id = id
  <2>1. PICK p \in 1 .. Len(c) : c[p].is = "call" /\ c[p].id = id
      BY <1>8, <1>14
  <2>2. p - a \in 1 .. Len(mine) /\ a + (p - a) = p
      BY <1>13, <2>1
  <2>3. c[p] = CallPart(mine[p - a])
      BY <1>13, <2>2
  <2>4. c[p].id = mine[p - a].id
      BY <2>3, PartsAre
  <2> QED BY <2>1, <2>2, <2>4
<1>15. i \in at(calls)
  <2>1. PICK id \in calls : TRUE
      BY <1>1
  <2>2. PICK m \in 1 .. Len(mine) : mine[m].id = id
      BY <1>14
  <2> HIDE DEF calls
  <2> QED BY <1>7, <2>1, <2>2
<1>16. ASSUME NEW id \in calls PROVE InTime(asked, i, id)
  <2>1. SUFFICES ASSUME NEW j \in 1 .. Len(asked), NEW l \in 1 .. Len(asked),
                        i < j, j < l, asked[l].of = id, asked[j].role # "tool"
                 PROVE  FALSE
      BY DEF InTime
  <2>2. late(calls)
    <3> HIDE DEF calls
    <3> QED BY <1>7, <1>15, <1>16, <2>1
  <2> QED BY <1>1, <2>2
<1>17. ASSUME NEW id \in calls PROVE k + 1 \in DOMAIN request /\ id \in ids(k + 1, "output")
  <2>1. PICK m \in 1 .. Len(mine) : mine[m].id = id
      BY <1>14, <1>17
  <2>2. InTime(asked, i, mine[m].id)
      BY <1>16, <1>17, <2>1
  <2>3. PICK q \in x + 1 .. n : /\ san[q].role = "tool" /\ san[q].of = id
                                /\ \A y \in x + 1 .. q : san[y].role = "tool"
    <3>1. \A y \in 1 .. Len(san) : san[y] = asked[i] =>
              \E z \in y + 1 .. Len(san) : /\ san[z].role = "tool" /\ san[z].of = mine[m].id
                                            /\ \A u \in y + 1 .. z : san[u].role = "tool"
        BY <1>2, <2>1, <2>2 DEF StaysInTime
    <3> HIDE DEF c, calls, ids, at, late, mine
    <3> QED BY <1>10, <1>12, <2>1, <3>1
  <2>4. k \in 1 .. Len(W[x]) /\ W[x][k].role = "assistant"
    <3>1. W[x][k].role = "assistant"
        BY <1>10 DEF Turn
    <3> QED BY <1>8, <1>10, <3>1
  <2>5. k + 1 \in 1 .. Len(request) /\ Holds(request[k + 1].parts, OutPart(san[q]))
    <3> HIDE DEF c, calls, ids, at, late
    <3> QED BY <1>1, <1>3, <1>4, <1>10, <2>3, <2>4, ResultNext
  <2>6. PICK p \in 1 .. Len(request[k + 1].parts) : request[k + 1].parts[p] = OutPart(san[q])
      BY <2>5 DEF Holds
  <2>7. request[k + 1].parts[p].is = "output" /\ request[k + 1].parts[p].id = id
      BY <2>3, <2>6, PartsAre
  <2>8. p \in DOMAIN request[k + 1].parts
      BY <1>6, <2>5, <2>6
  <2> QED BY <1>6, <2>5, <2>7, <2>8
<1>18. PICK id \in calls : TRUE
    BY <1>1
<1>19. k + 1 \in DOMAIN request
    BY <1>17, <1>18
<1>20. calls \subseteq ids(k + 1, "output")
  <2> HIDE DEF calls, ids
  <2> QED BY <1>17
<1> QED BY <1>19, <1>20

-----------------------------------------------------------------------------
(* An answer is put together, and kept.                                    *)

Whole(a) == [i \in DOMAIN a.calls |-> [a.calls[i] EXCEPT !.whole = TRUE]]

LEMMA WholeType ==
  ASSUME NEW a, a \in MessageType
  PROVE  /\ Whole(a) \in Seq(CallType) /\ Len(Whole(a)) = Len(a.calls) /\ Len(a.calls) \in Nat
         /\ DOMAIN a.calls = 1 .. Len(a.calls)
         /\ \A i \in 1 .. Len(a.calls) : a.calls[i] \in CallType /\ Whole(a)[i] = [a.calls[i] EXCEPT !.whole = TRUE]
<1>1. a.calls \in Seq(CallType)
    BY DEF MessageType
<1>2. Len(a.calls) \in Nat /\ DOMAIN a.calls = 1 .. Len(a.calls) /\ \A i \in 1 .. Len(a.calls) : a.calls[i] \in CallType
    BY <1>1
<1>3. \A c \in CallType : [c EXCEPT !.whole = TRUE] \in CallType
    BY DEF CallType
<1>4. /\ Whole(a) \in [1 .. Len(a.calls) -> CallType]
      /\ \A i \in 1 .. Len(a.calls) : Whole(a)[i] = [a.calls[i] EXCEPT !.whole = TRUE]
    BY <1>2, <1>3 DEF Whole
<1>5. Whole(a) \in Seq(CallType) /\ Len(Whole(a)) = Len(a.calls)
    BY <1>2, <1>4, Listed
<1> QED BY <1>2, <1>4, <1>5

\* Whatever order its fragments came in.
LEMMA CallsWhole ==
  ASSUME AdapterOK, answer \in MessageType, Complete
  PROVE  Calls = Whole(answer)
<1>1. CASE adapter # "qwen"
    BY <1>1 DEF Calls, Whole
<1>2. CASE adapter = "qwen"
  <2> DEFINE c == Whole(answer)
             one(i) == [answer.calls[i] EXCEPT !.whole = Cardinality(Tagged(i)) = Len(Fragments)]
             ss == [i \in DOMAIN answer.calls |-> IF Of(i) = {} THEN <<>> ELSE <<one(i)>>]
  <2>1. Calls = FlattenSeq(ss)
      BY <1>2 DEF Calls, QwenCalls
  <2>2. /\ c \in Seq(CallType) /\ Len(c) = Len(answer.calls) /\ Len(c) \in Nat
        /\ DOMAIN answer.calls = 1 .. Len(c)
        /\ \A i \in 1 .. Len(c) : c[i] \in CallType /\ c[i] = [answer.calls[i] EXCEPT !.whole = TRUE]
    <3> HIDE DEF c
    <3>1. /\ c \in Seq(CallType) /\ Len(c) = Len(answer.calls) /\ Len(c) \in Nat
          /\ DOMAIN answer.calls = 1 .. Len(c)
          /\ \A i \in 1 .. Len(c) : c[i] = [answer.calls[i] EXCEPT !.whole = TRUE]
        BY WholeType DEF c
    <3>2. \A i \in 1 .. Len(c) : c[i] \in CallType
        BY <3>1
    <3> QED BY <3>1, <3>2
  <2> HIDE DEF c
  <2>3. ASSUME NEW i \in 1 .. Len(c) PROVE ss[i] = <<c[i]>>
    <3>1. Cardinality(Of(i)) = Len(Fragments) /\ Len(Fragments) = 2
        BY <1>2, <2>2, <2>3 DEF Complete, Fragments
    <3>2. Of(i) # {}
        BY <3>1, FS_EmptySet
    <3>3. one(i) = c[i]
        BY <2>2, <2>3, <3>1 DEF Tagged
    <3> HIDE DEF one
    <3> QED BY <2>2, <2>3, <3>2, <3>3
  <2>4. ss \in [1 .. Len(c) -> Seq(CallType)]
    <3>1. DOMAIN ss = 1 .. Len(c) /\ ss = [i \in 1 .. Len(c) |-> ss[i]]
        BY <2>2
    <3>2. \A i \in 1 .. Len(c) : <<c[i]>> \in Seq(CallType)
        BY <2>2
    <3> HIDE DEF ss
    <3> QED BY <2>3, <3>1, <3>2
  <2> HIDE DEF ss
  <2>5. ss \in Seq(Seq(CallType)) /\ Len(ss) = Len(c)
      BY <2>2, <2>4, Listed
  <2>6. FlattenSeq(ss) = c
    <3>1. Len(ss) = 0 + Len(c) /\ (\A i \in 1 .. 0 : ss[i] = <<>>) /\ \A i \in 1 .. Len(c) : ss[0 + i] = <<c[i]>>
        BY <2>2, <2>3, <2>5
    <3> QED BY <2>2, <2>5, <3>1, FlattenSingles
  <2> QED BY <2>1, <2>6 DEF c
<1> QED BY <1>1, <1>2

\* What parts give back.
ThinkingPart(m) == IF m.thought # 0 THEN <<Thinking(m)>> ELSE <<>>
TextPart(m)     == IF m.text THEN <<[kind |-> "text"]>> ELSE <<>>
CallPartOf(c)   == [kind |-> "tool_call", call |-> c]

LEMMA PartsOf ==
  ASSUME NEW m, m \in MessageType, NEW k, k = Len(ThinkingPart(m)) + Len(TextPart(m))
  PROVE  /\ DOMAIN Parts(m) = 1 .. k + Len(m.calls) /\ k \in Nat /\ Len(m.calls) \in Nat
         /\ \A i \in 1 .. Len(m.calls) : Parts(m)[k + i] = CallPartOf(m.calls[i])
         /\ \A i \in 1 .. k : Parts(m)[i] = Thinking(m) \/ Parts(m)[i].kind = "text"
         /\ m.thought # 0 => 1 \in 1 .. k /\ Parts(m)[1] = Thinking(m)
         /\ m.thought = 0 => \A i \in 1 .. k : Parts(m)[i].kind = "text"
         /\ \A i \in 1 .. k : Parts(m)[i] = Thinking(m) => i = 1 /\ m.thought # 0
         /\ m.text <=> \E i \in 1 .. k : Parts(m)[i].kind = "text"
<1> DEFINE S == {Thinking(m), [kind |-> "text"]} \cup {CallPartOf(c) : c \in CallType}
           a == ThinkingPart(m)
           b == TextPart(m)
           c == [i \in DOMAIN m.calls |-> CallPartOf(m.calls[i])]
           d == Parts(m)
<1>1. d = (a \o b) \o c
    BY DEF Parts, ThinkingPart, TextPart, CallPartOf
<1>2. /\ Len(m.calls) \in Nat /\ DOMAIN m.calls = 1 .. Len(m.calls)
      /\ \A i \in 1 .. Len(m.calls) : m.calls[i] \in CallType
    BY PartTypes, WholeType
<1>3. c \in Seq(S) /\ Len(c) = Len(m.calls) /\ \A i \in 1 .. Len(m.calls) : c[i] = CallPartOf(m.calls[i])
  <2>1. \A i \in 1 .. Len(m.calls) : CallPartOf(m.calls[i]) \in S
      BY <1>2
  <2> HIDE DEF S
  <2>2. c \in [1 .. Len(m.calls) -> S] /\ \A i \in 1 .. Len(m.calls) : c[i] = CallPartOf(m.calls[i])
      BY <1>2, <2>1
  <2> HIDE DEF c
  <2> QED BY <1>2, <2>2, Listed
<1>4. a \in Seq(S) /\ b \in Seq(S)
  <2>1. Thinking(m) \in S /\ [kind |-> "text"] \in S
      OBVIOUS
  <2> HIDE DEF S
  <2> QED BY <2>1 DEF ThinkingPart, TextPart
<1>5. /\ Len(a) = (IF m.thought # 0 THEN 1 ELSE 0) /\ (m.thought # 0 => a[1] = Thinking(m))
      /\ Len(b) = (IF m.text THEN 1 ELSE 0) /\ (m.text => b[1] = [kind |-> "text"])
    BY DEF ThinkingPart, TextPart
<1>6. Thinking(m).kind = "thinking" /\ [kind |-> "text"].kind = "text"
    BY DEF Thinking
<1> HIDE DEF a, b, c, d, S
<1>7. /\ d \in Seq(S) /\ Len(a) \in Nat /\ Len(b) \in Nat /\ Len(c) \in Nat
      /\ Len(d) = Len(a) + Len(b) + Len(c)
      /\ \A j \in 1 .. Len(a) : d[j] = a[j]
      /\ \A j \in 1 .. Len(b) : d[Len(a) + j] = b[j]
      /\ \A j \in 1 .. Len(c) : d[Len(a) + Len(b) + j] = c[j]
  <2>1. a \in Seq(S)
      BY <1>4
  <2>2. b \in Seq(S)
      BY <1>4
  <2>3. c \in Seq(S)
      BY <1>3
  <2>4. d = (a \o b) \o c
      BY <1>1
  <2>5. InThree(S, a, b, c, d)
      BY ONLY <2>1, <2>2, <2>3, <2>4, Three
  <2> QED BY ONLY <2>5 DEF InThree
<1>8. k = Len(a) + Len(b)
    BY DEF a, b
<1>9. DOMAIN d = 1 .. k + Len(m.calls) /\ k \in Nat
  <2>1. k \in Nat
      BY <1>7, <1>8
  <2>2. Len(d) = k + Len(m.calls)
    <3> DEFINE la == Len(a)
               lb == Len(b)
               lc == Len(c)
    <3>1. Len(d) = la + lb + lc /\ lc = Len(m.calls) /\ k = la + lb
        BY <1>3, <1>7, <1>8
    <3> HIDE DEF la, lb, lc
    <3> QED BY <3>1
  <2>3. DOMAIN d = 1 .. Len(d)
      BY <1>7, LenProperties
  <2> QED BY <2>1, <2>2, <2>3
<1>10. ASSUME NEW i \in 1 .. Len(m.calls) PROVE d[k + i] = CallPartOf(m.calls[i])
  <2>1. d[Len(a) + Len(b) + i] = c[i]
      BY <1>3, <1>7
  <2> QED BY <1>3, <1>8, <2>1
<1>11. m.text \in BOOLEAN
    BY DEF MessageType
<1>12. m.thought # 0 => Len(a) = 1 /\ d[1] = Thinking(m) /\ 1 \in 1 .. k
    BY <1>5, <1>7, <1>8
<1>13. m.text => Len(b) = 1 /\ d[Len(a) + 1].kind = "text" /\ Len(a) + 1 \in 1 .. k
    BY <1>5, <1>6, <1>7, <1>8
<1>14. ASSUME NEW i \in 1 .. k
       PROVE  \/ m.thought # 0 /\ i = 1 /\ d[i] = Thinking(m)
              \/ m.text /\ i = Len(a) + 1 /\ d[i].kind = "text"
  <2>1. CASE i <= Len(a)
      BY <1>5, <1>7, <1>8, <1>12, <2>1
  <2>2. CASE i > Len(a)
      BY <1>5, <1>7, <1>8, <1>13, <2>2
  <2> QED BY <1>7, <2>1, <2>2
<1>15. \A i \in 1 .. k : d[i] = Thinking(m) => i = 1 /\ m.thought # 0
    BY <1>6, <1>14
<1>16. m.text <=> \E i \in 1 .. k : d[i].kind = "text"
    BY <1>6, <1>11, <1>13, <1>14
<1> QED BY <1>2, <1>9, <1>10, <1>12, <1>14, <1>15, <1>16 DEF d

\* An answer stored as parts is given back, but for reasoning items beside no thought.
LEMMA GivenBack ==
  ASSUME NEW m, m \in MessageType, NEW r, r = Together(Parts(m))
  PROVE  /\ r \in MessageType /\ r.role = "assistant" /\ r.text = m.text /\ r.calls = m.calls
         /\ r.thought = m.thought /\ r.reasoning = IF m.thought # 0 THEN m.reasoning ELSE 0
         /\ r.signed = IF m.thought # 0 THEN m.signed ELSE 0
         /\ r.image = FALSE /\ r.of = NoId /\ r.result = "none"
<1> DEFINE d == Parts(m)
           n == Len(m.calls)
           k == Len(ThinkingPart(m)) + Len(TextPart(m))
           of(kind) == {i \in DOMAIN d : d[i].kind = kind}
           ss == [i \in DOMAIN d |-> IF i \in of("tool_call") THEN <<d[i].call>> ELSE <<>>]
           base == [Plain EXCEPT !.role = "assistant", !.text = of("text") # {}, !.calls = FlattenSeq(ss)]
           t == d[Max(of("thinking"))]
<1>1. r = IF of("thinking") = {} THEN base
          ELSE [base EXCEPT !.thought = t.thought, !.signed = t.signed, !.reasoning = t.reasoning]
    BY DEF Together
<1>2. /\ DOMAIN d = 1 .. k + n /\ k \in Nat /\ n \in Nat
      /\ \A i \in 1 .. n : d[k + i] = CallPartOf(m.calls[i])
      /\ \A i \in 1 .. k : d[i] = Thinking(m) \/ d[i].kind = "text"
      /\ m.thought # 0 => 1 \in 1 .. k /\ d[1] = Thinking(m)
      /\ m.thought = 0 => \A i \in 1 .. k : d[i].kind = "text"
      /\ \A i \in 1 .. k : d[i] = Thinking(m) => i = 1 /\ m.thought # 0
      /\ m.text <=> \E i \in 1 .. k : d[i].kind = "text"
    BY PartsOf
<1>3. /\ Thinking(m).kind = "thinking" /\ Thinking(m).thought = m.thought
      /\ Thinking(m).signed = m.signed /\ Thinking(m).reasoning = m.reasoning
    BY DEF Thinking
<1>4. \A c : CallPartOf(c).kind = "tool_call" /\ CallPartOf(c).call = c
    BY DEF CallPartOf
<1> HIDE DEF d, n, k
<1>5. ASSUME NEW i \in DOMAIN d PROVE i \in 1 .. k \/ \E j \in 1 .. n : i = k + j
  <2>1. i \in 1 .. k + n
      BY <1>2
  <2>2. CASE i > k
    <3>1. i - k \in 1 .. n /\ i = k + (i - k)
        BY <1>2, <2>1, <2>2
    <3> QED BY <3>1
  <2> QED BY <1>2, <2>1, <2>2
<1>6. \A i \in 1 .. n : d[k + i].kind = "tool_call" /\ d[k + i].call = m.calls[i] /\ k + i \in DOMAIN d
  <2>1. \A i \in 1 .. n : k + i \in DOMAIN d
      BY <1>2
  <2> QED BY <1>2, <1>4, <2>1
<1>7. \A i \in 1 .. k : d[i].kind \in {"thinking", "text"} /\ i \in DOMAIN d
  <2>1. \A i \in 1 .. k : i \in DOMAIN d
      BY <1>2
  <2> QED BY <1>2, <1>3, <2>1
<1>8. of("text") # {} <=> m.text
  <2>1. m.text => of("text") # {}
      BY <1>2, <1>7
  <2>2. ASSUME NEW i \in of("text") PROVE m.text
    <3>1. i \in 1 .. k
        BY <1>5, <1>6, <2>2
    <3> QED BY <1>2, <2>2, <3>1
  <2> QED BY <2>1, <2>2
<1>9. m.thought # 0 => of("thinking") = {1}
  <2>1. SUFFICES ASSUME m.thought # 0 PROVE of("thinking") = {1}
      OBVIOUS
  <2>2. 1 \in of("thinking")
      BY <1>2, <1>3, <1>7, <2>1
  <2>3. ASSUME NEW i \in of("thinking") PROVE i = 1
    <3>1. i \in 1 .. k
        BY <1>5, <1>6, <2>3
    <3> QED BY <1>2, <2>3, <3>1
  <2> QED BY <2>2, <2>3
<1>10. m.thought = 0 => of("thinking") = {}
  <2>1. SUFFICES ASSUME m.thought = 0, NEW i \in of("thinking") PROVE FALSE
      OBVIOUS
  <2>2. i \in 1 .. k
      BY <1>5, <1>6, <2>1
  <2> QED BY <1>2, <2>1, <2>2
<1>11. m.calls \in Seq(CallType) /\ \A i \in 1 .. n : m.calls[i] \in CallType
  <2>1. m.calls \in Seq(CallType)
      BY DEF MessageType
  <2> QED BY <2>1 DEF n
<1>12. FlattenSeq(ss) = m.calls
  <2>1. \A i \in 1 .. k : ss[i] = <<>>
      BY <1>7
  <2>2. \A i \in 1 .. n : ss[k + i] = <<m.calls[i]>>
      BY <1>6
  <2>3. ss \in [1 .. k + n -> Seq(CallType)]
    <3>1. ss = [i \in 1 .. k + n |-> ss[i]]
        BY <1>2
    <3>2. \A i \in 1 .. k + n : ss[i] \in Seq(CallType)
      <4> HIDE DEF ss
      <4>1. \A i \in 1 .. n : <<m.calls[i]>> \in Seq(CallType)
          BY <1>11
      <4>2. <<>> \in Seq(CallType)
          OBVIOUS
      <4>3. ASSUME NEW i \in 1 .. k + n PROVE ss[i] \in Seq(CallType)
        <5>1. CASE i \in 1 .. k
            BY <2>1, <4>2, <5>1
        <5>2. CASE \E j \in 1 .. n : i = k + j
            BY <2>2, <4>1, <5>2
        <5> QED BY <1>2, <1>5, <4>3, <5>1, <5>2
      <4> QED BY <4>3
    <3> HIDE DEF ss
    <3> QED BY <3>1, <3>2
  <2> HIDE DEF ss
  <2>4. ss \in Seq(Seq(CallType)) /\ Len(ss) = k + n
    <3>1. k + n \in Nat
        BY <1>2
    <3> QED BY <2>3, <3>1, Listed
  <2> DEFINE c == m.calls
  <2>5. c \in Seq(CallType) /\ Len(c) = n /\ \A i \in 1 .. Len(c) : ss[k + i] = <<c[i]>>
      BY <1>11, <2>2 DEF n
  <2> HIDE DEF c
  <2>6. FlattenSeq(ss) = c
      BY <1>2, <2>1, <2>4, <2>5, FlattenSingles
  <2> QED BY <2>6 DEF c
<1>13. base = [Plain EXCEPT !.role = "assistant", !.text = m.text, !.calls = m.calls]
  <2>1. (of("text") # {}) = m.text
    <3>1. m.text \in BOOLEAN
        BY DEF MessageType
    <3> HIDE DEF of
    <3> QED BY <1>8, <3>1
  <2> HIDE DEF of, ss
  <2> QED BY <1>12, <2>1
<1> DEFINE own == [Plain EXCEPT !.role = "assistant", !.text = m.text, !.calls = m.calls]
<1>14. m.text \in BOOLEAN /\ m.signed \in Nat /\ m.thought \in 0 .. MaxAnswers /\ m.reasoning \in 0 .. MaxAnswers
    BY DEF MessageType
<1>15. /\ own \in MessageType /\ own.role = "assistant" /\ own.text = m.text /\ own.calls = m.calls
       /\ own.thought = 0 /\ own.reasoning = 0 /\ own.signed = 0
       /\ own.image = FALSE /\ own.of = NoId /\ own.result = "none"
  <2>1. own \in MessageType
      BY <1>11, <1>14, PlainType DEF MessageType
  <2> QED BY <2>1 DEF Plain
<1>16. CASE m.thought = 0
  <2>1. r = own
      BY <1>1, <1>10, <1>13, <1>16
  <2> HIDE DEF own
  <2> QED BY <1>15, <1>16, <2>1
<1>17. CASE m.thought # 0
  <2>1. Max({1}) = 1
      BY DEF Max
  <2>2. t = Thinking(m)
    <3>1. Max(of("thinking")) = 1
        BY <1>9, <1>17, <2>1
    <3> HIDE DEF of
    <3> QED BY <1>2, <1>17, <3>1
  <2>3. r = [own EXCEPT !.thought = m.thought, !.signed = m.signed, !.reasoning = m.reasoning]
    <3>1. of("thinking") # {}
        BY <1>9, <1>17
    <3> HIDE DEF of, t, base
    <3>2. r = [base EXCEPT !.thought = m.thought, !.signed = m.signed, !.reasoning = m.reasoning]
        BY <1>1, <1>3, <2>2, <3>1
    <3> QED BY <1>13, <3>2 DEF own
  <2> HIDE DEF own
  <2>4. r \in MessageType
      BY <1>14, <1>15, <2>3 DEF MessageType
  <2>5. /\ r.thought = m.thought /\ r.signed = m.signed /\ r.reasoning = m.reasoning
        /\ r.role = own.role /\ r.text = own.text /\ r.calls = own.calls
        /\ r.image = own.image /\ r.of = own.of /\ r.result = own.result
      BY <1>15, <2>3 DEF MessageType
  <2> QED BY <1>15, <1>17, <2>4, <2>5
<1> QED BY <1>16, <1>17

-----------------------------------------------------------------------------
(* The fragments of an answer.                                             *)

\* What is heard of the i-th call, in h.
Marks(h, i) == {p \in DOMAIN h : h[p].index = i}
Counts(n, h) == [i \in 1 .. n |-> Cardinality(Marks(h, i))]

HeardOK(n, h) ==
    /\ h \in Seq([index : 1 .. n, is : ToSet(Fragments)])
    /\ \A i \in 1 .. n : Counts(n, h)[i] <= Len(Fragments)

\* What Anthropic's listener was shown is what came: a call once begun, its arguments, its end.
Shows(n, c, s) ==
    /\ s \in [begun : Seq(1 .. n), open : SUBSET (1 .. n), told : SUBSET (1 .. n), done : SUBSET (1 .. n)]
    /\ IsInjective(s.begun)
    /\ \A i \in 1 .. n : /\ i \in ToSet(s.begun) <=> c[i] >= 1
                         /\ i \in s.open <=> c[i] \in {1, 2}
                         /\ i \in s.told <=> c[i] >= 2
                         /\ i \in s.done <=> c[i] >= 3

ShownOK(n, h, s) == IF adapter = "anthropic" THEN Shows(n, Counts(n, h), s) ELSE s = NothingShown

LEMMA FragmentsAre ==
  ASSUME AdapterOK
  PROVE  /\ Len(Fragments) \in 1 .. 3 /\ DOMAIN Fragments = 1 .. Len(Fragments)
         /\ \A c \in 1 .. Len(Fragments) : Fragments[c] \in ToSet(Fragments)
         /\ IF adapter = "anthropic"
            THEN Len(Fragments) = 3 /\ Fragments[1] = "start" /\ Fragments[2] = "delta" /\ Fragments[3] = "stop"
            ELSE \A c \in 1 .. Len(Fragments) : Fragments[c] \in {"head", "arguments", "whole"}
<1>1. CASE adapter = "anthropic"
  <2>1. Fragments = <<"start", "delta", "stop">>
      BY <1>1 DEF Fragments
  <2> QED BY <1>1, <2>1 DEF ToSet
<1>2. CASE adapter = "qwen"
  <2>1. Fragments = <<"head", "arguments">>
      BY <1>2 DEF Fragments
  <2> QED BY <1>2, <2>1 DEF ToSet
<1>3. CASE adapter \in {"openai", "gemini"}
  <2>1. Fragments = <<"whole">>
      BY <1>3 DEF Fragments
  <2> QED BY <1>3, <2>1 DEF ToSet
<1> QED BY <1>1, <1>2, <1>3 DEF AdapterOK

LEMMA CountsType ==
  ASSUME NEW F, NEW n \in Nat, NEW h, h \in Seq(F)
  PROVE  /\ Counts(n, h) \in [1 .. n -> Nat]
         /\ \A i \in 1 .. n : IsFiniteSet(Marks(h, i)) /\ Counts(n, h)[i] = Cardinality(Marks(h, i))
<1>1. Len(h) \in Nat /\ DOMAIN h = 1 .. Len(h)
    BY LenProperties
<1>2. ASSUME NEW i PROVE IsFiniteSet(Marks(h, i)) /\ Cardinality(Marks(h, i)) \in Nat
  <2>1. IsFiniteSet(1 .. Len(h))
      BY <1>1, FS_Interval
  <2>2. Marks(h, i) \in SUBSET (1 .. Len(h))
      BY <1>1 DEF Marks
  <2>3. IsFiniteSet(Marks(h, i))
      BY <2>1, <2>2, FS_Subset
  <2> QED BY <2>3, FS_CardinalityType
<1> QED BY <1>2 DEF Counts

LEMMA Counted ==
  ASSUME NEW F, NEW n \in Nat, NEW h, h \in Seq(F), NEW f, f \in F, NEW x \in 1 .. n, f.index = x
  PROVE  /\ Append(h, f) \in Seq(F) /\ Counts(n, Append(h, f))[x] = Counts(n, h)[x] + 1
         /\ \A i \in 1 .. n : i # x => Counts(n, Append(h, f))[i] = Counts(n, h)[i]
<1> DEFINE l == Len(h)
           g == Append(h, f)
<1>1. /\ l \in Nat /\ DOMAIN h = 1 .. l /\ g \in Seq(F) /\ DOMAIN g = 1 .. l + 1 /\ g[l + 1] = f
      /\ \A p \in 1 .. l : g[p] = h[p]
    BY AppendProperties, LenProperties
<1>2. \A i \in 1 .. n : /\ IsFiniteSet(Marks(h, i)) /\ Counts(n, h)[i] = Cardinality(Marks(h, i))
                        /\ Counts(n, g)[i] = Cardinality(Marks(g, i))
  <2>1. g \in Seq(F)
      BY <1>1
  <2>2. \A i \in 1 .. n : IsFiniteSet(Marks(h, i)) /\ Counts(n, h)[i] = Cardinality(Marks(h, i))
      BY CountsType
  <2>3. \A i \in 1 .. n : Counts(n, g)[i] = Cardinality(Marks(g, i))
      BY <2>1, CountsType
  <2> QED BY <2>2, <2>3
<1> HIDE DEF l, g
<1>3. Counts(n, g)[x] = Counts(n, h)[x] + 1
  <2>1. l + 1 \notin Marks(h, x)
      BY <1>1 DEF Marks
  <2>2. Marks(g, x) = Marks(h, x) \cup {l + 1}
      BY <1>1 DEF Marks
  <2>3. Cardinality(Marks(h, x) \cup {l + 1}) = Cardinality(Marks(h, x)) + 1
      BY <1>2, <2>1, FS_AddElement
  <2> QED BY <1>2, <2>2, <2>3
<1>4. ASSUME NEW i \in 1 .. n, i # x PROVE Counts(n, g)[i] = Counts(n, h)[i]
  <2>1. Marks(g, i) = Marks(h, i)
      BY <1>1, <1>4 DEF Marks
  <2> QED BY <1>2, <2>1
<1> QED BY <1>1, <1>3, <1>4 DEF g

LEMMA NothingHeard == \A n \in Nat : HeardOK(n, <<>>) /\ ShownOK(n, <<>>, NothingShown)
<1> SUFFICES ASSUME NEW n \in Nat PROVE HeardOK(n, <<>>) /\ ShownOK(n, <<>>, NothingShown)
    OBVIOUS
<1>1. \A i : Marks(<<>>, i) = {}
    BY DEF Marks
<1>2. \A i \in 1 .. n : Counts(n, <<>>)[i] = 0
    BY <1>1, FS_EmptySet DEF Counts
<1>3. Len(Fragments) >= 0
    BY DEF Fragments
<1>4. HeardOK(n, <<>>)
    BY <1>2, <1>3 DEF HeardOK
<1>5. /\ NothingShown.begun = <<>> /\ NothingShown.open = {} /\ NothingShown.told = {} /\ NothingShown.done = {}
      /\ NothingShown \in [begun : Seq(1 .. n), open : SUBSET (1 .. n), told : SUBSET (1 .. n), done : SUBSET (1 .. n)]
    BY DEF NothingShown
<1>6. ToSet(<<>>) = {} /\ IsInjective(<<>>)
    BY DEF ToSet, IsInjective
<1>7. Shows(n, Counts(n, <<>>), NothingShown)
    BY <1>2, <1>5, <1>6 DEF Shows
<1> QED BY <1>4, <1>7 DEF ShownOK

LEMMA HearsOn ==
  ASSUME AdapterOK, NEW n \in Nat, NEW h, HeardOK(n, h), ShownOK(n, h, shown), NEW i \in 1 .. n,
         Counts(n, h)[i] < Len(Fragments),
         NEW f, f = [index |-> i, is |-> Fragments[Counts(n, h)[i] + 1]], NEW g, g = Append(h, f)
  PROVE  HeardOK(n, g) /\ ShownOK(n, g, Show(f))
<1> DEFINE F == [index : 1 .. n, is : ToSet(Fragments)]
           C == Counts(n, h)
           D == Counts(n, g)
           c == C[i]
<1>1. h \in Seq(F) /\ \A j \in 1 .. n : C[j] <= Len(Fragments)
    BY DEF HeardOK
<1>10. n \in Nat /\ i \in 1 .. n
    OBVIOUS
<1>2. /\ Len(Fragments) \in 1 .. 3 /\ \A x \in 1 .. Len(Fragments) : Fragments[x] \in ToSet(Fragments)
      /\ IF adapter = "anthropic"
         THEN Len(Fragments) = 3 /\ Fragments[1] = "start" /\ Fragments[2] = "delta" /\ Fragments[3] = "stop"
         ELSE \A x \in 1 .. Len(Fragments) : Fragments[x] \in {"head", "arguments", "whole"}
    BY FragmentsAre
<1>3. f.index = i /\ f.is = Fragments[c + 1]
    OBVIOUS
<1>4. C \in [1 .. n -> Nat]
  <2> HIDE DEF F
  <2> QED BY <1>1, CountsType
<1>5. c \in Nat /\ c + 1 \in 1 .. Len(Fragments)
  <2>1. c \in Nat
    <3> HIDE DEF C
    <3> QED BY <1>4
  <2> QED BY <1>2, <2>1
<1>6. f \in F
  <2>1. Fragments[c + 1] \in ToSet(Fragments)
      BY <1>2, <1>5
  <2> HIDE DEF c
  <2> QED BY <2>1 DEF c
<1> HIDE DEF F
<1>7. /\ g \in Seq(F)
      /\ D[i] = c + 1 /\ \A j \in 1 .. n : j # i => D[j] = C[j]
  <2>1. g = Append(h, f) /\ f.index = i
      BY <1>3
  <2>2. h \in Seq(F)
      BY <1>1
  <2>3. g \in Seq(F)
      BY ONLY <1>6, <2>1, <2>2, AppendProperties
  <2>4. Counts(n, g)[i] = Counts(n, h)[i] + 1
      BY <1>6, <2>1, <2>2, Counted
  <2>5. \A j \in 1 .. n : j # i => Counts(n, g)[j] = Counts(n, h)[j]
      BY <1>6, <2>1, <2>2, Counted
  <2> QED BY <2>3, <2>4, <2>5
<1> HIDE DEF C, D
<1>8. HeardOK(n, g)
  <2>1. ASSUME NEW j \in 1 .. n PROVE D[j] <= Len(Fragments)
      BY <1>1, <1>5, <1>7
  <2>2. \A j \in 1 .. n : Counts(n, g)[j] <= Len(Fragments)
      BY <2>1 DEF D
  <2> QED BY <1>7, <2>2 DEF HeardOK, F
<1>9. CASE adapter # "anthropic"
  <2>1. f.is \in {"head", "arguments", "whole"}
      BY <1>2, <1>3, <1>5, <1>9
  <2>2. Show(f) = shown
      BY <2>1 DEF Show
  <2> QED BY <1>8, <1>9, <2>2 DEF ShownOK
<1>12. CASE adapter = "anthropic"
  <2> DEFINE R == [begun : Seq(1 .. n), open : SUBSET (1 .. n), told : SUBSET (1 .. n), done : SUBSET (1 .. n)]
             s == Show(f)
             B == shown.begun
  <2>1. Shows(n, C, shown)
      BY <1>12 DEF ShownOK, C
  <2>2. c = 0 \/ c = 1 \/ c = 2
    <3>1. Len(Fragments) = 3
        BY <1>2, <1>12
    <3> QED BY <1>5, <3>1
  <2>3. shown \in R /\ IsInjective(B) /\ B \in Seq(1 .. n)
      BY <2>1 DEF Shows
  <2>4. \A j \in 1 .. n : /\ j \in ToSet(B) <=> C[j] >= 1
                          /\ j \in shown.open <=> C[j] \in {1, 2}
                          /\ j \in shown.told <=> C[j] >= 2
                          /\ j \in shown.done <=> C[j] >= 3
      BY <2>1 DEF Shows
  <2>5. SUFFICES Shows(n, D, s)
      BY <1>8, <1>12 DEF ShownOK, D
  <2>6. CASE c = 0
    <3> DEFINE b == Append(B, i)
    <3>1. f.is = "start"
        BY <1>2, <1>3, <1>12, <2>6
    <3>2. s = [shown EXCEPT !.begun = b, !.open = @ \cup {i}]
        BY <1>3, <3>1 DEF Show
    <3>3. s \in R /\ s.begun = b /\ s.open = shown.open \cup {i} /\ s.told = shown.told /\ s.done = shown.done
      <4>1. b \in Seq(1 .. n)
        <5> HIDE DEF B
        <5> QED BY <2>3, AppendProperties
      <4> HIDE DEF b, s
      <4> QED BY <2>3, <3>2, <4>1
    <3> HIDE DEF s, R, B
    <3>4. ~(C[i] >= 1)
        BY <1>7, <2>6
    <3>5. i \notin ToSet(B)
        BY <2>4, <3>4
    <3>6. /\ Len(B) \in Nat /\ DOMAIN B = 1 .. Len(B)
          /\ DOMAIN b = 1 .. Len(B) + 1 /\ b[Len(B) + 1] = i
          /\ \A p \in 1 .. Len(B) : b[p] = B[p]
        BY <2>3, AppendProperties, LenProperties
    <3> HIDE DEF b
    <3>7. DOMAIN b = DOMAIN B \cup {Len(B) + 1} /\ Len(B) + 1 \notin DOMAIN B
        BY <3>6
    <3>8. ToSet(b) = ToSet(B) \cup {i}
        BY <3>6, <3>7 DEF ToSet
    <3>9. \A p \in DOMAIN B : B[p] # i
        BY <3>5 DEF ToSet
    <3>10. IsInjective(b)
        BY <2>3, <3>6, <3>7, <3>9 DEF IsInjective
    <3>11. ASSUME NEW j \in 1 .. n
           PROVE  /\ j \in ToSet(s.begun) <=> D[j] >= 1
                  /\ j \in s.open <=> D[j] \in {1, 2}
                  /\ j \in s.told <=> D[j] >= 2
                  /\ j \in s.done <=> D[j] >= 3
      <4>1. CASE j = i
        <5>1. C[j] = 0 /\ D[j] = 1
            BY <1>7, <2>6, <4>1
        <5> QED BY <2>4, <3>3, <3>8, <4>1, <5>1
      <4>2. CASE j # i
          BY <1>7, <2>4, <3>3, <3>8, <4>2
      <4> QED BY <4>1, <4>2
    <3>12. IsInjective(s.begun)
        BY <3>3, <3>10
    <3> QED BY <3>3, <3>11, <3>12 DEF Shows, R
  <2>7. CASE c = 1
    <3>1. f.is = "delta"
        BY <1>2, <1>3, <1>12, <2>7
    <3>2. i \in shown.open
        BY <1>7, <2>4, <2>7
    <3>3. s = [shown EXCEPT !.told = @ \cup {i}]
      <4>1. {i} \cap shown.open = {i}
          BY <3>2
      <4> QED BY <1>3, <3>1, <4>1 DEF Show
    <3>4. s \in R /\ s.begun = B /\ s.open = shown.open /\ s.told = shown.told \cup {i} /\ s.done = shown.done
      <4> HIDE DEF s
      <4> QED BY <2>3, <3>3
    <3> HIDE DEF s, R, B
    <3>5. ASSUME NEW j \in 1 .. n
          PROVE  /\ j \in ToSet(s.begun) <=> D[j] >= 1
                 /\ j \in s.open <=> D[j] \in {1, 2}
                 /\ j \in s.told <=> D[j] >= 2
                 /\ j \in s.done <=> D[j] >= 3
      <4>1. CASE j = i
        <5>1. C[j] = 1 /\ D[j] = 2
            BY <1>7, <2>7, <4>1
        <5> QED BY <2>4, <3>4, <4>1, <5>1
      <4>2. CASE j # i
          BY <1>7, <2>4, <3>4, <4>2
      <4> QED BY <4>1, <4>2
    <3>6. IsInjective(s.begun)
        BY <2>3, <3>4
    <3> QED BY <3>4, <3>5, <3>6 DEF Shows, R
  <2>8. CASE c = 2
    <3>1. f.is = "stop"
        BY <1>2, <1>3, <1>12, <2>8
    <3>2. i \in shown.open
        BY <1>7, <2>4, <2>8
    <3>3. s = [shown EXCEPT !.open = @ \ {i}, !.done = @ \cup {i}]
      <4>1. Stops(i, shown.open) = {i}
          BY <3>2 DEF Stops
      <4> QED BY <1>3, <3>1, <4>1 DEF Show
    <3>4. s \in R /\ s.begun = B /\ s.open = shown.open \ {i} /\ s.told = shown.told /\ s.done = shown.done \cup {i}
      <4> HIDE DEF s
      <4> QED BY <2>3, <3>3
    <3> HIDE DEF s, R, B
    <3>5. ASSUME NEW j \in 1 .. n
          PROVE  /\ j \in ToSet(s.begun) <=> D[j] >= 1
                 /\ j \in s.open <=> D[j] \in {1, 2}
                 /\ j \in s.told <=> D[j] >= 2
                 /\ j \in s.done <=> D[j] >= 3
      <4>1. CASE j = i
        <5>1. C[j] = 2 /\ D[j] = 3
            BY <1>7, <2>8, <4>1
        <5> QED BY <2>4, <3>4, <4>1, <5>1
      <4>2. CASE j # i
          BY <1>7, <2>4, <3>4, <4>2
      <4> QED BY <4>1, <4>2
    <3>6. IsInjective(s.begun)
        BY <2>3, <3>4
    <3> QED BY <3>4, <3>5, <3>6 DEF Shows, R
  <2> QED BY <2>2, <2>6, <2>7, <2>8
<1> QED BY <1>9, <1>12

-----------------------------------------------------------------------------
(* The inductive invariant, and each part of it as the transcript grows.   *)

\* The answer under way is the model's next one, and what was heard and shown is of it.
StreamOK ==
    /\ streaming \in BOOLEAN
    /\ IF streaming THEN Len(made) < MaxAnswers /\ Answering(Len(made) + 1, answer)
       ELSE answer = Plain /\ heard = <<>> /\ shown = NothingShown
    /\ thinking \in Seq(BlockType)
    /\ HeardOK(Len(answer.calls), heard) /\ ShownOK(Len(answer.calls), heard, shown)

IInv ==
    /\ adapter \in Adapters /\ store \in Stores
    /\ History /\ RowsOK /\ AskedOK /\ Requested /\ StreamOK

LEMMA RowAppended ==
  ASSUME RowsOK, NEW m, m \in MessageType, NEW rs, rs = Append(rows, m)
  PROVE  /\ rs \in Seq(MessageType) /\ Len(rs) = Len(rows) + 1 /\ Len(rows) \in Nat
         /\ rs[Len(rows) + 1] = m /\ \A i \in 1 .. Len(rows) : rs[i] = rows[i]
         /\ \A i \in 1 .. Len(rs) : i \in 1 .. Len(rows) \/ i = Len(rows) + 1
         /\ \A i \in 1 .. Len(rows) : i \in 1 .. Len(rs)
<1>1. rows \in Seq(MessageType)
    BY DEF RowsOK, Messages
<1>2. /\ rs \in Seq(MessageType) /\ Len(rs) = Len(rows) + 1 /\ Len(rows) \in Nat
      /\ rs[Len(rows) + 1] = m /\ \A i \in 1 .. Len(rows) : rs[i] = rows[i]
    BY <1>1, AppendProperties
<1> DEFINE n == Len(rows)
<1>3. n \in Nat /\ Len(rs) = n + 1
    BY <1>2
<1> HIDE DEF n
<1>4. /\ \A i \in 1 .. Len(rs) : i \in 1 .. n \/ i = n + 1
      /\ \A i \in 1 .. n : i \in 1 .. Len(rs)
    BY <1>3
<1> QED BY <1>2, <1>4 DEF n

LEMMA RowsGrow ==
  ASSUME RowsOK, NEW m, Message(m), rows' = Append(rows, m),
         m.role = "tool" => \E j \in 1 .. Len(rows) : \E k \in 1 .. Len(rows[j].calls) : rows[j].calls[k].id = m.of,
         m.role # "assistant" => m.thought = 0 /\ m.reasoning = 0
  PROVE  RowsOK'
<1> DEFINE rs == rows'
           n == Len(rows)
<1>1. /\ rs \in Seq(MessageType) /\ Len(rs) = n + 1 /\ n \in Nat
      /\ rs[n + 1] = m /\ \A i \in 1 .. n : rs[i] = rows[i]
      /\ \A i \in 1 .. Len(rs) : i \in 1 .. n \/ i = n + 1
  <2>1. m \in MessageType /\ rs = Append(rows, m) /\ RowsOK
      BY DEF Message
  <2> HIDE DEF rs
  <2> QED BY ONLY <2>1, RowAppended
<1>2. \A i \in 1 .. n : Message(rows[i])
    BY DEF RowsOK, Messages
<1>3. \A i \in 1 .. n : rows[i].role = "tool" =>
            \E j \in 1 .. i - 1 : \E k \in 1 .. Len(rows[j].calls) : rows[j].calls[k].id = rows[i].of
    BY DEF RowsOK
<1>4. \A i \in 1 .. n : rows[i].role # "assistant" => rows[i].thought = 0 /\ rows[i].reasoning = 0
    BY DEF RowsOK
<1>5. m.role = "tool" => \E j \in 1 .. n : \E k \in 1 .. Len(rows[j].calls) : rows[j].calls[k].id = m.of
    OBVIOUS
<1> HIDE DEF rs, n
<1>6. ASSUME NEW i \in 1 .. Len(rs)
      PROVE  /\ Message(rs[i])
             /\ rs[i].role = "tool" =>
                    \E j \in 1 .. i - 1 : \E k \in 1 .. Len(rs[j].calls) : rs[j].calls[k].id = rs[i].of
             /\ rs[i].role # "assistant" => rs[i].thought = 0 /\ rs[i].reasoning = 0
  <2>1. CASE i \in 1 .. n
    <3>1. rs[i] = rows[i]
        BY <1>1, <2>1
    <3>2. ASSUME rs[i].role = "tool"
          PROVE  \E j \in 1 .. i - 1 : \E k \in 1 .. Len(rs[j].calls) : rs[j].calls[k].id = rs[i].of
      <4>1. PICK j \in 1 .. i - 1 : \E k \in 1 .. Len(rows[j].calls) : rows[j].calls[k].id = rows[i].of
          BY <1>3, <2>1, <3>1, <3>2
      <4>2. j \in 1 .. n
          BY <1>1, <2>1, <4>1
      <4>3. rs[j] = rows[j]
          BY <1>1, <4>2
      <4> QED BY <3>1, <4>1, <4>3
    <3> QED BY <1>2, <1>4, <2>1, <3>1, <3>2
  <2>2. CASE i = n + 1
    <3>1. rs[i] = m /\ i - 1 = n
        BY <1>1, <2>2
    <3>2. ASSUME m.role = "tool"
          PROVE  \E j \in 1 .. i - 1 : \E k \in 1 .. Len(rs[j].calls) : rs[j].calls[k].id = m.of
      <4>1. PICK j \in 1 .. n : \E k \in 1 .. Len(rows[j].calls) : rows[j].calls[k].id = m.of
          BY <1>5, <3>2
      <4>2. rs[j] = rows[j]
          BY <1>1, <4>1
      <4> QED BY <3>1, <4>1, <4>2
    <3> QED BY <3>1, <3>2
  <2> QED BY <1>1, <2>1, <2>2
<1> QED BY <1>1, <1>6 DEF RowsOK, Messages, rs

LEMMA AskedStays ==
  ASSUME RowsOK, AskedOK, NEW m, m \in MessageType, rows' = Append(rows, m), asked' = asked
  PROVE  AskedOK'
<1>1. /\ Len(rows') = Len(rows) + 1 /\ Len(rows) \in Nat /\ \A i \in 1 .. Len(rows) : rows'[i] = rows[i]
    BY RowAppended
<1>2. asked \in Seq(MessageType) /\ Len(asked) <= Len(rows) /\ \A i \in 1 .. Len(asked) : asked[i] = rows[i]
    BY DEF AskedOK
<1>3. Len(asked) \in Nat
    BY <1>2
<1>4. \A i \in 1 .. Len(asked) : asked[i] = rows'[i]
    BY <1>1, <1>2, <1>3
<1>5. Len(asked) <= Len(rows')
    BY <1>1, <1>2, <1>3
<1> QED BY <1>2, <1>4, <1>5 DEF AskedOK

LEMMA HistoryStays ==
  ASSUME History, RowsOK, NEW m, m \in MessageType, m.role # "assistant",
         rows' = Append(rows, m), made' = made, UNCHANGED <<adapter, store>>
  PROVE  History'
<1> DEFINE rs == rows'
           n == Len(rows)
<1>1. /\ Len(rs) = n + 1 /\ n \in Nat
      /\ rs[n + 1] = m /\ \A i \in 1 .. n : rs[i] = rows[i]
      /\ \A i \in 1 .. Len(rs) : i \in 1 .. n \/ i = n + 1
      /\ \A i \in 1 .. n : i \in 1 .. Len(rs)
    BY RowAppended
<1>2. /\ Len(made) \in Nat /\ Len(made) <= MaxAnswers
      /\ \A k \in 1 .. Len(made) : made[k].row \in 1 .. n /\ made[k].answer \in MessageType
    BY HistoryIs
<1> HIDE DEF rs
<1>3. made \in Seq([answer : MessageType, thinking : Seq(BlockType), row : 1 .. Len(rs)])
  <2>1. [answer : MessageType, thinking : Seq(BlockType), row : 1 .. n] \subseteq [answer : MessageType, thinking : Seq(BlockType), row : 1 .. Len(rs)]
      BY <1>1
  <2> DEFINE R == [answer : MessageType, thinking : Seq(BlockType), row : 1 .. n]
             Q == [answer : MessageType, thinking : Seq(BlockType), row : 1 .. Len(rs)]
  <2>2. made \in Seq(R) /\ R \subseteq Q
      BY <2>1, HistoryIs
  <2> HIDE DEF R, Q
  <2>3. \A k \in 1 .. Len(made) : made[k] \in Q
      BY <2>2
  <2>4. made \in Seq(Q)
      BY <2>2, <2>3, SeqDef
  <2> QED BY <2>4 DEF Q
<1>4. ASSUME NEW k \in 1 .. Len(made)
      PROVE  Answering(k, made[k].answer)' /\ StoredRow(k, made[k], rows[made[k].row])'
  <2>1. Answering(k, made[k].answer) /\ StoredRow(k, made[k], rows[made[k].row])
      BY DEF History
  <2>2. rows'[made'[k].row] = rows[made[k].row] /\ made'[k] = made[k]
      BY <1>1, <1>2 DEF rs
  <2>3. Answering(k, made[k].answer)'
      BY <2>1, <2>2 DEF Answering
  <2>4. StoredRow(k, made[k], rows[made[k].row])'
      BY <2>1, <2>2 DEF StoredRow
  <2> QED BY <2>3, <2>4
<1>5. ASSUME NEW i \in 1 .. Len(rs), rs[i].role = "assistant" PROVE \E k \in 1 .. Len(made) : made[k].row = i
  <2>1. i \in 1 .. n /\ rs[i] = rows[i]
      BY <1>1, <1>5
  <2> QED BY <1>5, <2>1 DEF History
<1>6. \A j, k \in 1 .. Len(made) : j < k => made[j].row < made[k].row
    BY DEF History
<1>7. (\A k \in 1 .. Len(made) : /\ Answering(k, made[k].answer)
                                 /\ StoredRow(k, made[k], rows[made[k].row]))'
    BY <1>4
<1>8. /\ (made \in Seq([answer : MessageType, thinking : Seq(BlockType), row : 1 .. Len(rows)]) /\ Len(made) <= MaxAnswers)'
      /\ (\A i \in 1 .. Len(rows) : rows[i].role = "assistant" => \E k \in 1 .. Len(made) : made[k].row = i)'
      /\ (\A j, k \in 1 .. Len(made) : j < k => made[j].row < made[k].row)'
    BY <1>2, <1>3, <1>5, <1>6 DEF rs
<1> QED BY <1>7, <1>8 DEF History

LEMMA HistoryGrows ==
  ASSUME History, RowsOK, Len(made) < MaxAnswers,
         NEW a, Answering(Len(made) + 1, a), NEW t, t \in Seq(BlockType),
         NEW x, x = [answer |-> a, thinking |-> t, row |-> Len(rows) + 1],
         NEW m, StoredRow(Len(made) + 1, x, m),
         rows' = Append(rows, m), made' = Append(made, x), UNCHANGED <<adapter, store>>
  PROVE  History'
<1> DEFINE rs == rows'
           ks == made'
           n == Len(rows)
           l == Len(made)
<1>1. /\ Len(rs) = n + 1 /\ n \in Nat
      /\ rs[n + 1] = m /\ \A i \in 1 .. n : rs[i] = rows[i]
      /\ \A i \in 1 .. Len(rs) : i \in 1 .. n \/ i = n + 1
      /\ \A i \in 1 .. n : i \in 1 .. Len(rs)
  <2>1. m \in MessageType /\ rs = Append(rows, m) /\ RowsOK
      BY DEF StoredRow
  <2> HIDE DEF rs
  <2> QED BY ONLY <2>1, RowAppended
<1>2. /\ l \in Nat /\ l <= MaxAnswers /\ DOMAIN made = 1 .. l
      /\ \A k \in 1 .. l : made[k].row \in 1 .. n /\ made[k].answer \in MessageType
    BY HistoryIs
<1> DEFINE Q == [answer : MessageType, thinking : Seq(BlockType), row : 1 .. Len(rs)]
<1>3. made \in Seq(Q) /\ x \in Q
  <2>1. [answer : MessageType, thinking : Seq(BlockType), row : 1 .. n] \subseteq Q
      BY <1>1
  <2> DEFINE R == [answer : MessageType, thinking : Seq(BlockType), row : 1 .. n]
  <2>2. made \in Seq(R) /\ R \subseteq Q
      BY <2>1, HistoryIs
  <2>3. x \in Q
    <3>1. n + 1 \in 1 .. Len(rs) /\ a \in MessageType
        BY <1>1 DEF Answering
    <3> QED BY <3>1
  <2> HIDE DEF R, Q
  <2>4. \A k \in 1 .. l : made[k] \in Q
      BY <2>2
  <2>5. made \in Seq(Q)
      BY <2>2, <2>4, SeqDef
  <2> QED BY <2>3, <2>5
<1>4. x.answer = a /\ x.row = n + 1
    OBVIOUS
<1>5. /\ ks \in Seq(Q) /\ Len(ks) = l + 1 /\ ks[l + 1] = x /\ \A k \in 1 .. l : ks[k] = made[k]
      /\ \A k \in 1 .. Len(ks) : k \in 1 .. l \/ k = l + 1
  <2>1. ks = Append(made, x) /\ made \in Seq(Q) /\ x \in Q
      BY <1>3
  <2> HIDE DEF Q, ks
  <2>2. ks \in Seq(Q) /\ Len(ks) = l + 1 /\ ks[l + 1] = x /\ \A k \in 1 .. l : ks[k] = made[k]
      BY ONLY <2>1, AppendProperties
  <2> QED BY <1>2, <2>2
<1> HIDE DEF rs, ks, Q
<1>6. ASSUME NEW k \in 1 .. Len(ks)
      PROVE  Answering(k, made[k].answer)' /\ StoredRow(k, made[k], rows[made[k].row])'
  <2>1. CASE k \in 1 .. l
    <3>1. Answering(k, made[k].answer) /\ StoredRow(k, made[k], rows[made[k].row])
        BY <2>1 DEF History
    <3>2. rows'[made'[k].row] = rows[made[k].row] /\ made'[k] = made[k]
        BY <1>1, <1>2, <1>5, <2>1 DEF rs, ks
    <3>3. Answering(k, made[k].answer)'
        BY <3>1, <3>2 DEF Answering
    <3>4. StoredRow(k, made[k], rows[made[k].row])'
      <4>1. StoredRow(k, made[k], rows[made[k].row])' = StoredRow(k, made'[k], rows'[made'[k].row])
          BY DEF StoredRow
      <4> QED BY ONLY <3>1, <3>2, <4>1
    <3> QED BY <3>3, <3>4
  <2>2. CASE k = l + 1
    <3>1. made'[k].answer = a /\ made'[k] = x /\ rows'[made'[k].row] = m
        BY <1>1, <1>4, <1>5, <2>2 DEF rs, ks
    <3>2. Answering(k, a)
        BY <2>2
    <3>3. Answering(k, made[k].answer)'
        BY <3>1, <3>2 DEF Answering
    <3>4. StoredRow(k, made[k], rows[made[k].row])'
      <4>1. StoredRow(k, made[k], rows[made[k].row])' = StoredRow(k, made'[k], rows'[made'[k].row])
          BY DEF StoredRow
      <4>2. StoredRow(k, x, m) /\ made'[k] = x /\ rows'[made'[k].row] = m
          BY <2>2, <3>1
      <4> QED BY ONLY <4>1, <4>2
    <3> QED BY <3>3, <3>4
  <2> QED BY <1>5, <2>1, <2>2
<1>7. ASSUME NEW i \in 1 .. Len(rs), rs[i].role = "assistant" PROVE \E k \in 1 .. Len(ks) : ks[k].row = i
  <2>1. CASE i \in 1 .. n
    <3>1. rows[i].role = "assistant"
        BY <1>1, <1>7, <2>1
    <3>2. PICK k \in 1 .. l : made[k].row = i
        BY <2>1, <3>1 DEF History
    <3>3. k \in 1 .. Len(ks) /\ ks[k] = made[k]
        BY <1>2, <1>5, <3>2
    <3> QED BY <3>2, <3>3
  <2>2. CASE i = n + 1
    <3>1. l + 1 \in 1 .. Len(ks) /\ ks[l + 1].row = i
        BY <1>2, <1>4, <1>5, <2>2
    <3> QED BY <3>1
  <2> QED BY <1>1, <2>1, <2>2
<1>8. ASSUME NEW j \in 1 .. Len(ks), NEW k \in 1 .. Len(ks), j < k PROVE ks[j].row < ks[k].row
  <2>1. j \in 1 .. l /\ ks[j] = made[j] /\ made[j].row \in 1 .. n
      BY <1>2, <1>5, <1>8
  <2>2. CASE k \in 1 .. l
    <3>1. made[j].row < made[k].row
        BY <1>8, <2>1, <2>2 DEF History
    <3> QED BY <1>5, <2>1, <2>2, <3>1
  <2>3. CASE k = l + 1
    <3>1. ks[k].row = n + 1
        BY <1>4, <1>5, <2>3
    <3> QED BY <1>1, <2>1, <3>1
  <2> QED BY <1>5, <2>2, <2>3
<1>9. (\A k \in 1 .. Len(made) : /\ Answering(k, made[k].answer)
                                 /\ StoredRow(k, made[k], rows[made[k].row]))'
    BY <1>6 DEF ks
<1>10. Len(ks) <= MaxAnswers
    BY <1>2, <1>5, ProviderAssumption
<1>11. /\ (made \in Seq([answer : MessageType, thinking : Seq(BlockType), row : 1 .. Len(rows)]) /\ Len(made) <= MaxAnswers)'
       /\ (\A i \in 1 .. Len(rows) : rows[i].role = "assistant" => \E k \in 1 .. Len(made) : made[k].row = i)'
       /\ (\A j, k \in 1 .. Len(made) : j < k => made[j].row < made[k].row)'
    BY <1>5, <1>7, <1>8, <1>10 DEF rs, ks, Q
<1> QED BY <1>9, <1>11 DEF History

-----------------------------------------------------------------------------
(* What a step writes.                                                     *)

LEMMA AnswersAre ==
  ASSUME NEW a, a \in Answers, Len(made) \in Nat, Len(made) < MaxAnswers
  PROVE  Answering(Len(made) + 1, a)
<1> DEFINE n == Len(made) + 1
           M == {id \in Ids : id[1] \in DOMAIN made /\ id[2] \in DOMAIN made[id[1]].answer.calls}
<1>1. IsFiniteSet(Ids)
  <2>1. 1 \in Int /\ MaxAnswers \in Int /\ MaxCalls \in Int
      BY ProviderAssumption
  <2>2. IsFiniteSet(1 .. MaxAnswers) /\ IsFiniteSet(1 .. MaxCalls)
      BY <2>1, FS_Interval
  <2> QED BY <2>2, FS_Product DEF Ids
<1>2. IsFiniteSet(M)
  <2>1. M \subseteq Ids
      OBVIOUS
  <2> HIDE DEF M
  <2> QED BY <1>1, <2>1, FS_Subset
<1>3. Cardinality(M) \in Nat
  <2> HIDE DEF M
  <2> QED BY <1>2, FS_CardinalityType
<1>4. Left = MaxCalls - Cardinality(M)
    BY DEF Left
<1> HIDE DEF M
<1>5. PICK count \in 0 .. Left, text, signed, reasoning \in BOOLEAN :
        a = Made(n, count, text, signed, reasoning)
    BY DEF Answers
<1>6. count \in Nat /\ count <= MaxCalls
    BY <1>3, <1>4, ProviderAssumption
<1>7. n \in Nat /\ n >= 1 /\ n <= MaxAnswers
    BY ProviderAssumption
<1> HIDE DEF n
<1> DEFINE cs == [i \in 1 .. count |-> [id |-> <<n, i>>, whole |-> FALSE,
                                        signed |-> adapter = "gemini" /\ signed]]
<1>8. /\ cs \in Seq(CallType) /\ Len(cs) = count
      /\ \A k \in 1 .. count : cs[k].id = <<n, k>> /\ cs[k].whole = FALSE
  <2>1. \A k \in 1 .. count : <<n, k>> \in Ids
      BY <1>6, <1>7, ProviderAssumption DEF Ids
  <2>2. (adapter = "gemini" /\ signed) \in BOOLEAN
      OBVIOUS
  <2>3. cs \in [1 .. count -> CallType] /\ \A k \in 1 .. count : cs[k].id = <<n, k>> /\ cs[k].whole = FALSE
      BY <2>1, <2>2 DEF CallType
  <2> HIDE DEF cs
  <2> QED BY <1>6, <2>3, Listed
<1> DEFINE re == IF adapter = "openai" /\ reasoning THEN n ELSE 0
<1>9. re \in {0, n}
    BY <1>7
<1>10. a = [Plain EXCEPT !.role = "assistant", !.text = text, !.reasoning = re, !.calls = cs]
    BY <1>5 DEF Made
<1> HIDE DEF re, cs
<1>11. re \in 0 .. MaxAnswers
    BY <1>7, <1>9, ProviderAssumption
<1>12. /\ a \in MessageType /\ a.role = "assistant" /\ a.image = FALSE /\ a.of = NoId /\ a.result = "none"
       /\ a.reasoning = re /\ a.calls = cs
  <2>1. Plain \in MessageType /\ Plain.image = FALSE /\ Plain.of = NoId /\ Plain.result = "none"
      BY PlainType DEF Plain
  <2> QED BY <1>8, <1>9, <1>10, <1>11, <2>1 DEF MessageType
<1>13. Len(a.calls) <= MaxCalls /\ \A k \in 1 .. Len(a.calls) : a.calls[k].id = <<n, k>> /\ a.calls[k].whole = FALSE
    BY <1>6, <1>8, <1>12
<1>14. a.reasoning \in {0, n}
    BY <1>9, <1>12
<1> QED BY <1>12, <1>13, <1>14 DEF Answering, n

LEMMA ThoughtsAre == ASSUME AdapterOK, NEW t, t \in Thoughts PROVE t \in Seq(BlockType)
<1>1. CASE adapter = "anthropic"
  <2>1. t \in Thinkings
      BY <1>1 DEF Thoughts
  <2> QED BY <2>1, ProviderAssumption DEF BlockType
<1>2. CASE adapter = "openai"
  <2>1. t \in {<<>>, <<[told |-> TRUE, signed |-> FALSE]>>}
      BY <1>2 DEF Thoughts
  <2> DEFINE x == [told |-> TRUE, signed |-> FALSE]
  <2>2. x \in BlockType
      BY DEF BlockType
  <2>3. t = <<>> \/ t = <<x>>
      BY <2>1
  <2> HIDE DEF x
  <2>4. <<>> \in Seq(BlockType) /\ <<x>> \in Seq(BlockType)
      BY <2>2
  <2> QED BY <2>3, <2>4
<1>3. CASE adapter \in {"gemini", "qwen"}
  <2>1. t \in {<<>>}
      BY <1>3 DEF Thoughts
  <2> QED BY <2>1
<1> QED BY <1>1, <1>2, <1>3 DEF AdapterOK

LEMMA Stored ==
  ASSUME AdapterOK, store \in {"memory", "postgres"}, Len(made) \in Nat, Len(made) < MaxAnswers,
         Answering(Len(made) + 1, answer), thinking \in Seq(BlockType), Complete,
         NEW e, e.answer = answer, e.thinking = thinking,
         NEW m, m = Kept(Gathered)
  PROVE  StoredRow(Len(made) + 1, e, m)
<1> DEFINE w == Whole(answer)
           n == Len(made) + 1
           th == ThoughtOf(n, thinking)
           sg == Signature(thinking)
           b == Gathered
<1>1. answer \in MessageType /\ answer.role = "assistant"
    BY DEF Answering
<1>2. Calls = w /\ w \in Seq(CallType)
    BY <1>1, CallsWhole, WholeType
<1>3. w = [i \in DOMAIN answer.calls |-> [answer.calls[i] EXCEPT !.whole = TRUE]]
    BY DEF Whole
<1>4. th \in 0 .. MaxAnswers /\ sg \in Nat
  <2>1. n \in Nat \ {0} /\ n <= MaxAnswers
      BY ProviderAssumption
  <2>2. th \in {0, n} /\ sg \in Nat
      BY <2>1, ThoughtOfIs, SignatureIs
  <2> QED BY <2>1, <2>2, ProviderAssumption
<1>5. b = [answer EXCEPT !.calls = w, !.thought = th, !.signed = sg]
    BY <1>2 DEF Gathered
<1> HIDE DEF w, b, th, sg
<1>6. /\ b \in MessageType /\ b.role = "assistant" /\ b.text = answer.text /\ b.calls = w
      /\ b.thought = th /\ b.signed = sg /\ b.reasoning = answer.reasoning
    BY <1>1, <1>2, <1>4, <1>5 DEF MessageType
<1>7. m = Kept(b)
    BY DEF b
<1>8. /\ m \in MessageType /\ m.role = "assistant" /\ m.text = b.text /\ m.calls = b.calls
      /\ m.thought = b.thought
      /\ m.reasoning = IF b.thought # 0 \/ store = "memory" THEN b.reasoning ELSE 0
      /\ m.signed = IF b.thought # 0 \/ store = "memory" THEN b.signed ELSE 0
  <2>1. CASE store = "memory"
    <3>1. m = b
        BY <1>7, <2>1 DEF Kept
    <3> QED BY <1>6, <2>1, <3>1
  <2>2. CASE store = "postgres"
    <3>1. m = Together(Parts(b))
        BY <1>7, <2>2 DEF Kept
    <3>2. b \in MessageType
        BY <1>6
    <3>3. /\ m \in MessageType /\ m.role = "assistant" /\ m.text = b.text /\ m.calls = b.calls
          /\ m.thought = b.thought /\ m.reasoning = IF b.thought # 0 THEN b.reasoning ELSE 0
          /\ m.signed = IF b.thought # 0 THEN b.signed ELSE 0
        BY ONLY <3>1, <3>2, GivenBack
    <3> QED BY <2>2, <3>3
  <2> QED BY <2>1, <2>2
<1>9. /\ m.text = answer.text /\ m.calls = w /\ m.thought = th
      /\ m.signed = IF m.thought # 0 \/ store = "memory" THEN sg ELSE 0
      /\ m.reasoning = IF m.thought # 0 \/ store = "memory" THEN answer.reasoning ELSE 0
    BY <1>6, <1>8
<1> QED BY <1>3, <1>8, <1>9 DEF StoredRow, th, sg, n

\* What a user writes, and a result.
LEMMA Written ==
  ASSUME NEW image \in BOOLEAN, NEW m, m = [Plain EXCEPT !.text = TRUE, !.image = image]
  PROVE  m \in MessageType /\ Message(m) /\ m.role = "user" /\ m.thought = 0 /\ m.reasoning = 0
<1>1. Plain \in MessageType /\ Plain.role = "user" /\ Plain.thought = 0 /\ Plain.reasoning = 0 /\ Plain.calls = <<>>
    BY PlainType DEF Plain
<1>2. m \in MessageType /\ m.role = "user" /\ m.thought = 0 /\ m.reasoning = 0 /\ m.calls = <<>>
    BY <1>1 DEF MessageType
<1> QED BY <1>2 DEF Message

ResultOf(id, r) == [Plain EXCEPT !.role = "tool", !.of = id, !.result = r]

LEMMA ResultIs ==
  ASSUME NEW id, id \in Ids, NEW r, r = "first" \/ r = "second"
  PROVE  /\ Message(ResultOf(id, r)) /\ ResultOf(id, r).role = "tool" /\ ResultOf(id, r).of = id
         /\ ResultOf(id, r).thought = 0 /\ ResultOf(id, r).reasoning = 0
<1> DEFINE m == ResultOf(id, r)
<1>1. Plain \in MessageType /\ Plain.thought = 0 /\ Plain.reasoning = 0 /\ Plain.calls = <<>>
    BY PlainType DEF Plain
<1>2. m \in MessageType /\ m.role = "tool" /\ m.of = id /\ m.thought = 0 /\ m.reasoning = 0 /\ m.calls = <<>>
    BY <1>1 DEF MessageType, ResultOf
<1> QED BY <1>2 DEF Message

-----------------------------------------------------------------------------
(* The invariant holds first, and every step keeps it.                     *)

LEMMA Adapts == ASSUME adapter \in Adapters, store \in Stores PROVE AdapterOK /\ store \in {"memory", "postgres"}
BY ProviderAssumption DEF AdapterOK

LEMMA NothingUnderWay == HeardOK(Len(Plain.calls), <<>>) /\ ShownOK(Len(Plain.calls), <<>>, NothingShown)
<1>1. Len(Plain.calls) = 0
    BY PlainType
<1> QED BY <1>1, NothingHeard

LEMMA Begins == ASSUME Init PROVE IInv
<1>1. /\ adapter \in Adapters /\ store \in Stores
      /\ rows = <<>> /\ request = <<>> /\ asked = <<>> /\ made = <<>>
      /\ answer = Plain /\ thinking = <<>> /\ streaming = FALSE /\ heard = <<>> /\ shown = NothingShown
    BY DEF Init
<1>2. AdapterOK
    BY <1>1, Adapts
<1>3. History
    BY <1>1, ProviderAssumption DEF History
<1>4. RowsOK
    BY <1>1 DEF RowsOK, Messages
<1>5. AskedOK
    BY <1>1 DEF AskedOK
<1>6. Requested
  <2>1. Sanitize(<<>>) = <<>>
    <3>1. FlattenSeq(<<>>) = <<>>
        BY FlattenType
    <3> QED BY <3>1 DEF Sanitize
  <2>2. Messages(<<>>)
      BY DEF Messages
  <2> DEFINE ms == <<>>
  <2>3. PICK W : Wire(ms, W) /\ Request(ms) = W[Len(ms)]
      BY <1>2, <2>2, WireOf
  <2>4. W[0] = <<>>
      BY <2>3 DEF Wire
  <2> QED BY <1>1, <2>1, <2>3, <2>4 DEF Requested
<1>7. StreamOK
  <2>1. thinking \in Seq(BlockType)
      BY <1>1
  <2>2. HeardOK(Len(answer.calls), heard) /\ ShownOK(Len(answer.calls), heard, shown)
      BY <1>1, NothingUnderWay
  <2>3. streaming = FALSE /\ answer = Plain /\ heard = <<>> /\ shown = NothingShown
      BY <1>1
  <2> QED BY <2>1, <2>2, <2>3 DEF StreamOK
<1> QED BY <1>1, <1>3, <1>4, <1>5, <1>6, <1>7 DEF IInv

\* The request is of the same rows.
LEMMA RequestStays == ASSUME Requested, UNCHANGED <<adapter, request, asked>> PROVE Requested'
BY DEF Requested, Request, Adds

\* So is the answer under way.
LEMMA StreamStays ==
  ASSUME StreamOK, UNCHANGED <<adapter, streamVars, made>>
  PROVE  StreamOK'
<1>1. (Answering(Len(made) + 1, answer))' <=> Answering(Len(made) + 1, answer)
    BY DEF Answering, streamVars
<1>2. (HeardOK(Len(answer.calls), heard))' <=> HeardOK(Len(answer.calls), heard)
    BY DEF HeardOK, Fragments, streamVars
<1>3. (ShownOK(Len(answer.calls), heard, shown))' <=> ShownOK(Len(answer.calls), heard, shown)
    BY DEF ShownOK, streamVars
<1> QED BY <1>1, <1>2, <1>3 DEF StreamOK, streamVars

LEMMA StreamEnds ==
  ASSUME streaming' = FALSE, answer' = Plain, thinking' \in Seq(BlockType), heard' = <<>>,
         shown' = NothingShown, adapter' = adapter
  PROVE  StreamOK'
<1>1. HeardOK(Len(Plain.calls), <<>>)'
    BY NothingUnderWay DEF HeardOK, Fragments
<1>2. ShownOK(Len(Plain.calls), <<>>, NothingShown)'
    BY NothingUnderWay DEF ShownOK
<1> QED BY <1>1, <1>2 DEF StreamOK

LEMMA TranscriptStays ==
  ASSUME History, RowsOK, UNCHANGED <<adapter, store, rows, made>>
  PROVE  History' /\ RowsOK'
<1>1. RowsOK'
    BY DEF RowsOK, Messages, Message
<1>2. \A k \in 1 .. Len(made) : /\ Answering(k, made[k].answer)
                                /\ StoredRow(k, made[k], rows[made[k].row])
    BY DEF History
<1>3. (\A k \in 1 .. Len(made) : /\ Answering(k, made[k].answer)
                                 /\ StoredRow(k, made[k], rows[made[k].row]))'
    BY <1>2 DEF Answering, StoredRow
<1> QED BY <1>1, <1>3 DEF History

LEMMA Grown ==
  ASSUME IInv, NEW m, Message(m), rows' = Append(rows, m), m.role # "assistant", m.thought = 0, m.reasoning = 0,
         m.role = "tool" => \E j \in 1 .. Len(rows) : \E k \in 1 .. Len(rows[j].calls) : rows[j].calls[k].id = m.of,
         UNCHANGED <<adapter, store, request, asked, streamVars, made>>
  PROVE  IInv'
<1>1. /\ adapter \in Adapters /\ store \in Stores
      /\ History /\ RowsOK /\ AskedOK /\ Requested /\ StreamOK
    BY DEF IInv
<1>2. m \in MessageType
    BY DEF Message
<1>3. RowsOK'
    BY <1>1, RowsGrow
<1>4. AskedOK'
    BY <1>1, <1>2, AskedStays
<1>5. History'
    BY <1>1, <1>2, HistoryStays
<1>6. Requested'
    BY <1>1, RequestStays
<1>7. StreamOK'
    BY <1>1, StreamStays
<1> QED BY <1>1, <1>3, <1>4, <1>5, <1>6, <1>7 DEF IInv

LEMMA Writes == ASSUME IInv, UserWrites PROVE IInv'
<1>1. PICK image \in BOOLEAN : rows' = Append(rows, [Plain EXCEPT !.text = TRUE, !.image = image])
    BY DEF UserWrites
<1> DEFINE m == [Plain EXCEPT !.text = TRUE, !.image = image]
<1>2. Message(m) /\ m.role = "user" /\ m.thought = 0 /\ m.reasoning = 0 /\ rows' = Append(rows, m)
    BY <1>1, Written
<1>3. UNCHANGED <<adapter, store, request, asked, streamVars, made>>
    BY DEF UserWrites
<1> HIDE DEF m
<1> QED BY <1>2, <1>3, Grown

LEMMA Tells == ASSUME IInv, NEW id \in Ids, ToolTells(id) PROVE IInv'
<1> DEFINE before == {i \in At("tool", rows) : rows[i].of = id}
           r == IF before = {} THEN "first" ELSE "second"
           m == ResultOf(id, r)
<1>1. rows' = Append(rows, m) /\ UNCHANGED <<adapter, store, request, asked, streamVars, made>>
    BY DEF ToolTells, ResultOf
<1>2. r = "first" \/ r = "second"
    OBVIOUS
<1>3. \E j \in DOMAIN rows : \E k \in DOMAIN rows[j].calls : rows[j].calls[k].id = id
    BY DEF ToolTells
<1> HIDE DEF r
<1>4. id \in Ids
    OBVIOUS
<1>5. Message(m) /\ m.role = "tool" /\ m.of = id /\ m.thought = 0 /\ m.reasoning = 0
    BY ONLY <1>2, <1>4, ResultIs
<1> HIDE DEF m
<1>6. /\ Len(rows) \in Nat /\ DOMAIN rows = 1 .. Len(rows)
      /\ \A j \in 1 .. Len(rows) : rows[j] \in MessageType
    BY DEF IInv, RowsOK, Messages
<1>7. \A j \in 1 .. Len(rows) : DOMAIN rows[j].calls = 1 .. Len(rows[j].calls)
    BY <1>6, WholeType
<1>8. \E j \in 1 .. Len(rows) : \E k \in 1 .. Len(rows[j].calls) : rows[j].calls[k].id = m.of
    BY <1>3, <1>6, <1>7, <1>5
<1> QED BY <1>1, <1>8, <1>5, Grown

LEMMA Asks == ASSUME IInv, Ask PROVE IInv'
<1>1. /\ adapter \in Adapters /\ store \in Stores
      /\ History /\ RowsOK /\ AskedOK /\ Requested /\ StreamOK
    BY DEF IInv
<1>2. /\ ~streaming
      /\ request' = Request(Sanitize(rows)) /\ asked' = rows
      /\ heard' = <<>> /\ shown' = NothingShown
      /\ UNCHANGED <<adapter, store, rows, made>>
    BY DEF Ask
<1>3. History' /\ RowsOK'
    BY <1>1, <1>2, TranscriptStays
<1>4. AskedOK'
  <2>1. rows \in Seq(MessageType) /\ Len(rows) \in Nat
      BY <1>1 DEF RowsOK, Messages
  <2> QED BY <1>2, <2>1 DEF AskedOK
<1>5. Requested'
    BY <1>2 DEF Requested, Request, Adds
<1>6. StreamOK'
  <2>1. CASE Len(made) < MaxAnswers
    <3>0. thinking' \in Thoughts
        BY <2>1 DEF Ask
    <3>10. thinking' \in Seq(BlockType)
      <4>1. AdapterOK
          BY <1>1, Adapts
      <4> QED BY <3>0, <4>1, ThoughtsAre
    <3>1. answer' \in Answers /\ streaming' = TRUE
        BY <2>1 DEF Ask
    <3>2. Len(made) \in Nat
        BY <1>1, HistoryIs
    <3>3. Answering(Len(made) + 1, answer')
        BY <2>1, <3>1, <3>2, AnswersAre
    <3>4. Answering(Len(made) + 1, answer)'
        BY <1>2, <3>3 DEF Answering
    <3>5. Len(answer'.calls) \in Nat
      <4>1. answer' \in MessageType
          BY <3>3 DEF Answering
      <4> QED BY <4>1, WholeType
    <3>6. HeardOK(Len(answer'.calls), <<>>) /\ ShownOK(Len(answer'.calls), <<>>, NothingShown)
        BY <3>5, NothingHeard
    <3>7. (HeardOK(Len(answer.calls), heard))'
        BY <1>2, <3>6 DEF HeardOK, Fragments
    <3>8. (ShownOK(Len(answer.calls), heard, shown))'
        BY <1>2, <3>6 DEF ShownOK
    <3> QED BY <1>2, <2>1, <3>1, <3>4, <3>7, <3>8, <3>10 DEF StreamOK
  <2>2. CASE ~(Len(made) < MaxAnswers)
    <3>1. UNCHANGED <<answer, thinking, streaming>>
        BY <2>2 DEF Ask
    <3>2. answer = Plain /\ thinking \in Seq(BlockType)
        BY <1>1, <1>2 DEF StreamOK
    <3>3. streaming = FALSE
        BY <1>1, <1>2 DEF StreamOK
    <3> QED BY <1>2, <3>1, <3>2, <3>3, StreamEnds
  <2> QED BY <2>1, <2>2
<1> QED BY <1>1, <1>2, <1>3, <1>4, <1>5, <1>6 DEF IInv

LEMMA Hears == ASSUME IInv, NEW i \in 1 .. MaxCalls, Hear(i) PROVE IInv'
<1> DEFINE n == Len(answer.calls)
           c == Counts(n, heard)
           f == [index |-> i, is |-> Fragments[Cardinality(Of(i)) + 1]]
<1>1. /\ adapter \in Adapters /\ store \in Stores
      /\ History /\ RowsOK /\ AskedOK /\ Requested /\ StreamOK
    BY DEF IInv
<1>2. /\ streaming /\ i \in DOMAIN answer.calls
      /\ Cardinality(Of(i)) < Len(Fragments)
      /\ heard' = Append(heard, f) /\ shown' = Show(f)
      /\ UNCHANGED <<adapter, store, rows, request, asked, answer, thinking, streaming, made>>
    BY DEF Hear
<1>3. AdapterOK
    BY <1>1, Adapts
<1>4. /\ streaming = TRUE /\ Len(made) < MaxAnswers /\ Answering(Len(made) + 1, answer)
      /\ HeardOK(n, heard) /\ ShownOK(n, heard, shown) /\ thinking \in Seq(BlockType)
    BY <1>1, <1>2 DEF StreamOK
<1>5. n \in Nat /\ i \in 1 .. n
  <2>1. answer \in MessageType
      BY <1>4 DEF Answering
  <2> QED BY <1>2, <2>1, WholeType
<1>6. c[i] = Cardinality(Of(i))
    BY <1>5 DEF Counts, Marks, Of
<1>7. c[i] < Len(Fragments) /\ f = [index |-> i, is |-> Fragments[c[i] + 1]]
    BY <1>2, <1>6
<1> HIDE DEF f, n
<1>8. HeardOK(n, heard') /\ ShownOK(n, heard', shown')
    BY <1>2, <1>3, <1>4, <1>5, <1>7, HearsOn
<1>9. StreamOK'
  <2>1. (HeardOK(Len(answer.calls), heard))'
      BY <1>2, <1>8 DEF HeardOK, Fragments, n
  <2>2. (ShownOK(Len(answer.calls), heard, shown))'
      BY <1>2, <1>8 DEF ShownOK, n
  <2>3. Answering(Len(made) + 1, answer)'
      BY <1>2, <1>4 DEF Answering
  <2> QED BY <1>2, <1>4, <2>1, <2>2, <2>3 DEF StreamOK
<1>10. History' /\ RowsOK'
    BY <1>1, <1>2, TranscriptStays
<1>11. AskedOK'
    BY <1>1, <1>2 DEF AskedOK
<1>12. Requested'
    BY <1>1, <1>2, RequestStays
<1> QED BY <1>1, <1>2, <1>9, <1>10, <1>11, <1>12 DEF IInv

LEMMA Cancels == ASSUME IInv, StreamCancelled PROVE IInv'
<1>1. /\ adapter \in Adapters /\ store \in Stores
      /\ History /\ RowsOK /\ AskedOK /\ Requested /\ StreamOK
    BY DEF IInv
<1>2. /\ streaming' = FALSE /\ answer' = Plain /\ thinking' = <<>> /\ heard' = <<>> /\ shown' = NothingShown
      /\ UNCHANGED <<adapter, store, rows, request, asked, made>>
    BY DEF StreamCancelled
<1>3. History' /\ RowsOK'
    BY <1>1, <1>2, TranscriptStays
<1>4. AskedOK'
    BY <1>1, <1>2 DEF AskedOK
<1>5. Requested'
    BY <1>1, <1>2, RequestStays
<1>6. StreamOK'
  <2>1. thinking' \in Seq(BlockType)
      BY <1>2
  <2> QED BY <1>2, <2>1, StreamEnds
<1> QED BY <1>1, <1>2, <1>3, <1>4, <1>5, <1>6 DEF IInv

LEMMA Finishes == ASSUME IInv, Answer PROVE IInv'
<1> DEFINE m == Kept(Gathered)
           e == [answer |-> answer, thinking |-> thinking, row |-> Len(rows) + 1]
<1>1. /\ adapter \in Adapters /\ store \in Stores
      /\ History /\ RowsOK /\ AskedOK /\ Requested /\ StreamOK
    BY DEF IInv
<1>2. /\ streaming /\ Complete /\ streaming' = FALSE
      /\ rows' = Append(rows, m)
      /\ made' = Append(made, e)
      /\ answer' = Plain /\ thinking' = <<>> /\ heard' = <<>> /\ shown' = NothingShown
      /\ UNCHANGED <<adapter, store, request, asked>>
    BY DEF Answer
<1>3. /\ Len(made) < MaxAnswers /\ Answering(Len(made) + 1, answer)
      /\ thinking \in Seq(BlockType)
    BY <1>1, <1>2 DEF StreamOK
<1>4. StoredRow(Len(made) + 1, e, m)
  <2>1. AdapterOK /\ store \in {"memory", "postgres"}
      BY <1>1, Adapts
  <2>2. Len(made) \in Nat
      BY <1>1, HistoryIs
  <2>3. e.answer = answer /\ e.thinking = thinking
      OBVIOUS
  <2> HIDE DEF e, m
  <2>4. m = Kept(Gathered)
      BY DEF m
  <2> QED BY <1>2, <1>3, <2>1, <2>2, <2>3, <2>4, Stored
<1>5. History'
  <2>1. e = [answer |-> answer, thinking |-> thinking, row |-> Len(rows) + 1]
      OBVIOUS
  <2> HIDE DEF e, m
  <2> QED BY <1>1, <1>2, <1>3, <1>4, <2>1, HistoryGrows
<1> HIDE DEF m, e
<1>6. m \in MessageType /\ m.role = "assistant" /\ Message(m)
    BY <1>4 DEF StoredRow, Message
<1>7. RowsOK'
    BY <1>1, <1>2, <1>6, RowsGrow
<1>8. AskedOK'
    BY <1>1, <1>2, <1>6, AskedStays
<1>9. Requested'
    BY <1>1, <1>2, RequestStays
<1>10. StreamOK'
  <2>1. thinking' \in Seq(BlockType)
      BY <1>2
  <2> QED BY <1>2, <2>1, StreamEnds
<1> QED BY <1>1, <1>2, <1>5, <1>7, <1>8, <1>9, <1>10 DEF IInv

LEMMA Keeps == ASSUME IInv, [Next]_vars PROVE IInv'
<1>1. CASE UserWrites
    BY <1>1, Writes
<1>2. CASE Ask
    BY <1>2, Asks
<1>3. CASE StreamCancelled
    BY <1>3, Cancels
<1>4. CASE Answer
    BY <1>4, Finishes
<1>5. CASE \E i \in 1 .. MaxCalls : Hear(i)
    BY <1>5, Hears
<1>6. CASE \E id \in Ids : ToolTells(id)
    BY <1>6, Tells
<1>7. CASE UNCHANGED vars
  <2>1. /\ adapter \in Adapters /\ store \in Stores
        /\ History /\ RowsOK /\ AskedOK /\ Requested /\ StreamOK
      BY DEF IInv
  <2>2. UNCHANGED <<adapter, store, rows, request, asked, streamVars, made>>
      BY <1>7 DEF vars
  <2>3. History' /\ RowsOK'
      BY <2>1, <2>2, TranscriptStays
  <2>4. AskedOK'
      BY <2>1, <2>2 DEF AskedOK
  <2>5. Requested'
      BY <2>1, <2>2, RequestStays
  <2>6. StreamOK'
      BY <2>1, <2>2, StreamStays
  <2> QED BY <2>1, <2>2, <2>3, <2>4, <2>5, <2>6 DEF IInv
<1> QED BY <1>1, <1>2, <1>3, <1>4, <1>5, <1>6, <1>7 DEF Next

-----------------------------------------------------------------------------
(* What the invariant says.                                                *)

LEMMA Typed == ASSUME IInv PROVE TypeOK
<1>1. /\ adapter \in Adapters /\ store \in Stores
      /\ History /\ RowsOK /\ AskedOK /\ Requested /\ StreamOK
    BY DEF IInv
<1>2. AdapterOK
    BY <1>1, Adapts
<1>3. rows \in Seq(MessageType) /\ Len(rows) \in Nat /\ DOMAIN rows = 1 .. Len(rows)
  <2>1. rows \in Seq(MessageType)
      BY <1>1 DEF RowsOK, Messages
  <2> QED BY <2>1, LenProperties
<1>4. IsPrefix(asked, rows)
  <2>1. /\ asked \in Seq(MessageType) /\ Len(asked) <= Len(rows)
        /\ \A i \in 1 .. Len(asked) : asked[i] = rows[i]
      BY <1>1 DEF AskedOK
  <2>2. Len(asked) \in Nat
      BY <2>1
  <2> DEFINE k == Len(asked)
             a == SubSeq(asked, 1, k)
             b == SubSeq(rows, 1, k)
  <2>3. /\ a \in Seq(MessageType) /\ Len(a) = k /\ \A i \in 1 .. k : a[i] = asked[i]
        /\ b \in Seq(MessageType) /\ Len(b) = k /\ \A i \in 1 .. k : b[i] = rows[i]
      BY <1>3, <2>1, <2>2
  <2>4. a = b
    <3>1. \A i \in 1 .. k : a[i] = b[i]
        BY <2>1, <2>3
    <3> HIDE DEF a, b, k
    <3> QED BY <2>3, <3>1, SameSeq
  <2> QED BY <2>1, <2>4 DEF IsPrefix
<1>5. request \in Seq(TurnType)
  <2>1. Transcript(asked)
      BY <1>1, TranscriptAsked
  <2>2. Messages(Sanitize(asked))
    <3>1. Clean(asked, Sanitize(asked))
        BY <2>1, Sanitized
    <3> QED BY <3>1 DEF Clean, Transcript
  <2>3. Request(Sanitize(asked)) \in Seq(TurnType)
      BY <1>2, <2>2, RequestSays
  <2> QED BY <1>1, <2>3 DEF Requested
<1>6. streaming \in BOOLEAN /\ answer \in MessageType /\ thinking \in Seq(BlockType)
  <2>1. CASE streaming
      BY <1>1, <2>1 DEF StreamOK, Answering
  <2>2. CASE ~streaming
      BY <1>1, <2>2, PlainType DEF StreamOK
  <2>3. streaming \in BOOLEAN /\ thinking \in Seq(BlockType)
      BY <1>1 DEF StreamOK
  <2> QED BY <2>1, <2>2, <2>3
<1>7. DOMAIN answer.calls = 1 .. Len(answer.calls) /\ Len(answer.calls) \in Nat
    BY <1>6, WholeType
<1>8. heard \in Seq([index : DOMAIN answer.calls, is : ToSet(Fragments)])
    BY <1>1, <1>7 DEF StreamOK, HeardOK
<1>9. shown \in [begun : Seq(DOMAIN answer.calls), open : SUBSET DOMAIN answer.calls,
                 told : SUBSET DOMAIN answer.calls, done : SUBSET DOMAIN answer.calls]
  <2>1. ShownOK(Len(answer.calls), heard, shown)
      BY <1>1 DEF StreamOK
  <2>2. CASE adapter = "anthropic"
      BY <1>7, <2>1, <2>2 DEF ShownOK, Shows
  <2>3. CASE adapter # "anthropic"
    <3>1. shown = NothingShown
        BY <2>1, <2>3 DEF ShownOK
    <3>2. <<>> \in Seq(DOMAIN answer.calls)
        OBVIOUS
    <3> QED BY <3>1, <3>2 DEF NothingShown
  <2> QED BY <2>2, <2>3
<1>10. made \in Seq([answer : MessageType, thinking : Seq(BlockType), row : DOMAIN rows])
    BY <1>1, <1>3 DEF History
<1> QED BY <1>1, <1>3, <1>4, <1>5, <1>6, <1>8, <1>9, <1>10 DEF TypeOK

LEMMA KeptWhole == ASSUME IInv PROVE AnswersKept
<1>1. History /\ RowsOK
    BY DEF IInv
<1>2. Len(rows) \in Nat /\ DOMAIN rows = 1 .. Len(rows) /\ DOMAIN made = 1 .. Len(made)
  <2>1. rows \in Seq(MessageType)
      BY <1>1 DEF RowsOK, Messages
  <2> QED BY <1>1, <2>1, LenProperties, HistoryIs
<1>3. \A n \in 1 .. Len(made) : StoredRow(n, made[n], rows[made[n].row])
    BY <1>1 DEF History
<1>4. \A n \in DOMAIN made :
            LET row == rows[made[n].row]
            IN  /\ row.role = "assistant" /\ row.text = made[n].answer.text
                /\ row.calls = [i \in DOMAIN made[n].answer.calls |->
                                   [made[n].answer.calls[i] EXCEPT !.whole = TRUE]]
    BY <1>2, <1>3 DEF StoredRow
<1>5. /\ \A i \in At("assistant", rows) : \E n \in DOMAIN made : made[n].row = i
      /\ \A n, k \in DOMAIN made : n < k => made[n].row < made[k].row
    BY <1>1, <1>2 DEF History, At
<1> QED BY <1>4, <1>5 DEF AnswersKept

LEMMA ToldWhole == ASSUME IInv PROVE ShownWhole
<1> SUFFICES ASSUME streaming, adapter = "anthropic", Complete
             PROVE  /\ ToSet(shown.begun) = DOMAIN answer.calls /\ IsInjective(shown.begun)
                    /\ shown.told = DOMAIN answer.calls /\ shown.done = DOMAIN answer.calls
    BY DEF ShownWhole
<1> DEFINE n == Len(answer.calls)
           c == Counts(n, heard)
<1>1. Shows(n, c, shown)
    BY DEF IInv, StreamOK, ShownOK
<1>2. DOMAIN answer.calls = 1 .. n /\ n \in Nat
  <2>1. answer \in MessageType
      BY Typed DEF TypeOK
  <2> QED BY <2>1, WholeType
<1>3. \A i \in 1 .. n : c[i] = 3
  <2>1. Len(Fragments) = 3
    <3>1. AdapterOK
        BY Adapts DEF IInv
    <3> QED BY <3>1, FragmentsAre
  <2>2. \A i \in 1 .. n : Cardinality(Of(i)) = 3
      BY <1>2, <2>1 DEF Complete
  <2>3. \A i \in 1 .. n : c[i] = Cardinality(Of(i))
      BY DEF Counts, Marks, Of
  <2> QED BY <2>2, <2>3
<1> HIDE DEF n, c
<1>4. /\ shown.begun \in Seq(1 .. n) /\ shown.told \subseteq 1 .. n /\ shown.done \subseteq 1 .. n
      /\ IsInjective(shown.begun)
      /\ \A i \in 1 .. n : i \in ToSet(shown.begun) /\ i \in shown.told /\ i \in shown.done
    BY <1>1, <1>3 DEF Shows
<1>5. ToSet(shown.begun) \subseteq 1 .. n
  <2>1. DOMAIN shown.begun = 1 .. Len(shown.begun) /\ \A p \in 1 .. Len(shown.begun) : shown.begun[p] \in 1 .. n
    <3> DEFINE b == shown.begun
    <3>1. b \in Seq(1 .. n)
        BY <1>4
    <3> HIDE DEF b
    <3>2. DOMAIN b = 1 .. Len(b) /\ \A p \in 1 .. Len(b) : b[p] \in 1 .. n
        BY <3>1, LenProperties
    <3> QED BY <3>2 DEF b
  <2> QED BY <2>1 DEF ToSet
<1> QED BY <1>2, <1>4, <1>5

-----------------------------------------------------------------------------
(* The theorems.                                                           *)

LEMMA Means == ASSUME IInv PROVE /\ AdapterOK /\ Transcript(asked) /\ Requested /\ History /\ RowsOK /\ AskedOK
<1>1. adapter \in Adapters /\ store \in Stores /\ History /\ RowsOK /\ AskedOK /\ Requested
    BY DEF IInv
<1>2. AdapterOK
    BY <1>1, Adapts
<1>3. Transcript(asked)
    BY <1>1, TranscriptAsked
<1> QED BY <1>1, <1>2, <1>3

LEMMA Invariant == Spec => []IInv
<1>1. Init => IInv
    BY Begins
<1>2. IInv /\ [Next]_vars => IInv'
    BY Keeps
<1> QED BY <1>1, <1>2, PTL DEF Spec

\* Whatever adapter and store a conversation has, and in whatever order fragments, results
\* and messages come: the state is well formed, each answer is stored with the calls the
\* model made, whole and in order, and Anthropic's listener is shown all of it
\* (providers/qwen.py and anthropic.py, stores/postgres/conversion.py).
THEOREM ConversationCorrect == Spec => []ConversationInv
<1>1. IInv => ConversationInv
    BY Typed, KeptWhole, ToldWhole DEF ConversationInv
<1> QED BY <1>1, Invariant, PTL

\* Whatever results came, late, twice or never, every request has one output after each
\* call, the first result the transcript had or the word that there is none
\* (sanitize_tool_messages and the adapters' convert_messages).
THEOREM RequestsPaired == Spec => []Paired
<1>1. IInv => Paired
    BY Means, PairedOf
<1> QED BY <1>1, Invariant, PTL

\* What a model must be given back of its thinking reaches every later request, once,
\* through the store and the adapter.
THEOREM ThinkingKept == Spec => []ThinkingGoesOn
<1>1. IInv => ThinkingGoesOn
    BY Means, ThinkingOf
<1> QED BY <1>1, Invariant, PTL

\* Anthropic's turn after an answer has an output of each call, unless another message
\* came before one of them.
THEOREM ResultsFollow == Spec => []ResultsNext
<1>1. IInv => ResultsNext
    BY Means, ResultsOf
<1> QED BY <1>1, Invariant, PTL

================================================================================
