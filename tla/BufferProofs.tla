---------------------------- MODULE BufferProofs ----------------------------
(***************************************************************************)
(* Proofs about Buffer, for any number of buffers, any block size and      *)
(* strings of any length, and about Codec, whose frames come in whatever   *)
(* pieces and blocks. A lemma about an operation of BufferOps takes its    *)
(* result as a constant c that is Equal to it; then the provers work with  *)
(* the facts about c and not with the record expression.                   *)
(***************************************************************************)
EXTENDS Buffer, Codec, SequenceTheorems, FiniteSetTheorems, TLAPS

\* x = y, as a fact that the provers do not rewrite with.
Equal(x, y) == x = y

-----------------------------------------------------------------------------
(* Induction, and what recursive functions are *)

\* A set of numbers that is not empty has a least.
LEMMA LeastElement ==
  ASSUME NEW S \in SUBSET Nat, S # {}
  PROVE  \E m \in S : \A k \in S : m <= k
  <1>. DEFINE T == {0..n : n \in S}
  <1>1. ASSUME NEW n \in S PROVE 0..n \in FiniteSubsetsOf(Nat)
    BY FS_Interval DEF FiniteSubsetsOf
  <1>2. T \subseteq FiniteSubsetsOf(Nat) /\ T # {}
    BY <1>1
  <1>3. IsWellFoundedOn(StrictSubsetOrdering(Nat), FiniteSubsetsOf(Nat))
    BY FS_StrictSubsetOrderingWellFounded
  <1>4. \E x \in T : \A y \in T : ~ (<<y, x>> \in StrictSubsetOrdering(Nat))
    <2>. HIDE DEF T
    <2>. QED
      BY <1>2, <1>3, WFMin
  <1>5. PICK m \in S : \A k \in S : ~ (<<0..k, 0..m>> \in StrictSubsetOrdering(Nat))
    BY <1>4
  <1>6. ASSUME NEW k \in S, k < m PROVE FALSE
    <2>1. 0..k \subseteq 0..m /\ 0..k \subseteq Nat /\ 0..m \subseteq Nat
      BY <1>6
    <2>2. m \in 0..m /\ m \notin 0..k
      BY <1>6
    <2>3. 0..k # 0..m
      BY <2>2
    <2>. QED
      BY <1>5, <2>1, <2>3 DEF StrictSubsetOrdering
  <1>. QED
    BY <1>6

\* What holds of 0 and passes from each number to the next holds of all.
LEMMA Induction ==
  ASSUME NEW S, 0 \in S, \A n \in Nat : n \in S => n + 1 \in S
  PROVE  \A n \in Nat : n \in S
  <1>. SUFFICES ASSUME {n \in Nat : n \notin S} # {} PROVE FALSE
    OBVIOUS
  <1>1. PICK m \in Nat : m \notin S /\ \A k \in Nat : k \notin S => m <= k
    BY LeastElement, {n \in Nat : n \notin S} \in SUBSET Nat
  <1>2. m # 0 /\ m - 1 \in Nat
    BY <1>1
  <1>3. m - 1 \in S
    BY <1>1, <1>2
  <1>4. (m - 1) + 1 = m /\ (m - 1) + 1 \in S
    BY <1>2, <1>3
  <1>. QED
    BY <1>1, <1>4

\* A function on the numbers that is defined from its predecessors exists: F says how.
Iterates(D, x, F, g) == g \in [Nat -> D] /\ g[0] = x /\ \A n \in Nat : g[n + 1] = F[n][g[n]]

\* It is made from larger and larger pieces, which agree on what they share.
LEMMA Recursion ==
  ASSUME NEW D, NEW x \in D, NEW F \in [Nat -> [D -> D]]
  PROVE  \E g : Iterates(D, x, F, g)
  <1>. DEFINE Upto(n, g) == /\ g \in [0..n -> D] /\ g[0] = x
                            /\ \A k \in 0..(n - 1) : g[k + 1] = F[k][g[k]]
  <1>1. \A n \in Nat : \E g : Upto(n, g)
    <2>. DEFINE S == {n \in Nat : \E g : Upto(n, g)}
    <2>1. 0 \in S
      <3>1. Upto(0, [k \in 0..0 |-> x])
        OBVIOUS
      <3>. QED
        BY <3>1
    <2>2. ASSUME NEW n \in Nat, n \in S PROVE n + 1 \in S
      <3>1. PICK g : Upto(n, g)
        BY <2>2
      <3>. DEFINE h == [k \in 0..(n + 1) |-> IF k = n + 1 THEN F[n][g[n]] ELSE g[k]]
      <3>2. F[n][g[n]] \in D
        BY <3>1
      <3>3. h \in [0..(n + 1) -> D] /\ h[0] = x
        BY <3>1, <3>2
      <3>4. \A k \in 0..n : h[k + 1] = F[k][h[k]]
        BY <3>1
      <3>5. (n + 1) - 1 = n
        OBVIOUS
      <3>6. Upto(n + 1, h)
        BY <3>3, <3>4, <3>5
      <3>. HIDE DEF Upto, h
      <3>. QED
        BY <3>6
    <2>. HIDE DEF S
    <2>3. \A n \in Nat : n \in S
      BY <2>1, <2>2, Induction
    <2>. QED
      BY <2>3 DEF S
  <1>2. ASSUME NEW n \in Nat, NEW m \in Nat, n <= m, NEW g, NEW h, Upto(n, g), Upto(m, h)
        PROVE  \A k \in 0..n : g[k] = h[k]
    <2>. DEFINE S == {k \in Nat : k <= n => g[k] = h[k]}
    <2>1. 0 \in S
      BY <1>2
    <2>2. ASSUME NEW k \in Nat, k \in S PROVE k + 1 \in S
      <3>. SUFFICES ASSUME k + 1 <= n PROVE g[k + 1] = h[k + 1]
        OBVIOUS
      <3>1. k \in 0..(n - 1) /\ k \in 0..(m - 1) /\ g[k] = h[k]
        BY <1>2, <2>2
      <3>. QED
        BY <1>2, <3>1
    <2>. HIDE DEF S
    <2>3. \A k \in Nat : k \in S
      BY <2>1, <2>2, Induction
    <2>. QED
      BY <2>3 DEF S
  <1>. DEFINE pick(n) == CHOOSE g : Upto(n, g)
              f == [n \in Nat |-> pick(n)[n]]
  <1>3. ASSUME NEW n \in Nat PROVE Upto(n, pick(n))
    BY <1>1
  <1>. HIDE DEF pick
  <1>4. f \in [Nat -> D] /\ f[0] = x
    BY <1>3
  <1>5. ASSUME NEW n \in Nat PROVE f[n + 1] = F[n][f[n]]
    <2>1. Upto(n, pick(n)) /\ Upto(n + 1, pick(n + 1))
      BY <1>3
    <2>. HIDE DEF Upto
    <2>2. \A k \in 0..n : pick(n)[k] = pick(n + 1)[k]
      BY <1>2, <2>1, n <= n + 1, n + 1 \in Nat
    <2>3. pick(n)[n] = pick(n + 1)[n]
      BY <2>2
    <2>4. pick(n + 1)[n + 1] = F[n][pick(n + 1)[n]]
      BY <2>1, n \in 0..((n + 1) - 1) DEF Upto
    <2>. QED
      BY <2>3, <2>4
  <1>6. Iterates(D, x, F, f)
    BY <1>4, <1>5 DEF Iterates
  <1>. QED
    BY <1>6

\* A recursive function on 0..n: F says how a value follows from the one before it.
Steps(D, x, F, n, f) ==
    /\ f \in [0..n -> D] /\ f[0] = x
    /\ \A k \in 1..n : f[k - 1] \in D /\ f[k] = F[f[k - 1]]

\* There is one.
LEMMA FiniteRecursion ==
  ASSUME NEW D, NEW x \in D, NEW F \in [D -> D], NEW n \in Nat
  PROVE  \E f : Steps(D, x, F, n, f)
  <1>. DEFINE H == [k \in Nat |-> F]
  <1>1. PICK g : Iterates(D, x, H, g)
    <2>1. H \in [Nat -> [D -> D]]
      OBVIOUS
    <2>. HIDE DEF H
    <2>. QED
      BY <2>1, Recursion
  <1>2. g \in [Nat -> D] /\ g[0] = x /\ \A k \in Nat : g[k + 1] = F[g[k]]
    BY <1>1 DEF Iterates
  <1>. DEFINE f == [k \in 0..n |-> g[k]]
  <1>3. f \in [0..n -> D] /\ f[0] = x
    BY <1>2
  <1>4. ASSUME NEW k \in 1..n PROVE f[k - 1] \in D /\ f[k] = F[f[k - 1]]
    <2>1. k - 1 \in Nat /\ (k - 1) + 1 = k /\ k - 1 \in 0..n /\ k \in 0..n
      OBVIOUS
    <2>2. g[k] = F[g[k - 1]] /\ g[k - 1] \in D
      BY <1>2, <2>1
    <2>. QED
      BY <2>1, <2>2
  <1>. HIDE DEF f
  <1>. QED
    BY <1>3, <1>4 DEF Steps

\* g[n] is what the first n of the sequences ss make together.
Joins(S, ss, g) ==
    /\ g \in [Nat -> Seq(S)] /\ g[0] = <<>>
    /\ \A n \in Nat : n < Len(ss) => g[n + 1] = g[n] \o ss[n + 1]

\* There is such a g.
LEMMA JoinsExist ==
  ASSUME NEW S, NEW ss \in Seq(Seq(S))
  PROVE  \E g : Joins(S, ss, g)
  <1>. DEFINE next(n, a) == IF n < Len(ss) THEN a \o ss[n + 1] ELSE a
              F == [n \in Nat |-> [a \in Seq(S) |-> next(n, a)]]
  <1>1. Len(ss) \in Nat /\ <<>> \in Seq(S) /\ \A i \in 1..Len(ss) : ss[i] \in Seq(S)
    BY EmptySeq, LenProperties
  <1>2. ASSUME NEW n \in Nat, NEW a \in Seq(S) PROVE next(n, a) \in Seq(S)
    <2>1. CASE n < Len(ss)
      <3>1. n + 1 \in 1..Len(ss)
        BY <1>1, <2>1
      <3>. QED
        BY <1>1, <2>1, <3>1, ConcatProperties
    <2>. QED
      BY <2>1
  <1>3. ASSUME NEW n \in Nat, NEW a \in Seq(S), n < Len(ss) PROVE next(n, a) = a \o ss[n + 1]
    BY <1>3
  <1>. HIDE DEF next
  <1>4. F \in [Nat -> [Seq(S) -> Seq(S)]]
    BY <1>2
  <1>5. ASSUME NEW n \in Nat, NEW a \in Seq(S) PROVE F[n][a] = next(n, a)
    OBVIOUS
  <1>. HIDE DEF F
  <1>6. PICK g \in [Nat -> Seq(S)] : g[0] = <<>> /\ \A n \in Nat : g[n + 1] = F[n][g[n]]
    <2>1. \E g : Iterates(Seq(S), <<>>, F, g)
      BY <1>1, <1>4, Recursion
    <2>. QED
      BY <2>1 DEF Iterates
  <1>7. ASSUME NEW n \in Nat, n < Len(ss) PROVE g[n + 1] = g[n] \o ss[n + 1]
    BY <1>3, <1>5, <1>6, <1>7
  <1>. QED
    BY <1>6, <1>7 DEF Joins

\* What FlattenSeq computes step by step.
LEMMA FlattenIs ==
  ASSUME NEW S, NEW ss \in Seq(Seq(S)), NEW g, Joins(S, ss, g)
  PROVE  FlattenSeq(ss) = g[Len(ss)] /\ FlattenSeq(ss) \in Seq(S)
  <1>. DEFINE G(f) == [i \in 1..Len(ss) |-> IF i = 1 THEN ss[i] ELSE f[i - 1] \o ss[i]]
              f == CHOOSE f : f = G(f)
              h == [i \in 1..Len(ss) |-> g[i]]
  <1>1. Len(ss) \in Nat /\ <<>> \in Seq(S) /\ \A i \in 1..Len(ss) : ss[i] \in Seq(S)
    BY EmptySeq, LenProperties
  <1>2. ASSUME NEW i \in 1..Len(ss) PROVE g[i] = g[i - 1] \o ss[i]
    <2>1. i - 1 \in Nat /\ i - 1 < Len(ss) /\ (i - 1) + 1 = i
      BY <1>1
    <2>. QED
      BY <2>1 DEF Joins
  <1>3. g \in [Nat -> Seq(S)] /\ g[0] = <<>>
    BY DEF Joins
  <1>4. CASE Len(ss) = 0
    BY <1>3, <1>4, EmptySeq DEF FlattenSeq
  <1>5. CASE Len(ss) # 0
    <2>1. FlattenSeq(ss) = f[Len(ss)]
      BY <1>5 DEF FlattenSeq
    <2>2. ASSUME NEW i \in 1..Len(ss) PROVE h[i] = IF i = 1 THEN ss[i] ELSE h[i - 1] \o ss[i]
      <3>1. CASE i = 1
        <4>0. i - 1 = 0
          BY <3>1
        <4>1. g[i] = g[i - 1] \o ss[i]
          BY <1>2
        <4>2. g[i] = <<>> \o ss[i]
          BY <1>3, <4>0, <4>1
        <4>. QED
          BY <1>1, <3>1, <4>2, ConcatEmptySeq
      <3>2. CASE i # 1
        <4>1. i - 1 \in 1..Len(ss)
          BY <1>1, <3>2
        <4>. QED
          BY <1>2, <3>2, <4>1
      <3>. QED
        BY <3>1, <3>2
    <2>3. h = G(h)
      BY <2>2
    <2>. HIDE DEF h
    <2>4. f = G(f)
      BY <2>3
    <2>. HIDE DEF f
    <2>5. ASSUME NEW i \in 1..Len(ss) PROVE f[i] = IF i = 1 THEN ss[i] ELSE f[i - 1] \o ss[i]
      BY <2>4
    <2>. HIDE DEF G
    <2>. DEFINE T == {n \in Nat : n + 1 <= Len(ss) => f[n + 1] = g[n + 1]}
    <2>6. 0 \in T
      <3>1. 1 \in 1..Len(ss)
        BY <1>1, <1>5
      <3>2. f[1] = ss[1]
        BY <2>5, <3>1
      <3>3. PICK i \in 1..Len(ss) : i = 1
        BY <3>1
      <3>4. g[i] = g[i - 1] \o ss[i]
        BY <1>2
      <3>7. i - 1 = 0
        BY <3>3
      <3>5. g[i] = <<>> \o ss[i]
        BY <1>3, <3>4, <3>7
      <3>6. g[i] = ss[i]
        BY <1>1, <3>5, ConcatEmptySeq
      <3>. QED
        BY <1>1, <3>2, <3>3, <3>6
    <2>7. \A n \in Nat : n \in T => n + 1 \in T
      <3>. SUFFICES ASSUME NEW n \in Nat, n \in T, (n + 1) + 1 <= Len(ss)
                    PROVE  f[(n + 1) + 1] = g[(n + 1) + 1]
        OBVIOUS
      <3>1. /\ f[n + 1] = g[n + 1] /\ (n + 1) + 1 \in 1..Len(ss)
            /\ ((n + 1) + 1) - 1 = n + 1 /\ (n + 1) + 1 # 1
        BY <1>1
      <3>2. f[(n + 1) + 1] = f[n + 1] \o ss[(n + 1) + 1]
        BY <2>5, <3>1
      <3>3. g[(n + 1) + 1] = g[n + 1] \o ss[(n + 1) + 1]
        BY <1>2, <3>1
      <3>. QED
        BY <3>1, <3>2, <3>3
    <2>. HIDE DEF T
    <2>8. \A n \in Nat : n \in T
      BY <2>6, <2>7, Induction
    <2>9. Len(ss) - 1 \in T /\ (Len(ss) - 1) + 1 = Len(ss) /\ Len(ss) - 1 \in Nat
      BY <1>1, <1>5, <2>8
    <2>10. f[Len(ss)] = g[Len(ss)]
      BY <1>1, <2>9 DEF T
    <2>. QED
      BY <1>1, <1>3, <2>1, <2>10
  <1>. QED
    BY <1>4, <1>5

\* The sequence whose first n elements are those of ss makes what g says of n.
LEMMA FlattenPrefix ==
  ASSUME NEW S, NEW ss \in Seq(Seq(S)), NEW g, Joins(S, ss, g),
         NEW tt \in Seq(Seq(S)), Len(tt) <= Len(ss), \A i \in 1..Len(tt) : tt[i] = ss[i]
  PROVE  FlattenSeq(tt) = g[Len(tt)]
  <1>1. Len(ss) \in Nat /\ Len(tt) \in Nat
    BY LenProperties
  <1>2. ASSUME NEW n \in Nat, n < Len(tt) PROVE g[n + 1] = g[n] \o tt[n + 1]
    <2>1. n < Len(ss) /\ n + 1 \in 1..Len(tt)
      BY <1>1, <1>2
    <2>. QED
      BY <2>1 DEF Joins
  <1>3. Joins(S, tt, g)
    BY <1>2 DEF Joins
  <1>. QED
    BY <1>3, FlattenIs

\* What a sequence of sequences over S makes is over S.
LEMMA FlattenType ==
  ASSUME NEW S, NEW ss \in Seq(Seq(S))
  PROVE  FlattenSeq(ss) \in Seq(S)
  BY JoinsExist, FlattenIs

\* Two of them after each other.
LEMMA FlattenConcat ==
  ASSUME NEW S, NEW ss \in Seq(Seq(S)), NEW tt \in Seq(Seq(S))
  PROVE  FlattenSeq(ss \o tt) = FlattenSeq(ss) \o FlattenSeq(tt)
  <1>1. /\ ss \o tt \in Seq(Seq(S)) /\ Len(ss \o tt) = Len(ss) + Len(tt)
        /\ Len(ss) \in Nat /\ Len(tt) \in Nat
        /\ \A i \in 1..Len(ss) + Len(tt) : (ss \o tt)[i] = IF i <= Len(ss) THEN ss[i] ELSE tt[i - Len(ss)]
    BY ConcatProperties, LenProperties
  <1>2. PICK g : Joins(S, ss \o tt, g)
    BY <1>1, JoinsExist
  <1>3. PICK h : Joins(S, tt, h)
    BY JoinsExist
  <1>4. FlattenSeq(ss) = g[Len(ss)]
    <2>1. \A i \in 1..Len(ss) : ss[i] = (ss \o tt)[i]
      BY <1>1
    <2>2. Len(ss) <= Len(ss \o tt)
      BY <1>1
    <2>. DEFINE uu == ss \o tt
    <2>3. uu \in Seq(Seq(S)) /\ Joins(S, uu, g) /\ Len(ss) <= Len(uu) /\ \A i \in 1..Len(ss) : ss[i] = uu[i]
      BY <1>1, <1>2, <2>1, <2>2
    <2>. HIDE DEF uu
    <2>. QED
      BY <2>3, FlattenPrefix
  <1>5. FlattenSeq(ss \o tt) = g[Len(ss) + Len(tt)] /\ FlattenSeq(tt) = h[Len(tt)]
    BY <1>1, <1>2, <1>3, FlattenIs
  <1>. DEFINE a == g[Len(ss)]
  <1>6. a \in Seq(S) /\ g[Len(ss)] = a
    BY <1>1, <1>2 DEF Joins
  <1>. HIDE DEF a
  <1>. DEFINE T == {n \in Nat : n <= Len(tt) => g[Len(ss) + n] = a \o h[n]}
  <1>7. 0 \in T
    <2>1. PICK n \in Nat : n = 0
      OBVIOUS
    <2>2. a \o <<>> = a /\ h[n] = <<>> /\ Len(ss) + n = Len(ss)
      BY <1>1, <1>3, <1>6, <2>1, ConcatEmptySeq DEF Joins
    <2>3. g[Len(ss) + n] = a \o h[n]
      BY <1>6, <2>2
    <2>4. n \in T
      BY <2>3
    <2>. QED
      BY <2>1, <2>4
  <1>8. \A n \in Nat : n \in T => n + 1 \in T
    <2>. SUFFICES ASSUME NEW n \in Nat, n \in T PROVE n + 1 \in T
      OBVIOUS
    <2>. SUFFICES ASSUME n + 1 <= Len(tt) PROVE g[Len(ss) + (n + 1)] = a \o h[n + 1]
      OBVIOUS
    <2>1. /\ g[Len(ss) + n] = a \o h[n] /\ Len(ss) + n \in Nat /\ Len(ss) + n < Len(ss) + Len(tt)
          /\ Len(ss) + (n + 1) = (Len(ss) + n) + 1 /\ n < Len(tt)
      BY <1>1
    <2>. HIDE DEF T
    <2>2. /\ g[Len(ss) + (n + 1)] = g[Len(ss) + n] \o (ss \o tt)[Len(ss) + (n + 1)]
          /\ h[n + 1] = h[n] \o tt[n + 1]
      BY <1>1, <1>2, <1>3, <2>1 DEF Joins
    <2>3. (ss \o tt)[Len(ss) + (n + 1)] = tt[n + 1]
      <3>1. /\ Len(ss) + (n + 1) \in 1..Len(ss) + Len(tt) /\ ~(Len(ss) + (n + 1) <= Len(ss))
            /\ (Len(ss) + (n + 1)) - Len(ss) = n + 1
        BY <1>1
      <3>. QED
        BY <1>1, <3>1
    <2>4. h[n] \in Seq(S) /\ tt[n + 1] \in Seq(S)
      <3>1. n + 1 \in 1..Len(tt)
        BY <1>1
      <3>. QED
        BY <1>3, <3>1, LenProperties DEF Joins
    <2>. QED
      <3>1. g[Len(ss) + (n + 1)] = (a \o h[n]) \o tt[n + 1]
        <4>1. g[Len(ss) + (n + 1)] = g[Len(ss) + n] \o tt[n + 1]
          BY <2>2, <2>3
        <4>. QED
          BY <2>1, <4>1
      <3>2. (a \o h[n]) \o tt[n + 1] = a \o (h[n] \o tt[n + 1])
        <4>1. ASSUME NEW u \in Seq(S), NEW v \in Seq(S) PROVE (a \o u) \o v = a \o (u \o v)
          BY <1>6, ConcatAssociative
        <4>. QED
          BY <2>4, <4>1
      <3>. QED
        BY <2>2, <3>1, <3>2
  <1>. HIDE DEF T
  <1>9. \A n \in Nat : n \in T
    BY <1>7, <1>8, Induction
  <1>. QED
    BY <1>1, <1>4, <1>5, <1>6, <1>9 DEF T

\* Empty sequences make an empty one.
LEMMA FlattenOfEmpty ==
  ASSUME NEW S, NEW ss \in Seq(Seq(S)), \A i \in 1..Len(ss) : ss[i] = <<>>
  PROVE  FlattenSeq(ss) = <<>>
  <1>. DEFINE g == [n \in Nat |-> <<>>]
  <1>1. Len(ss) \in Nat /\ <<>> \in Seq(S)
    BY LenProperties, EmptySeq
  <1>2. ASSUME NEW n \in Nat, n < Len(ss) PROVE g[n + 1] = g[n] \o ss[n + 1]
    <2>1. ss[n + 1] = <<>>
      BY <1>1, <1>2
    <2>. QED
      BY <1>1, <2>1, ConcatEmptySeq
  <1>3. g \in [Nat -> Seq(S)] /\ g[0] = <<>> /\ g[Len(ss)] = <<>>
    BY <1>1
  <1>. HIDE DEF g
  <1>4. Joins(S, ss, g)
    BY <1>2, <1>3 DEF Joins
  <1>. QED
    BY <1>3, <1>4, FlattenIs

\* One sequence makes itself.
LEMMA FlattenOne ==
  ASSUME NEW S, NEW s \in Seq(S)
  PROVE  FlattenSeq(<<s>>) = s
  <1>1. <<s>> \in Seq(Seq(S)) /\ Len(<<s>>) = 1 /\ <<s>>[1] = s
    OBVIOUS
  <1>2. PICK g : Joins(S, <<s>>, g)
    BY <1>1, JoinsExist
  <1>3. g[0 + 1] = g[0] \o <<s>>[0 + 1] /\ g[0] = <<>> /\ 0 + 1 = 1
    <2>. DEFINE ss == <<s>>
    <2>1. PICK n \in Nat : n = 0
      OBVIOUS
    <2>2. n < Len(ss) /\ Joins(S, ss, g)
      BY <1>1, <1>2, <2>1
    <2>. HIDE DEF ss
    <2>3. g[n + 1] = g[n] \o ss[n + 1] /\ g[0] = <<>>
      BY <2>2 DEF Joins
    <2>. QED
      BY <2>1, <2>3 DEF ss
  <1>4. FlattenSeq(<<s>>) = g[1]
    BY <1>1, <1>2, FlattenIs
  <1>. QED
    BY <1>1, <1>3, <1>4, ConcatEmptySeq

-----------------------------------------------------------------------------
(* Parts of sequences *)

\* The first part of a sequence, and what follows it.
LEMMA SplitAt ==
  ASSUME NEW S, NEW s \in Seq(S), NEW i \in 0..Len(s)
  PROVE  /\ SubSeq(s, 1, i) \in Seq(S) /\ Len(SubSeq(s, 1, i)) = i
         /\ \A j \in 1..i : SubSeq(s, 1, i)[j] = s[j]
         /\ SubSeq(s, i + 1, Len(s)) \in Seq(S) /\ Len(SubSeq(s, i + 1, Len(s))) = Len(s) - i
         /\ \A j \in 1..(Len(s) - i) : SubSeq(s, i + 1, Len(s))[j] = s[i + j]
         /\ s = SubSeq(s, 1, i) \o SubSeq(s, i + 1, Len(s))
  <1>1. Len(s) \in Nat /\ \A j \in 1..Len(s) : s[j] \in S
    BY LenProperties
  <1>2. /\ SubSeq(s, 1, i) \in Seq(S) /\ Len(SubSeq(s, 1, i)) = i
        /\ \A j \in 1..i : SubSeq(s, 1, i)[j] = s[j]
    <2>1. \A j \in 1..i : s[j] \in S
      BY <1>1
    <2>2. /\ SubSeq(s, 1, i) \in Seq(S) /\ Len(SubSeq(s, 1, i)) = IF 1 <= i THEN i - 1 + 1 ELSE 0
          /\ \A j \in 1..(i - 1 + 1) : SubSeq(s, 1, i)[j] = s[1 + j - 1]
      BY <1>1, <2>1, SubSeqProperties
    <2>3. \A j \in 1..i : 1 + j - 1 = j /\ j \in 1..(i - 1 + 1)
      BY <1>1
    <2>. QED
      BY <1>1, <2>2, <2>3
  <1>3. /\ SubSeq(s, i + 1, Len(s)) \in Seq(S) /\ Len(SubSeq(s, i + 1, Len(s))) = Len(s) - i
        /\ \A j \in 1..(Len(s) - i) : SubSeq(s, i + 1, Len(s))[j] = s[i + j]
    <2>. DEFINE m == i + 1
    <2>0. m \in Int /\ Len(s) \in Int /\ m \in 1..Len(s) + 1
      BY <1>1
    <2>1. \A j \in m..Len(s) : s[j] \in S
      BY <1>1
    <2>. HIDE DEF m
    <2>2. /\ SubSeq(s, m, Len(s)) \in Seq(S)
          /\ Len(SubSeq(s, m, Len(s))) = IF m <= Len(s) THEN Len(s) - m + 1 ELSE 0
          /\ \A j \in 1..(Len(s) - m + 1) : SubSeq(s, m, Len(s))[j] = s[m + j - 1]
      BY <2>0, <2>1, SubSeqProperties
    <2>3. \A j \in 1..(Len(s) - i) : m + j - 1 = i + j /\ j \in 1..(Len(s) - m + 1)
      BY <1>1 DEF m
    <2>4. (IF m <= Len(s) THEN Len(s) - m + 1 ELSE 0) = Len(s) - i
      BY <1>1 DEF m
    <2>5. \A j \in 1..(Len(s) - i) : SubSeq(s, m, Len(s))[j] = s[i + j]
      BY <2>2, <2>3
    <2>. QED
      BY <2>2, <2>4, <2>5 DEF m
  <1>4. s = SubSeq(s, 1, i) \o SubSeq(s, i + 1, Len(s))
    <2>. DEFINE a == SubSeq(s, 1, i)
                b == SubSeq(s, i + 1, Len(s))
    <2>1. /\ a \in Seq(S) /\ b \in Seq(S) /\ Len(a) = i /\ Len(b) = Len(s) - i
          /\ \A j \in 1..i : a[j] = s[j]
          /\ \A j \in 1..(Len(s) - i) : b[j] = s[i + j]
      BY <1>2, <1>3
    <2>. HIDE DEF a, b
    <2>2. /\ a \o b \in Seq(S) /\ Len(a \o b) = i + (Len(s) - i)
          /\ \A j \in 1..i + (Len(s) - i) : (a \o b)[j] = IF j <= i THEN a[j] ELSE b[j - i]
      <3>1. a \in Seq(S) /\ b \in Seq(S)
        BY <2>1
      <3>2. /\ a \o b \in Seq(S) /\ Len(a \o b) = Len(a) + Len(b)
            /\ \A j \in 1..Len(a) + Len(b) : (a \o b)[j] = IF j <= Len(a) THEN a[j] ELSE b[j - Len(a)]
        BY <3>1, ConcatProperties
      <3>3. Len(a) = i /\ Len(b) = Len(s) - i
        BY <2>1
      <3>. QED
        BY <3>2, <3>3
    <2>3. i + (Len(s) - i) = Len(s)
      BY <1>1
    <2>4. ASSUME NEW j \in 1..Len(s) PROVE (a \o b)[j] = s[j]
      <3>1. (a \o b)[j] = IF j <= i THEN a[j] ELSE b[j - i]
        BY <2>2, <2>3
      <3>2. CASE j <= i
        BY <1>1, <2>1, <3>1, <3>2
      <3>3. CASE ~(j <= i)
        <4>1. j - i \in 1..(Len(s) - i) /\ i + (j - i) = j
          BY <1>1, <3>3
        <4>2. b[j - i] = s[i + (j - i)]
          BY <2>1, <4>1
        <4>. QED
          BY <3>1, <3>3, <4>1, <4>2
      <3>. QED
        BY <3>2, <3>3
    <2>5. a \o b = s
      BY <2>2, <2>3, <2>4, SeqEqual
    <2>. QED
      BY <2>5 DEF a, b
  <1>. QED
    BY <1>2, <1>3, <1>4

\* The first bytes of two strings are discarded.
LEMMA DiscardOfConcat ==
  ASSUME NEW S, NEW s \in Seq(S), NEW t \in Seq(S), NEW n \in Nat, n <= Len(s) + Len(t)
  PROVE  SubSeq(s \o t, n + 1, Len(s \o t))
           = IF n <= Len(s) THEN SubSeq(s, n + 1, Len(s)) \o t
             ELSE SubSeq(t, (n - Len(s)) + 1, Len(t))
  <1>. DEFINE u == s \o t
              v == SubSeq(u, n + 1, Len(u))
              a == SubSeq(s, n + 1, Len(s))
              b == SubSeq(t, (n - Len(s)) + 1, Len(t))
  <1>1. /\ u \in Seq(S) /\ Len(u) = Len(s) + Len(t) /\ Len(s) \in Nat /\ Len(t) \in Nat
        /\ \A i \in 1..Len(s) + Len(t) : u[i] = IF i <= Len(s) THEN s[i] ELSE t[i - Len(s)]
    BY ConcatProperties, LenProperties
  <1>. HIDE DEF u
  <1>2. n \in 0..Len(u)
    BY <1>1
  <1>3. /\ v \in Seq(S) /\ Len(v) = Len(u) - n
        /\ \A j \in 1..(Len(u) - n) : v[j] = u[n + j]
    BY <1>1, <1>2, SplitAt
  <1>. HIDE DEF v
  <1>4. CASE n <= Len(s)
    <2>1. n \in 0..Len(s)
      BY <1>1, <1>4
    <2>2. /\ a \in Seq(S) /\ Len(a) = Len(s) - n
          /\ \A j \in 1..(Len(s) - n) : a[j] = s[n + j]
      BY <2>1, SplitAt
    <2>. HIDE DEF a
    <2>3. /\ a \o t \in Seq(S) /\ Len(a \o t) = (Len(s) - n) + Len(t)
          /\ \A j \in 1..(Len(s) - n) + Len(t) : (a \o t)[j] = IF j <= Len(s) - n THEN a[j] ELSE t[j - (Len(s) - n)]
      <3>1. /\ a \o t \in Seq(S) /\ Len(a \o t) = Len(a) + Len(t)
            /\ \A j \in 1..Len(a) + Len(t) : (a \o t)[j] = IF j <= Len(a) THEN a[j] ELSE t[j - Len(a)]
        BY <2>2, ConcatProperties
      <3>. QED
        BY <2>2, <3>1
    <2>4. Len(a \o t) = Len(v)
      BY <1>1, <1>3, <2>3
    <2>5. ASSUME NEW j \in 1..Len(v) PROVE v[j] = (a \o t)[j]
      <3>1. /\ j \in 1..(Len(u) - n) /\ j \in 1..(Len(s) - n) + Len(t) /\ n + j \in 1..Len(s) + Len(t)
            /\ (n + j) - Len(s) = j - (Len(s) - n) /\ (n + j <= Len(s) <=> j <= Len(s) - n)
        BY <1>1, <1>3, <2>1
      <3>2. v[j] = IF n + j <= Len(s) THEN s[n + j] ELSE t[(n + j) - Len(s)]
        BY <1>1, <1>3, <3>1
      <3>3. CASE j <= Len(s) - n
        <4>1. j \in 1..(Len(s) - n)
          BY <1>1, <2>1, <3>3
        <4>. QED
          BY <2>2, <2>3, <3>1, <3>2, <3>3, <4>1
      <3>4. CASE ~(j <= Len(s) - n)
        BY <2>2, <2>3, <3>1, <3>2, <3>4
      <3>. QED
        BY <3>3, <3>4
    <2>6. v = a \o t
      BY <1>3, <2>3, <2>4, <2>5, SeqEqual
    <2>. QED
      BY <1>4, <2>6 DEF v, u, a
  <1>5. CASE ~(n <= Len(s))
    <2>. DEFINE m == n - Len(s)
    <2>1. m \in 0..Len(t)
      BY <1>1, <1>5
    <2>2. /\ b \in Seq(S) /\ Len(b) = Len(t) - m
          /\ \A j \in 1..(Len(t) - m) : b[j] = t[m + j]
      <3>1. b = SubSeq(t, m + 1, Len(t))
        OBVIOUS
      <3>. HIDE DEF m, b
      <3>2. ASSUME NEW i \in 0..Len(t)
            PROVE  /\ SubSeq(t, i + 1, Len(t)) \in Seq(S) /\ Len(SubSeq(t, i + 1, Len(t))) = Len(t) - i
                   /\ \A j \in 1..(Len(t) - i) : SubSeq(t, i + 1, Len(t))[j] = t[i + j]
        BY SplitAt
      <3>. QED
        BY <2>1, <3>1, <3>2
    <2>. HIDE DEF b
    <2>4. Len(b) = Len(v)
      BY <1>1, <1>3, <2>2
    <2>5. ASSUME NEW j \in 1..Len(v) PROVE v[j] = b[j]
      <3>1. /\ j \in 1..(Len(u) - n) /\ j \in 1..(Len(t) - m) /\ n + j \in 1..Len(s) + Len(t)
            /\ (n + j) - Len(s) = m + j /\ ~(n + j <= Len(s))
        BY <1>1, <1>3, <1>5
      <3>2. v[j] = t[(n + j) - Len(s)]
        BY <1>1, <1>3, <3>1
      <3>. QED
        BY <2>2, <3>1, <3>2
    <2>6. v = b
      BY <1>3, <2>2, <2>4, <2>5, SeqEqual
    <2>. QED
      BY <1>5, <2>6 DEF v, u, b
  <1>. QED
    BY <1>4, <1>5

\* The last bytes of the second of two strings are taken back.
LEMMA TakeBackOfConcat ==
  ASSUME NEW S, NEW s \in Seq(S), NEW t \in Seq(S), NEW n \in Nat, n <= Len(t)
  PROVE  SubSeq(s \o t, 1, Len(s \o t) - n) = s \o SubSeq(t, 1, Len(t) - n)
  <1>. DEFINE u == s \o t
              v == SubSeq(u, 1, Len(u) - n)
              m == Len(t) - n
              b == SubSeq(t, 1, m)
  <1>1. /\ u \in Seq(S) /\ Len(u) = Len(s) + Len(t) /\ Len(s) \in Nat /\ Len(t) \in Nat
        /\ \A i \in 1..Len(s) + Len(t) : u[i] = IF i <= Len(s) THEN s[i] ELSE t[i - Len(s)]
    BY ConcatProperties, LenProperties
  <1>. HIDE DEF u
  <1>2. m \in 0..Len(t)
    BY <1>1
  <1>3. b \in Seq(S) /\ Len(b) = m /\ \A j \in 1..m : b[j] = t[j]
    <2>. HIDE DEF m
    <2>. QED
      BY <1>2, SplitAt
  <1>4. v \in Seq(S) /\ Len(v) = Len(s) + m /\ \A j \in 1..(Len(s) + m) : v[j] = u[j]
    <2>1. Len(u) - n \in 0..Len(u) /\ Len(u) - n = Len(s) + m
      BY <1>1
    <2>. DEFINE k == Len(u) - n
    <2>2. k \in 0..Len(u) /\ k = Len(s) + m
      BY <2>1
    <2>. HIDE DEF k
    <2>3. SubSeq(u, 1, k) \in Seq(S) /\ Len(SubSeq(u, 1, k)) = k /\ \A j \in 1..k : SubSeq(u, 1, k)[j] = u[j]
      BY <1>1, <2>2, SplitAt
    <2>. QED
      BY <2>2, <2>3 DEF k
  <1>. HIDE DEF v, b
  <1>5. /\ s \o b \in Seq(S) /\ Len(s \o b) = Len(s) + m
        /\ \A j \in 1..Len(s) + m : (s \o b)[j] = IF j <= Len(s) THEN s[j] ELSE b[j - Len(s)]
    <2>. HIDE DEF m
    <2>1. /\ s \o b \in Seq(S) /\ Len(s \o b) = Len(s) + Len(b)
          /\ \A j \in 1..Len(s) + Len(b) : (s \o b)[j] = IF j <= Len(s) THEN s[j] ELSE b[j - Len(s)]
      BY <1>3, ConcatProperties
    <2>. QED
      BY <1>3, <2>1
  <1>6. ASSUME NEW j \in 1..Len(v) PROVE v[j] = (s \o b)[j]
    <2>1. j \in 1..(Len(s) + m) /\ j \in 1..Len(s) + Len(t)
      BY <1>1, <1>2, <1>4
    <2>2. v[j] = IF j <= Len(s) THEN s[j] ELSE t[j - Len(s)]
      BY <1>1, <1>4, <2>1
    <2>3. CASE j <= Len(s)
      BY <1>5, <2>1, <2>2, <2>3
    <2>4. CASE ~(j <= Len(s))
      <3>1. j - Len(s) \in 1..m
        BY <1>1, <1>2, <2>1, <2>4
      <3>. QED
        BY <1>3, <1>5, <2>1, <2>2, <2>4, <3>1
    <2>. QED
      BY <2>3, <2>4
  <1>7. v = s \o b
    BY <1>4, <1>5, <1>6, SeqEqual
  <1>. QED
    BY <1>7 DEF u, v, b

-----------------------------------------------------------------------------
(* FlattenSeq *)

\* A sequence of sequences split around one of them.
LEMMA FlattenAround ==
  ASSUME NEW S, NEW ss \in Seq(Seq(S)), NEW i \in 1..Len(ss)
  PROVE  /\ FlattenSeq(SubSeq(ss, 1, i - 1)) \in Seq(S) /\ FlattenSeq(SubSeq(ss, i + 1, Len(ss))) \in Seq(S)
         /\ FlattenSeq(ss) = FlattenSeq(SubSeq(ss, 1, i - 1)) \o (ss[i] \o FlattenSeq(SubSeq(ss, i + 1, Len(ss))))
  <1>. DEFINE k == i - 1
              pre == SubSeq(ss, 1, k)
              rest == SubSeq(ss, k + 1, Len(ss))
              post == SubSeq(ss, i + 1, Len(ss))
  <1>1. /\ Len(ss) \in Nat /\ k \in 0..Len(ss) /\ i \in 0..Len(ss) /\ k + 1 = i /\ ss[i] \in Seq(S)
        /\ i \in i..Len(ss)
    BY LenProperties
  <1>. HIDE DEF k
  <1>2. pre \in Seq(Seq(S)) /\ rest \in Seq(Seq(S)) /\ ss = pre \o rest
    BY <1>1, SplitAt
  <1>3. post \in Seq(Seq(S))
    BY <1>1, SplitAt
  <1>4. rest = <<ss[i]>> \o post
    <2>1. Len(ss) \in i..Len(ss)
      BY <1>1
    <2>2. SubSeq(ss, i, Len(ss)) = <<ss[i]>> \o SubSeq(ss, i + 1, Len(ss))
      BY <2>1, SubSeqRecursiveFirst
    <2>. QED
      BY <1>1, <2>2
  <1>. HIDE DEF pre, rest, post
  <1>5. <<ss[i]>> \in Seq(Seq(S)) /\ FlattenSeq(<<ss[i]>>) = ss[i]
    BY <1>1, FlattenOne
  <1>6. FlattenSeq(rest) = ss[i] \o FlattenSeq(post)
    BY <1>3, <1>4, <1>5, FlattenConcat
  <1>7. FlattenSeq(ss) = FlattenSeq(pre) \o FlattenSeq(rest)
    BY <1>2, FlattenConcat
  <1>8. FlattenSeq(pre) \in Seq(S) /\ FlattenSeq(post) \in Seq(S)
    BY <1>2, <1>3, FlattenType
  <1>. QED
    BY <1>6, <1>7, <1>8 DEF pre, post, k

\* Two sequences of sequences that differ in one of them.
EqualBut(ss, tt, i) == Len(tt) = Len(ss) /\ \A j \in 1..Len(ss) : j # i => tt[j] = ss[j]

EmptyBehind(ss, i) == \A j \in i + 1..Len(ss) : ss[j] = <<>>

\* One of the sequences is another: what comes before and behind stays.
LEMMA FlattenUpdate ==
  ASSUME NEW S, NEW ss \in Seq(Seq(S)), NEW tt \in Seq(Seq(S)), NEW i \in 1..Len(ss), EqualBut(ss, tt, i)
  PROVE  \E pre, post \in Seq(S) :
            /\ FlattenSeq(ss) = pre \o (ss[i] \o post) /\ FlattenSeq(tt) = pre \o (tt[i] \o post)
            /\ i = 1 => pre = <<>>
            /\ EmptyBehind(ss, i) => post = <<>>
  <1>. DEFINE k == i - 1
              n == Len(ss)
  <1>0. Len(tt) = Len(ss) /\ \A j \in 1..Len(ss) : j # i => tt[j] = ss[j]
    BY DEF EqualBut
  <1>1. n \in Nat /\ k \in 0..n /\ i \in 0..n
    BY LenProperties
  <1>2. SubSeq(tt, 1, k) = SubSeq(ss, 1, k) /\ SubSeq(ss, 1, k) \in Seq(Seq(S)) /\ Len(SubSeq(ss, 1, k)) = k
    <2>1. ASSUME NEW j \in 1..k PROVE tt[j] = ss[j]
      BY <1>0, <1>1, j \in 1..Len(ss) /\ j # i
    <2>. HIDE DEF k
    <2>2. /\ SubSeq(ss, 1, k) \in Seq(Seq(S)) /\ Len(SubSeq(ss, 1, k)) = k
          /\ \A j \in 1..k : SubSeq(ss, 1, k)[j] = ss[j]
      BY <1>1, SplitAt
    <2>3. /\ SubSeq(tt, 1, k) \in Seq(Seq(S)) /\ Len(SubSeq(tt, 1, k)) = k
          /\ \A j \in 1..k : SubSeq(tt, 1, k)[j] = tt[j]
      BY <1>0, <1>1, SplitAt
    <2>4. \A j \in 1..Len(SubSeq(tt, 1, k)) : SubSeq(tt, 1, k)[j] = SubSeq(ss, 1, k)[j]
      BY <2>1, <2>2, <2>3
    <2>. QED
      BY <2>2, <2>3, <2>4, SeqEqual
  <1>. HIDE DEF n
  <1>3. /\ SubSeq(ss, i + 1, n) \in Seq(Seq(S)) /\ Len(SubSeq(ss, i + 1, n)) = n - i
        /\ \A j \in 1..(n - i) : SubSeq(ss, i + 1, n)[j] = ss[i + j]
    BY <1>1, SplitAt DEF n
  <1>4. SubSeq(tt, i + 1, n) = SubSeq(ss, i + 1, n)
    <2>1. ASSUME NEW j \in 1..(n - i) PROVE tt[i + j] = ss[i + j]
      BY <1>0, <1>1, i + j \in 1..Len(ss) /\ i + j # i DEF n
    <2>2. /\ SubSeq(tt, i + 1, n) \in Seq(Seq(S)) /\ Len(SubSeq(tt, i + 1, n)) = n - i
          /\ \A j \in 1..(n - i) : SubSeq(tt, i + 1, n)[j] = tt[i + j]
      BY <1>0, <1>1, SplitAt DEF n
    <2>3. \A j \in 1..Len(SubSeq(tt, i + 1, n)) : SubSeq(tt, i + 1, n)[j] = SubSeq(ss, i + 1, n)[j]
      BY <1>3, <2>1, <2>2
    <2>. QED
      BY <1>3, <2>2, <2>3, SeqEqual
  <1>. DEFINE pre == FlattenSeq(SubSeq(ss, 1, k))
              post == FlattenSeq(SubSeq(ss, i + 1, n))
  <1>5. pre \in Seq(S) /\ post \in Seq(S) /\ FlattenSeq(ss) = pre \o (ss[i] \o post)
    BY FlattenAround DEF n
  <1>6. FlattenSeq(tt) = pre \o (tt[i] \o post)
    <2>1. FlattenSeq(tt) = FlattenSeq(SubSeq(tt, 1, k)) \o (tt[i] \o FlattenSeq(SubSeq(tt, i + 1, n)))
      BY <1>0, FlattenAround DEF n
    <2>. QED
      BY <1>2, <1>4, <2>1
  <1>7. ASSUME i = 1 PROVE pre = <<>>
    <2>1. SubSeq(ss, 1, k) \in Seq(Seq(S)) /\ \A j \in 1..Len(SubSeq(ss, 1, k)) : SubSeq(ss, 1, k)[j] = <<>>
      <3>1. k = 0
        BY <1>7
      <3>. QED
        BY <1>2, <3>1
    <2>. QED
      BY <2>1, FlattenOfEmpty
  <1>8. ASSUME EmptyBehind(ss, i) PROVE post = <<>>
    <2>1. ASSUME NEW j \in 1..(n - i) PROVE ss[i + j] = <<>>
      BY <1>1, <1>8, i + j \in i + 1..Len(ss) DEF n, EmptyBehind
    <2>2. \A j \in 1..Len(SubSeq(ss, i + 1, n)) : SubSeq(ss, i + 1, n)[j] = <<>>
      BY <1>3, <2>1
    <2>. QED
      BY <1>3, <2>2, FlattenOfEmpty
  <1>. HIDE DEF pre, post
  <1>. QED
    BY <1>5, <1>6, <1>7, <1>8

\* The empty sequences at the end add nothing.
LEMMA FlattenFront ==
  ASSUME NEW S, NEW ss \in Seq(Seq(S)), NEW k \in 0..Len(ss), \A j \in k + 1..Len(ss) : ss[j] = <<>>
  PROVE  FlattenSeq(SubSeq(ss, 1, k)) = FlattenSeq(ss)
  <1>. DEFINE pre == SubSeq(ss, 1, k)
              post == SubSeq(ss, k + 1, Len(ss))
  <1>1. /\ pre \in Seq(Seq(S)) /\ post \in Seq(Seq(S)) /\ ss = pre \o post /\ Len(post) = Len(ss) - k
        /\ \A j \in 1..(Len(ss) - k) : post[j] = ss[k + j]
    BY SplitAt
  <1>2. \A j \in 1..(Len(ss) - k) : k + j \in k + 1..Len(ss)
    BY LenProperties
  <1>. HIDE DEF pre, post
  <1>3. FlattenSeq(post) = <<>>
    BY <1>1, <1>2, FlattenOfEmpty
  <1>4. FlattenSeq(ss) = FlattenSeq(pre) \o <<>>
    BY <1>1, <1>3, FlattenConcat
  <1>. QED
    BY <1>1, <1>4, FlattenType, ConcatEmptySeq DEF pre

\* Nor do those at the front.
LEMMA FlattenBack ==
  ASSUME NEW S, NEW ss \in Seq(Seq(S)), NEW k \in 0..Len(ss), \A j \in 1..k : ss[j] = <<>>
  PROVE  FlattenSeq(SubSeq(ss, k + 1, Len(ss))) = FlattenSeq(ss)
  <1>. DEFINE pre == SubSeq(ss, 1, k)
              post == SubSeq(ss, k + 1, Len(ss))
  <1>1. /\ pre \in Seq(Seq(S)) /\ post \in Seq(Seq(S)) /\ ss = pre \o post /\ Len(pre) = k
        /\ \A j \in 1..k : pre[j] = ss[j]
    BY SplitAt
  <1>. HIDE DEF pre, post
  <1>2. FlattenSeq(pre) = <<>>
    BY <1>1, FlattenOfEmpty
  <1>3. FlattenSeq(ss) = <<>> \o FlattenSeq(post)
    BY <1>1, <1>2, FlattenConcat
  <1>. QED
    BY <1>1, <1>3, FlattenType, ConcatEmptySeq DEF post

-----------------------------------------------------------------------------
(* Discarding from the front of a sequence of sequences *)

\* The more of them the longer.
LEMMA JoinsGrow ==
  ASSUME NEW S, NEW ss \in Seq(Seq(S)), NEW g, Joins(S, ss, g),
         NEW k \in Nat, NEW m \in Nat, k <= m, m <= Len(ss)
  PROVE  Len(g[k]) <= Len(g[m]) /\ Len(g[k]) \in Nat /\ Len(g[m]) \in Nat
  <1>. DEFINE T == {d \in Nat : k + d <= Len(ss) => Len(g[k]) <= Len(g[k + d])}
  <1>1. Len(ss) \in Nat /\ \A i \in 1..Len(ss) : ss[i] \in Seq(S)
    BY LenProperties
  <1>2. \A i \in Nat : g[i] \in Seq(S) /\ Len(g[i]) \in Nat
    BY LenProperties DEF Joins
  <1>3. 0 \in T
    <2>1. k + 0 = k /\ Len(g[k]) <= Len(g[k])
      BY <1>2
    <2>. QED
      BY <2>1
  <1>4. ASSUME NEW d \in Nat, d \in T PROVE d + 1 \in T
    <2>. SUFFICES ASSUME k + (d + 1) <= Len(ss) PROVE Len(g[k]) <= Len(g[k + (d + 1)])
      OBVIOUS
    <2>1. /\ Len(g[k]) <= Len(g[k + d]) /\ k + d \in Nat /\ k + d < Len(ss) /\ k + (d + 1) = (k + d) + 1
          /\ (k + d) + 1 \in 1..Len(ss)
      BY <1>1, <1>4
    <2>. HIDE DEF T
    <2>2. g[k + (d + 1)] = g[k + d] \o ss[(k + d) + 1]
      BY <2>1 DEF Joins
    <2>3. g[k + d] \in Seq(S) /\ ss[(k + d) + 1] \in Seq(S)
      BY <1>1, <1>2, <2>1
    <2>4. Len(g[k + (d + 1)]) = Len(g[k + d]) + Len(ss[(k + d) + 1]) /\ Len(ss[(k + d) + 1]) \in Nat
      BY <2>2, <2>3, ConcatProperties, LenProperties
    <2>5. Len(g[k + d]) \in Nat /\ Len(g[k]) \in Nat
      BY <1>2, <2>1
    <2>6. ASSUME NEW x \in Nat, NEW y \in Nat, NEW z \in Nat, x <= y PROVE x <= y + z
      BY <2>6
    <2>7. Len(g[k]) <= Len(g[k + d]) + Len(ss[(k + d) + 1])
      BY <2>1, <2>4, <2>5, <2>6
    <2>. QED
      BY <2>4, <2>7
  <1>. HIDE DEF T
  <1>5. \A d \in Nat : d \in T
    BY <1>3, <1>4, Induction
  <1>6. k + (m - k) = m /\ m - k \in Nat
    OBVIOUS
  <1>7. Len(g[k]) <= Len(g[m])
    BY <1>5, <1>6 DEF T
  <1>. QED
    BY <1>2, <1>7

\* What is taken of l bytes that follow p others if n are.
TakenOf(n, p, l) == IF n <= p THEN 0 ELSE IF n - p <= l THEN n - p ELSE l

\* None is taken of what lies behind the first n bytes, and all of what lies among them.
LEMMA TakenAllOrNone ==
  ASSUME NEW n \in Nat, NEW p \in Nat, NEW l \in Nat
  PROVE  (n <= p => TakenOf(n, p, l) = 0) /\ (~(n < p + l) => TakenOf(n, p, l) = l)
  BY DEF TakenOf

\* Discarding from the front.
LEMMA FlattenDiscard ==
  ASSUME NEW S, NEW ss \in Seq(Seq(S)), NEW tt \in Seq(Seq(S)), Len(tt) = Len(ss),
         NEW n \in Nat, n <= Len(FlattenSeq(ss)),
         \A j \in 1..Len(ss) :
            tt[j] = SubSeq(ss[j], TakenOf(n, Len(FlattenSeq(SubSeq(ss, 1, j - 1))), Len(ss[j])) + 1, Len(ss[j]))
  PROVE  /\ FlattenSeq(tt) = SubSeq(FlattenSeq(ss), n + 1, Len(FlattenSeq(ss)))
         /\ \A j, k \in 1..Len(ss) : j < k /\ tt[j] # <<>> => tt[k] = ss[k]
  <1>1. Len(ss) \in Nat /\ <<>> \in Seq(S)
    BY LenProperties, EmptySeq
  <1>2. PICK g : Joins(S, ss, g)
    BY JoinsExist
  <1>3. ASSUME NEW i \in Nat PROVE g[i] \in Seq(S) /\ Len(g[i]) \in Nat
    BY <1>2, LenProperties DEF Joins
  <1>4. ASSUME NEW j \in 1..Len(ss)
        PROVE  /\ ss[j] \in Seq(S) /\ Len(ss[j]) \in Nat /\ j - 1 \in Nat
               /\ g[j] = g[j - 1] \o ss[j] /\ Len(g[j]) = Len(g[j - 1]) + Len(ss[j])
               /\ tt[j] = SubSeq(ss[j], TakenOf(n, Len(g[j - 1]), Len(ss[j])) + 1, Len(ss[j]))
    <2>1. ss[j] \in Seq(S) /\ Len(ss[j]) \in Nat
      BY LenProperties
    <2>2. j - 1 \in Nat /\ j - 1 < Len(ss) /\ (j - 1) + 1 = j /\ j - 1 \in 0..Len(ss)
      BY <1>1
    <2>3. g[j] = g[j - 1] \o ss[j]
      BY <1>2, <2>2 DEF Joins
    <2>4. Len(g[j]) = Len(g[j - 1]) + Len(ss[j])
      BY <1>3, <2>1, <2>2, <2>3, ConcatProperties
    <2>5. FlattenSeq(SubSeq(ss, 1, j - 1)) = g[j - 1]
      <3>. DEFINE k == j - 1
      <3>1. k \in 0..Len(ss) /\ k <= Len(ss)
        BY <2>2
      <3>. HIDE DEF k
      <3>2. /\ SubSeq(ss, 1, k) \in Seq(Seq(S)) /\ Len(SubSeq(ss, 1, k)) = k
            /\ \A i \in 1..k : SubSeq(ss, 1, k)[i] = ss[i]
        BY <3>1, SplitAt
      <3>3. FlattenSeq(SubSeq(ss, 1, k)) = g[Len(SubSeq(ss, 1, k))]
        <4>. DEFINE uu == SubSeq(ss, 1, k)
        <4>1. uu \in Seq(Seq(S)) /\ Len(uu) <= Len(ss) /\ \A i \in 1..Len(uu) : uu[i] = ss[i]
          BY <3>1, <3>2
        <4>. HIDE DEF uu
        <4>2. FlattenSeq(uu) = g[Len(uu)]
          BY <1>2, <4>1, FlattenPrefix
        <4>. QED
          BY <4>2 DEF uu
      <3>. QED
        BY <3>2, <3>3 DEF k
    <2>. QED
      BY <2>1, <2>2, <2>3, <2>4, <2>5
  <1>5. FlattenSeq(ss) = g[Len(ss)]
    BY <1>2, FlattenIs
  <1>. DEFINE left(i) == IF n <= Len(g[i]) THEN SubSeq(g[i], n + 1, Len(g[i])) ELSE <<>>
              h == [i \in Nat |-> IF i <= Len(ss) THEN left(i) ELSE <<>>]
  <1>6. ASSUME NEW i \in Nat PROVE left(i) \in Seq(S)
    <2>1. CASE n <= Len(g[i])
      BY <1>3, <2>1, n \in 0..Len(g[i]), SplitAt
    <2>. QED
      BY <1>1, <2>1
  <1>7. left(0) = <<>>
    <2>1. g[0] = <<>>
      BY <1>2 DEF Joins
    <2>2. CASE n = 0
      <3>1. SubSeq(<<>>, 1, 0) = <<>>
        BY SubSeqEmpty
      <3>. QED
        BY <2>1, <2>2, <3>1
    <2>3. CASE n # 0
      BY <2>1, <2>3
    <2>. QED
      BY <2>2, <2>3
  <1>8. ASSUME NEW j \in 1..Len(ss) PROVE left(j) = left(j - 1) \o tt[j]
    <2>. DEFINE s == g[j - 1]
                t == ss[j]
                p == Len(s)
                l == Len(t)
    <2>1. /\ s \in Seq(S) /\ t \in Seq(S) /\ p \in Nat /\ l \in Nat /\ g[j] = s \o t /\ Len(g[j]) = p + l
          /\ tt[j] = SubSeq(t, TakenOf(n, p, l) + 1, l) /\ j - 1 \in Nat
      BY <1>3, <1>4
    <2>2. left(j - 1) = IF n <= p THEN SubSeq(s, n + 1, p) ELSE <<>>
      OBVIOUS
    <2>3. left(j) = IF n <= p + l THEN SubSeq(s \o t, n + 1, Len(s \o t)) ELSE <<>>
      BY <2>1
    <2>4. p = Len(s) /\ l = Len(t)
      OBVIOUS
    <2>. HIDE DEF left, s, t, p, l
    <2>5. CASE n <= p
      <3>1. TakenOf(n, p, l) = 0
        BY <2>5 DEF TakenOf
      <3>2. tt[j] = t
        BY <2>1, <2>4, <3>1, SubSeqFull, 0 + 1 = 1
      <3>3. n <= Len(s) + Len(t)
        BY <2>1, <2>4, <2>5
      <3>4. SubSeq(s \o t, n + 1, Len(s \o t)) = SubSeq(s, n + 1, p) \o t
        <4>1. SubSeq(s \o t, n + 1, Len(s \o t)) = SubSeq(s, n + 1, Len(s)) \o t
          BY <2>1, <2>4, <2>5, <3>3, DiscardOfConcat
        <4>. QED
          BY <2>4, <4>1
      <3>. QED
        BY <2>2, <2>3, <2>4, <2>5, <3>2, <3>3, <3>4
    <2>6. CASE ~(n <= p) /\ n <= p + l
      <3>1. TakenOf(n, p, l) = n - p
        BY <2>1, <2>6 DEF TakenOf
      <3>2. tt[j] = SubSeq(t, (n - p) + 1, l)
        BY <2>1, <3>1
      <3>3. SubSeq(s \o t, n + 1, Len(s \o t)) = SubSeq(t, (n - p) + 1, l)
        <4>1. n <= Len(s) + Len(t) /\ ~(n <= Len(s))
          BY <2>4, <2>6
        <4>2. SubSeq(s \o t, n + 1, Len(s \o t)) = SubSeq(t, (n - Len(s)) + 1, Len(t))
          BY <2>1, <4>1, DiscardOfConcat
        <4>. QED
          BY <2>4, <4>2
      <3>4. tt[j] \in Seq(S)
        BY LenProperties
      <3>5. <<>> \o tt[j] = tt[j]
        BY <3>4, ConcatEmptySeq
      <3>. QED
        BY <2>2, <2>3, <2>6, <3>2, <3>3, <3>5
    <2>7. CASE ~(n <= p + l)
      <3>1. TakenOf(n, p, l) = l /\ ~(n <= p)
        BY <2>1, <2>7 DEF TakenOf
      <3>2. tt[j] = <<>>
        BY <2>1, <3>1, SubSeqEmpty
      <3>3. <<>> \o <<>> = <<>>
        BY <1>1, ConcatEmptySeq
      <3>. QED
        BY <2>2, <2>3, <2>7, <3>1, <3>2, <3>3
    <2>. QED
      BY <2>5, <2>6, <2>7
  <1>9. FlattenSeq(ss) \in Seq(S) /\ left(Len(ss)) = SubSeq(FlattenSeq(ss), n + 1, Len(FlattenSeq(ss)))
    BY <1>1, <1>3, <1>5
  <1>. HIDE DEF left
  <1>10. Joins(S, tt, h)
    <2>1. h \in [Nat -> Seq(S)]
      BY <1>1, <1>6
    <2>2. h[0] = <<>>
      BY <1>7
    <2>3. ASSUME NEW i \in Nat, i < Len(tt) PROVE h[i + 1] = h[i] \o tt[i + 1]
      <3>1. i + 1 \in 1..Len(ss) /\ (i + 1) - 1 = i /\ i + 1 \in Nat /\ i + 1 <= Len(ss) /\ i <= Len(ss)
        BY <1>1, <2>3
      <3>2. h[i + 1] = left(i + 1) /\ h[i] = left(i)
        BY <3>1
      <3>3. left(i + 1) = left((i + 1) - 1) \o tt[i + 1]
        BY <1>8, <3>1
      <3>. QED
        BY <3>1, <3>2, <3>3
    <2>. HIDE DEF h
    <2>. QED
      BY <2>1, <2>2, <2>3 DEF Joins
  <1>11. h[Len(ss)] = left(Len(ss))
    BY <1>1
  <1>. HIDE DEF h
  <1>12. FlattenSeq(tt) = h[Len(ss)]
    BY <1>10, FlattenIs
  <1>13. ASSUME NEW j \in 1..Len(ss), NEW k \in 1..Len(ss), j < k, tt[j] # <<>> PROVE tt[k] = ss[k]
    <2>1. n < Len(g[j])
      <3>. SUFFICES ASSUME ~(n < Len(g[j])) PROVE FALSE
        OBVIOUS
      <3>0. j - 1 \in Nat
        BY <1>4
      <3>1. Len(g[j - 1]) \in Nat /\ Len(ss[j]) \in Nat /\ Len(g[j]) = Len(g[j - 1]) + Len(ss[j])
        BY <1>3, <1>4, <3>0
      <3>2. TakenOf(n, Len(g[j - 1]), Len(ss[j])) = Len(ss[j])
        <4>1. ~(n < Len(g[j - 1]) + Len(ss[j]))
          BY <3>1
        <4>. QED
          BY <3>1, <4>1, TakenAllOrNone
      <3>3. tt[j] = SubSeq(ss[j], Len(ss[j]) + 1, Len(ss[j]))
        BY <1>4, <3>2
      <3>4. tt[j] = <<>>
        BY <3>1, <3>3, SubSeqEmpty
      <3>. QED
        BY <1>13, <3>4
    <2>2. Len(g[j]) <= Len(g[k - 1]) /\ Len(g[j]) \in Nat /\ Len(g[k - 1]) \in Nat
      <3>. DEFINE m == k - 1
      <3>1. m \in Nat /\ j <= m /\ m <= Len(ss)
        <4>1. j \in Nat /\ k \in Nat /\ 1 <= k /\ j < k /\ k <= Len(ss) /\ Len(ss) \in Nat
          BY <1>13, LenProperties
        <4>. QED
          BY <4>1
      <3>. HIDE DEF m
      <3>0. j \in Nat
        OBVIOUS
      <3>2. Len(g[j]) <= Len(g[m]) /\ Len(g[j]) \in Nat /\ Len(g[m]) \in Nat
        BY <1>2, <3>0, <3>1, JoinsGrow
      <3>. QED
        BY <3>2 DEF m
    <2>3. TakenOf(n, Len(g[k - 1]), Len(ss[k])) = 0
      <3>0. ASSUME NEW x \in Nat, NEW y \in Nat, n < x, x <= y PROVE n <= y
        BY <3>0
      <3>1. n <= Len(g[k - 1])
        BY <2>1, <2>2, <3>0
      <3>2. Len(ss[k]) \in Nat
        BY <1>4
      <3>. QED
        BY <2>2, <3>1, <3>2, TakenAllOrNone
    <2>4. tt[k] = SubSeq(ss[k], 1, Len(ss[k]))
      BY <1>4, <2>3, 0 + 1 = 1
    <2>. QED
      BY <1>4, <2>4, SubSeqFull
  <1>. QED
    BY <1>9, <1>11, <1>12, <1>13

-----------------------------------------------------------------------------
(* Capacities and blocks *)

\* realSize is at least the number of turns.
LEMMA RealSizes ==
  \A k \in Nat : /\ RealSize[k] \in Nat \ {0} /\ RealSize[k] >= k
                 /\ RealSize[k] = IF k = 0 THEN MinSize ELSE 2 * RealSize[k - 1]
  <1>. DEFINE D == Nat \ {0}
              F == [n \in Nat |-> [a \in D |-> 2 * a]]
              G(f) == [k \in Nat |-> IF k = 0 THEN MinSize ELSE 2 * f[k - 1]]
              size == CHOOSE f : f = G(f)
  <1>1. RealSize = size
    BY DEF RealSize
  <1>2. PICK g : Iterates(D, MinSize, F, g)
    <2>1. MinSize \in D
      BY BufferAssumption
    <2>2. \A a \in D : 2 * a \in D
      OBVIOUS
    <2>. HIDE DEF D
    <2>3. F \in [Nat -> [D -> D]]
      BY <2>2
    <2>. HIDE DEF F
    <2>. QED
      BY <2>1, <2>3, Recursion
  <1>3. g = G(g)
    <2>1. g \in [Nat -> D] /\ g[0] = MinSize /\ \A n \in Nat : g[n + 1] = F[n][g[n]]
      BY <1>2 DEF Iterates
    <2>2. ASSUME NEW k \in Nat, k # 0 PROVE g[k] = 2 * g[k - 1]
      <3>1. k - 1 \in Nat /\ (k - 1) + 1 = k
        BY <2>2
      <3>2. g[k] = F[k - 1][g[k - 1]] /\ g[k - 1] \in D
        BY <2>1, <3>1
      <3>. QED
        BY <3>1, <3>2
    <2>. HIDE DEF D, F
    <2>3. \A k \in Nat : g[k] = IF k = 0 THEN MinSize ELSE 2 * g[k - 1]
      BY <2>1, <2>2
    <2>. QED
      BY <2>1, <2>3
  <1>. HIDE DEF size
  <1>4. size = G(size)
    BY <1>3 DEF size
  <1>5. \A k \in Nat : size[k] = IF k = 0 THEN MinSize ELSE 2 * size[k - 1]
    BY <1>4
  <1>. HIDE DEF G
  <1>. DEFINE T == {k \in Nat : size[k] \in Nat \ {0} /\ size[k] >= k}
  <1>6. 0 \in T
    BY <1>5, BufferAssumption
  <1>7. ASSUME NEW k \in Nat, k \in T PROVE k + 1 \in T
    <2>1. k + 1 \in Nat /\ k + 1 # 0 /\ (k + 1) - 1 = k
      OBVIOUS
    <2>2. size[k + 1] = 2 * size[k]
      BY <1>5, <2>1
    <2>. QED
      BY <1>7, <2>1, <2>2
  <1>. HIDE DEF T
  <1>8. \A k \in Nat : k \in T
    BY <1>6, <1>7, Induction
  <1>. QED
    BY <1>1, <1>5, <1>8 DEF T

\* A block has room for what it was made for.
LEMMA CapacityForFacts ==
  ASSUME NEW n \in Nat
  PROVE  CapacityFor(n) \in Nat \ {0} /\ CapacityFor(n) >= n
  <1>. DEFINE fits == {k \in 0..n : RealSize[k] >= n}
  <1>1. n \in fits
    BY RealSizes
  <1>2. fits \in SUBSET Nat /\ fits # {}
    BY <1>1
  <1>3. Min(fits) \in fits
    <2>. HIDE DEF fits
    <2>1. \E m \in fits : \A k \in fits : m <= k
      BY <1>2, LeastElement
    <2>. QED
      BY <2>1 DEF Min
  <1>4. CapacityFor(n) = RealSize[Min(fits)]
    BY DEF CapacityFor
  <1>. QED
    BY <1>3, <1>4, RealSizes

-----------------------------------------------------------------------------
(* Blocks *)

\* A block's fields, and its room in numbers.
LEMMA BlockFacts ==
  ASSUME NEW S, NEW blk \in Blocks(S)
  PROVE  /\ blk.cap \in Nat \ {0} /\ blk.read \in Nat /\ blk.data \in Seq(S) /\ Len(blk.data) \in Nat
         /\ blk \in [cap : Nat \ {0}, read : Nat, data : Seq(S)]
         /\ blk.read + Len(blk.data) <= blk.cap
         /\ blk.data = <<>> => blk.read \in {0, blk.cap}
         /\ Writeable(blk) \in Nat /\ Writeable(blk) = blk.cap - (blk.read + Len(blk.data))
         /\ TotalSpace(blk) = blk.cap - Len(blk.data) /\ TotalSpace(blk) \in Nat
  BY LenProperties DEF Blocks, Writeable, WritePosition, TotalSpace

\* Settle keeps the data.
LEMMA SettleFacts ==
  ASSUME NEW S, NEW blk \in [cap : Nat \ {0}, read : Nat, data : Seq(S)],
         blk.read + Len(blk.data) <= blk.cap
  PROVE  /\ Settle(blk) \in Blocks(S) /\ Settle(blk).data = blk.data /\ Settle(blk).cap = blk.cap
         /\ blk.read = 0 => Settle(blk).read = 0
  <1>1. Len(blk.data) \in Nat
    BY LenProperties
  <1>. QED
    BY <1>1 DEF Settle, Blocks, WritePosition

\* Bytes that fit are written behind the data.
LEMMA WriteFacts ==
  ASSUME NEW S, NEW blk \in Blocks(S), NEW s \in Seq(S), Len(s) <= Writeable(blk)
  PROVE  /\ Write(blk, s) \in Blocks(S) /\ Write(blk, s).data = blk.data \o s
         /\ Write(blk, s).cap = blk.cap
         /\ blk.read = 0 => Write(blk, s).read = 0
  <1>. DEFINE new == [blk EXCEPT !.data = @ \o s]
  <1>1. /\ blk.cap \in Nat \ {0} /\ blk.read \in Nat /\ blk.data \in Seq(S) /\ Len(blk.data) \in Nat
        /\ blk \in [cap : Nat \ {0}, read : Nat, data : Seq(S)]
        /\ Writeable(blk) = blk.cap - (blk.read + Len(blk.data)) /\ Len(s) \in Nat
    BY BlockFacts, LenProperties
  <1>2. blk.data \o s \in Seq(S) /\ Len(blk.data \o s) = Len(blk.data) + Len(s)
    BY <1>1, ConcatProperties
  <1>3. /\ new \in [cap : Nat \ {0}, read : Nat, data : Seq(S)]
        /\ new.cap = blk.cap /\ new.read = blk.read /\ new.data = blk.data \o s
    BY <1>1, <1>2
  <1>. HIDE DEF new
  <1>4. new.read + Len(new.data) <= new.cap
    BY <1>1, <1>2, <1>3
  <1>5. Write(blk, s) = Settle(new)
    BY DEF Write, new
  <1>. QED
    BY <1>3, <1>4, <1>5, SettleFacts

\* A realigned block has all its room behind the data.
LEMMA RealignFacts ==
  ASSUME NEW S, NEW blk \in Blocks(S)
  PROVE  /\ Realign(blk) \in Blocks(S) /\ Realign(blk).data = blk.data /\ Realign(blk).read = 0
         /\ Realign(blk).cap = blk.cap /\ Writeable(Realign(blk)) = TotalSpace(blk)
  BY BlockFacts DEF Realign, Blocks, WritePosition, Writeable, TotalSpace

\* There is room for what fits into the block.
LEMMA RoomForFacts ==
  ASSUME NEW S, NEW blk \in Blocks(S), NEW n \in Nat, TotalSpace(blk) >= n
  PROVE  /\ RoomFor(blk, n) \in Blocks(S) /\ RoomFor(blk, n).data = blk.data
         /\ n <= Writeable(RoomFor(blk, n))
         /\ blk.read = 0 => RoomFor(blk, n).read = 0
  BY BlockFacts, RealignFacts DEF RoomFor

\* Dropping takes bytes off the front.
LEMMA DropFacts ==
  ASSUME NEW S, NEW blk \in Blocks(S), NEW n \in 0..Len(blk.data)
  PROVE  /\ Drop(blk, n) \in Blocks(S)
         /\ Drop(blk, n).data = SubSeq(blk.data, n + 1, Len(blk.data))
         /\ n = 0 => Drop(blk, n) = blk
  <1>1. /\ blk.cap \in Nat \ {0} /\ blk.read \in Nat /\ blk.data \in Seq(S) /\ Len(blk.data) \in Nat
        /\ blk \in [cap : Nat \ {0}, read : Nat, data : Seq(S)]
        /\ blk.read + Len(blk.data) <= blk.cap
    BY BlockFacts
  <1>2. CASE n = 0
    BY <1>1, <1>2, SubSeqFull, 0 + 1 = 1 DEF Drop
  <1>3. CASE n # 0
    <2>. DEFINE rest == SubSeq(blk.data, n + 1, Len(blk.data))
                new == [blk EXCEPT !.read = @ + n, !.data = SubSeq(@, n + 1, Len(@))]
    <2>1. rest \in Seq(S) /\ Len(rest) = Len(blk.data) - n
      BY <1>1, SplitAt
    <2>2. /\ new \in [cap : Nat \ {0}, read : Nat, data : Seq(S)]
          /\ new.cap = blk.cap /\ new.read = blk.read + n /\ new.data = rest
      <3>1. new = [blk EXCEPT !.read = blk.read + n, !.data = rest]
        OBVIOUS
      <3>. HIDE DEF new, rest
      <3>2. blk.read + n \in Nat
        BY <1>1
      <3>. QED
        BY <1>1, <2>1, <3>1, <3>2
    <2>3. Drop(blk, n) = Settle(new)
      BY <1>3 DEF Drop
    <2>. HIDE DEF new, rest
    <2>4. new.read + Len(new.data) <= new.cap
      BY <1>1, <2>1, <2>2
    <2>. QED
      BY <1>3, <2>2, <2>3, <2>4, SettleFacts DEF rest
  <1>. QED
    BY <1>2, <1>3

-----------------------------------------------------------------------------
(* Values and their bytes *)

\* The bytes of the blocks, and what a value is once an operation has moved lastWithData_ on,
\* perhaps to end().
Datas(b) == [k \in 1..Len(b.blocks) |-> b.blocks[k].data]

Open(b) ==
    /\ b.own /\ b.first = 1 /\ b.last \in 1..Len(b.blocks) + 1
    /\ DataInOrder(b) /\ b.readable = Len(Contents(b))

\* A value's fields.
LEMMA ValueFacts ==
  ASSUME NEW S, NEW b \in Values(S)
  PROVE  /\ b.blocks \in Seq(Blocks(S)) /\ Len(b.blocks) \in Nat /\ b.first \in Nat /\ b.last \in Nat
         /\ b.readable \in Nat /\ b.own \in BOOLEAN
         /\ \A i \in 1..Len(b.blocks) : b.blocks[i] \in Blocks(S) /\ b.blocks[i].data \in Seq(S)
  <1>1. /\ b.blocks \in Seq(Blocks(S)) /\ b.first \in Nat /\ b.last \in Nat
        /\ b.readable \in Nat /\ b.own \in BOOLEAN
    BY DEF Values
  <1>2. Len(b.blocks) \in Nat /\ \A i \in 1..Len(b.blocks) : b.blocks[i] \in Blocks(S)
    BY <1>1, LenProperties
  <1>3. \A i \in 1..Len(b.blocks) : b.blocks[i].data \in Seq(S)
    BY <1>2, BlockFacts
  <1>. QED
    BY <1>1, <1>2, <1>3

\* The data of the blocks are sequences of bytes.
LEMMA DatasFacts ==
  ASSUME NEW S, NEW b \in Values(S)
  PROVE  /\ Datas(b) \in Seq(Seq(S)) /\ Len(Datas(b)) = Len(b.blocks)
         /\ \A i \in 1..Len(b.blocks) : Datas(b)[i] = b.blocks[i].data
  <1>1. Len(b.blocks) \in Nat /\ \A i \in 1..Len(b.blocks) : b.blocks[i].data \in Seq(S)
    BY ValueFacts
  <1>. QED
    BY <1>1 DEF Datas

\* toString() gives what the blocks make.
LEMMA ContentsFacts ==
  ASSUME NEW S, NEW b \in Values(S), b.first = 1
  PROVE  Contents(b) = FlattenSeq(Datas(b)) /\ Contents(b) \in Seq(S) /\ Len(Contents(b)) \in Nat
  <1>1. Contents(b) = FlattenSeq([k \in 1..(Len(b.blocks) - 1 + 1) |-> b.blocks[1 + k - 1].data])
    BY DEF Contents, BytesOf
  <1>2. Len(b.blocks) \in Nat
    BY ValueFacts
  <1>3. [k \in 1..(Len(b.blocks) - 1 + 1) |-> b.blocks[1 + k - 1].data] = Datas(b)
    <2>1. Len(b.blocks) - 1 + 1 = Len(b.blocks) /\ \A k \in 1..Len(b.blocks) : 1 + k - 1 = k
      BY <1>2
    <2>. QED
      BY <2>1 DEF Datas
  <1>4. FlattenSeq(Datas(b)) \in Seq(S)
    BY DatasFacts, FlattenType
  <1>. QED
    BY <1>1, <1>3, <1>4, LenProperties

\* The bytes before block j.
LEMMA BytesBefore ==
  ASSUME NEW S, NEW b \in Values(S), NEW k \in 0..Len(b.blocks)
  PROVE  BytesOf(b, 1, k) = FlattenSeq(SubSeq(Datas(b), 1, k))
  <1>1. BytesOf(b, 1, k) = FlattenSeq([i \in 1..(k - 1 + 1) |-> b.blocks[1 + i - 1].data])
    BY DEF BytesOf
  <1>2. Len(b.blocks) \in Nat
    BY ValueFacts
  <1>. DEFINE ss == SubSeq(Datas(b), 1, k)
              tt == [i \in 1..(k - 1 + 1) |-> b.blocks[1 + i - 1].data]
  <1>3. ss \in Seq(Seq(S)) /\ Len(ss) = k /\ \A i \in 1..k : ss[i] = b.blocks[i].data
    <2>1. /\ Datas(b) \in Seq(Seq(S)) /\ Len(Datas(b)) = Len(b.blocks)
          /\ \A i \in 1..Len(b.blocks) : Datas(b)[i] = b.blocks[i].data
      BY DatasFacts
    <2>2. ss \in Seq(Seq(S)) /\ Len(ss) = k /\ \A i \in 1..k : ss[i] = Datas(b)[i]
      BY <2>1, SplitAt
    <2>3. \A i \in 1..k : i \in 1..Len(b.blocks)
      BY <1>2
    <2>. HIDE DEF ss
    <2>. QED
      BY <2>1, <2>2, <2>3
  <1>4. tt = [i \in 1..k |-> b.blocks[i].data]
    <2>1. k - 1 + 1 = k /\ \A i \in 1..k : 1 + i - 1 = i
      BY <1>2
    <2>. QED
      BY <2>1
  <1>5. ss = tt
    <2>. HIDE DEF ss, tt
    <2>1. \A i \in 1..k : b.blocks[i].data \in Seq(S)
      BY <1>2, ValueFacts
    <2>2. [i \in 1..k |-> b.blocks[i].data] \in Seq(Seq(S)) /\ Len([i \in 1..k |-> b.blocks[i].data]) = k
      BY <1>2, <2>1
    <2>3. tt \in Seq(Seq(S)) /\ Len(tt) = k /\ \A i \in 1..k : tt[i] = ss[i]
      BY <1>3, <1>4, <2>2
    <2>. QED
      BY <1>3, <2>3, SeqEqual
  <1>. QED
    BY <1>1, <1>5

\* toString() and all() agree.
LEMMA AllIsContents ==
  ASSUME NEW S, NEW b \in Values(S), WellFormed(b)
  PROVE  All(b) = Contents(b)
  <1>. DEFINE k == Min({b.last, Len(b.blocks)})
  <1>1. b.first = 1 /\ b.last \in Nat /\ Len(b.blocks) \in Nat
    BY ValueFacts DEF WellFormed, IteratorsInList
  <1>2. k = IF b.blocks = <<>> THEN 0 ELSE b.last
    <2>1. \A x, y \in Nat : x <= y => Min({x, y}) = x /\ Min({y, x}) = x
      BY DEF Min
    <2>2. CASE b.blocks = <<>>
      <3>1. Len(b.blocks) = 0 /\ b.last = 1
        BY <2>2 DEF WellFormed, IteratorsInList
      <3>. QED
        BY <2>1, <2>2, <3>1
    <2>3. CASE b.blocks # <<>>
      <3>1. b.last <= Len(b.blocks)
        BY <1>1, <2>3 DEF WellFormed, IteratorsInList
      <3>. QED
        BY <1>1, <2>1, <2>3, <3>1
    <2>. QED
      BY <2>2, <2>3
  <1>3. All(b) = BytesOf(b, 1, k)
    BY <1>1 DEF All
  <1>. HIDE DEF k
  <1>4. k \in 0..Len(b.blocks) /\ \A i \in k + 1..Len(b.blocks) : b.blocks[i].data = <<>>
    <2>1. CASE b.blocks = <<>>
      <3>1. Len(b.blocks) = 0
        BY <2>1
      <3>. QED
        BY <1>2, <2>1, <3>1
    <2>2. CASE b.blocks # <<>>
      BY <1>1, <1>2, <2>2 DEF WellFormed, IteratorsInList, DataInOrder
    <2>. QED
      BY <2>1, <2>2
  <1>5. /\ Datas(b) \in Seq(Seq(S)) /\ Len(Datas(b)) = Len(b.blocks)
        /\ \A i \in 1..Len(b.blocks) : Datas(b)[i] = b.blocks[i].data
    BY DatasFacts
  <1>6. \A i \in k + 1..Len(Datas(b)) : Datas(b)[i] = <<>>
    BY <1>1, <1>4, <1>5
  <1>7. FlattenSeq(SubSeq(Datas(b), 1, k)) = FlattenSeq(Datas(b))
    BY <1>4, <1>5, <1>6, FlattenFront
  <1>. QED
    BY <1>1, <1>3, <1>4, <1>7, BytesBefore, ContentsFacts

\* c has the blocks of b but for i; those of b from i on are empty.
SameBut(b, c, i) ==
    /\ Len(c.blocks) = Len(b.blocks) /\ b.first = 1 /\ c.first = 1
    /\ \A j \in 1..Len(b.blocks) : j # i => c.blocks[j] = b.blocks[j]

EmptyFrom(b, i) == \A j \in i..Len(b.blocks) : b.blocks[j].data = <<>>

\* One block is another.
LEMMA UpdateFacts ==
  ASSUME NEW S, NEW b \in Values(S), NEW c \in Values(S), NEW i \in 1..Len(b.blocks), SameBut(b, c, i)
  PROVE  \E pre, post \in Seq(S) :
            /\ Contents(b) = pre \o (b.blocks[i].data \o post)
            /\ Contents(c) = pre \o (c.blocks[i].data \o post)
            /\ i = 1 => pre = <<>>
            /\ EmptyFrom(b, i + 1) => post = <<>>
  <1>. DEFINE ss == Datas(b)
              tt == Datas(c)
  <1>0. /\ Len(c.blocks) = Len(b.blocks) /\ b.first = 1 /\ c.first = 1
        /\ \A j \in 1..Len(b.blocks) : j # i => c.blocks[j].data = b.blocks[j].data
    BY DEF SameBut
  <1>1. /\ ss \in Seq(Seq(S)) /\ Len(ss) = Len(b.blocks)
        /\ \A j \in 1..Len(b.blocks) : ss[j] = b.blocks[j].data
    BY DatasFacts
  <1>2. /\ tt \in Seq(Seq(S)) /\ Len(tt) = Len(b.blocks)
        /\ \A j \in 1..Len(b.blocks) : tt[j] = c.blocks[j].data
    BY <1>0, DatasFacts
  <1>3. Contents(b) = FlattenSeq(ss) /\ Contents(c) = FlattenSeq(tt)
    BY <1>0, ContentsFacts
  <1>. HIDE DEF ss, tt
  <1>4. i \in 1..Len(ss) /\ EqualBut(ss, tt, i)
    BY <1>0, <1>1, <1>2 DEF EqualBut
  <1>6. PICK pre \in Seq(S), post \in Seq(S) :
            /\ FlattenSeq(ss) = pre \o (ss[i] \o post) /\ FlattenSeq(tt) = pre \o (tt[i] \o post)
            /\ i = 1 => pre = <<>>
            /\ EmptyBehind(ss, i) => post = <<>>
    BY <1>1, <1>2, <1>4, FlattenUpdate
  <1>7. \A j \in i + 1..Len(b.blocks) : ss[j] = b.blocks[j].data
    <2>1. Len(b.blocks) \in Nat
      BY ValueFacts
    <2>. QED
      BY <1>1, <2>1
  <1>8. EmptyFrom(b, i + 1) => post = <<>>
    BY <1>1, <1>6, <1>7 DEF EmptyFrom, EmptyBehind
  <1>. QED
    BY <1>1, <1>2, <1>3, <1>6, <1>8

-----------------------------------------------------------------------------
(* A value with another block *)

\* b with another block at i.
Updated(b, i, blk, l, r) ==
    [b EXCEPT !.blocks = [b.blocks EXCEPT ![i] = blk], !.last = l, !.readable = r]

\* All other blocks stay as they are.
LEMMA UpdatedFacts ==
  ASSUME NEW S, NEW b \in Values(S), NEW i \in 1..Len(b.blocks), NEW blk \in Blocks(S),
         NEW l \in Nat, NEW r \in Nat, NEW c, c = Updated(b, i, blk, l, r)
  PROVE  /\ c \in Values(S) /\ Len(c.blocks) = Len(b.blocks)
         /\ c.first = b.first /\ c.own = b.own /\ c.last = l /\ c.readable = r
         /\ c.blocks[i] = blk /\ \A j \in 1..Len(b.blocks) : j # i => c.blocks[j] = b.blocks[j]
  <1>. DEFINE bs == [b.blocks EXCEPT ![i] = blk]
  <1>1. b.blocks \in Seq(Blocks(S)) /\ b \in [blocks : Seq(Blocks(S)), first : Nat, last : Nat, readable : Nat, own : BOOLEAN]
    BY DEF Values
  <1>2. /\ bs \in Seq(Blocks(S)) /\ Len(bs) = Len(b.blocks)
        /\ \A j \in 1..Len(b.blocks) : bs[j] = IF j = i THEN blk ELSE b.blocks[j]
    BY <1>1, ExceptSeq
  <1>3. c = [b EXCEPT !.blocks = bs, !.last = l, !.readable = r]
    BY DEF Updated
  <1>. HIDE DEF bs
  <1>4. /\ c \in [blocks : Seq(Blocks(S)), first : Nat, last : Nat, readable : Nat, own : BOOLEAN]
        /\ c.blocks = bs /\ c.first = b.first /\ c.own = b.own /\ c.last = l /\ c.readable = r
    BY <1>1, <1>2, <1>3
  <1>. QED
    BY <1>2, <1>4 DEF Values

\* ConcatAssociative, as a quantified fact.
LEMMA ConcatThree ==
  \A S : \A s, t, u \in Seq(S) : (s \o t) \o u = s \o (t \o u)
  BY ConcatAssociative

\* Writing behind all other bytes.
LEMMA WriteLast ==
  ASSUME NEW S, NEW b \in Values(S), NEW c \in Values(S), NEW i \in 1..Len(b.blocks),
         NEW s \in Seq(S), SameBut(b, c, i), EmptyFrom(b, i + 1),
         c.blocks[i].data = b.blocks[i].data \o s
  PROVE  Contents(c) = Contents(b) \o s /\ Len(Contents(c)) = Len(Contents(b)) + Len(s)
  <1>1. b.blocks[i].data \in Seq(S)
    BY ValueFacts
  <1>2. PICK pre \in Seq(S), post \in Seq(S) :
            /\ Contents(b) = pre \o (b.blocks[i].data \o post)
            /\ Contents(c) = pre \o (c.blocks[i].data \o post)
            /\ i = 1 => pre = <<>>
            /\ EmptyFrom(b, i + 1) => post = <<>>
    BY UpdateFacts
  <1>3. post = <<>>
    BY <1>2
  <1>. DEFINE d == b.blocks[i].data
  <1>4. d \in Seq(S) /\ c.blocks[i].data = d \o s
    BY <1>1
  <1>. HIDE DEF d
  <1>5. d \o s \in Seq(S) /\ d \o <<>> = d /\ (d \o s) \o <<>> = d \o s
    BY <1>4, ConcatProperties, ConcatEmptySeq
  <1>6. Contents(b) = pre \o d /\ Contents(c) = pre \o (d \o s)
    BY <1>2, <1>3, <1>4, <1>5 DEF d
  <1>7. Contents(c) = Contents(b) \o s
    <2>1. (pre \o d) \o s = pre \o (d \o s)
      BY <1>4, ConcatThree
    <2>. QED
      BY <1>6, <2>1
  <1>8. Contents(b) \in Seq(S)
    BY ContentsFacts DEF SameBut
  <1>. QED
    BY <1>7, <1>8, ConcatProperties

\* A new block at the end.
LEMMA PushBackFacts ==
  ASSUME NEW S, NEW b \in Values(S), Open(b), Len(b.blocks) <= b.last, NEW n \in Nat, NEW c, c = PushBack(b, n)
  PROVE  /\ c \in Values(S) /\ Open(c) /\ Len(c.blocks) = Len(b.blocks) + 1 /\ c.last = b.last
         /\ c.readable = b.readable /\ Contents(c) = Contents(b)
         /\ c.blocks[Len(b.blocks) + 1].data = <<>> /\ c.blocks[Len(b.blocks) + 1].read = 0
         /\ Writeable(c.blocks[Len(b.blocks) + 1]) >= n
         /\ Writeable(c.blocks[Len(b.blocks) + 1]) > 0
         /\ \A i \in 1..Len(b.blocks) : c.blocks[i] = b.blocks[i]
  <1>. DEFINE blk == [cap |-> CapacityFor(n), read |-> 0, data |-> <<>>]
              bs == Append(b.blocks, blk)
              m == Len(b.blocks)
  <1>1. /\ b.blocks \in Seq(Blocks(S)) /\ m \in Nat /\ b.first = 1 /\ b.last \in 1..m + 1 /\ b.own
        /\ b.readable \in Nat /\ DataInOrder(b) /\ b.readable = Len(Contents(b))
        /\ b \in [blocks : Seq(Blocks(S)), first : Nat, last : Nat, readable : Nat, own : BOOLEAN]
    BY ValueFacts DEF Open, Values
  <1>2. blk \in Blocks(S) /\ Writeable(blk) >= n /\ Writeable(blk) > 0 /\ blk.data = <<>> /\ blk.read = 0
    <2>1. CapacityFor(n) \in Nat \ {0} /\ CapacityFor(n) >= n /\ <<>> \in Seq(S) /\ Len(<<>>) = 0
      BY CapacityForFacts, EmptySeq
    <2>. QED
      BY <2>1 DEF Blocks, Writeable, WritePosition
  <1>. HIDE DEF blk
  <1>3. /\ bs \in Seq(Blocks(S)) /\ Len(bs) = m + 1 /\ bs[m + 1] = blk
        /\ \A i \in 1..m : bs[i] = b.blocks[i]
    BY <1>1, <1>2, AppendProperties
  <1>4. c = [b EXCEPT !.blocks = bs, !.first = 1]
    <2>1. c = [b EXCEPT !.blocks = bs,
                        !.first = IF b.blocks # <<>> /\ @ = End(b) THEN @ + 1 ELSE @]
      BY DEF PushBack, blk
    <2>2. (IF b.blocks # <<>> /\ b.first = End(b) THEN b.first + 1 ELSE b.first) = 1
      <3>1. b.blocks # <<>> => m # 0
        BY <1>1, EmptySeq
      <3>. QED
        BY <1>1, <3>1 DEF End
    <2>. HIDE DEF bs
    <2>. QED
      BY <2>1, <2>2
  <1>. HIDE DEF bs
  <1>5. /\ c \in Values(S)
        /\ c.blocks = bs /\ c.first = 1 /\ c.own = b.own /\ c.last = b.last /\ c.readable = b.readable
    BY <1>1, <1>3, <1>4 DEF Values
  <1>6. Contents(c) = Contents(b)
    <2>1. Datas(b) \in Seq(Seq(S)) /\ Len(Datas(b)) = m /\ \A i \in 1..m : Datas(b)[i] = b.blocks[i].data
      BY DatasFacts
    <2>2. /\ Datas(c) \in Seq(Seq(S)) /\ Len(Datas(c)) = m + 1
          /\ \A i \in 1..m + 1 : Datas(c)[i] = bs[i].data
      BY <1>3, <1>5, DatasFacts
    <2>3. m \in 0..Len(Datas(c)) /\ \A i \in m + 1..Len(Datas(c)) : Datas(c)[i] = <<>>
      BY <1>1, <1>2, <1>3, <2>2
    <2>4. FlattenSeq(SubSeq(Datas(c), 1, m)) = FlattenSeq(Datas(c))
      BY <2>2, <2>3, FlattenFront
    <2>5. SubSeq(Datas(c), 1, m) = Datas(b)
      <3>. DEFINE uu == SubSeq(Datas(c), 1, m)
      <3>1. uu \in Seq(Seq(S)) /\ Len(uu) = m /\ \A i \in 1..m : uu[i] = Datas(c)[i]
        BY <2>2, <2>3, SplitAt
      <3>. HIDE DEF uu
      <3>2. \A i \in 1..m : uu[i] = Datas(b)[i]
        <4>. TAKE i \in 1..m
        <4>1. i \in 1..m + 1
          BY <1>1
        <4>2. uu[i] = bs[i].data
          BY <2>2, <3>1, <4>1
        <4>3. bs[i] = b.blocks[i] /\ Datas(b)[i] = b.blocks[i].data
          BY <1>3, <2>1
        <4>. QED
          BY <4>2, <4>3
      <3>3. uu = Datas(b)
        BY <2>1, <3>1, <3>2, SeqEqual
      <3>. QED
        BY <3>3 DEF uu
    <2>. QED
      BY <1>1, <1>5, <2>4, <2>5, ContentsFacts
  <1>7. DataInOrder(c)
    <2>1. \A i \in 2..Len(c.blocks) : c.blocks[i].read = 0
      <3>. TAKE i \in 2..Len(c.blocks)
      <3>1. (i \in 1..m /\ i \in 2..m) \/ i = m + 1
        BY <1>1, <1>3, <1>5
      <3>2. \A j \in 2..m : b.blocks[j].read = 0
        BY <1>1 DEF DataInOrder
      <3>. QED
        BY <1>2, <1>3, <1>5, <3>1, <3>2
    <2>2. \A i \in 2..(c.last - 1) : c.blocks[i].data # <<>>
      <3>. TAKE i \in 2..(c.last - 1)
      <3>1. i \in 1..m /\ i \in 2..(b.last - 1)
        BY <1>1, <1>5
      <3>2. b.blocks[i].data # <<>>
        BY <1>1, <3>1 DEF DataInOrder
      <3>. QED
        BY <1>3, <1>5, <3>1, <3>2
    <2>3. Len(c.blocks) <= c.last + 1
      BY <1>1, <1>3, <1>5
    <2>4. \A i \in (c.last + 1)..Len(c.blocks) : c.blocks[i].data = <<>>
      BY <1>1, <1>2, <1>3, <1>5 DEF DataInOrder
    <2>5. 1 < c.last => c.blocks[1].data # <<>> \/ c.blocks[1].read # 0
      <3>. SUFFICES ASSUME 1 < b.last PROVE c.blocks[1].data # <<>> \/ c.blocks[1].read # 0
        BY <1>5
      <3>1. 1 \in 1..m
        BY <1>1
      <3>2. c.blocks[1] = b.blocks[1]
        BY <1>3, <1>5, <3>1
      <3>. QED
        BY <1>1, <3>2 DEF DataInOrder
    <2>. QED
      BY <2>1, <2>2, <2>3, <2>4, <2>5 DEF DataInOrder
  <1>8. Open(c)
    BY <1>1, <1>3, <1>5, <1>6, <1>7 DEF Open
  <1>. QED
    BY <1>2, <1>3, <1>5, <1>6, <1>8

-----------------------------------------------------------------------------
(* One call of append *)

\* b with s more in block i.
Grown(b, i, blk, l, s) == Updated(b, i, blk, l, b.readable + Len(s))

\* What a call of append starts from.
Calls(S) == [buffer : Values(S), rest : Seq(S), done : BOOLEAN]

\* A block that data were written to.
HasBeenUsed(blk) == blk.data # <<>> \/ blk.read # 0

\* blk is block i with s behind its data, and lastWithData_ comes to be l.
Extends(b, i, blk, s, l) ==
    /\ blk.data = b.blocks[i].data \o s /\ (b.blocks[i].read = 0 => blk.read = 0)
    /\ i = b.last \/ (i = b.last + 1 /\ HasBeenUsed(b.blocks[b.last]))
    /\ l = i \/ (l = i + 1 /\ HasBeenUsed(blk))

\* A block that got more bytes, whether lastWithData_ stays or moves on.
LEMMA WriteFrom ==
  ASSUME NEW S, NEW b \in Values(S), Open(b), NEW i \in 1..Len(b.blocks), NEW s \in Seq(S),
         NEW blk \in Blocks(S), NEW l \in Nat, Extends(b, i, blk, s, l),
         NEW c, Equal(c, Grown(b, i, blk, l, s))
  PROVE  /\ c \in Values(S) /\ Open(c) /\ Len(c.blocks) = Len(b.blocks) /\ c.last = l
         /\ Contents(c) = Contents(b) \o s
  <1>1. /\ Len(b.blocks) \in Nat /\ b.first = 1 /\ b.last \in 1..Len(b.blocks) + 1 /\ b.own
        /\ b.readable \in Nat /\ b.readable = Len(Contents(b)) /\ Len(s) \in Nat
    BY ValueFacts, LenProperties DEF Open
  <1>2. /\ \A j \in 2..Len(b.blocks) : b.blocks[j].read = 0
        /\ \A j \in 2..(b.last - 1) : b.blocks[j].data # <<>>
        /\ Len(b.blocks) <= b.last + 1
        /\ \A j \in (b.last + 1)..Len(b.blocks) : b.blocks[j].data = <<>>
        /\ 1 < b.last => HasBeenUsed(b.blocks[1])
    BY DEF Open, DataInOrder, HasBeenUsed
  <1>3. /\ c \in Values(S) /\ Len(c.blocks) = Len(b.blocks)
        /\ c.first = b.first /\ c.own = b.own /\ c.last = l /\ c.readable = b.readable + Len(s)
        /\ c.blocks[i] = blk /\ \A j \in 1..Len(b.blocks) : j # i => c.blocks[j] = b.blocks[j]
    <2>. DEFINE r == b.readable + Len(s)
    <2>1. r \in Nat /\ c = Updated(b, i, blk, l, r)
      BY <1>1 DEF Equal, Grown
    <2>. HIDE DEF r
    <2>2. /\ c \in Values(S) /\ Len(c.blocks) = Len(b.blocks)
          /\ c.first = b.first /\ c.own = b.own /\ c.last = l /\ c.readable = r
          /\ c.blocks[i] = blk /\ \A j \in 1..Len(b.blocks) : j # i => c.blocks[j] = b.blocks[j]
      BY <2>1, UpdatedFacts
    <2>. QED
      BY <2>2 DEF r
  <1>4. SameBut(b, c, i) /\ EmptyFrom(b, i + 1)
    <2>1. SameBut(b, c, i)
      BY <1>1, <1>3 DEF SameBut
    <2>2. i = b.last \/ i = b.last + 1
      BY DEF Extends
    <2>. QED
      BY <1>1, <1>2, <2>1, <2>2 DEF EmptyFrom
  <1>5. Contents(c) = Contents(b) \o s /\ Len(Contents(c)) = Len(Contents(b)) + Len(s)
    <2>1. c.blocks[i].data = b.blocks[i].data \o s
      BY <1>3 DEF Extends
    <2>. QED
      BY <1>3, <1>4, <2>1, WriteLast
  <1>6. DataInOrder(c)
    <2>1. ASSUME NEW j \in 2..Len(c.blocks) PROVE c.blocks[j].read = 0
      <3>1. j \in 1..Len(b.blocks) /\ b.blocks[j].read = 0
        BY <1>1, <1>2, <1>3
      <3>. QED
        BY <1>3, <3>1 DEF Extends
    <2>2. ASSUME NEW j \in 2..(c.last - 1) PROVE c.blocks[j].data # <<>>
      <3>0. j \in 2..(l - 1)
        BY <1>3
      <3>1. CASE j = i
        <4>1. i >= 2 /\ l # i
          BY <3>0, <3>1
        <4>2. b.blocks[i].read = 0 /\ blk.read = 0
          BY <1>1, <1>2, <4>1 DEF Extends
        <4>3. blk.data # <<>>
          BY <4>1, <4>2 DEF Extends, HasBeenUsed
        <4>. QED
          BY <1>3, <3>1, <4>3
      <3>2. CASE j # i
        <4>1. i = b.last \/ (i = b.last + 1 /\ HasBeenUsed(b.blocks[b.last]))
          BY DEF Extends
        <4>2. l = i \/ l = i + 1
          BY DEF Extends
        <4>3. j \in 1..Len(b.blocks) /\ j < i
          BY <1>1, <3>0, <3>2, <4>2
        <4>4. b.blocks[j].data # <<>>
          <5>1. CASE j < b.last
            <6>1. j \in 2..(b.last - 1)
              BY <1>1, <3>0, <5>1
            <6>. QED
              BY <1>2, <6>1
          <5>2. CASE ~(j < b.last)
            <6>1. j = b.last /\ i = b.last + 1 /\ j >= 2
              BY <1>1, <3>0, <4>1, <4>3, <5>2
            <6>2. b.blocks[j].read = 0
              BY <1>2, <4>3, <6>1
            <6>. QED
              BY <1>1, <4>1, <6>1, <6>2 DEF HasBeenUsed
          <5>. QED
            BY <5>1, <5>2
        <4>. QED
          BY <1>3, <3>2, <4>3, <4>4
      <3>. QED
        BY <3>1, <3>2
    <2>3. (l = i \/ l = i + 1) /\ (i = b.last \/ i = b.last + 1)
      BY DEF Extends
    <2>4. Len(c.blocks) <= c.last + 1
      BY <1>1, <1>2, <1>3, <2>3
    <2>5. ASSUME NEW j \in (c.last + 1)..Len(c.blocks) PROVE c.blocks[j].data = <<>>
      <3>1. j \in 1..Len(b.blocks) /\ j # i /\ j \in (b.last + 1)..Len(b.blocks)
        BY <1>1, <1>3, <2>3
      <3>. QED
        BY <1>2, <1>3, <3>1
    <2>6. 1 < c.last => HasBeenUsed(c.blocks[1])
      <3>. SUFFICES ASSUME 1 < c.last PROVE HasBeenUsed(c.blocks[1])
        OBVIOUS
      <3>1. CASE i = 1
        <4>1. l = i + 1
          BY <1>3, <2>3, <3>1
        <4>2. HasBeenUsed(blk)
          BY <4>1 DEF Extends
        <4>. QED
          BY <1>3, <3>1, <4>2
      <3>2. CASE i # 1
        <4>1. c.blocks[1] = b.blocks[1]
          BY <1>1, <1>3, <3>2
        <4>2. CASE 1 < b.last
          BY <1>2, <4>1, <4>2
        <4>3. CASE b.last = 1
          <5>1. i = b.last + 1
            BY <2>3, <3>2, <4>3
          <5>2. HasBeenUsed(b.blocks[b.last])
            BY <5>1, <1>1 DEF Extends
          <5>. QED
            BY <4>1, <4>3, <5>2
        <4>. QED
          BY <1>1, <4>2, <4>3
      <3>. QED
        BY <3>1, <3>2
    <2>. QED
      BY <2>1, <2>2, <2>4, <2>5, <2>6 DEF DataInOrder, HasBeenUsed
  <1>7. c.last \in 1..Len(c.blocks) + 1
    BY <1>1, <1>3 DEF Extends
  <1>8. Open(c)
    BY <1>1, <1>3, <1>5, <1>6, <1>7 DEF Open
  <1>. QED
    BY <1>3, <1>5, <1>8

\* A block that has room for s.
LEMMA WholeFits ==
  ASSUME NEW S, NEW blk \in Blocks(S), NEW s \in Seq(S), TotalSpace(blk) >= Len(s),
         NEW new, Equal(new, Write(RoomFor(blk, Len(s)), s))
  PROVE  new \in Blocks(S) /\ new.data = blk.data \o s /\ (blk.read = 0 => new.read = 0)
  <1>1. Len(s) \in Nat
    BY LenProperties
  <1>2. /\ RoomFor(blk, Len(s)) \in Blocks(S) /\ RoomFor(blk, Len(s)).data = blk.data
        /\ Len(s) <= Writeable(RoomFor(blk, Len(s)))
        /\ blk.read = 0 => RoomFor(blk, Len(s)).read = 0
    BY <1>1, RoomForFacts
  <1>. QED
    BY <1>2, WriteFacts DEF Equal

\* One that is filled.
Filled(blk, s) == IF Writeable(blk) > 0 THEN Write(blk, s) ELSE blk

\* A filled block has been used.
LEMMA FullWrite ==
  ASSUME NEW S, NEW blk \in Blocks(S), NEW s \in Seq(S), Len(s) = Writeable(blk),
         NEW new, Equal(new, Filled(blk, s))
  PROVE  /\ new \in Blocks(S) /\ new.data = blk.data \o s
         /\ blk.read = 0 => new.read = 0
         /\ HasBeenUsed(new)
  <1>1. /\ blk.cap \in Nat \ {0} /\ blk.read \in Nat /\ blk.data \in Seq(S) /\ Len(blk.data) \in Nat
        /\ Len(s) \in Nat /\ Len(s) = blk.cap - (blk.read + Len(blk.data))
    BY BlockFacts, LenProperties
  <1>2. new \in Blocks(S) /\ new.data = blk.data \o s /\ (blk.read = 0 => new.read = 0)
    <2>1. CASE Len(s) > 0
      <3>1. new = Write(blk, s) /\ Len(s) <= Writeable(blk)
        BY <1>1, <2>1 DEF Equal, Filled
      <3>. QED
        BY <3>1, WriteFacts
    <2>2. CASE ~(Len(s) > 0)
      <3>1. s = <<>> /\ new = blk
        BY <1>1, <2>2, EmptySeq DEF Equal, Filled
      <3>2. blk.data \o <<>> = blk.data
        BY <1>1, ConcatEmptySeq
      <3>. QED
        BY <1>1, <3>1, <3>2
    <2>. QED
      BY <2>1, <2>2
  <1>3. Len(blk.data \o s) = Len(blk.data) + Len(s)
    BY <1>1, ConcatProperties
  <1>4. blk.read = 0 => Len(new.data) = blk.cap
    BY <1>1, <1>2, <1>3
  <1>5. new.data = <<>> => Len(new.data) = 0
    BY EmptySeq
  <1>6. HasBeenUsed(new)
    <2>1. CASE blk.read = 0
      BY <1>1, <1>4, <1>5, <2>1 DEF HasBeenUsed
    <2>2. CASE blk.read # 0 /\ Len(s) = 0
      <3>1. new = blk
        BY <1>1, <2>2 DEF Equal, Filled
      <3>. QED
        BY <2>2, <3>1 DEF HasBeenUsed
    <2>3. CASE Len(s) # 0
      <3>1. Len(new.data) = Len(blk.data) + Len(s)
        BY <1>2, <1>3
      <3>. QED
        BY <1>1, <1>5, <2>3, <3>1 DEF HasBeenUsed
    <2>. QED
      BY <2>1, <2>2, <2>3
  <1>. QED
    BY <1>2, <1>6

LastBlock(b, i, blk) == i = b.last /\ i \in 1..Len(b.blocks) /\ blk = b.blocks[i]

\* The last call of append.
LEMMA AppendFits ==
  ASSUME NEW S, NEW b \in Values(S), Open(b), NEW i, NEW blk, LastBlock(b, i, blk),
         NEW s \in Seq(S), TotalSpace(blk) >= Len(s),
         NEW new, Equal(new, Write(RoomFor(blk, Len(s)), s)),
         NEW c, Equal(c, Grown(b, i, new, i, s))
  PROVE  /\ c \in Values(S) /\ Open(c) /\ Len(c.blocks) = Len(b.blocks) /\ c.last = i
         /\ Contents(c) = Contents(b) \o s
  <1>1. blk \in Blocks(S) /\ i \in 1..Len(b.blocks) /\ i \in Nat
    <2>1. Len(b.blocks) \in Nat /\ \A j \in 1..Len(b.blocks) : b.blocks[j] \in Blocks(S)
      BY ValueFacts
    <2>. QED
      BY <2>1 DEF LastBlock
  <1>2. new \in Blocks(S) /\ new.data = blk.data \o s /\ (blk.read = 0 => new.read = 0)
    BY <1>1, WholeFits
  <1>3. Extends(b, i, new, s, i)
    BY <1>2 DEF Extends, LastBlock
  <1>. QED
    BY <1>1, <1>2, <1>3, WriteFrom

\* A call of append that fills the block and goes on with the next.
LEMMA AppendPart ==
  ASSUME NEW S, NEW b \in Values(S), Open(b), NEW i, NEW blk, LastBlock(b, i, blk),
         NEW s \in Seq(S), Equal(Len(s), Writeable(blk)),
         NEW new, Equal(new, Filled(blk, s)),
         NEW l, Equal(l, i + 1), NEW c, Equal(c, Grown(b, i, new, l, s))
  PROVE  /\ c \in Values(S) /\ Open(c) /\ Len(c.blocks) = Len(b.blocks) /\ c.last = i + 1
         /\ Contents(c) = Contents(b) \o s
  <1>1. blk \in Blocks(S) /\ i \in 1..Len(b.blocks) /\ i \in Nat
    <2>1. Len(b.blocks) \in Nat /\ \A j \in 1..Len(b.blocks) : b.blocks[j] \in Blocks(S)
      BY ValueFacts
    <2>. QED
      BY <2>1 DEF LastBlock
  <1>2. /\ new \in Blocks(S) /\ new.data = blk.data \o s
        /\ blk.read = 0 => new.read = 0
        /\ HasBeenUsed(new)
    <2>1. Len(s) = Writeable(blk)
      BY DEF Equal
    <2>. QED
      BY <2>1, <1>1, FullWrite
  <1>4. l \in Nat /\ l = i + 1
    BY <1>1 DEF Equal
  <1>5. Extends(b, i, new, s, l)
    BY <1>2, <1>4 DEF Extends, LastBlock
  <1>6. /\ c \in Values(S) /\ Open(c) /\ Len(c.blocks) = Len(b.blocks) /\ c.last = l
        /\ Contents(c) = Contents(b) \o s
    BY <1>1, <1>2, <1>4, <1>5, WriteFrom
  <1>. QED
    BY <1>4, <1>6

\* The block an append starts with.
AppendStart(a, n) == IF a.last = End(a) THEN PushBack(a, n) ELSE a

\* There is a block at lastWithData_, and a new one has room for everything.
LEMMA AppendStartFacts ==
  ASSUME NEW S, NEW a \in Values(S), Open(a), NEW n \in Nat, NEW b, b = AppendStart(a, n)
  PROVE  /\ b \in Values(S) /\ Open(b) /\ Contents(b) = Contents(a) /\ b.last = a.last
         /\ b.last \in 1..Len(b.blocks)
         /\ a.last = End(a) => /\ TotalSpace(b.blocks[b.last]) >= n
         /\ a.last # End(a) => b = a
  <1>1. CASE a.last = End(a)
    <2>1. Len(a.blocks) \in Nat /\ a.last \in Nat
      BY ValueFacts
    <2>2. Len(a.blocks) <= a.last /\ a.last = Len(a.blocks) + 1 /\ b = PushBack(a, n)
      BY <1>1, <2>1 DEF End, AppendStart
    <2>3. /\ b \in Values(S) /\ Open(b) /\ Len(b.blocks) = Len(a.blocks) + 1 /\ b.last = a.last
          /\ Contents(b) = Contents(a)
          /\ Writeable(b.blocks[Len(a.blocks) + 1]) >= n
      BY <2>2, PushBackFacts
    <2>4. b.last \in 1..Len(b.blocks) /\ b.blocks[b.last] \in Blocks(S)
      BY <2>1, <2>2, <2>3, ValueFacts
    <2>5. /\ Writeable(b.blocks[b.last]) \in Nat /\ TotalSpace(b.blocks[b.last]) \in Nat
          /\ Writeable(b.blocks[b.last]) <= TotalSpace(b.blocks[b.last])
      BY <2>4, BlockFacts
    <2>. QED
      BY <1>1, <2>2, <2>3, <2>4, <2>5
  <1>2. CASE a.last # End(a)
    <2>1. b = a /\ a.last \in 1..Len(a.blocks)
      BY <1>2, ValueFacts DEF AppendStart, Open, End
    <2>. QED
      BY <1>2, <2>1
  <1>. QED
    BY <1>1, <1>2

\* What a call of append has written and what it leaves make what was to be appended.
LEMMA AppendCallFacts ==
  ASSUME NEW S, NEW v \in Calls(S), Open(v.buffer), ~v.done, NEW w, w = AppendCall(v)
  PROVE  /\ w \in Calls(S) /\ Open(w.buffer)
         /\ Contents(w.buffer) \o w.rest = Contents(v.buffer) \o v.rest
         /\ w.done => w.rest = <<>> /\ w.buffer.last <= Len(w.buffer.blocks)
         /\ v.buffer.last = End(v.buffer) => w.done
         /\ ~w.done => /\ w.buffer.last = v.buffer.last + 1
                       /\ Len(w.buffer.blocks) = Len(v.buffer.blocks)
  <1>1. PICK a, s : Equal(a, v.buffer) /\ Equal(s, v.rest)
    BY DEF Equal
  <1>2. a \in Values(S) /\ s \in Seq(S) /\ Len(s) \in Nat /\ Open(a)
    BY <1>1, LenProperties DEF Calls, Equal
  <1>3. PICK b : Equal(b, AppendStart(a, Len(s)))
    BY DEF Equal
  <1>4. /\ b \in Values(S) /\ Open(b) /\ Contents(b) = Contents(a) /\ b.last = a.last
        /\ b.last \in 1..Len(b.blocks)
        /\ a.last = End(a) => TotalSpace(b.blocks[b.last]) >= Len(s)
        /\ a.last # End(a) => b = a
    BY <1>2, <1>3, AppendStartFacts DEF Equal
  <1>5. PICK i, blk : LastBlock(b, i, blk)
    BY <1>4 DEF LastBlock
  <1>6. /\ i = a.last /\ i \in 1..Len(b.blocks) /\ blk \in Blocks(S) /\ Len(b.blocks) \in Nat
        /\ a.last = End(a) => TotalSpace(blk) >= Len(s)
    <2>1. Len(b.blocks) \in Nat /\ \A j \in 1..Len(b.blocks) : b.blocks[j] \in Blocks(S)
      BY <1>4, ValueFacts
    <2>. QED
      BY <1>4, <1>5, <2>1 DEF LastBlock
  <1>7. b \in [blocks : Seq(Blocks(S)), first : Nat, last : Nat, readable : Nat, own : BOOLEAN]
    BY <1>4 DEF Values
  <1>8. v = [buffer |-> a, rest |-> s, done |-> FALSE]
    BY <1>1 DEF Calls, Equal
  <1>9. Contents(b) \in Seq(S) /\ Contents(a) = Contents(b)
    BY <1>4, ContentsFacts DEF Open
  <1>10. CASE TotalSpace(blk) >= Len(s)
    <2>1. PICK new : Equal(new, Write(RoomFor(blk, Len(s)), s))
      BY DEF Equal
    <2>2. PICK c : Equal(c, Grown(b, i, new, i, s))
      BY DEF Equal
    <2>3. w = [buffer |-> c, rest |-> <<>>, done |-> TRUE]
      <3>1. w = [buffer |-> [b EXCEPT !.blocks[i] = new, !.readable = @ + Len(s)],
                 rest |-> <<>>, done |-> TRUE]
        BY <1>3, <1>5, <1>8, <1>10, <2>1 DEF AppendCall, AppendStart, Equal, LastBlock
      <3>2. [b EXCEPT !.blocks[i] = new, !.readable = @ + Len(s)] = c
        BY <1>5, <1>7, <2>2 DEF Equal, Grown, Updated, LastBlock
      <3>. QED
        BY <3>1, <3>2
    <2>4. /\ c \in Values(S) /\ Open(c) /\ Len(c.blocks) = Len(b.blocks) /\ c.last = i
          /\ Contents(c) = Contents(b) \o s
      BY <1>2, <1>4, <1>5, <1>10, <2>1, <2>2, AppendFits
    <2>5. Contents(c) \o <<>> = Contents(c) /\ <<>> \in Seq(S)
      BY <2>4, ContentsFacts, ConcatEmptySeq, EmptySeq DEF Open
    <2>6. w.buffer = c /\ w.rest = <<>> /\ w.done = TRUE /\ w \in Calls(S)
      BY <2>3, <2>4, <2>5 DEF Calls
    <2>7. w.buffer.last <= Len(w.buffer.blocks)
      BY <1>6, <2>4, <2>6
    <2>8. Contents(w.buffer) \o w.rest = Contents(a) \o s
      BY <1>9, <2>4, <2>5, <2>6
    <2>. QED
      BY <1>8, <2>4, <2>6, <2>7, <2>8
  <1>11. CASE ~(TotalSpace(blk) >= Len(s))
    <2>1. PICK n : Equal(n, Writeable(blk))
      BY DEF Equal
    <2>2. n \in 0..Len(s)
      <3>1. Writeable(blk) \in Nat /\ TotalSpace(blk) \in Nat /\ Writeable(blk) <= TotalSpace(blk)
        BY <1>6, BlockFacts
      <3>. QED
        BY <1>2, <1>11, <2>1, <3>1 DEF Equal
    <2>3. PICK s1, s2 : Equal(s1, SubSeq(s, 1, n)) /\ Equal(s2, SubSeq(s, n + 1, Len(s)))
      BY DEF Equal
    <2>4. s1 \in Seq(S) /\ Len(s1) = n /\ s2 \in Seq(S) /\ s = s1 \o s2
      BY <1>2, <2>2, <2>3, SplitAt DEF Equal
    <2>5. PICK new : Equal(new, Filled(blk, s1))
      BY DEF Equal
    <2>6. PICK l, c : Equal(l, i + 1) /\ Equal(c, Grown(b, i, new, l, s1))
      BY DEF Equal
    <2>7. w = [buffer |-> c, rest |-> s2, done |-> FALSE]
      <3>1. w = [buffer |-> [b EXCEPT !.blocks[i] = IF n > 0 THEN Write(@, SubSeq(s, 1, n)) ELSE @,
                                      !.readable = @ + n, !.last = @ + 1],
                 rest |-> SubSeq(s, n + 1, Len(s)), done |-> FALSE]
        BY <1>3, <1>5, <1>8, <1>11, <2>1 DEF AppendCall, AppendStart, Equal, LastBlock
      <3>2. [b EXCEPT !.blocks[i] = IF n > 0 THEN Write(@, SubSeq(s, 1, n)) ELSE @,
                      !.readable = @ + n, !.last = @ + 1]
            = [b EXCEPT !.blocks[i] = new, !.readable = @ + n, !.last = @ + 1]
        BY <1>5, <1>7, <2>1, <2>3, <2>5 DEF Equal, Filled, LastBlock
      <3>3. [b EXCEPT !.blocks[i] = new, !.readable = @ + n, !.last = @ + 1] = c
        BY <1>5, <1>7, <2>4, <2>6 DEF Equal, Grown, Updated, LastBlock
      <3>. QED
        BY <2>3, <3>1, <3>2, <3>3 DEF Equal
    <2>8. /\ c \in Values(S) /\ Open(c) /\ Len(c.blocks) = Len(b.blocks) /\ c.last = i + 1
          /\ Contents(c) = Contents(b) \o s1
      <3>1. Equal(Len(s1), Writeable(blk))
        BY <2>1, <2>4 DEF Equal
      <3>2. s1 \in Seq(S) /\ b \in Values(S) /\ Open(b)
        BY <1>4, <2>4
      <3>. QED
        BY <1>5, <2>5, <2>6, <3>1, <3>2, AppendPart
    <2>9. Contents(c) \o s2 = Contents(a) \o s
      BY <1>9, <2>4, <2>8, ConcatThree
    <2>10. a.last # End(a)
      BY <1>6, <1>11
    <2>11. w.buffer = c /\ w.rest = s2 /\ w.done = FALSE /\ w \in Calls(S)
      BY <2>4, <2>7, <2>8 DEF Calls
    <2>12. b = a
      BY <1>4, <2>10
    <2>. QED
      BY <1>6, <1>8, <2>8, <2>9, <2>10, <2>11, <2>12
  <1>. QED
    BY <1>10, <1>11

-----------------------------------------------------------------------------
(* append *)

\* A well-formed value is one whose lastWithData_ is not end(), unless it has no block.
LEMMA WellFormedIsOpen ==
  ASSUME NEW S, NEW b \in Values(S)
  PROVE  WellFormed(b) <=> Open(b) /\ (b.last <= Len(b.blocks) \/ b.blocks = <<>>)
  <1>1. Len(b.blocks) \in Nat /\ b.last \in Nat /\ (b.blocks = <<>> <=> Len(b.blocks) = 0)
    BY ValueFacts
  <1>. QED
    BY <1>1 DEF WellFormed, Open, IteratorsInList

\* An append of what is missing to t.
Appending(S, t, v) ==
    /\ v \in Calls(S) /\ Open(v.buffer) /\ Contents(v.buffer) \o v.rest = t
    /\ v.done => v.rest = <<>> /\ v.buffer.last <= Len(v.buffer.blocks)

\* After k calls it is done, or each has filled a block.
Reached(b, k, v) ==
    v.done \/ (v.buffer.last = b.last + k /\ Len(v.buffer.blocks) = Len(b.blocks))

\* A call of append keeps what is to be appended.
LEMMA AppendingCall ==
  ASSUME NEW S, NEW t, NEW v, Appending(S, t, v), NEW w, Equal(w, AppendCall(v))
  PROVE  Appending(S, t, w)
  <1>1. v \in Calls(S) /\ Open(v.buffer) /\ v.done \in BOOLEAN
    BY DEF Appending, Calls
  <1>2. CASE v.done
    <2>1. w = v
      BY <1>2 DEF AppendCall, Equal
    <2>. QED
      BY <2>1
  <1>3. CASE ~v.done
    <2>1. w = AppendCall(v)
      BY DEF Equal
    <2>2. /\ w \in Calls(S) /\ Open(w.buffer)
          /\ Contents(w.buffer) \o w.rest = Contents(v.buffer) \o v.rest
          /\ w.done => w.rest = <<>> /\ w.buffer.last <= Len(w.buffer.blocks)
      BY <1>1, <1>3, <2>1, AppendCallFacts
    <2>. QED
      BY <2>2 DEF Appending
  <1>. QED
    BY <1>1, <1>2, <1>3

\* The next call is the last, or fills one more block.
LEMMA ReachedCall ==
  ASSUME NEW S, NEW t, NEW b \in Values(S), NEW k \in Nat, NEW v, Appending(S, t, v), Reached(b, k, v),
         NEW w, Equal(w, AppendCall(v))
  PROVE  Reached(b, k + 1, w) /\ (k = Len(b.blocks) - b.last + 1 => w.done)
  <1>1. /\ v \in Calls(S) /\ Open(v.buffer) /\ v.done \in BOOLEAN
        /\ Len(b.blocks) \in Nat /\ b.last \in Nat
    BY ValueFacts DEF Appending, Calls
  <1>2. CASE v.done
    <2>1. w = v
      BY <1>2 DEF AppendCall, Equal
    <2>. QED
      BY <1>2, <2>1 DEF Reached
  <1>3. CASE ~v.done
    <2>1. w = AppendCall(v)
      BY DEF Equal
    <2>2. /\ w \in Calls(S)
          /\ v.buffer.last = End(v.buffer) => w.done
          /\ ~w.done => /\ w.buffer.last = v.buffer.last + 1
                        /\ Len(w.buffer.blocks) = Len(v.buffer.blocks)
      BY <1>1, <1>3, <2>1, AppendCallFacts
    <2>3. v.buffer.last = b.last + k /\ Len(v.buffer.blocks) = Len(b.blocks)
      BY <1>3 DEF Reached
    <2>4. Reached(b, k + 1, w)
      BY <1>1, <2>2, <2>3 DEF Reached
    <2>5. k = Len(b.blocks) - b.last + 1 => v.buffer.last = End(v.buffer)
      BY <1>1, <2>3 DEF End
    <2>. QED
      BY <2>2, <2>4, <2>5
  <1>. QED
    BY <1>1, <1>2, <1>3

\* What calls of append one after the other lead to.
AppendCalls(x, n) ==
    CHOOSE f : f = [k \in 0..n |-> IF k = 0 THEN x ELSE AppendCall(f[k - 1])]

\* The calls of append, one by one.
LEMMA AppendCallsFacts ==
  ASSUME NEW S, NEW t, NEW x, Appending(S, t, x), NEW n \in Nat, NEW f, Equal(f, AppendCalls(x, n))
  PROVE  f[0] = x /\ \A k \in 1..n : f[k] = AppendCall(f[k - 1])
  <1>. DEFINE D == {v \in Calls(S) : Appending(S, t, v)}
              F == [k \in Nat |-> [v \in D |-> AppendCall(v)]]
              G(h) == [k \in 0..n |-> IF k = 0 THEN x ELSE AppendCall(h[k - 1])]
  <1>1. PICK g : Iterates(D, x, F, g)
    <2>1. x \in D
      BY DEF Appending
    <2>2. ASSUME NEW v \in D PROVE AppendCall(v) \in D
      <3>1. Appending(S, t, v)
        OBVIOUS
      <3>2. PICK w : Equal(w, AppendCall(v))
        BY DEF Equal
      <3>3. Appending(S, t, w)
        BY <3>1, <3>2, AppendingCall
      <3>4. w \in D
        BY <3>3 DEF Appending
      <3>. QED
        BY <3>2, <3>4 DEF Equal
    <2>. HIDE DEF D
    <2>3. F \in [Nat -> [D -> D]]
      BY <2>2
    <2>. HIDE DEF F
    <2>. QED
      BY <2>1, <2>3, Recursion
  <1>. HIDE DEF D
  <1>2. g \in [Nat -> D] /\ g[0] = x /\ \A k \in Nat : g[k + 1] = F[k][g[k]]
    BY <1>1 DEF Iterates
  <1>3. ASSUME NEW k \in Nat, k # 0 PROVE g[k] = AppendCall(g[k - 1])
    <2>1. k - 1 \in Nat /\ (k - 1) + 1 = k
      BY <1>3
    <2>2. g[k] = F[k - 1][g[k - 1]] /\ g[k - 1] \in D
      BY <1>2, <2>1
    <2>. QED
      BY <2>1, <2>2
  <1>. HIDE DEF F
  <1>. DEFINE h == [k \in 0..n |-> g[k]]
  <1>4. h = G(h)
    <2>1. ASSUME NEW k \in 0..n PROVE h[k] = IF k = 0 THEN x ELSE AppendCall(h[k - 1])
      <3>1. CASE k = 0
        BY <1>2, <3>1
      <3>2. CASE k # 0
        <4>1. k - 1 \in 0..n /\ k \in Nat
          BY <3>2
        <4>2. h[k] = g[k] /\ h[k - 1] = g[k - 1]
          BY <4>1
        <4>. QED
          BY <1>3, <3>2, <4>1, <4>2
      <3>. QED
        BY <3>1, <3>2
    <2>. HIDE DEF G
    <2>2. h = [k \in 0..n |-> IF k = 0 THEN x ELSE AppendCall(h[k - 1])]
      <3>1. h = [k \in 0..n |-> h[k]]
        OBVIOUS
      <3>. HIDE DEF h
      <3>. QED
        BY <2>1, <3>1
    <2>. QED
      BY <2>2 DEF G
  <1>. HIDE DEF h
  <1>5. f = G(f)
    <2>1. f = CHOOSE y : y = G(y)
      BY DEF Equal, AppendCalls
    <2>. HIDE DEF G
    <2>. QED
      BY <1>4, <2>1
  <1>6. \A k \in 0..n : f[k] = IF k = 0 THEN x ELSE AppendCall(f[k - 1])
    BY <1>5
  <1>. QED
    BY <1>6

\* append writes s behind the data: the calls are enough, the last one appends to a new block.
LEMMA BufAppendFacts ==
  ASSUME NEW S, NEW b \in Values(S), WellFormed(b), NEW s \in Seq(S), NEW c, Equal(c, BufAppend(b, s))
  PROVE  c \in Values(S) /\ WellFormed(c) /\ Contents(c) = Contents(b) \o s
  <1>1. PICK t, x : Equal(t, Contents(b) \o s) /\ Equal(x, [buffer |-> b, rest |-> s, done |-> FALSE])
    BY DEF Equal
  <1>2. PICK n, f : Equal(n, Len(b.blocks) - b.last + 1) /\ Equal(f, AppendCalls(x, n + 1))
    BY DEF Equal
  <1>3. Open(b) /\ b.last \in Nat /\ Len(b.blocks) \in Nat /\ b.last <= Len(b.blocks) + 1
    BY WellFormedIsOpen, ValueFacts DEF Open
  <1>4. n \in Nat /\ n = Len(b.blocks) - b.last + 1 /\ Len(b.blocks) - b.last + 2 = n + 1
    BY <1>2, <1>3 DEF Equal
  <1>5. c = f[n + 1].buffer
    BY <1>1, <1>2, <1>4 DEF Equal, BufAppend, AppendCalls
  <1>6. Appending(S, t, x) /\ Reached(b, 0, x)
    <2>1. x = [buffer |-> b, rest |-> s, done |-> FALSE] /\ t = Contents(b) \o s
      BY <1>1 DEF Equal
    <2>. QED
      BY <1>3, <2>1 DEF Appending, Calls, Reached
  <1>7. f[0] = x /\ \A k \in 1..(n + 1) : f[k] = AppendCall(f[k - 1])
    <2>1. n + 1 \in Nat
      BY <1>4
    <2>. QED
      BY <1>2, <1>6, <2>1, AppendCallsFacts
  <1>. DEFINE P(k) == Appending(S, t, f[k]) /\ Reached(b, k, f[k])
              T == {k \in Nat : k <= n + 1 => P(k)}
  <1>8. 0 \in T
    BY <1>6, <1>7
  <1>9. ASSUME NEW k \in Nat, k <= n, P(k)
        PROVE  P(k + 1) /\ (k = Len(b.blocks) - b.last + 1 => f[k + 1].done)
    <2>1. k + 1 \in 1..(n + 1) /\ (k + 1) - 1 = k
      BY <1>4, <1>9
    <2>2. Equal(f[k + 1], AppendCall(f[k]))
      BY <1>7, <2>1 DEF Equal
    <2>3. PICK v, w : Equal(v, f[k]) /\ Equal(w, f[k + 1])
      BY DEF Equal
    <2>4. Appending(S, t, v) /\ Reached(b, k, v) /\ Equal(w, AppendCall(v))
      BY <1>9, <2>2, <2>3 DEF Equal
    <2>5. Appending(S, t, w)
      BY <2>4, AppendingCall
    <2>6. Reached(b, k + 1, w) /\ (k = Len(b.blocks) - b.last + 1 => w.done)
      BY <2>4, ReachedCall
    <2>. QED
      BY <2>3, <2>5, <2>6 DEF Equal
  <1>10. \A k \in Nat : k \in T
    <2>1. ASSUME NEW k \in Nat, k \in T PROVE k + 1 \in T
      <3>1. k + 1 <= n + 1 => k <= n /\ k <= n + 1
        BY <1>4
      <3>. HIDE DEF P
      <3>. QED
        BY <1>9, <2>1, <3>1
    <2>. HIDE DEF T
    <2>. QED
      BY <1>8, <2>1, Induction
  <1>11. P(n)
    BY <1>4, <1>10
  <1>12. Appending(S, t, f[n + 1]) /\ f[n + 1].done
    BY <1>4, <1>9, <1>11
  <1>. HIDE DEF P, T
  <1>13. PICK w : Equal(w, f[n + 1])
    BY DEF Equal
  <1>14. Appending(S, t, w) /\ w.done /\ c = w.buffer
    BY <1>5, <1>12, <1>13 DEF Equal
  <1>15. /\ c \in Values(S) /\ Open(c) /\ c.last <= Len(c.blocks) /\ w.rest = <<>>
         /\ Contents(c) \o w.rest = t
    BY <1>14 DEF Appending, Calls
  <1>16. WellFormed(c) /\ Contents(c) \in Seq(S)
    BY <1>15, WellFormedIsOpen, ContentsFacts DEF Open
  <1>17. Contents(c) = t
    BY <1>15, <1>16, ConcatEmptySeq
  <1>. QED
    BY <1>1, <1>15, <1>16, <1>17 DEF Equal

-----------------------------------------------------------------------------
(* Writing in front of the first block *)

\* The lesser of two numbers.
LEMMA MinOfTwo ==
  ASSUME NEW x \in Nat, NEW y \in Nat
  PROVE  Min({x, y}) = IF x <= y THEN x ELSE y
  BY DEF Min

\* Bytes that fit are written in front of the data.
LEMMA WriteInFrontFacts ==
  ASSUME NEW S, NEW blk \in Blocks(S), NEW s \in Seq(S), s # <<>>, Len(s) <= blk.read,
         NEW new, Equal(new, WriteInFront(blk, s))
  PROVE  /\ new \in Blocks(S) /\ new.data = s \o blk.data /\ HasBeenUsed(new)
         /\ Len(s) = blk.read => new.read = 0
  <1>1. /\ blk.cap \in Nat \ {0} /\ blk.read \in Nat /\ blk.data \in Seq(S) /\ Len(blk.data) \in Nat
        /\ blk \in [cap : Nat \ {0}, read : Nat, data : Seq(S)]
        /\ blk.read + Len(blk.data) <= blk.cap /\ Len(s) \in Nat
    BY BlockFacts, LenProperties
  <1>2. s \o blk.data \in Seq(S) /\ Len(s \o blk.data) = Len(s) + Len(blk.data)
    BY <1>1, ConcatProperties
  <1>. DEFINE d == s \o blk.data
              r == blk.read - Len(s)
              old == [blk EXCEPT !.read = r, !.data = d]
  <1>3. r \in Nat /\ r + Len(d) <= blk.cap /\ (Len(s) = blk.read => r = 0) /\ d \in Seq(S)
    BY <1>1, <1>2
  <1>4. new = Settle(old)
    BY <1>1 DEF Equal, WriteInFront
  <1>5. d # <<>>
    <2>1. Len(s) # 0
      BY EmptySeq, LenProperties
    <2>2. Len(d) # 0
      BY <1>1, <1>2, <2>1
    <2>. QED
      BY <2>2, EmptySeq
  <1>. HIDE DEF d, r
  <1>6. /\ old \in [cap : Nat \ {0}, read : Nat, data : Seq(S)]
        /\ old.cap = blk.cap /\ old.read = r /\ old.data = d
    BY <1>1, <1>3
  <1>. HIDE DEF old
  <1>7. /\ Settle(old) \in Blocks(S) /\ Settle(old).data = old.data
        /\ old.read = 0 => Settle(old).read = 0
    <2>1. old.read + Len(old.data) <= old.cap
      BY <1>3, <1>6
    <2>. QED
      BY <1>6, <2>1, SettleFacts
  <1>8. new.data = d
    BY <1>4, <1>6, <1>7
  <1>9. HasBeenUsed(new)
    BY <1>5, <1>8 DEF HasBeenUsed
  <1>10. Len(s) = blk.read => new.read = 0
    BY <1>3, <1>4, <1>6, <1>7
  <1>. QED
    BY <1>4, <1>7, <1>8, <1>9, <1>10 DEF d

\* What is in front of the first block is in front of all.
LEMMA GrownInFront ==
  ASSUME NEW S, NEW s \in Seq(S), NEW d \in Seq(S), NEW post \in Seq(S),
         NEW x, Equal(x, <<>> \o (d \o post)), NEW y, Equal(y, <<>> \o ((s \o d) \o post))
  PROVE  y = s \o x /\ x \in Seq(S)
  <1>1. d \o post \in Seq(S) /\ s \o d \in Seq(S)
    BY ConcatProperties
  <1>2. (s \o d) \o post \in Seq(S)
    BY <1>1, ConcatProperties
  <1>3. <<>> \o (d \o post) = d \o post /\ <<>> \o ((s \o d) \o post) = (s \o d) \o post
    BY <1>1, <1>2, ConcatEmptySeq
  <1>4. (s \o d) \o post = s \o (d \o post)
    BY ConcatThree
  <1>. QED
    BY <1>1, <1>3, <1>4 DEF Equal

\* Block 1 gets s in front of its data.
LEMMA FillFrontFacts ==
  ASSUME NEW S, NEW b \in Values(S), WellFormed(b), b.blocks # <<>>,
         NEW s \in Seq(S), s # <<>>, Len(s) <= b.blocks[1].read, NEW c, Equal(c, FillFront(b, s))
  PROVE  /\ c \in Values(S) /\ WellFormed(c) /\ Contents(c) = s \o Contents(b)
         /\ Len(s) = b.blocks[1].read => c.blocks[1].read = 0
         /\ c.blocks # <<>>
  <1>1. /\ Len(b.blocks) \in Nat /\ b.readable \in Nat /\ b.readable = Len(Contents(b)) /\ b.own
        /\ b.first = 1 /\ b.last \in 1..Len(b.blocks) /\ Len(s) \in Nat /\ 1 \in 1..Len(b.blocks)
        /\ DataInOrder(b)
    <2>1. Len(b.blocks) \in Nat /\ b.readable \in Nat /\ Len(b.blocks) # 0 /\ Len(s) \in Nat
      BY ValueFacts, LenProperties, EmptySeq
    <2>. QED
      BY <2>1 DEF WellFormed, IteratorsInList
  <1>2. PICK blk, new : Equal(blk, b.blocks[1]) /\ Equal(new, WriteInFront(blk, s))
    BY DEF Equal
  <1>3. blk \in Blocks(S) /\ Len(s) <= blk.read
    <2>1. b.blocks[1] \in Blocks(S)
      BY <1>1, ValueFacts
    <2>. QED
      BY <1>2, <2>1 DEF Equal
  <1>4. blk.data \in Seq(S)
    BY <1>3, BlockFacts
  <1>6. /\ new \in Blocks(S) /\ new.data = s \o blk.data /\ HasBeenUsed(new)
        /\ Len(s) = blk.read => new.read = 0
    BY <1>2, <1>3, WriteInFrontFacts
  <1>7. PICK r, l : Equal(r, b.readable + Len(s)) /\ Equal(l, b.last)
    BY DEF Equal
  <1>8. r \in Nat /\ l \in Nat
    BY <1>1, <1>7 DEF Equal
  <1>9. c = Updated(b, 1, new, l, r)
    <2>1. b \in [blocks : Seq(Blocks(S)), first : Nat, last : Nat, readable : Nat, own : BOOLEAN]
      BY DEF Values
    <2>2. c = [b EXCEPT !.blocks[b.first] = WriteInFront(@, s), !.readable = @ + Len(s)]
      BY DEF Equal, FillFront
    <2>3. c = [b EXCEPT !.blocks[1] = new, !.readable = @ + Len(s)]
      BY <1>1, <1>2, <2>1, <2>2 DEF Equal
    <2>. QED
      BY <1>7, <2>1, <2>3 DEF Equal, Updated
  <1>10. /\ c \in Values(S) /\ Len(c.blocks) = Len(b.blocks)
         /\ c.first = b.first /\ c.own = b.own /\ c.last = l /\ c.readable = r
         /\ c.blocks[1] = new /\ \A j \in 1..Len(b.blocks) : j # 1 => c.blocks[j] = b.blocks[j]
    <2>1. 1 \in 1..Len(b.blocks) /\ new \in Blocks(S)
      BY <1>1, <1>6
    <2>. QED
      BY <1>8, <1>9, <2>1, UpdatedFacts
  <1>11. c.last = b.last /\ c.readable = b.readable + Len(s)
    BY <1>7, <1>10 DEF Equal
  <1>12. Contents(c) = s \o Contents(b) /\ Contents(b) \in Seq(S)
    <2>1. SameBut(b, c, 1)
      BY <1>1, <1>10 DEF SameBut
    <2>2. PICK pre \in Seq(S), post \in Seq(S) :
            /\ Contents(b) = pre \o (b.blocks[1].data \o post)
            /\ Contents(c) = pre \o (c.blocks[1].data \o post)
            /\ 1 = 1 => pre = <<>>
            /\ EmptyFrom(b, 1 + 1) => post = <<>>
      BY <1>1, <1>10, <2>1, UpdateFacts
    <2>3. PICK d : Equal(d, b.blocks[1].data)
      BY DEF Equal
    <2>4. d \in Seq(S) /\ c.blocks[1].data = s \o d /\ b.blocks[1].data = d
      BY <1>2, <1>4, <1>6, <1>10, <2>3 DEF Equal
    <2>5. PICK x, y : Equal(x, Contents(b)) /\ Equal(y, Contents(c))
      BY DEF Equal
    <2>6. Equal(x, <<>> \o (d \o post)) /\ Equal(y, <<>> \o ((s \o d) \o post))
      <3>1. pre = <<>>
        BY <2>2
      <3>. QED
        BY <2>2, <2>4, <2>5, <3>1 DEF Equal
    <2>7. y = s \o x /\ x \in Seq(S)
      BY <2>4, <2>6, GrownInFront
    <2>. QED
      BY <2>5, <2>7 DEF Equal
  <1>13. c.readable = Len(Contents(c))
    BY <1>1, <1>11, <1>12, ConcatProperties
  <1>14. DataInOrder(c)
    <2>1. /\ \A j \in 2..Len(b.blocks) : b.blocks[j].read = 0
          /\ \A j \in 2..(b.last - 1) : b.blocks[j].data # <<>>
          /\ Len(b.blocks) <= b.last + 1
          /\ \A j \in (b.last + 1)..Len(b.blocks) : b.blocks[j].data = <<>>
      BY <1>1 DEF DataInOrder
    <2>2. \A j \in 2..Len(b.blocks) : c.blocks[j] = b.blocks[j]
      BY <1>1, <1>10
    <2>3. c.blocks[1].data # <<>> \/ c.blocks[1].read # 0
      BY <1>6, <1>10 DEF HasBeenUsed
    <2>4. \A j \in 2..(b.last - 1) : c.blocks[j].data # <<>>
      BY <1>1, <2>1, <2>2
    <2>5. \A j \in (b.last + 1)..Len(b.blocks) : c.blocks[j].data = <<>>
      BY <1>1, <2>1, <2>2
    <2>6. \A j \in 2..Len(b.blocks) : c.blocks[j].read = 0
      BY <2>1, <2>2
    <2>. QED
      BY <1>10, <1>11, <2>1, <2>3, <2>4, <2>5, <2>6 DEF DataInOrder
  <1>15. c.blocks # <<>>
    BY <1>1, <1>10, EmptySeq
  <1>16. WellFormed(c)
    BY <1>1, <1>10, <1>11, <1>13, <1>14, <1>15 DEF WellFormed, IteratorsInList
  <1>17. Len(s) = b.blocks[1].read => c.blocks[1].read = 0
    BY <1>2, <1>6, <1>10 DEF Equal
  <1>. QED
    BY <1>10, <1>12, <1>15, <1>16, <1>17

-----------------------------------------------------------------------------
(* prepend *)

\* tt is s and then ss.
ConsOf(s, ss, tt) == Len(tt) = Len(ss) + 1 /\ tt[1] = s /\ \A i \in 1..Len(ss) : tt[i + 1] = ss[i]

\* One more sequence in front.
LEMMA FlattenCons ==
  ASSUME NEW S, NEW ss \in Seq(Seq(S)), NEW tt \in Seq(Seq(S)), NEW s \in Seq(S),
         ConsOf(s, ss, tt)
  PROVE  FlattenSeq(tt) = s \o FlattenSeq(ss)
  <1>. DEFINE one == <<s>>
  <1>1. one \in Seq(Seq(S)) /\ Len(one) = 1 /\ one[1] = s /\ FlattenSeq(one) = s
    BY FlattenOne
  <1>. HIDE DEF one
  <1>2. Len(ss) \in Nat
    BY LenProperties
  <1>3. /\ one \o ss \in Seq(Seq(S)) /\ Len(one \o ss) = 1 + Len(ss)
        /\ \A i \in 1..1 + Len(ss) : (one \o ss)[i] = IF i <= 1 THEN one[i] ELSE ss[i - 1]
    <2>1. one \in Seq(Seq(S))
      BY <1>1
    <2>2. /\ one \o ss \in Seq(Seq(S)) /\ Len(one \o ss) = Len(one) + Len(ss)
          /\ \A i \in 1..Len(one) + Len(ss) : (one \o ss)[i] = IF i <= Len(one) THEN one[i] ELSE ss[i - Len(one)]
      BY <2>1, ConcatProperties
    <2>3. Len(one) = 1
      BY <1>1
    <2>. QED
      BY <1>2, <2>2, <2>3
  <1>. DEFINE uu == one \o ss
  <1>4. uu \in Seq(Seq(S)) /\ Len(uu) = 1 + Len(ss)
    BY <1>3
  <1>5. ASSUME NEW i \in 1..Len(ss) + 1 PROVE uu[i] = tt[i]
    <2>1. CASE i = 1
      BY <1>1, <1>2, <1>3, <2>1 DEF ConsOf
    <2>2. CASE i # 1
      <3>1. i - 1 \in 1..Len(ss) /\ (i - 1) + 1 = i
        BY <1>2, <2>2
      <3>2. uu[i] = ss[i - 1]
        BY <1>2, <1>3, <2>2
      <3>3. tt[i] = ss[i - 1]
        BY <3>1 DEF ConsOf
      <3>. QED
        BY <3>2, <3>3
    <2>. QED
      BY <2>1, <2>2
  <1>6. FlattenSeq(uu) = FlattenSeq(one) \o FlattenSeq(ss)
    BY <1>1, FlattenConcat
  <1>. HIDE DEF uu
  <1>7. uu = tt
    <2>1. Len(uu) = Len(tt) /\ \A i \in 1..Len(uu) : uu[i] = tt[i]
      BY <1>2, <1>4, <1>5 DEF ConsOf
    <2>. QED
      BY <1>4, <2>1, SeqEqual
  <1>. QED
    BY <1>1, <1>6, <1>7

\* A new block at the front.
NewFront(s) == [cap |-> CapacityFor(Len(s)), read |-> CapacityFor(Len(s)) - Len(s), data |-> s]

\* The new block comes in front of all data.
LEMMA PushFrontFacts ==
  ASSUME NEW S, NEW b \in Values(S), WellFormed(b), b.blocks # <<>> => b.blocks[1].read = 0,
         NEW s \in Seq(S), s # <<>> \/ b.blocks = <<>>, NEW c, Equal(c, PushFront(b, s))
  PROVE  c \in Values(S) /\ WellFormed(c) /\ Contents(c) = s \o Contents(b)
  <1>1. /\ Len(b.blocks) \in Nat /\ b.readable \in Nat /\ b.readable = Len(Contents(b)) /\ b.own
        /\ b.first = 1 /\ b.last \in Nat /\ Len(s) \in Nat /\ DataInOrder(b)
        /\ b.blocks \in Seq(Blocks(S)) /\ (b.blocks = <<>> <=> Len(b.blocks) = 0)
        /\ Contents(b) \in Seq(S)
    <2>1. /\ Len(b.blocks) \in Nat /\ b.readable \in Nat /\ Len(s) \in Nat /\ b.last \in Nat
          /\ b.blocks \in Seq(Blocks(S))
      BY ValueFacts, LenProperties
    <2>2. Contents(b) \in Seq(S)
      BY ContentsFacts DEF WellFormed, IteratorsInList
    <2>. QED
      BY <2>1, <2>2, EmptySeq DEF WellFormed, IteratorsInList
  <1>2. PICK blk, bs : Equal(blk, NewFront(s)) /\ Equal(bs, <<blk>> \o b.blocks)
    BY DEF Equal
  <1>3. blk \in Blocks(S) /\ blk.data = s
    <2>. DEFINE cap == CapacityFor(Len(s))
    <2>1. cap \in Nat \ {0} /\ cap >= Len(s)
      BY <1>1, CapacityForFacts
    <2>2. blk = [cap |-> cap, read |-> cap - Len(s), data |-> s]
      BY <1>2 DEF Equal, NewFront
    <2>. HIDE DEF cap
    <2>3. cap - Len(s) \in Nat /\ (cap - Len(s)) + Len(s) <= cap /\ (s = <<>> => cap - Len(s) = cap)
      BY <1>1, <2>1, EmptySeq
    <2>. QED
      BY <2>1, <2>2, <2>3 DEF Blocks, WritePosition
  <1>4. /\ bs \in Seq(Blocks(S)) /\ Len(bs) = Len(b.blocks) + 1 /\ bs[1] = blk
        /\ \A i \in 1..Len(b.blocks) : bs[i + 1] = b.blocks[i]
    <2>1. <<blk>> \in Seq(Blocks(S)) /\ Len(<<blk>>) = 1 /\ <<blk>>[1] = blk
      BY <1>3
    <2>2. bs = <<blk>> \o b.blocks
      BY <1>2 DEF Equal
    <2>3. /\ bs \in Seq(Blocks(S)) /\ Len(bs) = 1 + Len(b.blocks)
          /\ \A i \in 1..1 + Len(b.blocks) : bs[i] = IF i <= 1 THEN <<blk>>[i] ELSE b.blocks[i - 1]
      BY <1>1, <2>1, <2>2, ConcatProperties
    <2>4. ASSUME NEW i \in 1..Len(b.blocks) PROVE bs[i + 1] = b.blocks[i]
      <3>1. i + 1 \in 1..1 + Len(b.blocks) /\ ~(i + 1 <= 1) /\ (i + 1) - 1 = i
        BY <1>1
      <3>. QED
        BY <2>3, <3>1
    <2>5. bs[1] = blk
      BY <1>1, <2>1, <2>3
    <2>. QED
      BY <1>1, <2>3, <2>4, <2>5
  <1>5. PICK l, r : Equal(l, IF b.blocks = <<>> THEN 1 ELSE b.last + 1) /\ Equal(r, b.readable + Len(s))
    BY DEF Equal
  <1>6. /\ l \in Nat /\ r \in Nat /\ r = b.readable + Len(s)
        /\ l = IF b.blocks = <<>> THEN 1 ELSE b.last + 1
    BY <1>1, <1>5 DEF Equal
  <1>7. c = [b EXCEPT !.blocks = bs, !.first = 1, !.last = l, !.readable = r]
    <2>1. b \in [blocks : Seq(Blocks(S)), first : Nat, last : Nat, readable : Nat, own : BOOLEAN]
      BY DEF Values
    <2>2. c = [b EXCEPT !.blocks = <<NewFront(s)>> \o @, !.first = 1,
                        !.last = IF b.first = End(b) THEN 1 ELSE @ + 1, !.readable = @ + Len(s)]
      BY DEF Equal, PushFront, NewFront
    <2>3. b.first = End(b) <=> b.blocks = <<>>
      BY <1>1 DEF End
    <2>4. bs = <<NewFront(s)>> \o b.blocks
      BY <1>2 DEF Equal
    <2>. QED
      BY <1>6, <2>1, <2>2, <2>3, <2>4
  <1>8. /\ c \in Values(S)
        /\ c.blocks = bs /\ c.first = 1 /\ c.own = b.own /\ c.last = l /\ c.readable = r
    <2>1. b \in [blocks : Seq(Blocks(S)), first : Nat, last : Nat, readable : Nat, own : BOOLEAN]
      BY DEF Values
    <2>. QED
      BY <1>4, <1>6, <1>7, <2>1 DEF Values
  <1>9. Contents(c) = s \o Contents(b)
    <2>1. /\ Datas(b) \in Seq(Seq(S)) /\ Len(Datas(b)) = Len(b.blocks)
          /\ \A i \in 1..Len(b.blocks) : Datas(b)[i] = b.blocks[i].data
      BY DatasFacts
    <2>2. /\ Datas(c) \in Seq(Seq(S)) /\ Len(Datas(c)) = Len(bs)
          /\ \A i \in 1..Len(bs) : Datas(c)[i] = bs[i].data
      BY <1>8, DatasFacts
    <2>3. Len(Datas(c)) = Len(Datas(b)) + 1 /\ Datas(c)[1] = s
      <3>1. 1 \in 1..Len(bs) /\ bs[1].data = s
        BY <1>1, <1>3, <1>4
      <3>2. Datas(c)[1] = s
        BY <2>2, <3>1
      <3>. QED
        BY <1>4, <2>1, <2>2, <3>2
    <2>4. \A i \in 1..Len(Datas(b)) : Datas(c)[i + 1] = Datas(b)[i]
      <3>. TAKE i \in 1..Len(Datas(b))
      <3>1. i \in 1..Len(b.blocks) /\ i + 1 \in 1..Len(bs)
        BY <1>1, <1>4, <2>1
      <3>. QED
        BY <1>4, <2>1, <2>2, <3>1
    <2>5. FlattenSeq(Datas(c)) = s \o FlattenSeq(Datas(b))
      <3>1. ConsOf(s, Datas(b), Datas(c))
        BY <2>3, <2>4 DEF ConsOf
      <3>. QED
        BY <2>1, <2>2, <3>1, FlattenCons
    <2>. QED
      BY <1>1, <1>8, <2>5, ContentsFacts
  <1>10. c.readable = Len(Contents(c))
    BY <1>1, <1>6, <1>8, <1>9, ConcatProperties
  <1>11. DataInOrder(c)
    <2>1. /\ \A j \in 2..Len(b.blocks) : b.blocks[j].read = 0
          /\ \A j \in 2..(b.last - 1) : b.blocks[j].data # <<>>
          /\ Len(b.blocks) <= b.last + 1
          /\ \A j \in (b.last + 1)..Len(b.blocks) : b.blocks[j].data = <<>>
          /\ 1 < b.last => b.blocks[1].data # <<>> \/ b.blocks[1].read # 0
      BY <1>1 DEF DataInOrder
    <2>2. b.blocks # <<>> => b.last \in 1..Len(b.blocks)
      BY DEF WellFormed, IteratorsInList
    <2>3. ASSUME NEW j \in 2..Len(bs) PROVE j - 1 \in 1..Len(b.blocks) /\ bs[j] = b.blocks[j - 1] /\ b.blocks # <<>>
      <3>1. j - 1 \in 1..Len(b.blocks) /\ (j - 1) + 1 = j
        BY <1>1, <1>4
      <3>2. b.blocks # <<>>
        BY <1>1, <3>1
      <3>. QED
        BY <1>4, <3>1, <3>2
    <2>4. ASSUME NEW j \in 2..Len(bs) PROVE bs[j].read = 0
      BY <1>1, <2>1, <2>3
    <2>5. ASSUME NEW j \in 2..(l - 1) PROVE bs[j].data # <<>>
      <3>1. b.blocks # <<>> /\ l = b.last + 1
        BY <1>6
      <3>2. j \in 2..Len(bs) /\ j - 1 \in 1..(b.last - 1)
        BY <1>1, <1>4, <2>2, <3>1
      <3>3. b.blocks[j - 1].data # <<>>
        <4>1. CASE j - 1 = 1
          <5>1. 1 < b.last /\ b.blocks[1].read = 0
            BY <1>1, <3>1, <3>2
          <5>. QED
            BY <2>1, <4>1, <5>1
        <4>2. CASE j - 1 # 1
          <5>1. j - 1 \in 2..(b.last - 1)
            BY <1>1, <3>2, <4>2
          <5>. QED
            BY <2>1, <5>1
        <4>. QED
          BY <4>1, <4>2
      <3>. QED
        BY <2>3, <3>2, <3>3
    <2>6. Len(bs) <= l + 1
      BY <1>1, <1>4, <1>6, <2>1
    <2>7. ASSUME NEW j \in (l + 1)..Len(bs) PROVE bs[j].data = <<>>
      <3>1. b.blocks # <<>>
        BY <1>1, <1>4, <1>6
      <3>2. l = b.last + 1
        BY <1>6, <3>1
      <3>3. j \in 2..Len(bs) /\ j - 1 \in (b.last + 1)..Len(b.blocks)
        BY <1>1, <1>4, <3>2
      <3>. QED
        BY <2>1, <2>3, <3>3
    <2>8. 1 < l => bs[1].data # <<>>
      BY <1>3, <1>4, <1>6
    <2>. QED
      BY <1>8, <2>4, <2>5, <2>6, <2>7, <2>8 DEF DataInOrder
  <1>12. l \in 1..Len(bs) /\ bs # <<>>
    <2>1. b.blocks # <<>> => b.last \in 1..Len(b.blocks)
      BY DEF WellFormed, IteratorsInList
    <2>2. bs # <<>>
      BY <1>1, <1>4, EmptySeq
    <2>. QED
      BY <1>1, <1>4, <1>6, <2>1, <2>2
  <1>13. WellFormed(c)
    BY <1>1, <1>8, <1>10, <1>11, <1>12 DEF WellFormed, IteratorsInList
  <1>. QED
    BY <1>8, <1>9, <1>13

\* prepend writes s in front of the data, in one block or in two.
LEMMA PrependFacts ==
  ASSUME NEW S, NEW b \in Values(S), WellFormed(b), NEW s \in Seq(S), NEW c, Equal(c, Prepend(b, s))
  PROVE  c \in Values(S) /\ WellFormed(c) /\ Contents(c) = s \o Contents(b)
  <1>1. /\ Len(b.blocks) \in Nat /\ b.first = 1 /\ Len(s) \in Nat
        /\ (b.blocks = <<>> <=> Len(b.blocks) = 0) /\ Contents(b) \in Seq(S)
    <2>1. Len(b.blocks) \in Nat /\ Len(s) \in Nat /\ b.first = 1
      BY ValueFacts, LenProperties DEF WellFormed, IteratorsInList
    <2>2. Contents(b) \in Seq(S)
      BY <2>1, ContentsFacts
    <2>. QED
      BY <2>1, <2>2, EmptySeq
  <1>2. CASE b.blocks = <<>>
    <2>1. Equal(c, PushFront(b, s))
      BY <1>1, <1>2 DEF Equal, Prepend, End
    <2>. QED
      BY <1>2, <2>1, PushFrontFacts
  <1>3. CASE b.blocks # <<>>
    <2>1. PICK read, room, rest : /\ Equal(read, b.blocks[1].read) /\ Equal(room, Min({read, Len(s)}))
                                  /\ Equal(rest, Len(s) - room)
      BY DEF Equal
    <2>2. read \in Nat /\ room \in 0..Len(s) /\ room <= read /\ rest \in 0..Len(s) /\ rest = Len(s) - room
          /\ (rest # 0 => room = read)
      <3>1. 1 \in 1..Len(b.blocks)
        BY <1>1, <1>3
      <3>2. b.blocks[1].read \in Nat
        BY <3>1, ValueFacts, BlockFacts
      <3>3. read \in Nat
        BY <2>1, <3>2 DEF Equal
      <3>4. room = IF read <= Len(s) THEN read ELSE Len(s)
        BY <1>1, <2>1, <3>3, MinOfTwo DEF Equal
      <3>. QED
        <4>1. room \in 0..Len(s) /\ room <= read /\ (room < Len(s) => room = read)
          BY <1>1, <3>3, <3>4
        <4>2. rest = Len(s) - room
          BY <2>1 DEF Equal
        <4>. QED
          BY <1>1, <3>3, <4>1, <4>2
    <2>3. PICK s1, s2 : Equal(s1, SubSeq(s, 1, rest)) /\ Equal(s2, SubSeq(s, rest + 1, Len(s)))
      BY DEF Equal
    <2>4. /\ s1 \in Seq(S) /\ Len(s1) = rest /\ s2 \in Seq(S) /\ Len(s2) = Len(s) - rest
          /\ s = s1 \o s2
      BY <1>1, <2>2, <2>3, SplitAt DEF Equal
    <2>5. PICK d : Equal(d, IF room = 0 THEN b ELSE FillFront(b, s2))
      BY DEF Equal
    <2>6. c = IF rest = 0 THEN d ELSE PushFront(d, s1)
      <3>1. b.first # End(b)
        BY <1>1, <1>3 DEF End
      <3>2. c = IF rest = 0 THEN IF room = 0 THEN b ELSE FillFront(b, SubSeq(s, rest + 1, Len(s)))
                ELSE PushFront(IF room = 0 THEN b ELSE FillFront(b, SubSeq(s, rest + 1, Len(s))), SubSeq(s, 1, rest))
        BY <1>1, <2>1, <3>1 DEF Prepend, Equal
      <3>. QED
        BY <2>3, <2>5, <3>2 DEF Equal
    <2>7. /\ d \in Values(S) /\ WellFormed(d) /\ Contents(d) = s2 \o Contents(b)
          /\ rest # 0 => d.blocks[1].read = 0
      <3>1. CASE room = 0
        <4>1. d = b
          BY <2>5, <3>1 DEF Equal
        <4>2. s2 = <<>>
          BY <1>1, <2>2, <2>4, <3>1, EmptySeq
        <4>3. <<>> \o Contents(b) = Contents(b)
          BY <1>1, ConcatEmptySeq
        <4>4. rest # 0 => b.blocks[1].read = 0
          BY <2>1, <2>2, <3>1 DEF Equal
        <4>. QED
          BY <4>1, <4>2, <4>3, <4>4
      <3>2. CASE room # 0
        <4>1. Equal(d, FillFront(b, s2))
          BY <2>5, <3>2 DEF Equal
        <4>2. s2 # <<>> /\ Len(s2) <= b.blocks[1].read
          <5>1. Len(s2) = room /\ room # 0
            BY <1>1, <2>2, <2>4, <3>2
          <5>2. s2 # <<>>
            BY <5>1, EmptySeq
          <5>3. Len(s2) <= read
            BY <2>2, <5>1
          <5>. QED
            BY <2>1, <5>2, <5>3 DEF Equal
        <4>3. s2 \in Seq(S)
          BY <2>4
        <4>4. /\ d \in Values(S) /\ WellFormed(d) /\ Contents(d) = s2 \o Contents(b)
              /\ Len(s2) = b.blocks[1].read => d.blocks[1].read = 0
          BY <1>3, <4>1, <4>2, <4>3, FillFrontFacts
        <4>5. rest # 0 => Len(s2) = b.blocks[1].read
          BY <1>1, <2>1, <2>2, <2>4 DEF Equal
        <4>. QED
          BY <4>4, <4>5
      <3>. QED
        BY <3>1, <3>2
    <2>8. CASE rest = 0
      <3>1. s1 = <<>> /\ s2 = s
        <4>1. s1 = <<>>
          BY <2>4, <2>8, EmptySeq
        <4>2. <<>> \o s2 = s2
          BY <2>4, ConcatEmptySeq
        <4>. QED
          BY <2>4, <4>1, <4>2
      <3>. QED
        BY <2>6, <2>7, <2>8, <3>1
    <2>9. CASE rest # 0
      <3>1. Equal(c, PushFront(d, s1)) /\ s1 # <<>> /\ s1 \in Seq(S)
        BY <2>4, <2>6, <2>9, EmptySeq DEF Equal
      <3>2. d \in Values(S) /\ WellFormed(d) /\ d.blocks[1].read = 0
        BY <2>7, <2>9
      <3>3. c \in Values(S) /\ WellFormed(c) /\ Contents(c) = s1 \o Contents(d)
        BY <3>1, <3>2, PushFrontFacts
      <3>4. s1 \o (s2 \o Contents(b)) = (s1 \o s2) \o Contents(b)
        BY <1>1, <2>4, ConcatThree
      <3>. QED
        BY <2>4, <2>7, <3>3, <3>4
    <2>. QED
      BY <2>8, <2>9
  <1>. QED
    BY <1>2, <1>3

-----------------------------------------------------------------------------
(* discard *)

\* A set of numbers up to m that is not empty has a greatest.
LEMMA GreatestElement ==
  ASSUME NEW m \in Nat, NEW T \in SUBSET (0..m), T # {}
  PROVE  Max(T) \in T /\ \A k \in T : k <= Max(T)
  <1>. DEFINE U == {m - k : k \in T}
  <1>1. U \in SUBSET Nat /\ U # {}
    <2>1. \A k \in T : m - k \in Nat
      OBVIOUS
    <2>. QED
      BY <2>1
  <1>2. \E x \in U : \A y \in U : x <= y
    <2>. HIDE DEF U
    <2>. QED
      BY <1>1, LeastElement
  <1>3. \E x \in T : \A y \in T : m - x <= m - y
    BY <1>2
  <1>4. \E x \in T : \A y \in T : x >= y
    BY <1>3
  <1>. QED
    BY <1>4 DEF Max

\* discard erases empty blocks, up to lastWithData_ or to the first that has data.
LEMMA ErasedFacts ==
  ASSUME NEW S, NEW b \in Values(S), b.last >= 1, NEW k, Equal(k, Erased(b))
  PROVE  /\ k \in 0..(b.last - 1)
         /\ \A j \in 1..k : b.blocks[j].data = <<>>
         /\ k < b.last - 1 => b.blocks[k + 1].data # <<>>
  <1>1. b.last - 1 \in Nat
    BY ValueFacts
  <1>. DEFINE T == {i \in 0..(b.last - 1) : \A j \in 1..i : b.blocks[j].data = <<>>}
  <1>2. 0 \in T
    BY <1>1
  <1>3. k = Max(T)
    BY DEF Equal, Erased
  <1>4. k \in T /\ \A i \in T : i <= k
    <2>1. T \in SUBSET (0..(b.last - 1)) /\ T # {}
      BY <1>2
    <2>. HIDE DEF T
    <2>. QED
      BY <1>1, <1>3, <2>1, GreatestElement
  <1>5. k < b.last - 1 => b.blocks[k + 1].data # <<>>
    <2>. SUFFICES ASSUME k < b.last - 1, b.blocks[k + 1].data = <<>> PROVE FALSE
      OBVIOUS
    <2>1. k + 1 \in 0..(b.last - 1)
      BY <1>1, <1>4
    <2>2. \A j \in 1..(k + 1) : b.blocks[j].data = <<>>
      BY <1>1, <1>4
    <2>3. k + 1 \in T
      BY <2>1, <2>2
    <2>. QED
      BY <1>1, <1>4, <2>3
  <1>. QED
    BY <1>4, <1>5

\* TakenFrom, once the iterator is the first.
LEMMA TakenFromFacts ==
  ASSUME NEW S, NEW b \in Values(S), b.first = 1, NEW n \in Nat, NEW j \in 1..Len(b.blocks)
  PROVE  /\ TakenFrom(b, n, j)
              = TakenOf(n, Len(FlattenSeq(SubSeq(Datas(b), 1, j - 1))), Len(Datas(b)[j]))
         /\ TakenFrom(b, n, j) \in 0..Len(b.blocks[j].data)
  <1>1. /\ Len(b.blocks) \in Nat /\ b.blocks[j].data \in Seq(S) /\ Len(b.blocks[j].data) \in Nat
        /\ j - 1 \in 0..Len(b.blocks) /\ ~(j < 1) /\ Datas(b)[j] = b.blocks[j].data
    <2>1. Len(b.blocks) \in Nat /\ b.blocks[j].data \in Seq(S) /\ Datas(b)[j] = b.blocks[j].data
      BY ValueFacts, DatasFacts
    <2>. QED
      BY <2>1, LenProperties
  <1>2. BytesOf(b, 1, j - 1) = FlattenSeq(SubSeq(Datas(b), 1, j - 1))
    BY <1>1, BytesBefore
  <1>3. Len(FlattenSeq(SubSeq(Datas(b), 1, j - 1))) \in Nat
    <2>1. Datas(b) \in Seq(Seq(S)) /\ Len(Datas(b)) = Len(b.blocks)
      BY DatasFacts
    <2>2. SubSeq(Datas(b), 1, j - 1) \in Seq(Seq(S))
      BY <1>1, <2>1, SplitAt
    <2>. QED
      BY <2>2, FlattenType, LenProperties
  <1>4. PICK p, l : Equal(p, Len(FlattenSeq(SubSeq(Datas(b), 1, j - 1)))) /\ Equal(l, Len(b.blocks[j].data))
    BY DEF Equal
  <1>5. p \in Nat /\ l \in Nat
    BY <1>1, <1>3, <1>4 DEF Equal
  <1>6. TakenFrom(b, n, j) = Min({l, Max({0, n - p})})
    BY <1>1, <1>2, <1>4 DEF TakenFrom, Equal
  <1>7. Max({0, n - p}) = IF n <= p THEN 0 ELSE n - p
    BY <1>5 DEF Max
  <1>8. Min({l, Max({0, n - p})}) = TakenOf(n, p, l)
    <2>1. CASE n <= p
      <3>1. Max({0, n - p}) = 0
        BY <1>7, <2>1
      <3>2. Min({l, 0}) = 0
        BY <1>5, MinOfTwo
      <3>. QED
        BY <1>5, <2>1, <3>1, <3>2 DEF TakenOf
    <2>2. CASE ~(n <= p)
      <3>1. Max({0, n - p}) = n - p /\ n - p \in Nat
        BY <1>5, <1>7, <2>2
      <3>2. PICK x : Equal(x, n - p)
        BY DEF Equal
      <3>3. x \in Nat /\ Min({l, Max({0, n - p})}) = Min({l, x})
        BY <3>1, <3>2 DEF Equal
      <3>4. Min({l, x}) = IF l <= x THEN l ELSE x
        BY <1>5, <3>3, MinOfTwo
      <3>5. TakenOf(n, p, l) = IF x <= l THEN x ELSE l
        BY <2>2, <3>2 DEF TakenOf, Equal
      <3>6. (IF l <= x THEN l ELSE x) = (IF x <= l THEN x ELSE l)
        BY <1>5, <3>3
      <3>. QED
        BY <3>3, <3>4, <3>5, <3>6
    <2>. QED
      BY <2>1, <2>2
  <1>9. TakenOf(n, p, l) \in 0..l
    BY <1>5 DEF TakenOf
  <1>. QED
    BY <1>1, <1>4, <1>6, <1>8, <1>9 DEF Equal

\* d has the blocks of b without the first n bytes.
Shortened(b, n, d) ==
    /\ d.own /\ d.first = 1 /\ d.last = b.last /\ Len(d.blocks) = Len(b.blocks)
    /\ Contents(d) = SubSeq(Contents(b), n + 1, Len(Contents(b)))
    /\ d.readable = Len(Contents(b)) - n
    /\ \A j \in 1..Len(b.blocks) : b.blocks[j].data = <<>> => d.blocks[j] = b.blocks[j]
    /\ \A j, k \in 1..Len(b.blocks) :
          j < k /\ d.blocks[j].data # <<>> => d.blocks[k] = b.blocks[k]

\* The bytes are gone, and only the first block with data left has been read from.
LEMMA DropBytesFacts ==
  ASSUME NEW S, NEW b \in Values(S), WellFormed(b), NEW n \in Nat, n <= b.readable,
         NEW d, Equal(d, DropBytes(b, n))
  PROVE  d \in Values(S) /\ Shortened(b, n, d)
  <1>1. /\ Len(b.blocks) \in Nat /\ b.readable \in Nat /\ b.readable = Len(Contents(b)) /\ b.own
        /\ b.first = 1 /\ b.blocks \in Seq(Blocks(S))
    BY ValueFacts DEF WellFormed, IteratorsInList
  <1>2. PICK ss, t : Equal(ss, Datas(b)) /\ Equal(t, [j \in 1..Len(b.blocks) |-> TakenFrom(b, n, j)])
    BY DEF Equal
  <1>3. /\ ss \in Seq(Seq(S)) /\ Len(ss) = Len(b.blocks)
        /\ \A j \in 1..Len(b.blocks) : ss[j] = b.blocks[j].data
    BY <1>2, DatasFacts DEF Equal
  <1>4. Contents(b) = FlattenSeq(ss)
    BY <1>1, <1>2, ContentsFacts DEF Equal
  <1>5. \A j \in 1..Len(b.blocks) :
           /\ t[j] = TakenFrom(b, n, j) /\ t[j] \in 0..Len(b.blocks[j].data)
           /\ t[j] = TakenOf(n, Len(FlattenSeq(SubSeq(ss, 1, j - 1))), Len(ss[j]))
    <2>. TAKE j \in 1..Len(b.blocks)
    <2>1. t[j] = TakenFrom(b, n, j)
      BY <1>2 DEF Equal
    <2>. QED
      BY <1>1, <1>2, <2>1, TakenFromFacts DEF Equal
  <1>6. PICK bs : Equal(bs, [j \in 1..Len(b.blocks) |-> Drop(b.blocks[j], t[j])])
    BY DEF Equal
  <1>7. ASSUME NEW j \in 1..Len(b.blocks)
        PROVE  /\ bs[j] \in Blocks(S) /\ bs[j] = Drop(b.blocks[j], t[j])
               /\ bs[j].data = SubSeq(b.blocks[j].data, t[j] + 1, Len(b.blocks[j].data))
               /\ t[j] = 0 => bs[j] = b.blocks[j]
    <2>1. bs[j] = Drop(b.blocks[j], t[j])
      BY <1>6 DEF Equal
    <2>2. b.blocks[j] \in Blocks(S) /\ t[j] \in 0..Len(b.blocks[j].data)
      BY <1>5, ValueFacts
    <2>3. PICK x, y : Equal(x, b.blocks[j]) /\ Equal(y, t[j])
      BY DEF Equal
    <2>4. x \in Blocks(S) /\ y \in 0..Len(x.data)
      BY <2>2, <2>3 DEF Equal
    <2>5. /\ Drop(x, y) \in Blocks(S)
          /\ Drop(x, y).data = SubSeq(x.data, y + 1, Len(x.data))
          /\ y = 0 => Drop(x, y) = x
      BY <2>4, DropFacts
    <2>. QED
      BY <2>1, <2>3, <2>5 DEF Equal
  <1>8. bs \in Seq(Blocks(S)) /\ Len(bs) = Len(b.blocks)
    <2>1. bs = [j \in 1..Len(b.blocks) |-> bs[j]]
      BY <1>6 DEF Equal
    <2>2. \A j \in 1..Len(b.blocks) : bs[j] \in Blocks(S)
      BY <1>7
    <2>3. PICK m : Equal(m, Len(b.blocks))
      BY DEF Equal
    <2>4. m \in Nat /\ bs = [j \in 1..m |-> bs[j]] /\ \A j \in 1..m : bs[j] \in Blocks(S)
      BY <1>1, <2>1, <2>2, <2>3 DEF Equal
    <2>5. bs \in Seq(Blocks(S)) /\ Len(bs) = m
      BY <2>4
    <2>. QED
      BY <2>3, <2>5 DEF Equal
  <1>9. PICK r : Equal(r, b.readable - n)
    BY DEF Equal
  <1>10. r \in Nat /\ r = b.readable - n
    BY <1>1, <1>9 DEF Equal
  <1>11. /\ d \in Values(S) /\ d.blocks = bs /\ d.first = 1 /\ d.own = b.own /\ d.last = b.last
         /\ d.readable = r
    <2>1. b \in [blocks : Seq(Blocks(S)), first : Nat, last : Nat, readable : Nat, own : BOOLEAN]
      BY DEF Values
    <2>2. bs = [j \in 1..Len(b.blocks) |-> Drop(b.blocks[j], TakenFrom(b, n, j))]
      BY <1>5, <1>6 DEF Equal
    <2>3. d = [b EXCEPT !.blocks = bs, !.readable = r]
      BY <1>9, <2>1, <2>2 DEF DropBytes, Equal
    <2>. QED
      BY <1>1, <1>8, <1>10, <2>1, <2>3 DEF Values
  <1>12. PICK tt : Equal(tt, Datas(d))
    BY DEF Equal
  <1>13. /\ tt \in Seq(Seq(S)) /\ Len(tt) = Len(ss)
         /\ \A j \in 1..Len(ss) : tt[j] = bs[j].data
    BY <1>3, <1>8, <1>11, <1>12, DatasFacts DEF Equal
  <1>14. \A j \in 1..Len(ss) :
           tt[j] = SubSeq(ss[j], TakenOf(n, Len(FlattenSeq(SubSeq(ss, 1, j - 1))), Len(ss[j])) + 1, Len(ss[j]))
    <2>. TAKE j \in 1..Len(ss)
    <2>1. j \in 1..Len(b.blocks) /\ ss[j] = b.blocks[j].data
      BY <1>3
    <2>2. tt[j] = SubSeq(ss[j], t[j] + 1, Len(ss[j]))
      BY <1>7, <1>13, <2>1
    <2>. QED
      BY <1>5, <2>1, <2>2
  <1>15. /\ FlattenSeq(tt) = SubSeq(FlattenSeq(ss), n + 1, Len(FlattenSeq(ss)))
         /\ \A j, k \in 1..Len(ss) : j < k /\ tt[j] # <<>> => tt[k] = ss[k]
    <2>1. n <= Len(FlattenSeq(ss))
      BY <1>1, <1>4
    <2>. QED
      BY <1>3, <1>13, <1>14, <2>1, FlattenDiscard
  <1>16. Contents(d) = FlattenSeq(tt)
    BY <1>11, <1>12, ContentsFacts DEF Equal
  <1>17. ASSUME NEW k \in 1..Len(b.blocks), bs[k].data = b.blocks[k].data PROVE bs[k] = b.blocks[k]
    <2>1. PICK x, y : Equal(x, b.blocks[k].data) /\ Equal(y, t[k])
      BY DEF Equal
    <2>2. x \in Seq(S) /\ y \in 0..Len(x) /\ SubSeq(x, y + 1, Len(x)) = x
      <3>1. b.blocks[k].data \in Seq(S)
        BY ValueFacts
      <3>2. SubSeq(b.blocks[k].data, t[k] + 1, Len(b.blocks[k].data)) = b.blocks[k].data
        BY <1>7, <1>17
      <3>. QED
        BY <1>5, <2>1, <3>1, <3>2 DEF Equal
    <2>3. Len(x) \in Nat /\ Len(SubSeq(x, y + 1, Len(x))) = Len(x) - y
      BY <2>2, SplitAt, LenProperties
    <2>4. y = 0
      BY <2>2, <2>3
    <2>. QED
      BY <1>7, <2>1, <2>4 DEF Equal
  <1>18. \A j \in 1..Len(b.blocks) : b.blocks[j].data = <<>> => bs[j] = b.blocks[j]
    <2>. TAKE j \in 1..Len(b.blocks)
    <2>. HAVE b.blocks[j].data = <<>>
    <2>1. t[j] = 0
      BY <1>5
    <2>. QED
      BY <1>7, <2>1
  <1>19. \A j, k \in 1..Len(b.blocks) : j < k /\ bs[j].data # <<>> => bs[k] = b.blocks[k]
    <2>. TAKE j, k \in 1..Len(b.blocks)
    <2>. HAVE j < k /\ bs[j].data # <<>>
    <2>1. tt[k] = ss[k]
      BY <1>3, <1>13, <1>15
    <2>2. bs[k].data = b.blocks[k].data
      BY <1>3, <1>13, <2>1
    <2>. QED
      BY <1>17, <2>2
  <1>. QED
    BY <1>1, <1>4, <1>8, <1>10, <1>11, <1>15, <1>16, <1>18, <1>19 DEF Shortened

\* The empty blocks at the front go.
LEMMA EraseFrontFacts ==
  ASSUME NEW S, NEW b \in Values(S), WellFormed(b), NEW n \in Nat, n <= b.readable,
         NEW d \in Values(S), Shortened(b, n, d), NEW c, Equal(c, EraseFront(d))
  PROVE  /\ c \in Values(S) /\ WellFormed(c)
         /\ Contents(c) = SubSeq(Contents(b), n + 1, Len(Contents(b)))
  <1>1. /\ Len(b.blocks) \in Nat /\ b.readable \in Nat /\ b.readable = Len(Contents(b)) /\ b.own
        /\ b.first = 1 /\ b.last \in Nat /\ Contents(b) \in Seq(S)
        /\ b.last >= 1 /\ (b.last <= Len(b.blocks) \/ (Len(b.blocks) = 0 /\ b.last = 1))
    <2>1. /\ Len(b.blocks) \in Nat /\ b.readable \in Nat /\ b.last \in Nat
          /\ (b.blocks = <<>> => Len(b.blocks) = 0)
      BY ValueFacts, EmptySeq
    <2>2. b.first = 1 /\ b.own /\ b.readable = Len(Contents(b))
      BY DEF WellFormed, IteratorsInList
    <2>3. Contents(b) \in Seq(S)
      BY <2>2, ContentsFacts
    <2>4. b.last \in 1..Len(b.blocks) \/ (b.blocks = <<>> /\ b.last = 1)
      BY DEF WellFormed, IteratorsInList
    <2>5. b.last >= 1 /\ (b.last <= Len(b.blocks) \/ (Len(b.blocks) = 0 /\ b.last = 1))
      <3>1. CASE b.last \in 1..Len(b.blocks)
        <4>1. PICK l, m : Equal(l, b.last) /\ Equal(m, Len(b.blocks))
          BY DEF Equal
        <4>2. l \in Nat /\ m \in Nat /\ l \in 1..m
          BY <2>1, <3>1, <4>1 DEF Equal
        <4>3. l >= 1 /\ l <= m
          BY <4>2
        <4>. QED
          BY <4>1, <4>3 DEF Equal
      <3>2. CASE b.blocks = <<>> /\ b.last = 1
        BY <2>1, <3>2
      <3>. QED
        BY <2>4, <3>1, <3>2
    <2>. QED
      BY <2>1, <2>2, <2>3, <2>5
  <1>2. /\ d.own /\ d.first = 1 /\ d.last = b.last /\ Len(d.blocks) = Len(b.blocks)
        /\ Contents(d) = SubSeq(Contents(b), n + 1, Len(Contents(b)))
        /\ d.readable = Len(Contents(b)) - n
        /\ d.blocks \in Seq(Blocks(S))
    BY ValueFacts DEF Shortened
  <1>3. PICK k, bs : Equal(k, Erased(d)) /\ Equal(bs, SubSeq(d.blocks, k + 1, Len(d.blocks)))
    BY DEF Equal
  <1>4. /\ k \in 0..(b.last - 1)
        /\ \A j \in 1..k : d.blocks[j].data = <<>>
        /\ k < b.last - 1 => d.blocks[k + 1].data # <<>>
    <2>1. d.last >= 1
      BY <1>1, <1>2
    <2>. QED
      BY <1>2, <1>3, <2>1, ErasedFacts
  <1>5. k \in 0..Len(d.blocks)
    BY <1>1, <1>2, <1>4
  <1>6. /\ bs \in Seq(Blocks(S)) /\ Len(bs) = Len(b.blocks) - k
        /\ \A j \in 1..(Len(b.blocks) - k) : bs[j] = d.blocks[k + j]
    <2>1. PICK ds : Equal(ds, d.blocks)
      BY DEF Equal
    <2>2. ds \in Seq(Blocks(S)) /\ k \in 0..Len(ds) /\ Len(ds) = Len(b.blocks)
      BY <1>2, <1>5, <2>1 DEF Equal
    <2>3. bs = SubSeq(ds, k + 1, Len(ds))
      BY <1>3, <2>1 DEF Equal
    <2>4. /\ bs \in Seq(Blocks(S)) /\ Len(bs) = Len(ds) - k
          /\ \A j \in 1..(Len(ds) - k) : bs[j] = ds[k + j]
      BY <2>2, <2>3, SplitAt
    <2>. QED
      BY <2>1, <2>2, <2>4 DEF Equal
  <1>7. PICK l : Equal(l, b.last - k)
    BY DEF Equal
  <1>8. l \in Nat /\ l = b.last - k /\ l >= 1
    BY <1>1, <1>4, <1>7 DEF Equal
  <1>9. /\ c \in Values(S) /\ c.blocks = bs /\ c.first = 1 /\ c.own /\ c.last = l
        /\ c.readable = d.readable
    <2>1. d \in [blocks : Seq(Blocks(S)), first : Nat, last : Nat, readable : Nat, own : BOOLEAN]
      BY DEF Values
    <2>2. c = [d EXCEPT !.blocks = bs, !.first = 1, !.last = l]
      BY <1>2, <1>3, <1>7, <2>1 DEF EraseFront, Equal
    <2>. QED
      BY <1>2, <1>6, <1>8, <2>1, <2>2 DEF Values
  <1>10. Contents(c) = Contents(d)
    <2>1. PICK ss, tt : Equal(ss, Datas(d)) /\ Equal(tt, Datas(c))
      BY DEF Equal
    <2>2. /\ ss \in Seq(Seq(S)) /\ Len(ss) = Len(b.blocks)
          /\ \A j \in 1..Len(b.blocks) : ss[j] = d.blocks[j].data
      BY <1>2, <2>1, DatasFacts DEF Equal
    <2>3. /\ tt \in Seq(Seq(S)) /\ Len(tt) = Len(b.blocks) - k
          /\ \A j \in 1..(Len(b.blocks) - k) : tt[j] = bs[j].data
      BY <1>6, <1>9, <2>1, DatasFacts DEF Equal
    <2>4. k \in 0..Len(ss) /\ \A j \in 1..k : ss[j] = <<>>
      <3>1. k \in 0..Len(ss) /\ \A j \in 1..k : j \in 1..Len(b.blocks)
        BY <1>1, <1>2, <1>5, <2>2
      <3>. QED
        BY <1>4, <2>2, <3>1
    <2>5. PICK uu : Equal(uu, SubSeq(ss, k + 1, Len(ss)))
      BY DEF Equal
    <2>6. FlattenSeq(uu) = FlattenSeq(ss)
      BY <2>2, <2>4, <2>5, FlattenBack DEF Equal
    <2>7. /\ uu \in Seq(Seq(S)) /\ Len(uu) = Len(b.blocks) - k
          /\ \A j \in 1..(Len(b.blocks) - k) : uu[j] = ss[k + j]
      BY <2>2, <2>4, <2>5, SplitAt DEF Equal
    <2>8. uu = tt
      <3>1. ASSUME NEW j \in 1..(Len(b.blocks) - k) PROVE uu[j] = tt[j]
        <4>1. k + j \in 1..Len(b.blocks)
          BY <1>1, <1>2, <1>5
        <4>. QED
          BY <1>6, <2>2, <2>3, <2>7, <4>1
      <3>. QED
        BY <2>3, <2>7, <3>1, SeqEqual
    <2>9. Contents(d) = FlattenSeq(ss) /\ Contents(c) = FlattenSeq(tt)
      BY <1>2, <1>9, <2>1, ContentsFacts DEF Equal
    <2>. QED
      BY <2>6, <2>8, <2>9
  <1>11. c.readable = Len(Contents(c))
    <2>1. n \in 0..Len(Contents(b))
      BY <1>1
    <2>2. Len(SubSeq(Contents(b), n + 1, Len(Contents(b)))) = Len(Contents(b)) - n
      BY <1>1, <2>1, SplitAt
    <2>. QED
      BY <1>2, <1>9, <1>10, <2>2
  <1>12. ASSUME NEW j \in 2..Len(bs)
         PROVE  k + j \in 2..Len(b.blocks) /\ bs[j] = b.blocks[k + j]
    <2>1. k + j \in 2..Len(b.blocks) /\ j \in 1..(Len(b.blocks) - k) /\ k + j \in 1..Len(b.blocks)
          /\ k + 1 \in 1..Len(b.blocks) /\ k + 1 < k + j
      BY <1>1, <1>4, <1>6
    <2>2. bs[j] = d.blocks[k + j]
      BY <1>6, <2>1
    <2>3. CASE d.blocks[k + 1].data # <<>>
      BY <2>1, <2>2, <2>3 DEF Shortened
    <2>4. CASE d.blocks[k + 1].data = <<>>
      <3>1. k = b.last - 1
        BY <1>1, <1>4, <2>4
      <3>2. k + j \in (b.last + 1)..Len(b.blocks)
        BY <1>1, <2>1, <3>1
      <3>3. b.blocks[k + j].data = <<>>
        BY <3>2 DEF WellFormed, DataInOrder
      <3>. QED
        BY <2>1, <2>2, <3>3 DEF Shortened
    <2>. QED
      BY <2>1, <2>3, <2>4
  <1>13. DataInOrder(c)
    <2>1. /\ \A j \in 2..Len(b.blocks) : b.blocks[j].read = 0
          /\ \A j \in 2..(b.last - 1) : b.blocks[j].data # <<>>
          /\ Len(b.blocks) <= b.last + 1
          /\ \A j \in (b.last + 1)..Len(b.blocks) : b.blocks[j].data = <<>>
      BY DEF WellFormed, DataInOrder
    <2>2. ASSUME NEW j \in 2..Len(bs) PROVE bs[j].read = 0
      BY <1>12, <2>1
    <2>3. ASSUME NEW j \in 2..(l - 1) PROVE bs[j].data # <<>>
      <3>1. j \in 2..Len(bs) /\ k + j \in 2..(b.last - 1)
        BY <1>1, <1>4, <1>6, <1>8
      <3>. QED
        BY <1>12, <2>1, <3>1
    <2>4. Len(bs) <= l + 1
      BY <1>1, <1>4, <1>6, <1>8, <2>1
    <2>5. ASSUME NEW j \in (l + 1)..Len(bs) PROVE bs[j].data = <<>>
      <3>1. j \in 2..Len(bs) /\ k + j \in (b.last + 1)..Len(b.blocks)
        <4>1. PICK i, m : Equal(i, b.last) /\ Equal(m, Len(b.blocks))
          BY DEF Equal
        <4>2. i \in Nat /\ m \in Nat /\ k \in 0..(i - 1) /\ Len(bs) = m - k /\ l = i - k
          BY <1>1, <1>4, <1>6, <1>8, <4>1 DEF Equal
        <4>3. j \in 2..Len(bs) /\ k + j \in (i + 1)..m
          BY <1>8, <4>2
        <4>. QED
          BY <4>1, <4>3 DEF Equal
      <3>. QED
        BY <1>12, <2>1, <3>1
    <2>6. 1 < l => bs[1].data # <<>>
      <3>1. 1 < l => k < b.last - 1 /\ 1 \in 1..(Len(b.blocks) - k)
        BY <1>1, <1>4, <1>8
      <3>. QED
        BY <1>4, <1>6, <3>1
    <2>. QED
      BY <1>9, <2>2, <2>3, <2>4, <2>5, <2>6 DEF DataInOrder
  <1>14. IF bs = <<>> THEN l = 1 ELSE l \in 1..Len(bs)
    <2>1. bs = <<>> <=> Len(bs) = 0
      BY <1>6, EmptySeq
    <2>. QED
      BY <1>1, <1>4, <1>6, <1>8, <2>1
  <1>15. WellFormed(c)
    BY <1>9, <1>11, <1>13, <1>14 DEF WellFormed, IteratorsInList
  <1>. QED
    BY <1>2, <1>9, <1>10, <1>15

\* discard takes n bytes off the front.
LEMMA DiscardFacts ==
  ASSUME NEW S, NEW b \in Values(S), WellFormed(b), NEW n \in Nat, n <= b.readable,
         NEW c, Equal(c, Discard(b, n))
  PROVE  /\ c \in Values(S) /\ WellFormed(c)
         /\ Contents(c) = SubSeq(Contents(b), n + 1, Len(Contents(b)))
  <1>1. PICK d : Equal(d, DropBytes(b, n))
    BY DEF Equal
  <1>2. d \in Values(S) /\ Shortened(b, n, d)
    BY <1>1, DropBytesFacts
  <1>3. Equal(c, EraseFront(d))
    BY <1>1 DEF Equal, Discard
  <1>. QED
    BY <1>2, <1>3, EraseFrontFacts

-----------------------------------------------------------------------------
(* retrieveCStyleString *)

\* One byte after the first k.
LEMMA DiscardTwice ==
  ASSUME NEW S, NEW t \in Seq(S), NEW k \in Nat, k < Len(t),
         NEW u, Equal(u, SubSeq(t, k + 1, Len(t)))
  PROVE  /\ u \in Seq(S) /\ Len(u) = Len(t) - k
         /\ SubSeq(u, 2, Len(u)) = SubSeq(t, (k + 1) + 1, Len(t))
  <1>1. Len(t) \in Nat /\ k \in 0..Len(t) /\ k + 1 \in 0..Len(t)
    BY LenProperties
  <1>2. /\ u \in Seq(S) /\ Len(u) = Len(t) - k
        /\ \A j \in 1..(Len(t) - k) : u[j] = t[k + j]
    BY <1>1, SplitAt DEF Equal
  <1>3. PICK v, w : Equal(v, SubSeq(u, 1 + 1, Len(u))) /\ Equal(w, SubSeq(t, (k + 1) + 1, Len(t)))
    BY DEF Equal
  <1>4. 1 \in 0..Len(u)
    BY <1>1, <1>2
  <1>5. /\ v \in Seq(S) /\ Len(v) = Len(u) - 1 /\ \A j \in 1..(Len(u) - 1) : v[j] = u[1 + j]
    BY <1>2, <1>3, <1>4, SplitAt DEF Equal
  <1>6. /\ w \in Seq(S) /\ Len(w) = Len(t) - (k + 1)
        /\ \A j \in 1..(Len(t) - (k + 1)) : w[j] = t[(k + 1) + j]
    BY <1>1, <1>3, SplitAt DEF Equal
  <1>7. Len(v) = Len(w)
    BY <1>1, <1>2, <1>5, <1>6
  <1>8. ASSUME NEW j \in 1..Len(v) PROVE v[j] = w[j]
    <2>1. j \in 1..(Len(u) - 1) /\ 1 + j \in 1..(Len(t) - k) /\ k + (1 + j) = (k + 1) + j
          /\ j \in 1..(Len(t) - (k + 1))
      BY <1>1, <1>2, <1>5
    <2>. QED
      BY <1>2, <1>5, <1>6, <2>1
  <1>9. v = w
    BY <1>5, <1>6, <1>7, <1>8, SeqEqual
  <1>10. 1 + 1 = 2
    OBVIOUS
  <1>. QED
    BY <1>2, <1>3, <1>9, <1>10 DEF Equal

\* What discarding a byte at a time leads to.
DiscardCalls(b, n) ==
    CHOOSE f : f = [k \in 0..n |-> IF k = 0 THEN b ELSE Discard(f[k - 1], 1)]

\* v is b without its first k bytes.
Behind(S, b, k, v) ==
    /\ v \in Values(S) /\ WellFormed(v)
    /\ Contents(v) = SubSeq(Contents(b), k + 1, Len(Contents(b)))

\* One byte more.
LEMMA BehindNext ==
  ASSUME NEW S, NEW b \in Values(S), WellFormed(b), NEW k \in Nat, k < Len(Contents(b)),
         NEW v, Behind(S, b, k, v), NEW w, Equal(w, Discard(v, 1))
  PROVE  v.readable >= 1 /\ Behind(S, b, k + 1, w)
  <1>1. PICK t, u : Equal(t, Contents(b)) /\ Equal(u, Contents(v))
    BY DEF Equal
  <1>2. t \in Seq(S) /\ k < Len(t) /\ Equal(u, SubSeq(t, k + 1, Len(t)))
    <2>1. Contents(b) \in Seq(S)
      BY ContentsFacts DEF WellFormed, IteratorsInList
    <2>. QED
      BY <1>1, <2>1 DEF Equal, Behind
  <1>3. /\ u \in Seq(S) /\ Len(u) = Len(t) - k
        /\ SubSeq(u, 2, Len(u)) = SubSeq(t, (k + 1) + 1, Len(t))
    BY <1>2, DiscardTwice
  <1>4. v \in Values(S) /\ WellFormed(v) /\ v.readable = Len(u)
    BY <1>1 DEF Behind, WellFormed, Equal
  <1>5. 1 <= v.readable
    <2>1. Len(t) \in Nat
      BY <1>2, LenProperties
    <2>. QED
      BY <1>2, <1>3, <1>4, <2>1
  <1>6. PICK n : Equal(n, 1)
    BY DEF Equal
  <1>7. n \in Nat /\ n <= v.readable /\ Equal(w, Discard(v, n)) /\ n + 1 = 2
    BY <1>5, <1>6 DEF Equal
  <1>8. /\ w \in Values(S) /\ WellFormed(w)
        /\ Contents(w) = SubSeq(Contents(v), n + 1, Len(Contents(v)))
    BY <1>4, <1>7, DiscardFacts
  <1>9. Contents(w) = SubSeq(t, (k + 1) + 1, Len(t))
    BY <1>1, <1>3, <1>7, <1>8 DEF Equal
  <1>. QED
    BY <1>1, <1>5, <1>8, <1>9 DEF Behind, Equal

\* n calls of discard take off n bytes.
LEMMA DiscardCallsFacts ==
  ASSUME NEW S, NEW b \in Values(S), WellFormed(b), NEW n \in Nat, n <= Len(Contents(b)),
         NEW f, Equal(f, DiscardCalls(b, n))
  PROVE  Behind(S, b, n, f[n])
  <1>. DEFINE D == {v \in Values(S) : WellFormed(v)}
              step(v) == IF v.readable >= 1 THEN Discard(v, 1) ELSE v
              F == [k \in Nat |-> [v \in D |-> step(v)]]
              G(h) == [k \in 0..n |-> IF k = 0 THEN b ELSE Discard(h[k - 1], 1)]
  <1>1. PICK g : Iterates(D, b, F, g)
    <2>1. b \in D
      OBVIOUS
    <2>2. ASSUME NEW v \in D PROVE step(v) \in D
      <3>1. CASE v.readable >= 1
        <4>1. PICK m, w : Equal(m, 1) /\ Equal(w, Discard(v, m))
          BY DEF Equal
        <4>2. v \in Values(S) /\ WellFormed(v) /\ m \in Nat /\ m <= v.readable
          BY <3>1, <4>1 DEF Equal
        <4>3. w \in Values(S) /\ WellFormed(w)
          BY <4>1, <4>2, DiscardFacts
        <4>. QED
          BY <3>1, <4>1, <4>3 DEF Equal
      <3>2. CASE ~(v.readable >= 1)
        BY <3>2
      <3>. QED
        BY <3>1, <3>2
    <2>. HIDE DEF D, step
    <2>3. F \in [Nat -> [D -> D]]
      BY <2>2
    <2>. HIDE DEF F
    <2>. QED
      BY <2>1, <2>3, Recursion
  <1>2. g \in [Nat -> D] /\ g[0] = b /\ \A k \in Nat : g[k + 1] = F[k][g[k]]
    BY <1>1 DEF Iterates
  <1>3. \A k \in Nat : g[k + 1] = step(g[k])
    <2>. HIDE DEF D, step
    <2>. QED
      BY <1>2
  <1>. HIDE DEF F
  <1>4. Len(Contents(b)) \in Nat /\ Contents(b) \in Seq(S)
    BY ContentsFacts DEF WellFormed, IteratorsInList
  <1>5. ASSUME NEW k \in Nat, k < n, Behind(S, b, k, g[k])
        PROVE  g[k + 1] = Discard(g[k], 1) /\ Behind(S, b, k + 1, g[k + 1])
    <2>1. k < Len(Contents(b))
      BY <1>4, <1>5
    <2>2. PICK v, w : Equal(v, g[k]) /\ Equal(w, Discard(v, 1))
      BY DEF Equal
    <2>3. Behind(S, b, k, v)
      BY <1>5, <2>2 DEF Equal
    <2>4. v.readable >= 1 /\ Behind(S, b, k + 1, w)
      BY <2>1, <2>2, <2>3, BehindNext
    <2>5. g[k + 1] = w
      BY <1>3, <2>2, <2>4 DEF Equal
    <2>. QED
      BY <2>2, <2>4, <2>5 DEF Equal
  <1>. HIDE DEF D, step
  <1>. DEFINE T == {k \in Nat : k <= n => Behind(S, b, k, g[k])}
  <1>6. \A k \in Nat : k \in T
    <2>1. 0 \in T
      <3>1. SubSeq(Contents(b), 1, Len(Contents(b))) = Contents(b) /\ 0 + 1 = 1
        BY <1>4, SubSeqFull
      <3>. QED
        BY <1>2, <3>1 DEF Behind
    <2>2. ASSUME NEW k \in Nat, k \in T PROVE k + 1 \in T
      <3>1. k + 1 <= n => k < n /\ k <= n
        OBVIOUS
      <3>. QED
        BY <1>5, <2>2, <3>1
    <2>. HIDE DEF T
    <2>. QED
      BY <2>1, <2>2, Induction
  <1>7. ASSUME NEW k \in 1..n PROVE g[k] = Discard(g[k - 1], 1)
    <2>1. k - 1 \in Nat /\ k - 1 < n /\ k - 1 <= n /\ (k - 1) + 1 = k
      OBVIOUS
    <2>2. Behind(S, b, k - 1, g[k - 1])
      BY <1>6, <2>1
    <2>. QED
      BY <1>5, <2>1, <2>2
  <1>. DEFINE h == [k \in 0..n |-> g[k]]
  <1>8. h = G(h)
    <2>1. ASSUME NEW k \in 0..n PROVE h[k] = IF k = 0 THEN b ELSE Discard(h[k - 1], 1)
      <3>1. CASE k = 0
        BY <1>2, <3>1
      <3>2. CASE k # 0
        <4>1. k - 1 \in 0..n /\ k \in 1..n
          BY <3>2
        <4>2. h[k] = g[k] /\ h[k - 1] = g[k - 1]
          BY <4>1
        <4>. QED
          BY <1>7, <3>2, <4>1, <4>2
      <3>. QED
        BY <3>1, <3>2
    <2>. HIDE DEF G
    <2>2. h = [k \in 0..n |-> IF k = 0 THEN b ELSE Discard(h[k - 1], 1)]
      <3>1. h = [k \in 0..n |-> h[k]]
        OBVIOUS
      <3>. HIDE DEF h
      <3>. QED
        BY <2>1, <3>1
    <2>. QED
      BY <2>2 DEF G
  <1>. HIDE DEF h
  <1>9. f = G(f)
    <2>1. f = CHOOSE y : y = G(y)
      BY DEF Equal, DiscardCalls
    <2>. HIDE DEF G
    <2>. QED
      BY <1>8, <2>1
  <1>10. \A k \in 0..n : f[k] = IF k = 0 THEN b ELSE Discard(f[k - 1], 1)
    BY <1>9
  <1>. HIDE DEF G, T
  <1>. DEFINE U == {k \in Nat : k <= n => f[k] = g[k]}
  <1>11. \A k \in Nat : k \in U
    <2>1. 0 \in U
      <3>1. 0 \in 0..n
        OBVIOUS
      <3>2. f[0] = b
        BY <1>10, <3>1
      <3>3. f[0] = g[0]
        BY <1>2, <3>2
      <3>. QED
        BY <3>3
    <2>2. ASSUME NEW k \in Nat, k \in U PROVE k + 1 \in U
      <3>1. k + 1 <= n => k + 1 \in 0..n /\ k + 1 \in 1..n /\ k <= n /\ (k + 1) - 1 = k /\ k + 1 # 0
        OBVIOUS
      <3>. QED
        BY <1>7, <1>10, <2>2, <3>1
    <2>. HIDE DEF U
    <2>. QED
      BY <2>1, <2>2, Induction
  <1>12. f[n] = g[n] /\ Behind(S, b, n, g[n])
    BY <1>6, <1>11 DEF T
  <1>. QED
    BY <1>12

\* It takes what comes before the first 0 and that.
LEMMA RetrieveCStyleStringFacts ==
  ASSUME NEW S, NEW b \in Values(S), WellFormed(b), NEW t, Equal(t, Contents(b)),
         \E i \in 1..Len(t) : t[i] = 0, NEW c, Equal(c, RetrieveCStyleString(b))
  PROVE  \E n \in 1..Len(t) :
            /\ t[n] = 0 /\ \A i \in 1..(n - 1) : t[i] # 0
            /\ c \in Values(S) /\ WellFormed(c) /\ Contents(c) = SubSeq(t, n + 1, Len(t))
  <1>. DEFINE Z == {i \in 1..Len(t) : t[i] = 0}
  <1>1. t \in Seq(S) /\ Len(t) \in Nat
    <2>1. Contents(b) \in Seq(S)
      BY ContentsFacts DEF WellFormed, IteratorsInList
    <2>. QED
      BY <2>1, LenProperties DEF Equal
  <1>2. PICK n : Equal(n, Min(Z))
    BY DEF Equal
  <1>3. n \in Z /\ \A i \in Z : n <= i
    <2>1. Z \in SUBSET Nat /\ Z # {}
      BY <1>1
    <2>. HIDE DEF Z
    <2>2. \E m \in Z : \A k \in Z : m <= k
      BY <2>1, LeastElement
    <2>. QED
      BY <1>2, <2>2 DEF Min, Equal
  <1>4. n \in 1..Len(t) /\ t[n] = 0 /\ n \in Nat /\ n <= Len(t)
    BY <1>1, <1>3
  <1>5. \A i \in 1..(n - 1) : t[i] # 0
    <2>. SUFFICES ASSUME NEW i \in 1..(n - 1), t[i] = 0 PROVE FALSE
      OBVIOUS
    <2>1. i \in Z /\ ~(n <= i)
      BY <1>1, <1>4
    <2>. QED
      BY <1>3, <2>1
  <1>6. PICK f : Equal(f, DiscardCalls(b, n))
    BY DEF Equal
  <1>7. c = f[n]
    BY <1>2, <1>6 DEF RetrieveCStyleString, DiscardCalls, Equal
  <1>8. Behind(S, b, n, f[n])
    <2>1. n \in Nat /\ n <= Len(Contents(b))
      BY <1>4 DEF Equal
    <2>. QED
      BY <1>6, <2>1, DiscardCallsFacts
  <1>9. c \in Values(S) /\ WellFormed(c) /\ Contents(c) = SubSeq(t, n + 1, Len(t))
    BY <1>7, <1>8 DEF Behind, Equal
  <1>. QED
    BY <1>4, <1>5, <1>9

-----------------------------------------------------------------------------
(* extend and unwrite *)

\* A value that has a block.
LEMMA WithBlocks ==
  ASSUME NEW S, NEW b \in Values(S), WellFormed(b), b.blocks # <<>>
  PROVE  /\ Len(b.blocks) \in Nat /\ b.readable \in Nat /\ b.readable = Len(Contents(b)) /\ b.own
         /\ b.first = 1 /\ b.last \in 1..Len(b.blocks) /\ b.last \in Nat /\ DataInOrder(b)
         /\ \A i \in 1..Len(b.blocks) : b.blocks[i] \in Blocks(S)
         /\ Contents(b) \in Seq(S) /\ Open(b)
  <1>1. /\ Len(b.blocks) \in Nat /\ b.readable \in Nat /\ b.last \in Nat
        /\ \A i \in 1..Len(b.blocks) : b.blocks[i] \in Blocks(S)
    BY ValueFacts
  <1>2. b.first = 1
    BY DEF WellFormed, IteratorsInList
  <1>3. Contents(b) \in Seq(S) /\ Open(b)
    BY <1>2, ContentsFacts, WellFormedIsOpen
  <1>. QED
    BY <1>1, <1>3 DEF WellFormed, IteratorsInList

\* extend moves lastWithData_ on to the offered block.
LEMMA ExtendFacts ==
  ASSUME NEW S, NEW b \in Values(S), WellFormed(b), HasOffer(b), NEW s \in Seq(S),
         Len(s) <= Writeable(b.blocks[Offered(b)]), NEW c, Equal(c, Extend(b, s))
  PROVE  /\ c \in Values(S) /\ WellFormed(c) /\ Contents(c) = Contents(b) \o s
         /\ c.blocks # <<>> /\ Len(s) <= Len(c.blocks[c.last].data)
  <1>1. /\ Len(b.blocks) \in Nat /\ b.last \in 1..Len(b.blocks) /\ b.last \in Nat
        /\ \A i \in 1..Len(b.blocks) : b.blocks[i] \in Blocks(S)
        /\ Open(b) /\ Len(s) \in Nat
    BY WithBlocks, LenProperties DEF HasOffer
  <1>2. PICK i : Equal(i, Offered(b))
    BY DEF Equal
  <1>3. i \in 1..Len(b.blocks) /\ i \in Nat
    BY <1>1, <1>2 DEF HasOffer, Equal
  <1>4. PICK blk : Equal(blk, b.blocks[i])
    BY DEF Equal
  <1>5. PICK new : Equal(new, Write(blk, s))
    BY DEF Equal
  <1>6. blk \in Blocks(S) /\ Len(s) <= Writeable(blk)
    BY <1>1, <1>2, <1>3, <1>4 DEF Equal
  <1>7. new \in Blocks(S) /\ new.data = blk.data \o s /\ (blk.read = 0 => new.read = 0)
    BY <1>5, <1>6, WriteFacts DEF Equal
  <1>8. i = b.last \/ (i = b.last + 1 /\ Writeable(b.blocks[b.last]) = 0)
    BY <1>2 DEF Offered, Equal
  <1>9. i = b.last \/ (i = b.last + 1 /\ HasBeenUsed(b.blocks[b.last]))
    <2>1. PICK p : Equal(p, b.blocks[b.last])
      BY DEF Equal
    <2>2. p \in Blocks(S)
      BY <1>1, <2>1 DEF Equal
    <2>3. Writeable(p) = 0 => HasBeenUsed(p)
      <3>1. /\ p.cap \in Nat \ {0} /\ p.read \in Nat /\ Len(p.data) \in Nat
            /\ Writeable(p) = p.cap - (p.read + Len(p.data))
        BY <2>2, BlockFacts
      <3>. SUFFICES ASSUME Writeable(p) = 0, p.data = <<>>, p.read = 0 PROVE FALSE
        BY DEF HasBeenUsed
      <3>2. Len(p.data) = 0
        BY EmptySeq
      <3>3. PICK n : Equal(n, Len(p.data))
        BY DEF Equal
      <3>4. n = 0 /\ p.cap - (p.read + n) = 0
        BY <3>1, <3>2, <3>3 DEF Equal
      <3>. QED
        BY <3>1, <3>4
    <2>. QED
      BY <1>8, <2>1, <2>3 DEF Equal
  <1>10. Extends(b, i, new, s, i)
    BY <1>4, <1>7, <1>9 DEF Extends, Equal
  <1>11. PICK g : Equal(g, Grown(b, i, new, i, s))
    BY DEF Equal
  <1>12. /\ g \in Values(S) /\ Open(g) /\ Len(g.blocks) = Len(b.blocks) /\ g.last = i
         /\ Contents(g) = Contents(b) \o s /\ g.blocks[i] = new
    <2>1. /\ g \in Values(S) /\ Open(g) /\ Len(g.blocks) = Len(b.blocks) /\ g.last = i
          /\ Contents(g) = Contents(b) \o s
      BY <1>1, <1>3, <1>7, <1>10, <1>11, WriteFrom
    <2>2. g.blocks[i] = new
      <3>1. b \in [blocks : Seq(Blocks(S)), first : Nat, last : Nat, readable : Nat, own : BOOLEAN]
        BY DEF Values
      <3>2. g.blocks = [b.blocks EXCEPT ![i] = new]
        BY <1>11, <3>1 DEF Equal, Grown, Updated
      <3>3. b.blocks \in Seq(Blocks(S))
        BY <3>1
      <3>. QED
        BY <1>3, <1>7, <3>2, <3>3, ExceptSeq
    <2>. QED
      BY <2>1, <2>2
  <1>13. c = g
    <2>1. b \in [blocks : Seq(Blocks(S)), first : Nat, last : Nat, readable : Nat, own : BOOLEAN]
      BY DEF Values
    <2>2. c = [b EXCEPT !.last = i, !.blocks[i] = Write(@, s), !.readable = @ + Len(s)]
      BY <1>2 DEF Equal, Extend
    <2>3. c = [b EXCEPT !.last = i, !.blocks[i] = new, !.readable = @ + Len(s)]
      BY <1>4, <1>5, <2>1, <2>2 DEF Equal
    <2>. QED
      BY <1>11, <2>1, <2>3 DEF Equal, Grown, Updated
  <1>14. g.blocks # <<>> /\ g.last <= Len(g.blocks)
    BY <1>1, <1>3, <1>12, EmptySeq
  <1>15. Len(s) <= Len(g.blocks[g.last].data)
    <2>1. blk.data \in Seq(S)
      BY <1>6, BlockFacts
    <2>2. Len(blk.data \o s) = Len(blk.data) + Len(s) /\ Len(blk.data) \in Nat
      BY <2>1, ConcatProperties, LenProperties
    <2>3. Len(new.data) = Len(blk.data) + Len(s)
      BY <1>7, <2>2
    <2>. QED
      BY <1>1, <1>12, <2>2, <2>3
  <1>16. WellFormed(g)
    BY <1>12, <1>14, WellFormedIsOpen
  <1>. QED
    BY <1>12, <1>13, <1>14, <1>15, <1>16

\* Some of the last block's bytes are taken back.
LEMMA ShortenedBlock ==
  ASSUME NEW S, NEW blk \in Blocks(S), NEW n \in Nat, n <= Len(blk.data),
         NEW new, Equal(new, TakeBack(blk, n))
  PROVE  /\ new \in Blocks(S) /\ new.data = SubSeq(blk.data, 1, Len(blk.data) - n)
         /\ blk.read = 0 => new.read = 0
  <1>1. /\ blk.cap \in Nat \ {0} /\ blk.read \in Nat /\ blk.data \in Seq(S) /\ Len(blk.data) \in Nat
        /\ blk \in [cap : Nat \ {0}, read : Nat, data : Seq(S)]
        /\ blk.read + Len(blk.data) <= blk.cap
    BY BlockFacts
  <1>2. PICK m : Equal(m, Len(blk.data) - n)
    BY DEF Equal
  <1>3. m \in 0..Len(blk.data)
    BY <1>1, <1>2 DEF Equal
  <1>4. PICK d : Equal(d, SubSeq(blk.data, 1, m))
    BY DEF Equal
  <1>5. d \in Seq(S) /\ Len(d) = m
    BY <1>1, <1>3, <1>4, SplitAt DEF Equal
  <1>6. PICK x : Equal(x, [blk EXCEPT !.data = d])
    BY DEF Equal
  <1>7. /\ x \in [cap : Nat \ {0}, read : Nat, data : Seq(S)]
        /\ x.cap = blk.cap /\ x.read = blk.read /\ x.data = d
    BY <1>1, <1>5, <1>6 DEF Equal
  <1>8. x.read + Len(x.data) <= x.cap
    BY <1>1, <1>3, <1>5, <1>7
  <1>9. Equal(new, Settle(x))
    BY <1>1, <1>2, <1>4, <1>6 DEF Equal, TakeBack
  <1>10. new \in Blocks(S) /\ new.data = d /\ (x.read = 0 => new.read = 0)
    BY <1>7, <1>8, <1>9, SettleFacts DEF Equal
  <1>. QED
    BY <1>2, <1>4, <1>7, <1>10 DEF Equal

\* unwrite takes off n bytes at the end.
LEMMA UnwriteFacts ==
  ASSUME NEW S, NEW b \in Values(S), WellFormed(b), b.blocks # <<>>, NEW n \in Nat,
         n <= Len(b.blocks[b.last].data), NEW c, Equal(c, Unwrite(b, n))
  PROVE  /\ c \in Values(S) /\ WellFormed(c)
         /\ Contents(c) = SubSeq(Contents(b), 1, Len(Contents(b)) - n)
  <1>1. /\ Len(b.blocks) \in Nat /\ b.readable \in Nat /\ b.readable = Len(Contents(b)) /\ b.own
        /\ b.first = 1 /\ b.last \in 1..Len(b.blocks) /\ b.last \in Nat /\ DataInOrder(b)
        /\ \A i \in 1..Len(b.blocks) : b.blocks[i] \in Blocks(S)
        /\ Contents(b) \in Seq(S)
    BY WithBlocks
  <1>2. PICK i : Equal(i, b.last)
    BY DEF Equal
  <1>3. i \in 1..Len(b.blocks) /\ i \in Nat
    BY <1>1, <1>2 DEF Equal
  <1>4. PICK blk : Equal(blk, b.blocks[i])
    BY DEF Equal
  <1>5. PICK new : Equal(new, TakeBack(blk, n))
    BY DEF Equal
  <1>6. blk \in Blocks(S) /\ n <= Len(blk.data)
    BY <1>1, <1>2, <1>3, <1>4 DEF Equal
  <1>7. /\ new \in Blocks(S) /\ new.data = SubSeq(blk.data, 1, Len(blk.data) - n)
        /\ blk.read = 0 => new.read = 0
    BY <1>5, <1>6, ShortenedBlock
  <1>8. blk.data \in Seq(S) /\ Len(blk.data) \in Nat
    BY <1>6, BlockFacts
  <1>9. EmptyFrom(b, i + 1)
    BY <1>1, <1>2 DEF EmptyFrom, DataInOrder, Equal
  <1>10. PICK r : Equal(r, b.readable - n)
    BY DEF Equal
  <1>11. r \in Nat /\ r = b.readable - n
    <2>1. PICK g : Equal(g, b) /\ g \in Values(S) /\ SameBut(b, g, i)
      BY <1>1 DEF Equal, SameBut
    <2>2. PICK pre \in Seq(S), post \in Seq(S) :
            /\ Contents(b) = pre \o (b.blocks[i].data \o post)
            /\ Contents(g) = pre \o (g.blocks[i].data \o post)
            /\ i = 1 => pre = <<>>
            /\ EmptyFrom(b, i + 1) => post = <<>>
      BY <1>3, <2>1, UpdateFacts
    <2>3. PICK d : Equal(d, blk.data)
      BY DEF Equal
    <2>4. d \in Seq(S) /\ n <= Len(d) /\ Contents(b) = pre \o (d \o post)
      BY <1>4, <1>6, <1>8, <2>2, <2>3 DEF Equal
    <2>5. Len(Contents(b)) = Len(pre) + (Len(d) + Len(post))
      <3>1. d \o post \in Seq(S) /\ Len(d \o post) = Len(d) + Len(post)
        BY <2>4, ConcatProperties
      <3>. QED
        BY <2>4, <3>1, ConcatProperties
    <2>6. Len(pre) \in Nat /\ Len(d) \in Nat /\ Len(post) \in Nat
      BY <2>4, LenProperties
    <2>. QED
      BY <1>1, <1>10, <2>4, <2>5, <2>6 DEF Equal
  <1>12. c = Updated(b, i, new, i, r)
    <2>1. b \in [blocks : Seq(Blocks(S)), first : Nat, last : Nat, readable : Nat, own : BOOLEAN]
      BY DEF Values
    <2>2. c = [b EXCEPT !.blocks[i] = TakeBack(@, n), !.readable = @ - n]
      BY <1>2 DEF Equal, Unwrite
    <2>3. c = [b EXCEPT !.blocks[i] = new, !.readable = @ - n]
      BY <1>4, <1>5, <2>1, <2>2 DEF Equal
    <2>. QED
      BY <1>2, <1>10, <2>1, <2>3 DEF Equal, Updated
  <1>13. /\ c \in Values(S) /\ Len(c.blocks) = Len(b.blocks)
         /\ c.first = b.first /\ c.own = b.own /\ c.last = i /\ c.readable = r
         /\ c.blocks[i] = new /\ \A j \in 1..Len(b.blocks) : j # i => c.blocks[j] = b.blocks[j]
    BY <1>3, <1>7, <1>11, <1>12, UpdatedFacts
  <1>14. Contents(c) = SubSeq(Contents(b), 1, Len(Contents(b)) - n)
    <2>1. SameBut(b, c, i)
      BY <1>1, <1>13 DEF SameBut
    <2>2. PICK pre \in Seq(S), post \in Seq(S) :
            /\ Contents(b) = pre \o (b.blocks[i].data \o post)
            /\ Contents(c) = pre \o (c.blocks[i].data \o post)
            /\ i = 1 => pre = <<>>
            /\ EmptyFrom(b, i + 1) => post = <<>>
      BY <1>3, <1>13, <2>1, UpdateFacts
    <2>3. PICK d, e : Equal(d, blk.data) /\ Equal(e, SubSeq(d, 1, Len(d) - n))
      BY DEF Equal
    <2>4. d \in Seq(S) /\ n <= Len(d)
      BY <1>6, <1>8, <2>3 DEF Equal
    <2>5. e \in Seq(S)
      <3>1. Len(d) \in Nat /\ Len(d) - n \in 0..Len(d)
        BY <2>4, LenProperties
      <3>. QED
        BY <2>3, <2>4, <3>1, SplitAt DEF Equal
    <2>6. d \o post = d /\ e \o post = e
      <3>1. post = <<>>
        BY <1>9, <2>2
      <3>2. d \o <<>> = d /\ e \o <<>> = e
        BY <2>4, <2>5, ConcatEmptySeq
      <3>. QED
        BY <3>1, <3>2
    <2>7. Contents(b) = pre \o d /\ Contents(c) = pre \o e
      <3>1. b.blocks[i].data = d /\ c.blocks[i].data = e
        BY <1>4, <1>7, <1>13, <2>3 DEF Equal
      <3>. QED
        BY <2>2, <2>6, <3>1
    <2>8. SubSeq(pre \o d, 1, Len(pre \o d) - n) = pre \o SubSeq(d, 1, Len(d) - n)
      BY <2>4, TakeBackOfConcat
    <2>. QED
      BY <2>3, <2>7, <2>8 DEF Equal
  <1>15. c.readable = Len(Contents(c))
    <2>1. PICK t : Equal(t, Contents(b))
      BY DEF Equal
    <2>2. t \in Seq(S) /\ Len(t) \in Nat /\ b.readable = Len(t)
      BY <1>1, <2>1, LenProperties DEF Equal
    <2>3. r \in 0..Len(t) /\ r = Len(t) - n
      BY <1>1, <1>11, <2>2
    <2>4. Len(SubSeq(t, 1, r)) = r
      BY <2>2, <2>3, SplitAt
    <2>. QED
      BY <1>13, <1>14, <2>1, <2>3, <2>4 DEF Equal
  <1>16. DataInOrder(c)
    <2>1. /\ \A j \in 2..Len(b.blocks) : b.blocks[j].read = 0
          /\ 1 < b.last => (b.blocks[1].data # <<>> \/ b.blocks[1].read # 0)
          /\ \A j \in 2..(b.last - 1) : b.blocks[j].data # <<>>
          /\ Len(b.blocks) <= b.last + 1
          /\ \A j \in (b.last + 1)..Len(b.blocks) : b.blocks[j].data = <<>>
      BY <1>1 DEF DataInOrder
    <2>2. c.last = b.last /\ i = b.last
      BY <1>2, <1>13 DEF Equal
    <2>3. \A j \in 2..Len(b.blocks) : c.blocks[j].read = 0
      <3>. TAKE j \in 2..Len(b.blocks)
      <3>1. j \in 1..Len(b.blocks)
        BY <1>1
      <3>2. CASE j = i
        <4>1. blk.read = 0
          BY <1>4, <2>1, <3>2 DEF Equal
        <4>. QED
          BY <1>7, <1>13, <3>2, <4>1
      <3>3. CASE j # i
        BY <1>13, <2>1, <3>1, <3>3
      <3>. QED
        BY <3>2, <3>3
    <2>4. 1 < b.last => (c.blocks[1].data # <<>> \/ c.blocks[1].read # 0)
      <3>1. 1 < b.last => c.blocks[1] = b.blocks[1]
        BY <1>1, <1>13, <2>2
      <3>. QED
        BY <2>1, <3>1
    <2>5. \A j \in 2..(b.last - 1) : c.blocks[j].data # <<>>
      <3>. TAKE j \in 2..(b.last - 1)
      <3>1. j \in 1..Len(b.blocks) /\ j # i
        BY <1>1, <2>2
      <3>. QED
        BY <1>13, <2>1, <3>1
    <2>6. \A j \in (b.last + 1)..Len(b.blocks) : c.blocks[j].data = <<>>
      <3>. TAKE j \in (b.last + 1)..Len(b.blocks)
      <3>1. j \in 1..Len(b.blocks) /\ j # i
        BY <1>1, <2>2
      <3>. QED
        BY <1>13, <2>1, <3>1
    <2>. QED
      BY <1>13, <2>1, <2>2, <2>3, <2>4, <2>5, <2>6 DEF DataInOrder
  <1>17. c.blocks # <<>>
    BY <1>1, <1>13, EmptySeq
  <1>18. WellFormed(c)
    BY <1>1, <1>3, <1>13, <1>15, <1>16, <1>17 DEF WellFormed, IteratorsInList
  <1>. QED
    BY <1>13, <1>14, <1>18

-----------------------------------------------------------------------------
(* next, streams, copies and swaps *)

\* The block behind the last one is another, or there is room in the last.
LEMMA OfferedIs ==
  ASSUME NEW b, NEW l, Equal(l, b.last), NEW blk, Equal(blk, b.blocks[l])
  PROVE  Offered(b) = IF Writeable(blk) = 0 THEN l + 1 ELSE l
  BY DEF Offered, Equal

\* next() makes room, and no byte comes or goes.
LEMMA NextSpaceFacts ==
  ASSUME NEW S, NEW b \in Values(S), WellFormed(b), NEW c, Equal(c, NextSpace(b))
  PROVE  c \in Values(S) /\ WellFormed(c) /\ Contents(c) = Contents(b) /\ HasOffer(c)
  <1>1. PICK m, l : Equal(m, Len(b.blocks)) /\ Equal(l, b.last)
    BY DEF Equal
  <1>2. /\ m \in Nat /\ l \in Nat /\ Open(b) /\ End(b) = m + 1
        /\ b.blocks = <<>> => m = 0 /\ l = 1
        /\ b.blocks # <<>> => m # 0 /\ l \in 1..m
    <2>1. Len(b.blocks) \in Nat /\ b.last \in Nat /\ (b.blocks = <<>> <=> Len(b.blocks) = 0)
      BY ValueFacts
    <2>. QED
      BY <1>1, <2>1, WellFormedIsOpen DEF Equal, WellFormed, IteratorsInList, End
  <1>3. PICK blk : Equal(blk, b.blocks[l])
    BY DEF Equal
  <1>4. Offered(b) = IF Writeable(blk) = 0 THEN l + 1 ELSE l
    BY <1>1, <1>3, OfferedIs
  <1>5. b.blocks # <<>> => blk \in Blocks(S)
    <2>. SUFFICES ASSUME b.blocks # <<>> PROVE blk \in Blocks(S)
      OBVIOUS
    <2>1. l \in 1..Len(b.blocks)
      BY <1>1, <1>2 DEF Equal
    <2>. QED
      BY <1>3, <2>1, ValueFacts DEF Equal
  <1>6. CASE l = End(b) \/ Offered(b) = End(b)
    <2>1. PICK n : Equal(n, 0)
      BY DEF Equal
    <2>2. n \in Nat /\ c = PushBack(b, n) /\ Len(b.blocks) <= b.last
      <3>1. c = PushBack(b, 0)
        BY <1>1, <1>6 DEF Equal, NextSpace
      <3>2. m <= l
        BY <1>2, <1>4, <1>6
      <3>. QED
        BY <1>1, <2>1, <3>1, <3>2 DEF Equal
    <2>3. /\ c \in Values(S) /\ Open(c) /\ Len(c.blocks) = Len(b.blocks) + 1 /\ c.last = b.last
          /\ Contents(c) = Contents(b)
          /\ Writeable(c.blocks[Len(b.blocks) + 1]) > 0
          /\ \A i \in 1..Len(b.blocks) : c.blocks[i] = b.blocks[i]
      BY <1>2, <2>2, PushBackFacts
    <2>4. Len(c.blocks) = m + 1 /\ c.last = l /\ Writeable(c.blocks[m + 1]) > 0
      BY <1>1, <2>3 DEF Equal
    <2>5. PICK p : Equal(p, c.blocks[l])
      BY DEF Equal
    <2>6. Offered(c) = IF Writeable(p) = 0 THEN l + 1 ELSE l
      <3>1. Equal(l, c.last)
        BY <2>4 DEF Equal
      <3>. QED
        BY <2>5, <3>1, OfferedIs
    <2>7. Offered(c) = m + 1
      <3>1. CASE l = m + 1
        <4>1. Writeable(p) > 0
          BY <2>4, <2>5, <3>1 DEF Equal
        <4>2. Writeable(p) # 0
          BY <4>1
        <4>. QED
          BY <2>6, <3>1, <4>2
      <3>2. CASE l # m + 1
        <4>1. l \in 1..m /\ Writeable(blk) = 0 /\ l = m
          BY <1>2, <1>4, <1>6, <3>2
        <4>2. p = blk
          BY <1>1, <1>3, <2>3, <2>5, <4>1 DEF Equal
        <4>. QED
          BY <2>6, <4>1, <4>2
      <3>. QED
        BY <3>1, <3>2
    <2>8. c.last <= Len(c.blocks) /\ c.blocks # <<>>
      <3>1. Len(c.blocks) # 0 /\ l <= m + 1
        BY <1>2, <2>4
      <3>. QED
        BY <2>4, <3>1, EmptySeq
    <2>9. WellFormed(c)
      BY <2>3, <2>8, WellFormedIsOpen
    <2>10. HasOffer(c)
      BY <1>2, <2>4, <2>7, <2>8 DEF HasOffer
    <2>. QED
      BY <2>3, <2>9, <2>10
  <1>7. CASE ~(l = End(b) \/ Offered(b) = End(b))
    <2>1. b.blocks # <<>> /\ m # 0 /\ l \in 1..m /\ blk \in Blocks(S)
      BY <1>2, <1>5, <1>7
    <2>2. CASE Offered(b) = l /\ blk.read >= blk.cap \div 2
      <3>1. PICK new, s : Equal(new, Realign(blk)) /\ Equal(s, <<>>)
        BY DEF Equal
      <3>2. /\ new \in Blocks(S) /\ new.data = blk.data /\ new.read = 0
            /\ Writeable(new) = TotalSpace(blk)
        BY <2>1, <3>1, RealignFacts DEF Equal
      <3>3. s \in Seq(S) /\ Len(s) = 0 /\ blk.data \in Seq(S) /\ blk.data \o s = blk.data
        <4>1. blk.data \in Seq(S)
          BY <2>1, BlockFacts
        <4>2. blk.data \o <<>> = blk.data
          BY <4>1, ConcatEmptySeq
        <4>. QED
          BY <3>1, <4>1, <4>2, EmptySeq DEF Equal
      <3>4. PICK g : Equal(g, Grown(b, l, new, l, s))
        BY DEF Equal
      <3>5. Extends(b, l, new, s, l)
        <4>1. new.data = b.blocks[l].data \o s
          BY <1>3, <3>2, <3>3 DEF Equal
        <4>2. l = b.last
          BY <1>1 DEF Equal
        <4>. QED
          BY <3>2, <4>1, <4>2 DEF Extends
      <3>6. /\ g \in Values(S) /\ Open(g) /\ Len(g.blocks) = Len(b.blocks) /\ g.last = l
            /\ Contents(g) = Contents(b) \o s
        <4>1. l \in 1..Len(b.blocks) /\ l \in Nat /\ Open(b) /\ new \in Blocks(S) /\ s \in Seq(S)
          BY <1>1, <1>2, <2>1, <3>2, <3>3 DEF Equal
        <4>. QED
          BY <3>4, <3>5, <4>1, WriteFrom
      <3>7. c = g /\ g.blocks[l] = new
        <4>1. b \in [blocks : Seq(Blocks(S)), first : Nat, last : Nat, readable : Nat, own : BOOLEAN]
          BY DEF Values
        <4>2. c = [b EXCEPT !.blocks[l] = Realign(@)]
          BY <1>1, <1>3, <1>7, <2>2 DEF Equal, NextSpace
        <4>3. c = [b EXCEPT !.blocks[l] = new]
          BY <1>3, <3>1, <4>1, <4>2 DEF Equal
        <4>4. g.blocks = [b.blocks EXCEPT ![l] = new] /\ g.readable = b.readable + Len(s)
          BY <3>4, <4>1 DEF Equal, Grown, Updated
        <4>5. g = [b EXCEPT !.blocks = [b.blocks EXCEPT ![l] = new], !.last = l, !.readable = b.readable + Len(s)]
          BY <3>4 DEF Equal, Grown, Updated
        <4>6. b.last = l /\ b.readable + Len(s) = b.readable
          BY <1>1, <3>3, <4>1 DEF Equal
        <4>7. c = g
          BY <4>1, <4>3, <4>5, <4>6
        <4>8. g.blocks[l] = new
          <5>1. l \in 1..Len(b.blocks) /\ b.blocks \in Seq(Blocks(S))
            BY <1>1, <2>1, <4>1 DEF Equal
          <5>. QED
            BY <3>2, <4>4, <5>1, ExceptSeq
        <4>. QED
          BY <4>7, <4>8
      <3>8. Contents(g) = Contents(b)
        <4>1. Contents(b) \in Seq(S)
          BY <1>2, ContentsFacts DEF Open
        <4>2. Contents(b) \o <<>> = Contents(b)
          BY <4>1, ConcatEmptySeq
        <4>. QED
          BY <3>1, <3>6, <4>2 DEF Equal
      <3>9. Writeable(new) # 0
        <4>1. Writeable(blk) # 0
          BY <1>2, <1>4, <2>2
        <4>2. /\ blk.cap \in Nat /\ blk.read \in Nat /\ Len(blk.data) \in Nat
              /\ Writeable(blk) \in Nat /\ Writeable(blk) = blk.cap - (blk.read + Len(blk.data))
              /\ TotalSpace(blk) = blk.cap - Len(blk.data)
          BY <2>1, BlockFacts
        <4>. QED
          BY <3>2, <4>1, <4>2
      <3>10. Offered(g) = l
        <4>1. Equal(l, g.last) /\ Equal(new, g.blocks[l])
          BY <3>6, <3>7 DEF Equal
        <4>. QED
          BY <3>9, <4>1, OfferedIs
      <3>11. g.last <= Len(g.blocks) /\ g.blocks # <<>> /\ l \in 1..Len(g.blocks)
        BY <1>1, <2>1, <3>6, EmptySeq DEF Equal
      <3>12. WellFormed(g)
        BY <3>6, <3>11, WellFormedIsOpen
      <3>. QED
        BY <3>6, <3>7, <3>8, <3>10, <3>11, <3>12 DEF HasOffer
    <2>3. CASE ~(Offered(b) = l /\ blk.read >= blk.cap \div 2)
      <3>1. c = b
        BY <1>1, <1>3, <1>7, <2>3 DEF Equal, NextSpace
      <3>2. Offered(b) \in 1..m
        BY <1>2, <1>4, <1>7, <2>1
      <3>3. HasOffer(b)
        BY <1>1, <2>1, <3>2 DEF HasOffer, Equal
      <3>. QED
        BY <3>1, <3>3
    <2>. QED
      BY <2>2, <2>3
  <1>. QED
    BY <1>6, <1>7

\* The stream's Next and BackUp: what it was not given is taken back.
Streamed(b, s) ==
    LET space == NextSpace(b)
        room == Writeable(space.blocks[Offered(space)])
    IN  Unwrite(Extend(space, s \o [i \in 1..(room - Len(s)) |-> 0]), room - Len(s))

\* What the stream was given is behind the data, and no more.
LEMMA StreamedFacts ==
  ASSUME NEW S, 0 \in S, NEW b \in Values(S), WellFormed(b), NEW s \in Seq(S),
         Len(s) <= Writeable(NextSpace(b).blocks[Offered(NextSpace(b))]),
         NEW c, Equal(c, Streamed(b, s))
  PROVE  c \in Values(S) /\ WellFormed(c) /\ Contents(c) = Contents(b) \o s
  <1>1. PICK d : Equal(d, NextSpace(b))
    BY DEF Equal
  <1>2. d \in Values(S) /\ WellFormed(d) /\ Contents(d) = Contents(b) /\ HasOffer(d)
    BY <1>1, NextSpaceFacts
  <1>3. PICK room, n : Equal(room, Writeable(d.blocks[Offered(d)])) /\ Equal(n, room - Len(s))
    BY DEF Equal
  <1>4. room \in Nat /\ n \in Nat /\ Len(s) \in Nat /\ Len(s) + n = room
    <2>1. Offered(d) \in 1..Len(d.blocks)
      BY <1>2 DEF HasOffer
    <2>2. d.blocks[Offered(d)] \in Blocks(S)
      BY <1>2, <2>1, ValueFacts
    <2>3. room \in Nat
      BY <1>3, <2>2, BlockFacts DEF Equal
    <2>4. Len(s) \in Nat /\ Len(s) <= room
      BY <1>1, <1>3, LenProperties DEF Equal
    <2>. QED
      BY <1>3, <2>3, <2>4 DEF Equal
  <1>5. PICK z, t : Equal(z, [i \in 1..n |-> 0]) /\ Equal(t, s \o z)
    BY DEF Equal
  <1>6. z \in Seq(S) /\ Len(z) = n
    BY <1>4, <1>5 DEF Equal
  <1>7. t \in Seq(S) /\ Len(t) = room
    BY <1>4, <1>5, <1>6, ConcatProperties DEF Equal
  <1>8. PICK e : Equal(e, Extend(d, t))
    BY DEF Equal
  <1>9. Len(t) <= Writeable(d.blocks[Offered(d)])
    BY <1>3, <1>4, <1>7 DEF Equal
  <1>10. /\ e \in Values(S) /\ WellFormed(e) /\ Contents(e) = Contents(d) \o t
         /\ e.blocks # <<>> /\ Len(t) <= Len(e.blocks[e.last].data)
    BY <1>2, <1>7, <1>8, <1>9, ExtendFacts
  <1>11. Equal(c, Unwrite(e, n))
    BY <1>1, <1>3, <1>5, <1>8 DEF Equal, Streamed
  <1>12. n <= Len(e.blocks[e.last].data)
    <2>1. e.blocks[e.last].data \in Seq(S)
      <3>1. e.last \in 1..Len(e.blocks)
        BY <1>10, WithBlocks
      <3>. QED
        BY <1>10, <3>1, ValueFacts
    <2>2. Len(e.blocks[e.last].data) \in Nat
      BY <2>1, LenProperties
    <2>. QED
      BY <1>4, <1>7, <1>10, <2>2
  <1>13. /\ c \in Values(S) /\ WellFormed(c)
         /\ Contents(c) = SubSeq(Contents(e), 1, Len(Contents(e)) - n)
    BY <1>4, <1>10, <1>11, <1>12, UnwriteFacts
  <1>14. SubSeq(Contents(e), 1, Len(Contents(e)) - n) = Contents(b) \o s
    <2>1. PICK x, y : Equal(x, Contents(b)) /\ Equal(y, x \o s)
      BY DEF Equal
    <2>2. x \in Seq(S)
      BY <2>1, ContentsFacts DEF Equal, WellFormed, IteratorsInList
    <2>3. y \in Seq(S) /\ Contents(e) = y \o z
      <3>1. y \in Seq(S)
        BY <2>1, <2>2, ConcatProperties DEF Equal
      <3>2. (x \o s) \o z = x \o (s \o z)
        BY <1>6, <2>2, ConcatThree
      <3>3. Contents(e) = x \o (s \o z)
        BY <1>2, <1>5, <1>10, <2>1 DEF Equal
      <3>4. Contents(e) = y \o z
        BY <2>1, <3>2, <3>3 DEF Equal
      <3>. QED
        BY <3>1, <3>4
    <2>4. SubSeq(y \o z, 1, Len(y \o z) - n) = y \o SubSeq(z, 1, Len(z) - n)
      <3>1. y \in Seq(S) /\ z \in Seq(S) /\ n \in Nat /\ n <= Len(z)
        BY <1>4, <1>6, <2>3
      <3>. QED
        BY <3>1, TakeBackOfConcat
    <2>5. SubSeq(z, 1, Len(z) - n) = <<>>
      <3>1. Len(z) - n = 0 /\ 0 \in 0..Len(z)
        BY <1>4, <1>6
      <3>2. SubSeq(z, 1, 0) \in Seq(S) /\ Len(SubSeq(z, 1, 0)) = 0
        BY <1>6, <3>1, SplitAt
      <3>. QED
        BY <3>1, <3>2, EmptySeq
    <2>6. y \o <<>> = y
      BY <2>3, ConcatEmptySeq
    <2>. QED
      BY <2>1, <2>3, <2>4, <2>5, <2>6 DEF Equal
  <1>. QED
    BY <1>13, <1>14

\* A copy has the blocks and the positions of what it is copied from.
LEMMA CopyFacts ==
  ASSUME NEW S, NEW b \in Values(S), WellFormed(b)
  PROVE  Copy(b) = b
  <1>1. b \in [blocks : Seq(Blocks(S)), first : Nat, last : Nat, readable : Nat, own : BOOLEAN]
    BY DEF Values
  <1>2. Len(b.blocks) \in Nat /\ (b.blocks = <<>> <=> Len(b.blocks) = 0)
    BY ValueFacts
  <1>3. /\ b.own = TRUE /\ b.first = 1
        /\ (IF b.last \in b.first..Len(b.blocks) THEN b.last - b.first + 1 ELSE End(b)) = b.last
    BY <1>1, <1>2 DEF WellFormed, IteratorsInList, End
  <1>4. [b EXCEPT !.first = 1, !.own = TRUE, !.last = b.last] = b
    BY <1>1, <1>3
  <1>. QED
    BY <1>3, <1>4 DEF Copy

\* What is swapped stays as it is, if it has a block; if not, its iterators are another list's.
LEMMA GivenFacts ==
  ASSUME NEW S, NEW b \in Values(S), WellFormed(b)
  PROVE  /\ Given(b) \in Values(S)
         /\ b.blocks # <<>> => Given(b) = b
         /\ b.blocks = <<>> => ~Given(b).own /\ Given(b).blocks = <<>>
  <1>1. b \in [blocks : Seq(Blocks(S)), first : Nat, last : Nat, readable : Nat, own : BOOLEAN]
    BY DEF Values
  <1>2. Len(b.blocks) \in Nat /\ (b.blocks = <<>> <=> Len(b.blocks) = 0)
    BY ValueFacts
  <1>3. CASE b.blocks # <<>>
    <2>1. (b.first # End(b) /\ b.last # End(b)) = TRUE /\ b.own = TRUE
      BY <1>1, <1>2, <1>3 DEF WellFormed, IteratorsInList, End
    <2>2. Given(b) = [b EXCEPT !.own = TRUE]
      BY <2>1 DEF Given
    <2>. QED
      BY <1>1, <1>3, <2>1, <2>2
  <1>4. CASE b.blocks = <<>>
    <2>1. (b.first # End(b) /\ b.last # End(b)) = FALSE
      BY <1>1, <1>2, <1>4 DEF WellFormed, IteratorsInList, End
    <2>2. Given(b) = [b EXCEPT !.own = FALSE]
      BY <2>1 DEF Given
    <2>. QED
      BY <1>1, <1>4, <2>2 DEF Values
  <1>. QED
    BY <1>3, <1>4

\* The value of a new buffer.
LEMMA EmptyIs ==
  ASSUME NEW S
  PROVE  Empty \in Values(S) /\ WellFormed(Empty) /\ Contents(Empty) = <<>>
  <1>1. Empty \in Values(S)
    BY EmptySeq DEF Empty, Values
  <1>2. Empty.first = 1 /\ Empty.last = 1 /\ Empty.own /\ Empty.blocks = <<>> /\ Empty.readable = 0
    BY DEF Empty
  <1>3. Contents(Empty) = <<>>
    <2>1. Contents(Empty) = FlattenSeq(Datas(Empty)) /\ Datas(Empty) \in Seq(Seq(S)) /\ Len(Datas(Empty)) = 0
      BY <1>1, <1>2, ContentsFacts, DatasFacts, EmptySeq
    <2>2. \A i \in 1..Len(Datas(Empty)) : Datas(Empty)[i] = <<>>
      BY <2>1
    <2>. QED
      BY <2>1, <2>2, FlattenOfEmpty
  <1>4. Len(<<>>) = 0
    BY EmptySeq
  <1>5. DataInOrder(Empty)
    BY <1>2, <1>4 DEF DataInOrder
  <1>. QED
    BY <1>1, <1>2, <1>3, <1>4, <1>5 DEF WellFormed, IteratorsInList

\* A set with one element more.
LEMMA OneMore ==
  ASSUME NEW T, IsFiniteSet(T), NEW x
  PROVE  /\ IsFiniteSet(T \cup {x}) /\ Cardinality(T \cup {x}) \in Nat
         /\ Cardinality(T \cup {x}) <= Cardinality(T) + 1
  <1>1. /\ IsFiniteSet(T \cup {x})
        /\ Cardinality(T \cup {x}) = IF x \in T THEN Cardinality(T) ELSE Cardinality(T) + 1
    BY FS_AddElement
  <1>2. Cardinality(T) \in Nat
    BY FS_CardinalityType
  <1>. QED
    BY <1>1, <1>2

\* At most three blocks are empty.
LEMMA FewEmpty ==
  ASSUME NEW S, NEW b \in Values(S), WellFormed(b) \/ b.blocks = <<>>
  PROVE  Cardinality({i \in 1..Len(b.blocks) : b.blocks[i].data = <<>>}) <= 3
  <1>. DEFINE E == {i \in 1..Len(b.blocks) : b.blocks[i].data = <<>>}
              F == {1, b.last, b.last + 1}
  <1>1. IsFiniteSet(F) /\ Cardinality(F) <= 3 /\ Cardinality(F) \in Nat
    <2>1. PICK T : Equal(T, {1}) /\ IsFiniteSet(T) /\ Cardinality(T) = 1
      BY FS_Singleton DEF Equal
    <2>2. PICK U : Equal(U, T \cup {b.last}) /\ IsFiniteSet(U) /\ Cardinality(U) \in Nat
                   /\ Cardinality(U) <= 2
      <3>1. PICK U : Equal(U, T \cup {b.last})
        BY DEF Equal
      <3>2. IsFiniteSet(U) /\ Cardinality(U) \in Nat /\ Cardinality(U) <= Cardinality(T) + 1
        BY <2>1, <3>1, OneMore DEF Equal
      <3>3. Cardinality(U) <= 2
        BY <2>1, <3>2
      <3>. QED
        BY <3>1, <3>2, <3>3
    <2>3. PICK V : Equal(V, U \cup {b.last + 1}) /\ IsFiniteSet(V) /\ Cardinality(V) \in Nat
                   /\ Cardinality(V) <= 3
      <3>1. PICK V : Equal(V, U \cup {b.last + 1})
        BY DEF Equal
      <3>2. IsFiniteSet(V) /\ Cardinality(V) \in Nat /\ Cardinality(V) <= Cardinality(U) + 1
        BY <2>2, <3>1, OneMore DEF Equal
      <3>3. Cardinality(V) <= 3
        BY <2>2, <3>2
      <3>. QED
        BY <3>1, <3>2, <3>3
    <2>4. F = V
      BY <2>1, <2>2, <2>3 DEF Equal
    <2>. HIDE DEF F
    <2>. QED
      BY <2>3, <2>4
  <1>2. E \subseteq F
    <2>1. Len(b.blocks) \in Nat /\ b.last \in Nat /\ (b.blocks = <<>> => Len(b.blocks) = 0)
      BY ValueFacts
    <2>2. CASE b.blocks = <<>>
      BY <2>1, <2>2
    <2>3. CASE b.blocks # <<>>
      <3>1. /\ \A i \in 2..(b.last - 1) : b.blocks[i].data # <<>>
            /\ Len(b.blocks) <= b.last + 1
        BY <2>3 DEF WellFormed, DataInOrder
      <3>. QED
        BY <2>1, <3>1
    <2>. QED
      BY <2>2, <2>3
  <1>. HIDE DEF E, F
  <1>3. IsFiniteSet(E) /\ Cardinality(E) <= Cardinality(F) /\ Cardinality(E) \in Nat
    BY <1>1, <1>2, FS_Subset, FS_CardinalityType
  <1>. QED
    BY <1>1, <1>3 DEF E

-----------------------------------------------------------------------------
(* The specification *)

\* What a buffer v is, with its string t, and o if next() has offered room.
Good(v, t, o) ==
    /\ v \in Values(Bytes) /\ t \in Seq(Bytes) /\ o \in BOOLEAN
    /\ IF v.own THEN WellFormed(v) /\ Contents(v) = t ELSE EmptySwaps /\ v.blocks = <<>>
    /\ o => HasOffer(v)

\* The blocks of such a buffer that are empty are few.
LEMMA FewInGood ==
  ASSUME NEW v, NEW t, NEW o, Good(v, t, o)
  PROVE  Cardinality({i \in 1..Len(v.blocks) : v.blocks[i].data = <<>>}) <= 3
  BY FewEmpty DEF Good

\* The invariant says no more than that every buffer is such a one.
LEMMA AllGood ==
  IInv <=> TypeOK /\ \A b \in Buffers : Good(buf[b], text[b], offered[b])
  <1>1. ASSUME TypeOK, NEW b \in Buffers
        PROVE  buf[b] \in Values(Bytes) /\ text[b] \in Seq(Bytes) /\ offered[b] \in BOOLEAN
    BY <1>1 DEF TypeOK
  <1>2. ASSUME TypeOK, Shape PROVE \A b \in Buffers : Good(buf[b], text[b], offered[b])
    BY <1>1, <1>2 DEF Shape, Good, Usable
  <1>3. ASSUME TypeOK, \A b \in Buffers : Good(buf[b], text[b], offered[b]) PROVE Shape
    BY <1>3 DEF Shape, Good, Usable
  <1>4. ASSUME TypeOK, \A b \in Buffers : Good(buf[b], text[b], offered[b]) PROVE FewEmptyBlocks
    BY <1>4, FewInGood DEF FewEmptyBlocks
  <1>. QED
    BY <1>2, <1>3, <1>4 DEF IInv

\* The same of the next state.
LEMMA AllGoodNext ==
  ASSUME TypeOK', \A b \in Buffers : Good(buf'[b], text'[b], offered'[b])
  PROVE  IInv'
  <1>1. Shape'
    BY DEF Shape, Good, Usable
  <1>2. FewEmptyBlocks'
    BY FewInGood DEF FewEmptyBlocks
  <1>. QED
    BY <1>1, <1>2 DEF IInv

\* An operation on one buffer.
LEMMA OneChanged ==
  ASSUME IInv, NEW b \in Buffers, NEW v, NEW t, NEW o, Good(v, t, o),
         buf' = [buf EXCEPT ![b] = v], text' = [text EXCEPT ![b] = t],
         offered' = [offered EXCEPT ![b] = o]
  PROVE  IInv'
  <1>1. v \in Values(Bytes) /\ t \in Seq(Bytes) /\ o \in BOOLEAN
    BY DEF Good
  <1>2. /\ buf \in [Buffers -> Values(Bytes)] /\ text \in [Buffers -> Seq(Bytes)]
        /\ offered \in [Buffers -> BOOLEAN]
        /\ \A c \in Buffers : Good(buf[c], text[c], offered[c])
    BY AllGood DEF TypeOK
  <1>3. TypeOK'
    BY <1>1, <1>2 DEF TypeOK
  <1>4. \A c \in Buffers : Good(buf'[c], text'[c], offered'[c])
    BY <1>2
  <1>. QED
    BY <1>3, <1>4, AllGoodNext

\* An operation on two.
LEMMA TwoChanged ==
  ASSUME IInv, NEW b \in Buffers, NEW c \in Buffers, b # c,
         NEW v, NEW t, Good(v, t, FALSE), NEW w, NEW u, Good(w, u, FALSE),
         buf' = [buf EXCEPT ![b] = v, ![c] = w], text' = [text EXCEPT ![b] = t, ![c] = u],
         offered' = [offered EXCEPT ![b] = FALSE, ![c] = FALSE]
  PROVE  IInv'
  <1>1. v \in Values(Bytes) /\ t \in Seq(Bytes) /\ w \in Values(Bytes) /\ u \in Seq(Bytes)
    BY DEF Good
  <1>2. /\ buf \in [Buffers -> Values(Bytes)] /\ text \in [Buffers -> Seq(Bytes)]
        /\ offered \in [Buffers -> BOOLEAN]
        /\ \A d \in Buffers : Good(buf[d], text[d], offered[d])
    BY AllGood DEF TypeOK
  <1>3. TypeOK'
    BY <1>1, <1>2 DEF TypeOK
  <1>4. \A d \in Buffers : Good(buf'[d], text'[d], offered'[d])
    BY <1>2
  <1>. QED
    BY <1>3, <1>4, AllGoodNext

\* A usable buffer.
LEMMA UsableIs ==
  ASSUME IInv, NEW b \in Buffers, Usable(b), NEW v, Equal(v, buf[b])
  PROVE  /\ v \in Values(Bytes) /\ WellFormed(v) /\ text[b] = Contents(v) /\ Contents(v) \in Seq(Bytes)
         /\ text \in [Buffers -> Seq(Bytes)] /\ buf \in [Buffers -> Values(Bytes)]
         /\ v.readable = Len(Contents(v)) /\ Len(Contents(v)) \in Nat
         /\ v.blocks = <<>> <=> v.last = End(v)
  <1>1. /\ text \in [Buffers -> Seq(Bytes)] /\ buf \in [Buffers -> Values(Bytes)]
        /\ WellFormed(buf[b]) /\ Contents(buf[b]) = text[b]
    BY DEF IInv, TypeOK, Shape
  <1>2. v \in Values(Bytes) /\ WellFormed(v) /\ text[b] = Contents(v)
    BY <1>1 DEF Equal
  <1>3. Len(v.blocks) \in Nat /\ (v.blocks = <<>> <=> Len(v.blocks) = 0)
    BY <1>2, ValueFacts
  <1>4. v.blocks = <<>> <=> v.last = End(v)
    BY <1>2, <1>3 DEF WellFormed, IteratorsInList, End
  <1>5. Contents(v) \in Seq(Bytes) /\ Len(Contents(v)) \in Nat
    BY <1>2, ContentsFacts DEF WellFormed, IteratorsInList
  <1>. QED
    BY <1>1, <1>2, <1>4, <1>5 DEF WellFormed

\* A well-formed value with its string.
LEMMA IsGood ==
  ASSUME NEW v \in Values(Bytes), WellFormed(v), NEW t, Contents(v) = t
  PROVE  Good(v, t, FALSE)
  BY ContentsFacts DEF Good, WellFormed, IteratorsInList

\* The strings written are finite sequences of bytes.
LEMMA StringsAre ==
  ASSUME NEW s \in Strings
  PROVE  s \in Seq(Bytes)
  <1>1. PICK m \in 0..MaxWrite : s \in [1..m -> Bytes]
    BY DEF Strings, BoundedSeq, SeqOf
  <1>2. m \in Nat
    BY <1>1, BuffersAssumption
  <1>. QED
    BY <1>1, <1>2

-----------------------------------------------------------------------------
(* The operations *)

\* append() on any buffer.
LEMMA AppendKeeps ==
  ASSUME IInv, NEW b \in Buffers, NEW s \in Seq(Bytes), DoAppend(b, s)
  PROVE  IInv'
  <1>1. PICK v, w : Equal(v, buf[b]) /\ Equal(w, BufAppend(v, s))
    BY DEF Equal
  <1>2. v \in Values(Bytes) /\ WellFormed(v) /\ text[b] = Contents(v)
    BY <1>1, UsableIs DEF DoAppend
  <1>3. w \in Values(Bytes) /\ WellFormed(w) /\ Contents(w) = Contents(v) \o s
    BY <1>1, <1>2, BufAppendFacts
  <1>4. PICK t : Equal(t, Contents(v) \o s)
    BY DEF Equal
  <1>5. Good(w, t, FALSE)
    BY <1>3, <1>4, IsGood DEF Equal
  <1>6. buf' = [buf EXCEPT ![b] = w] /\ offered' = [offered EXCEPT ![b] = FALSE]
    BY <1>1 DEF DoAppend, Become, Equal
  <1>7. text' = [text EXCEPT ![b] = t]
    <2>1. text' = [text EXCEPT ![b] = text[b] \o s]
      BY DEF DoAppend, Text!Write
    <2>2. text[b] \o s = t
      BY <1>2, <1>4 DEF Equal
    <2>. QED
      BY <2>1, <2>2
  <1>. QED
    BY <1>5, <1>6, <1>7, OneChanged

\* prepend() on any buffer.
LEMMA PrependKeeps ==
  ASSUME IInv, NEW b \in Buffers, NEW s \in Seq(Bytes), DoPrepend(b, s)
  PROVE  IInv'
  <1>1. PICK v, w : Equal(v, buf[b]) /\ Equal(w, Prepend(v, s))
    BY DEF Equal
  <1>2. v \in Values(Bytes) /\ WellFormed(v) /\ text[b] = Contents(v)
    BY <1>1, UsableIs DEF DoPrepend
  <1>3. w \in Values(Bytes) /\ WellFormed(w) /\ Contents(w) = s \o Contents(v)
    BY <1>1, <1>2, PrependFacts
  <1>4. PICK t : Equal(t, s \o Contents(v))
    BY DEF Equal
  <1>5. Good(w, t, FALSE)
    BY <1>3, <1>4, IsGood DEF Equal
  <1>6. buf' = [buf EXCEPT ![b] = w] /\ offered' = [offered EXCEPT ![b] = FALSE]
    BY <1>1 DEF DoPrepend, Become, Equal
  <1>7. text' = [text EXCEPT ![b] = t]
    <2>1. text' = [text EXCEPT ![b] = s \o text[b]]
      BY DEF DoPrepend, Text!WriteInFront
    <2>2. s \o text[b] = t
      BY <1>2, <1>4 DEF Equal
    <2>. QED
      BY <2>1, <2>2
  <1>. QED
    BY <1>5, <1>6, <1>7, OneChanged

\* retrieve() and discard() of a number of bytes.
LEMMA DiscardKeeps ==
  ASSUME IInv, NEW b \in Buffers, NEW n \in Nat, DoDiscard(b, n)
  PROVE  IInv'
  <1>1. PICK v, w : Equal(v, buf[b]) /\ Equal(w, Discard(v, n))
    BY DEF Equal
  <1>2. v \in Values(Bytes) /\ WellFormed(v) /\ text[b] = Contents(v) /\ n <= v.readable
    BY <1>1, UsableIs DEF DoDiscard, Equal
  <1>3. PICK t : Equal(t, SubSeq(Contents(v), n + 1, Len(Contents(v))))
    BY DEF Equal
  <1>4. Good(w, t, FALSE)
    <2>1. w \in Values(Bytes) /\ WellFormed(w) /\ Contents(w) = t
      BY <1>1, <1>2, <1>3, DiscardFacts DEF Equal
    <2>. QED
      BY <2>1, IsGood
  <1>5. buf' = [buf EXCEPT ![b] = w] /\ offered' = [offered EXCEPT ![b] = FALSE]
    BY <1>1 DEF DoDiscard, Become, Equal
  <1>6. text' = [text EXCEPT ![b] = t]
    <2>1. text' = [text EXCEPT ![b] = SubSeq(text[b], n + 1, Len(text[b]))]
      BY DEF DoDiscard, Text!Read
    <2>. QED
      BY <1>2, <1>3, <2>1 DEF Equal
  <1>. QED
    BY <1>4, <1>5, <1>6, OneChanged

\* The first 0 is the same in the buffer and in its string.
LEMMA FirstZero ==
  ASSUME NEW t, Len(t) \in Nat, NEW n \in 1..Len(t), NEW m \in 1..Len(t),
         t[n] = 0, \A i \in 1..(n - 1) : t[i] # 0, t[m] = 0, \A i \in 1..(m - 1) : t[i] # 0
  PROVE  n = m
  <1>1. n < m => n \in 1..(m - 1)
    OBVIOUS
  <1>2. m < n => m \in 1..(n - 1)
    OBVIOUS
  <1>3. ~(n < m) /\ ~(m < n)
    BY <1>1, <1>2
  <1>. QED
    BY <1>3

\* retrieveCStyleString(), up to the first zero byte.
LEMMA RetrieveCStyleStringKeeps ==
  ASSUME IInv, NEW b \in Buffers, DoRetrieveCStyleString(b)
  PROVE  IInv'
  <1>1. PICK v, w, t : Equal(v, buf[b]) /\ Equal(w, RetrieveCStyleString(v)) /\ Equal(t, Contents(v))
    BY DEF Equal
  <1>2. v \in Values(Bytes) /\ WellFormed(v) /\ text[b] = t /\ Len(t) \in Nat
    BY <1>1, UsableIs DEF DoRetrieveCStyleString, Equal
  <1>3. PICK n \in 1..Len(t) :
            /\ t[n] = 0 /\ \A i \in 1..(n - 1) : t[i] # 0
            /\ w \in Values(Bytes) /\ WellFormed(w) /\ Contents(w) = SubSeq(t, n + 1, Len(t))
    <2>1. \E i \in 1..Len(t) : t[i] = 0
      BY <1>1 DEF DoRetrieveCStyleString, Equal
    <2>2. v \in Values(Bytes) /\ WellFormed(v)
      BY <1>2
    <2>. QED
      BY <1>1, <2>1, <2>2, RetrieveCStyleStringFacts
  <1>4. PICK m \in 1..Len(t) :
            /\ t[m] = 0 /\ \A i \in 1..(m - 1) : t[i] # 0
            /\ text' = [text EXCEPT ![b] = SubSeq(t, m + 1, Len(t))]
    BY <1>2 DEF DoRetrieveCStyleString, Text!ReadCString, Text!Read
  <1>5. n = m
    BY <1>2, <1>3, <1>4, FirstZero
  <1>6. PICK u : Equal(u, SubSeq(t, n + 1, Len(t)))
    BY DEF Equal
  <1>7. Good(w, u, FALSE)
    BY <1>3, <1>6, IsGood DEF Equal
  <1>8. buf' = [buf EXCEPT ![b] = w] /\ offered' = [offered EXCEPT ![b] = FALSE]
    BY <1>1 DEF DoRetrieveCStyleString, Become, Equal
  <1>9. text' = [text EXCEPT ![b] = u]
    BY <1>4, <1>5, <1>6 DEF Equal
  <1>. QED
    BY <1>7, <1>8, <1>9, OneChanged

\* clear() and retrieveAllAsString().
LEMMA DiscardAllKeeps ==
  ASSUME IInv, NEW b \in Buffers, DiscardAll(b)
  PROVE  IInv'
  <1>1. PICK w, t : Equal(w, Empty) /\ Equal(t, <<>>)
    BY DEF Equal
  <1>2. Good(w, t, FALSE)
    BY <1>1, EmptyIs, IsGood DEF Equal
  <1>3. /\ buf' = [buf EXCEPT ![b] = w] /\ offered' = [offered EXCEPT ![b] = FALSE]
        /\ text' = [text EXCEPT ![b] = t]
    BY <1>1 DEF DiscardAll, Become, Text!Clear, Equal
  <1>. QED
    BY <1>2, <1>3, OneChanged

\* BufferStream::Next().
LEMMA NextKeeps ==
  ASSUME IInv, NEW b \in Buffers, DoNext(b)
  PROVE  IInv'
  <1>1. PICK v, w, t : Equal(v, buf[b]) /\ Equal(w, NextSpace(v)) /\ Equal(t, Contents(v))
    BY DEF Equal
  <1>2. v \in Values(Bytes) /\ WellFormed(v) /\ text[b] = t /\ text \in [Buffers -> Seq(Bytes)]
    BY <1>1, UsableIs DEF DoNext, Equal
  <1>3. w \in Values(Bytes) /\ WellFormed(w) /\ Contents(w) = t /\ HasOffer(w)
    BY <1>1, <1>2, NextSpaceFacts DEF Equal
  <1>4. Good(w, t, TRUE)
    BY <1>3, IsGood DEF Good
  <1>5. buf' = [buf EXCEPT ![b] = w] /\ offered' = [offered EXCEPT ![b] = TRUE]
    BY <1>1 DEF DoNext, Equal
  <1>6. text' = [text EXCEPT ![b] = t]
    BY <1>2 DEF DoNext
  <1>. QED
    BY <1>4, <1>5, <1>6, OneChanged

\* extend().
LEMMA ExtendKeeps ==
  ASSUME IInv, NEW b \in Buffers, NEW s \in Seq(Bytes), DoExtend(b, s)
  PROVE  IInv'
  <1>1. PICK v, w : Equal(v, buf[b]) /\ Equal(w, Extend(v, s))
    BY DEF Equal
  <1>2. Usable(b) /\ HasOffer(v) /\ Len(s) <= Writeable(v.blocks[Offered(v)])
    BY <1>1 DEF DoExtend, IInv, Shape, HasOffer, Equal
  <1>3. v \in Values(Bytes) /\ WellFormed(v) /\ text[b] = Contents(v)
    BY <1>1, <1>2, UsableIs
  <1>4. w \in Values(Bytes) /\ WellFormed(w) /\ Contents(w) = Contents(v) \o s
    BY <1>1, <1>2, <1>3, ExtendFacts
  <1>5. PICK t : Equal(t, Contents(v) \o s)
    BY DEF Equal
  <1>6. Good(w, t, FALSE)
    BY <1>4, <1>5, IsGood DEF Equal
  <1>7. buf' = [buf EXCEPT ![b] = w] /\ offered' = [offered EXCEPT ![b] = FALSE]
    BY <1>1 DEF DoExtend, Become, Equal
  <1>8. text' = [text EXCEPT ![b] = t]
    <2>1. text' = [text EXCEPT ![b] = text[b] \o s]
      BY DEF DoExtend, Text!Write
    <2>2. text[b] \o s = t
      BY <1>3, <1>5 DEF Equal
    <2>. QED
      BY <2>1, <2>2
  <1>. QED
    BY <1>6, <1>7, <1>8, OneChanged

\* unwrite().
LEMMA UnwriteKeeps ==
  ASSUME IInv, NEW b \in Buffers, NEW n \in Nat, DoUnwrite(b, n)
  PROVE  IInv'
  <1>1. PICK v, w : Equal(v, buf[b]) /\ Equal(w, Unwrite(v, n))
    BY DEF Equal
  <1>2. /\ v \in Values(Bytes) /\ WellFormed(v) /\ text[b] = Contents(v) /\ v.blocks # <<>>
        /\ n <= Len(v.blocks[v.last].data)
    BY <1>1, UsableIs DEF DoUnwrite, Equal
  <1>3. PICK t : Equal(t, SubSeq(Contents(v), 1, Len(Contents(v)) - n))
    BY DEF Equal
  <1>4. Good(w, t, FALSE)
    <2>1. w \in Values(Bytes) /\ WellFormed(w) /\ Contents(w) = t
      BY <1>1, <1>2, <1>3, UnwriteFacts DEF Equal
    <2>. QED
      BY <2>1, IsGood
  <1>5. buf' = [buf EXCEPT ![b] = w] /\ offered' = [offered EXCEPT ![b] = FALSE]
    BY <1>1 DEF DoUnwrite, Become, Equal
  <1>6. text' = [text EXCEPT ![b] = t]
    <2>1. text' = [text EXCEPT ![b] = SubSeq(text[b], 1, Len(text[b]) - n)]
      BY DEF DoUnwrite, Text!TakeBack
    <2>. QED
      BY <1>2, <1>3, <2>1 DEF Equal
  <1>. QED
    BY <1>4, <1>5, <1>6, OneChanged

\* The bytes written into what was offered.
LEMMA StreamWriteKeeps ==
  ASSUME IInv, NEW b \in Buffers, NEW s \in Seq(Bytes), StreamWrite(b, s)
  PROVE  IInv'
  <1>1. PICK v, w : Equal(v, buf[b]) /\ Equal(w, Streamed(v, s))
    BY DEF Equal
  <1>2. Usable(b) /\ Len(s) <= Writeable(NextSpace(v).blocks[Offered(NextSpace(v))])
    BY <1>1 DEF StreamWrite, Equal
  <1>3. v \in Values(Bytes) /\ WellFormed(v) /\ text[b] = Contents(v)
    BY <1>1, <1>2, UsableIs
  <1>4. w \in Values(Bytes) /\ WellFormed(w) /\ Contents(w) = Contents(v) \o s
    <2>1. 0 \in Bytes
      BY BuffersAssumption
    <2>. QED
      BY <1>1, <1>2, <1>3, <2>1, StreamedFacts
  <1>5. PICK t : Equal(t, Contents(v) \o s)
    BY DEF Equal
  <1>6. Good(w, t, FALSE)
    BY <1>4, <1>5, IsGood DEF Equal
  <1>7. buf' = [buf EXCEPT ![b] = w] /\ offered' = [offered EXCEPT ![b] = FALSE]
    BY <1>1 DEF StreamWrite, Streamed, Become, Equal
  <1>8. text' = [text EXCEPT ![b] = t]
    <2>1. text' = [text EXCEPT ![b] = text[b] \o s]
      BY DEF StreamWrite, Text!Write
    <2>2. text[b] \o s = t
      BY <1>3, <1>5 DEF Equal
    <2>. QED
      BY <2>1, <2>2
  <1>. QED
    BY <1>6, <1>7, <1>8, OneChanged

-----------------------------------------------------------------------------
(* The operations on two buffers *)

\* What swap gives away is as good as before, or has no block and is unusable.
LEMMA TakenIsGood ==
  ASSUME IInv, NEW c \in Buffers, Taken(c), NEW w, Equal(w, Given(buf[c]))
  PROVE  Good(w, text[c], FALSE)
  <1>1. PICK v : Equal(v, buf[c])
    BY DEF Equal
  <1>2. /\ v \in Values(Bytes) /\ WellFormed(v) /\ text[c] = Contents(v) /\ Contents(v) \in Seq(Bytes)
        /\ EmptySwaps \/ v.blocks # <<>>
    BY <1>1, UsableIs DEF Taken, Equal
  <1>3. /\ w \in Values(Bytes)
        /\ v.blocks # <<>> => w = v
        /\ v.blocks = <<>> => ~w.own /\ w.blocks = <<>>
    BY <1>1, <1>2, GivenFacts DEF Equal
  <1>4. CASE v.blocks # <<>>
    <2>1. w = v /\ v \in Values(Bytes) /\ WellFormed(v) /\ Contents(v) = text[c]
      BY <1>2, <1>3, <1>4
    <2>. QED
      BY <2>1, IsGood
  <1>5. CASE v.blocks = <<>>
    <2>1. w \in Values(Bytes) /\ ~w.own /\ w.blocks = <<>> /\ EmptySwaps /\ text[c] \in Seq(Bytes)
      BY <1>2, <1>3, <1>5
    <2>. QED
      BY <2>1 DEF Good
  <1>. QED
    BY <1>4, <1>5

\* swap() of two buffers.
LEMMA SwapKeeps ==
  ASSUME IInv, NEW b \in Buffers, NEW c \in Buffers, Swap(b, c)
  PROVE  IInv'
  <1>1. PICK v, w, t, u : /\ Equal(v, Given(buf[c])) /\ Equal(w, Given(buf[b]))
                          /\ Equal(t, text[c]) /\ Equal(u, text[b])
    BY DEF Equal
  <1>2. Good(v, t, FALSE) /\ Good(w, u, FALSE)
    <2>1. Taken(b) /\ Taken(c)
      BY DEF Swap
    <2>2. Good(v, text[c], FALSE) /\ Good(w, text[b], FALSE)
      BY <1>1, <2>1, TakenIsGood
    <2>. QED
      BY <1>1, <2>2 DEF Equal
  <1>3. /\ b # c
        /\ buf' = [buf EXCEPT ![b] = v, ![c] = w] /\ text' = [text EXCEPT ![b] = t, ![c] = u]
        /\ offered' = [offered EXCEPT ![b] = FALSE, ![c] = FALSE]
    BY <1>1 DEF Swap, Text!Exchange, Equal
  <1>. QED
    BY <1>2, <1>3, TwoChanged

\* The copy constructor.
LEMMA CopyConstructKeeps ==
  ASSUME IInv, NEW b \in Buffers, NEW c \in Buffers, CopyConstruct(b, c)
  PROVE  IInv'
  <1>1. PICK v, t : Equal(v, buf[c]) /\ Equal(t, text[c])
    BY DEF Equal
  <1>2. v \in Values(Bytes) /\ WellFormed(v) /\ Contents(v) = t
    BY <1>1, UsableIs DEF CopyConstruct, Equal
  <1>3. Copy(v) = v
    BY <1>2, CopyFacts
  <1>4. Good(v, t, FALSE)
    BY <1>2, IsGood
  <1>5. /\ buf' = [buf EXCEPT ![b] = v] /\ offered' = [offered EXCEPT ![b] = FALSE]
        /\ text' = [text EXCEPT ![b] = t]
    <2>1. Copy(buf[c]) = v
      BY <1>1, <1>3 DEF Equal
    <2>. QED
      BY <1>1, <2>1 DEF CopyConstruct, Become, Text!Assign, Equal
  <1>. QED
    BY <1>4, <1>5, OneChanged

\* The copy and the move assignment.
LEMMA AssignFromKeeps ==
  ASSUME IInv, NEW b \in Buffers, NEW c \in Buffers, AssignFrom(b, c)
  PROVE  IInv'
  <1>1. PICK v, w, t : Equal(v, buf[c]) /\ Equal(w, Given(buf[c])) /\ Equal(t, text[c])
    BY DEF Equal
  <1>2. v \in Values(Bytes) /\ WellFormed(v)
    BY <1>1, UsableIs DEF AssignFrom, Taken
  <1>3. Copy(v) = v
    BY <1>2, CopyFacts
  <1>4. Good(w, t, FALSE)
    <2>1. Good(w, text[c], FALSE)
      BY <1>1, TakenIsGood DEF AssignFrom
    <2>. QED
      BY <1>1, <2>1 DEF Equal
  <1>5. /\ buf' = [buf EXCEPT ![b] = w] /\ offered' = [offered EXCEPT ![b] = FALSE]
        /\ text' = [text EXCEPT ![b] = t]
    <2>1. Given(Copy(buf[c])) = w
      BY <1>1, <1>3 DEF Equal
    <2>. QED
      BY <1>1, <2>1 DEF AssignFrom, Become, Text!Assign, Equal
  <1>. QED
    BY <1>4, <1>5, OneChanged

\* The move constructor.
LEMMA MoveConstructKeeps ==
  ASSUME IInv, NEW b \in Buffers, NEW c \in Buffers, MoveConstruct(b, c)
  PROVE  IInv'
  <1>1. PICK v, w, t, u : /\ Equal(v, Given(buf[c])) /\ Equal(w, Empty)
                          /\ Equal(t, text[c]) /\ Equal(u, <<>>)
    BY DEF Equal
  <1>2. Good(v, t, FALSE)
    <2>1. Good(v, text[c], FALSE)
      BY <1>1, TakenIsGood DEF MoveConstruct
    <2>. QED
      BY <1>1, <2>1 DEF Equal
  <1>3. Good(w, u, FALSE)
    BY <1>1, EmptyIs, IsGood DEF Equal
  <1>4. /\ b # c
        /\ buf' = [buf EXCEPT ![b] = v, ![c] = w] /\ text' = [text EXCEPT ![b] = t, ![c] = u]
        /\ offered' = [offered EXCEPT ![b] = FALSE, ![c] = FALSE]
    BY <1>1 DEF MoveConstruct, Text!MoveFrom, Equal
  <1>. QED
    BY <1>2, <1>3, <1>4, TwoChanged

\* New buffers are empty.
LEMMA InitIsGood ==
  Init => IInv
  <1>. SUFFICES ASSUME Init PROVE IInv
    OBVIOUS
  <1>1. PICK v, t : Equal(v, Empty) /\ Equal(t, <<>>)
    BY DEF Equal
  <1>2. Good(v, t, FALSE)
    BY <1>1, EmptyIs, IsGood DEF Equal
  <1>3. v \in Values(Bytes) /\ t \in Seq(Bytes)
    BY <1>2 DEF Good
  <1>4. /\ buf = [b \in Buffers |-> v] /\ text = [b \in Buffers |-> t]
        /\ offered = [b \in Buffers |-> FALSE]
    BY <1>1 DEF Init, Text!Init, Equal
  <1>5. TypeOK
    BY <1>3, <1>4 DEF TypeOK
  <1>6. \A b \in Buffers : Good(buf[b], text[b], offered[b])
    BY <1>2, <1>4
  <1>. QED
    BY <1>5, <1>6, AllGood

\* Every operation keeps the invariant.
LEMMA StepKeeps ==
  IInv /\ [Next]_vars => IInv'
  <1>. SUFFICES ASSUME IInv, [Next]_vars PROVE IInv'
    OBVIOUS
  <1>1. CASE UNCHANGED vars
    <2>1. TypeOK' /\ \A b \in Buffers : Good(buf'[b], text'[b], offered'[b])
      BY <1>1, AllGood DEF vars, TypeOK
    <2>. QED
      BY <2>1, AllGoodNext
  <1>2. ASSUME NEW b \in Buffers, OfOne(b) PROVE IInv'
    <2>1. \A s \in Strings : s \in Seq(Bytes)
      BY StringsAre
    <2>2. \A n \in 0..MaxBytes : n \in Nat
      BY BuffersAssumption
    <2>3. ASSUME NEW s \in Strings, DoAppend(b, s) \/ DoPrepend(b, s) \/ DoExtend(b, s) \/ StreamWrite(b, s)
          PROVE  IInv'
      <3>1. s \in Seq(Bytes)
        BY <2>1
      <3>. QED
        BY <2>3, <3>1, AppendKeeps, PrependKeeps, ExtendKeeps, StreamWriteKeeps
    <2>4. ASSUME NEW n \in 0..MaxBytes, DoDiscard(b, n) \/ DoUnwrite(b, n) PROVE IInv'
      <3>1. n \in Nat
        BY <2>2
      <3>. QED
        BY <2>4, <3>1, DiscardKeeps, UnwriteKeeps
    <2>. QED
      BY <1>2, <2>3, <2>4, RetrieveCStyleStringKeeps, DiscardAllKeeps, NextKeeps DEF OfOne
  <1>3. ASSUME NEW b \in Buffers, NEW c \in Buffers, OfTwo(b, c) PROVE IInv'
    BY <1>3, SwapKeeps, CopyConstructKeeps, AssignFromKeeps, MoveConstructKeeps DEF OfTwo
  <1>. QED
    BY <1>1, <1>2, <1>3 DEF Next

\* The invariant of buffers holds whatever operations are called: positions lie within blocks and
\* iterators within lists, and few blocks are empty (Buffer.cpp).
THEOREM BufferInvariantHolds == Spec => []IInv
  BY InitIsGood, StepKeeps, PTL DEF Spec

\* Every buffer holds the string its operations make, for blocks of any size and strings of any
\* length, and is unusable at most after a swap with a buffer that has no block (Buffer.cpp).
THEOREM BufferIsAString == Spec => []SameAsString
  <1>1. IInv => SameAsString
    <2>. SUFFICES ASSUME IInv, NEW b \in Buffers
                  PROVE  /\ EmptySwaps \/ Usable(b)
                         /\ Usable(b) => /\ Contents(buf[b]) = text[b] /\ All(buf[b]) = text[b]
                                         /\ buf[b].readable = Len(text[b])
      BY DEF SameAsString
    <2>1. CASE Usable(b)
      <3>1. PICK v : Equal(v, buf[b])
        BY DEF Equal
      <3>2. /\ v \in Values(Bytes) /\ WellFormed(v) /\ text[b] = Contents(v)
            /\ v.readable = Len(Contents(v))
        BY <2>1, <3>1, UsableIs
      <3>3. All(v) = Contents(v)
        BY <3>2, AllIsContents
      <3>. QED
        BY <2>1, <3>1, <3>2, <3>3 DEF Equal
    <2>2. CASE ~Usable(b)
      BY <2>2 DEF IInv, Shape
    <2>. QED
      BY <2>1, <2>2
  <1>. QED
    BY <1>1, BufferInvariantHolds, PTL

-----------------------------------------------------------------------------
(* Integers *)

\* How many values k bytes have, step by step.
LEMMA Powers ==
  \A k \in Nat : Power[k] \in Nat /\ Power[k] = IF k = 0 THEN 1 ELSE 256 * Power[k - 1]
  <1>. DEFINE F == [n \in Nat |-> [a \in Nat |-> 256 * a]]
              G(f) == [k \in Nat |-> IF k = 0 THEN 1 ELSE 256 * f[k - 1]]
              power == CHOOSE f : f = G(f)
  <1>1. Power = power
    BY DEF Power
  <1>2. PICK g : Iterates(Nat, 1, F, g)
    <2>1. F \in [Nat -> [Nat -> Nat]]
      OBVIOUS
    <2>. HIDE DEF F
    <2>. QED
      BY <2>1, Recursion
  <1>3. g \in [Nat -> Nat] /\ g = G(g)
    <2>1. g \in [Nat -> Nat] /\ g[0] = 1 /\ \A n \in Nat : g[n + 1] = F[n][g[n]]
      BY <1>2 DEF Iterates
    <2>2. ASSUME NEW k \in Nat, k # 0 PROVE g[k] = 256 * g[k - 1]
      <3>1. k - 1 \in Nat /\ (k - 1) + 1 = k
        BY <2>2
      <3>2. g[k] = F[k - 1][g[k - 1]] /\ g[k - 1] \in Nat
        BY <2>1, <3>1
      <3>. QED
        BY <3>1, <3>2
    <2>. HIDE DEF F
    <2>3. \A k \in Nat : g[k] = IF k = 0 THEN 1 ELSE 256 * g[k - 1]
      BY <2>1, <2>2
    <2>. QED
      BY <2>1, <2>3
  <1>. HIDE DEF power
  <1>4. power = G(power)
    BY <1>3 DEF power
  <1>5. \A k \in Nat : power[k] = IF k = 0 THEN 1 ELSE 256 * power[k - 1]
    BY <1>4
  <1>. HIDE DEF G
  <1>. DEFINE T == {k \in Nat : power[k] \in Nat}
  <1>6. 0 \in T
    BY <1>5
  <1>7. ASSUME NEW k \in Nat, k \in T PROVE k + 1 \in T
    <2>1. k + 1 \in Nat /\ k + 1 # 0 /\ (k + 1) - 1 = k
      OBVIOUS
    <2>2. power[k + 1] = 256 * power[k]
      BY <1>5, <2>1
    <2>. QED
      BY <1>7, <2>1, <2>2
  <1>. HIDE DEF T
  <1>8. \A k \in Nat : k \in T
    BY <1>6, <1>7, Induction
  <1>. QED
    BY <1>1, <1>5, <1>8 DEF T

\* What is left of v when k bytes are taken from its end.
Highs(v, high) ==
    /\ high \in [0..IntSize -> Nat] /\ high[0] = v
    /\ \A k \in 1..IntSize : high[k - 1] \in Nat /\ high[k] = high[k - 1] \div 256

\* The bytes of an integer, by that.
LEMMA IntBytesAre ==
  ASSUME NEW v \in Nat
  PROVE  \E high : Highs(v, high) /\ IntBytes(v) = [i \in 1..IntSize |-> high[IntSize - i] % 256]
  <1>. DEFINE F == [a \in Nat |-> a \div 256]
              G(h) == [k \in 0..IntSize |-> IF k = 0 THEN v ELSE h[k - 1] \div 256]
              high == CHOOSE h : h = G(h)
  <1>1. IntBytes(v) = [i \in 1..IntSize |-> high[IntSize - i] % 256]
    BY DEF IntBytes
  <1>2. PICK g : Steps(Nat, v, F, IntSize, g)
    <2>1. F \in [Nat -> Nat] /\ IntSize \in Nat
      BY CodecAssumption
    <2>. HIDE DEF F
    <2>. QED
      BY <2>1, FiniteRecursion
  <1>3. /\ g \in [0..IntSize -> Nat] /\ g[0] = v
        /\ \A k \in 1..IntSize : g[k - 1] \in Nat /\ g[k] = g[k - 1] \div 256
    BY <1>2 DEF Steps
  <1>. HIDE DEF F
  <1>4. g = G(g)
    <2>1. ASSUME NEW k \in 0..IntSize PROVE g[k] = IF k = 0 THEN v ELSE g[k - 1] \div 256
      <3>1. k # 0 => k \in 1..IntSize
        BY CodecAssumption
      <3>. QED
        BY <1>3, <3>1
    <2>2. g = [k \in 0..IntSize |-> g[k]]
      BY <1>3
    <2>. QED
      BY <2>1, <2>2
  <1>. HIDE DEF high
  <1>5. high = G(high)
    BY <1>4 DEF high
  <1>6. \A k \in 0..IntSize : high[k] = IF k = 0 THEN v ELSE high[k - 1] \div 256
    BY <1>5
  <1>7. DOMAIN high = 0..IntSize
    BY <1>5
  <1>. HIDE DEF G
  <1>. DEFINE T == {k \in Nat : k <= IntSize => high[k] \in Nat}
  <1>8. IntSize \in Nat
    BY CodecAssumption
  <1>9. 0 \in T
    BY <1>6, <1>8
  <1>10. ASSUME NEW k \in Nat, k \in T PROVE k + 1 \in T
    <2>1. k + 1 <= IntSize => k <= IntSize /\ k + 1 \in 0..IntSize /\ (k + 1) - 1 = k /\ k + 1 # 0
      BY <1>8
    <2>2. k + 1 <= IntSize => high[k + 1] = high[k] \div 256 /\ high[k] \in Nat
      BY <1>6, <1>10, <2>1
    <2>3. k + 1 <= IntSize => high[k + 1] \in Nat
      BY <2>2
    <2>. QED
      BY <2>3
  <1>. HIDE DEF T
  <1>11. \A k \in Nat : k \in T
    BY <1>9, <1>10, Induction
  <1>12. \A k \in 0..IntSize : high[k] \in Nat
    BY <1>8, <1>11 DEF T
  <1>13. high = [k \in 0..IntSize |-> high[k]]
    BY <1>5 DEF G
  <1>14. high \in [0..IntSize -> Nat]
    BY <1>12, <1>13
  <1>15. \A k \in 1..IntSize : high[k - 1] \in Nat /\ high[k] = high[k - 1] \div 256
    <2>1. \A k \in 1..IntSize : k \in 0..IntSize /\ k - 1 \in 0..IntSize /\ k # 0
      BY <1>8
    <2>. QED
      BY <1>6, <1>12, <2>1
  <1>16. Highs(v, high)
    BY <1>6, <1>8, <1>14, <1>15 DEF Highs
  <1>. QED
    BY <1>1, <1>16

\* The integer that bytes make, step by step.
LEMMA IntOfIs ==
  ASSUME NEW s \in Seq(Byte), NEW h \in [0..Len(s) -> Nat], h[0] = 0,
         \A k \in 1..Len(s) : h[k] = 256 * h[k - 1] + s[k]
  PROVE  IntOf(s) = h[Len(s)]
  <1>. DEFINE n == Len(s)
              G(f) == [k \in 0..n |-> IF k = 0 THEN 0 ELSE 256 * f[k - 1] + s[k]]
              value == CHOOSE f : f = G(f)
  <1>1. IntOf(s) = value[n]
    BY DEF IntOf
  <1>2. n \in Nat
    BY LenProperties
  <1>3. h = G(h)
    <2>1. ASSUME NEW k \in 0..n PROVE h[k] = IF k = 0 THEN 0 ELSE 256 * h[k - 1] + s[k]
      <3>1. k # 0 => k \in 1..n
        BY <1>2
      <3>. QED
        BY <3>1
    <2>2. h = [k \in 0..n |-> h[k]]
      OBVIOUS
    <2>. QED
      BY <2>1, <2>2
  <1>. HIDE DEF value
  <1>4. value = G(value)
    BY <1>3 DEF value
  <1>5. \A k \in 0..n : value[k] = IF k = 0 THEN 0 ELSE 256 * value[k - 1] + s[k]
    BY <1>4
  <1>. HIDE DEF G
  <1>. DEFINE T == {k \in Nat : k <= n => value[k] = h[k]}
  <1>6. 0 \in T
    BY <1>2, <1>5
  <1>7. ASSUME NEW k \in Nat, k \in T PROVE k + 1 \in T
    <2>. SUFFICES ASSUME k + 1 <= n PROVE value[k + 1] = h[k + 1]
      OBVIOUS
    <2>1. k + 1 \in 0..n /\ k + 1 \in 1..n /\ (k + 1) - 1 = k /\ k + 1 # 0 /\ k <= n
      BY <1>2
    <2>2. value[k + 1] = 256 * value[k] + s[k + 1]
      BY <1>5, <2>1
    <2>3. h[k + 1] = 256 * h[k] + s[k + 1]
      BY <2>1
    <2>. QED
      BY <1>7, <2>1, <2>2, <2>3
  <1>. HIDE DEF T
  <1>8. \A k \in Nat : k \in T
    BY <1>6, <1>7, Induction
  <1>. QED
    BY <1>1, <1>2, <1>8 DEF T

\* The last byte of a number and the rest.
LEMMA LastByte ==
  ASSUME NEW x \in Nat
  PROVE  x % 256 \in Byte /\ x = 256 * (x \div 256) + (x % 256)
  BY DEF Byte

\* An integer that fits is read as it was written.
LEMMA IntBytesFacts ==
  ASSUME NEW v \in Nat, v < Power[IntSize]
  PROVE  IntBytes(v) \in Seq(Byte) /\ Len(IntBytes(v)) = IntSize /\ IntOf(IntBytes(v)) = v
  <1>1. PICK high : Highs(v, high) /\ IntBytes(v) = [i \in 1..IntSize |-> high[IntSize - i] % 256]
    BY IntBytesAre
  <1>2. PICK s : Equal(s, IntBytes(v))
    BY DEF Equal
  <1>3. IntSize \in Nat
    BY CodecAssumption
  <1>4. /\ \A k \in 0..IntSize : high[k] \in Nat
        /\ high[0] = v /\ \A k \in 1..IntSize : high[k] = high[k - 1] \div 256
    BY <1>1 DEF Highs
  <1>5. s = [i \in 1..IntSize |-> high[IntSize - i] % 256]
    BY <1>1, <1>2 DEF Equal
  <1>6. ASSUME NEW i \in 1..IntSize
        PROVE  /\ s[i] \in Byte /\ high[IntSize - i] = 256 * high[IntSize - (i - 1)] + s[i]
    <2>1. IntSize - i \in 0..IntSize /\ IntSize - (i - 1) \in 1..IntSize
          /\ (IntSize - (i - 1)) - 1 = IntSize - i
      BY <1>3
    <2>2. s[i] = high[IntSize - i] % 256 /\ high[IntSize - (i - 1)] = high[IntSize - i] \div 256
      BY <1>4, <1>5, <2>1
    <2>3. high[IntSize - i] \in Nat
      BY <1>4, <2>1
    <2>. QED
      BY <2>2, <2>3, LastByte
  <1>7. s \in Seq(Byte) /\ Len(s) = IntSize
    <2>1. s = [i \in 1..IntSize |-> s[i]]
      BY <1>5
    <2>2. s \in [1..IntSize -> Byte]
      BY <1>6, <2>1
    <2>. QED
      BY <1>3, <2>2
  <1>8. high[IntSize] = 0
    <2>. DEFINE T == {k \in Nat : k <= IntSize => high[k] < Power[IntSize - k]}
    <2>1. 0 \in T
      BY <1>3, <1>4
    <2>2. ASSUME NEW k \in Nat, k \in T PROVE k + 1 \in T
      <3>. SUFFICES ASSUME k + 1 <= IntSize PROVE high[k + 1] < Power[IntSize - (k + 1)]
        OBVIOUS
      <3>1. /\ k + 1 \in 1..IntSize /\ (k + 1) - 1 = k /\ k \in 0..IntSize /\ k <= IntSize
            /\ IntSize - (k + 1) \in Nat /\ IntSize - k \in Nat /\ IntSize - k # 0
            /\ (IntSize - k) - 1 = IntSize - (k + 1)
        BY <1>3
      <3>2. Power[IntSize - k] = 256 * Power[IntSize - (k + 1)] /\ Power[IntSize - (k + 1)] \in Nat
        BY <3>1, Powers
      <3>3. high[k + 1] = high[k] \div 256 /\ high[k] \in Nat
        BY <1>4, <3>1
      <3>4. high[k] < Power[IntSize - k]
        BY <2>2, <3>1
      <3>. QED
        BY <3>2, <3>3, <3>4
    <2>. HIDE DEF T
    <2>3. \A k \in Nat : k \in T
      BY <2>1, <2>2, Induction
    <2>4. high[IntSize] < Power[IntSize - IntSize] /\ IntSize - IntSize = 0
      BY <1>3, <2>3 DEF T
    <2>5. Power[0] = 1
      BY Powers
    <2>. QED
      BY <1>3, <1>4, <2>4, <2>5
  <1>. DEFINE h == [k \in 0..IntSize |-> high[IntSize - k]]
  <1>9. \A k \in 0..IntSize : h[k] = high[IntSize - k] /\ IntSize - k \in 0..IntSize
    BY <1>3
  <1>10. h \in [0..IntSize -> Nat] /\ h[0] = 0 /\ h[IntSize] = v
    <2>1. IntSize - 0 = IntSize /\ IntSize - IntSize = 0 /\ 0 \in 0..IntSize /\ IntSize \in 0..IntSize
      BY <1>3
    <2>. QED
      BY <1>4, <1>8, <1>9, <2>1
  <1>11. \A k \in 1..IntSize : h[k] = 256 * h[k - 1] + s[k]
    <2>1. ASSUME NEW k \in 1..IntSize PROVE h[k] = 256 * h[k - 1] + s[k]
      <3>1. k \in 0..IntSize /\ k - 1 \in 0..IntSize
        BY <1>3
      <3>. HIDE DEF h
      <3>. QED
        BY <1>6, <1>9, <3>1
    <2>. QED
      BY <2>1
  <1>. HIDE DEF h
  <1>12. IntOf(s) = v
    BY <1>7, <1>10, <1>11, IntOfIs
  <1>. QED
    BY <1>2, <1>7, <1>12 DEF Equal

-----------------------------------------------------------------------------
(* Frames *)

\* The bytes of a frame.
FrameOf(m) == IntBytes(PackLength(m)) \o (IntBytes(Len(m.name)) \o (m.name \o m.body))

\* A message's parts, and its lengths fit.
LEMMA MessageFacts ==
  ASSUME NEW m \in Messages
  PROVE  /\ m.name \in Names /\ m.body \in Bodies /\ m.name \in Seq(Byte) /\ m.body \in Seq(Byte)
         /\ m.name # <<>> /\ m = [name |-> m.name, body |-> m.body]
         /\ Len(m.name) \in Nat /\ Len(m.body) \in Nat /\ IntSize \in Nat \ {0}
         /\ PackLength(m) = Len(m.name) + Len(m.body) + IntSize
         /\ PackLength(m) \in Nat /\ PackLength(m) < Power[IntSize]
         /\ Len(m.name) < Power[IntSize]
  <1>1. /\ m.name \in Names /\ m.body \in Bodies /\ m = [name |-> m.name, body |-> m.body]
    BY DEF Messages
  <1>2. /\ m.name \in Seq(Byte) /\ m.body \in Seq(Byte) /\ m.name # <<>>
        /\ IntSize \in Nat \ {0} /\ 2 * PackLength(m) < Power[IntSize]
    BY <1>1, CodecAssumption
  <1>3. Len(m.name) \in Nat /\ Len(m.body) \in Nat
    BY <1>2, LenProperties
  <1>4. PackLength(m) = Len(m.name) + Len(m.body) + IntSize
    BY DEF PackLength
  <1>5. Power[IntSize] \in Nat
    BY <1>2, Powers
  <1>. QED
    BY <1>1, <1>2, <1>3, <1>4, <1>5

\* A frame has the length it says, and begins with it.
LEMMA FrameFacts ==
  ASSUME NEW m \in Messages
  PROVE  /\ FrameOf(m) \in Seq(Byte) /\ Len(FrameOf(m)) = PackLength(m) + IntSize
         /\ IntBytes(PackLength(m)) \in Seq(Byte) /\ Len(IntBytes(PackLength(m))) = IntSize
         /\ IntBytes(Len(m.name)) \in Seq(Byte) /\ Len(IntBytes(Len(m.name))) = IntSize
         /\ IntOf(IntBytes(PackLength(m))) = PackLength(m) /\ IntOf(IntBytes(Len(m.name))) = Len(m.name)
         /\ m.name \o m.body \in Seq(Byte)
         /\ IntBytes(Len(m.name)) \o (m.name \o m.body) \in Seq(Byte)
  <1>1. PICK x, y, u, v : /\ Equal(x, IntBytes(PackLength(m))) /\ Equal(y, IntBytes(Len(m.name)))
                          /\ Equal(u, m.name) /\ Equal(v, m.body)
    BY DEF Equal
  <1>2. x \in Seq(Byte) /\ Len(x) = IntSize /\ IntOf(x) = PackLength(m)
    BY <1>1, MessageFacts, IntBytesFacts DEF Equal
  <1>3. y \in Seq(Byte) /\ Len(y) = IntSize /\ IntOf(y) = Len(u)
    BY <1>1, MessageFacts, IntBytesFacts DEF Equal
  <1>4. u \in Seq(Byte) /\ v \in Seq(Byte) /\ PackLength(m) = Len(u) + Len(v) + IntSize
    BY <1>1, MessageFacts DEF Equal
  <1>5. u \o v \in Seq(Byte) /\ Len(u \o v) = Len(u) + Len(v)
    BY <1>4, ConcatProperties
  <1>6. y \o (u \o v) \in Seq(Byte) /\ Len(y \o (u \o v)) = IntSize + (Len(u) + Len(v))
    BY <1>3, <1>5, ConcatProperties
  <1>7. x \o (y \o (u \o v)) \in Seq(Byte)
        /\ Len(x \o (y \o (u \o v))) = IntSize + (IntSize + (Len(u) + Len(v)))
    BY <1>2, <1>6, ConcatProperties
  <1>8. Len(u) \in Nat /\ Len(v) \in Nat /\ IntSize \in Nat
    BY <1>4, CodecAssumption, LenProperties
  <1>9. IntSize + (IntSize + (Len(u) + Len(v))) = PackLength(m) + IntSize
    BY <1>4, <1>8
  <1>10. FrameOf(m) = x \o (y \o (u \o v))
    BY <1>1 DEF Equal, FrameOf
  <1>. QED
    BY <1>1, <1>2, <1>3, <1>5, <1>6, <1>7, <1>9, <1>10 DEF Equal

\* Codec::encode writes it, and send(Buffer&) sends all of it.
LEMMA FrameIs ==
  ASSUME NEW m \in Messages
  PROVE  Frames[m] = FrameOf(m)
  <1>1. PICK x, y, r : /\ Equal(x, IntBytes(PackLength(m))) /\ Equal(y, IntBytes(Len(m.name)))
                       /\ Equal(r, m.name \o m.body)
    BY DEF Equal
  <1>2. x \in Seq(Byte) /\ y \in Seq(Byte) /\ r \in Seq(Byte)
    BY <1>1, FrameFacts DEF Equal
  <1>3. PICK b : Equal(b, BufAppend(Empty, x))
    BY DEF Equal
  <1>4. PICK c : Equal(c, BufAppend(b, y))
    BY DEF Equal
  <1>5. PICK d : Equal(d, BufAppend(c, r))
    BY DEF Equal
  <1>6. b \in Values(Byte) /\ WellFormed(b) /\ Contents(b) = Contents(Empty) \o x
    BY <1>2, <1>3, EmptyIs, BufAppendFacts
  <1>7. c \in Values(Byte) /\ WellFormed(c) /\ Contents(c) = Contents(b) \o y
    BY <1>2, <1>4, <1>6, BufAppendFacts
  <1>8. d \in Values(Byte) /\ WellFormed(d) /\ Contents(d) = Contents(c) \o r
    BY <1>2, <1>5, <1>7, BufAppendFacts
  <1>9. Contents(d) = x \o (y \o r)
    <2>1. Contents(Empty) = <<>>
      BY EmptyIs
    <2>2. Contents(b) = x
      BY <1>2, <1>6, <2>1, ConcatEmptySeq
    <2>3. Contents(d) = (x \o y) \o r
      BY <1>7, <1>8, <2>2
    <2>. QED
      BY <1>2, <2>3, ConcatAssociative
  <1>10. Encode(Empty, m) = d
    <2>1. Len(r) + IntSize = PackLength(m)
      <3>1. Len(r) = Len(m.name) + Len(m.body)
        BY <1>1, MessageFacts, ConcatProperties DEF Equal
      <3>. QED
        BY <3>1, MessageFacts
    <2>2. Encode(Empty, m) = BufAppend(BufAppend(BufAppend(Empty, IntBytes(Len(m.name \o m.body) + IntSize)),
                                                 IntBytes(Len(m.name))), m.name \o m.body)
      BY DEF Encode
    <2>3. Encode(Empty, m) = BufAppend(BufAppend(BufAppend(Empty, IntBytes(PackLength(m))),
                                                 IntBytes(Len(m.name))), r)
      BY <1>1, <2>1, <2>2 DEF Equal
    <2>. QED
      BY <1>1, <1>3, <1>4, <1>5, <2>3 DEF Equal
  <1>11. All(d) = Contents(d)
    BY <1>8, AllIsContents
  <1>12. Frames[m] = All(Encode(Empty, m))
    BY DEF Frames
  <1>. QED
    BY <1>1, <1>9, <1>10, <1>11, <1>12 DEF Equal, FrameOf

-----------------------------------------------------------------------------
(* Reading a frame *)

\* The front of two sequences after each other, and what is behind it.
LEMMA FrontOfConcat ==
  ASSUME NEW S, NEW s \in Seq(S), NEW t \in Seq(S)
  PROVE  SubSeq(s \o t, 1, Len(s)) = s /\ SubSeq(s \o t, Len(s) + 1, Len(s \o t)) = t
  <1>1. PICK r : Equal(r, s \o t)
    BY DEF Equal
  <1>2. /\ r \in Seq(S) /\ Len(r) = Len(s) + Len(t) /\ Len(s) \in Nat /\ Len(t) \in Nat
        /\ \A i \in 1..(Len(s) + Len(t)) : r[i] = IF i <= Len(s) THEN s[i] ELSE t[i - Len(s)]
    BY <1>1, ConcatProperties, LenProperties DEF Equal
  <1>3. PICK u, v : Equal(u, SubSeq(r, 1, Len(s))) /\ Equal(v, SubSeq(r, Len(s) + 1, Len(r)))
    BY DEF Equal
  <1>4. /\ u \in Seq(S) /\ Len(u) = Len(s) /\ \A i \in 1..Len(s) : u[i] = r[i]
        /\ v \in Seq(S) /\ Len(v) = Len(t) /\ \A i \in 1..Len(t) : v[i] = r[Len(s) + i]
    <2>1. Len(s) \in 0..Len(r) /\ Len(r) - Len(s) = Len(t)
      BY <1>2
    <2>. QED
      BY <1>2, <1>3, <2>1, SplitAt DEF Equal
  <1>5. \A i \in 1..Len(u) : u[i] = s[i]
    BY <1>2, <1>4
  <1>6. ASSUME NEW i \in 1..Len(v) PROVE v[i] = t[i]
    <2>1. /\ i \in 1..Len(t) /\ Len(s) + i \in 1..(Len(s) + Len(t)) /\ ~ (Len(s) + i <= Len(s))
          /\ (Len(s) + i) - Len(s) = i
      BY <1>2, <1>4
    <2>. QED
      BY <1>2, <1>4, <2>1
  <1>7. u = s /\ v = t
    BY <1>4, <1>5, <1>6, SeqEqual
  <1>. QED
    BY <1>1, <1>3, <1>7 DEF Equal

\* A buffer whose first block has data, if there is any.
HasFront(b) == b.readable # 0 => b.blocks # <<>> /\ b.blocks[1].data # <<>>

\* What is in front is seen by toString(n), and gone after discard(n).
LEMMA FrontFacts ==
  ASSUME NEW S, NEW b \in Values(S), WellFormed(b), NEW s \in Seq(S), NEW t \in Seq(S),
         Equal(Contents(b), s \o t)
  PROVE  /\ Peek(b, Len(s)) = s
         /\ \A c : Equal(c, Discard(b, Len(s))) => c \in Values(S) /\ WellFormed(c) /\ Contents(c) = t
  <1>1. PICK r : Equal(r, s \o t)
    BY DEF Equal
  <1>. DEFINE n == Len(s)
  <1>2. /\ r \in Seq(S) /\ Len(r) = Len(s) + Len(t) /\ Len(s) \in Nat /\ Len(t) \in Nat
        /\ Len(r) \in Nat
    BY <1>1, ConcatProperties, LenProperties DEF Equal
  <1>3. Contents(b) = r /\ b.readable = Len(r)
    BY <1>1 DEF Equal, WellFormed
  <1>4. SubSeq(r, 1, n) = s /\ SubSeq(r, n + 1, Len(r)) = t
    BY <1>1, FrontOfConcat DEF Equal
  <1>5. Min({n, Len(r)}) = n
    BY <1>2, MinOfTwo
  <1>6. Peek(b, n) = s
    BY <1>3, <1>4, <1>5 DEF Peek
  <1>7. ASSUME NEW c, Equal(c, Discard(b, n))
        PROVE  c \in Values(S) /\ WellFormed(c) /\ Contents(c) = t
    <2>1. n \in Nat /\ n <= b.readable
      BY <1>2, <1>3
    <2>2. /\ c \in Values(S) /\ WellFormed(c)
          /\ Contents(c) = SubSeq(Contents(b), n + 1, Len(Contents(b)))
      BY <1>7, <2>1, DiscardFacts
    <2>. QED
      BY <1>3, <1>4, <2>2
  <1>. QED
    BY <1>6, <1>7

\* If no block has data there is nothing to read.
LEMMA NoData ==
  ASSUME NEW S, NEW b \in Values(S), WellFormed(b), \A i \in 1..Len(b.blocks) : b.blocks[i].data = <<>>
  PROVE  b.readable = 0
  <1>1. b.first = 1 /\ b.readable = Len(Contents(b))
    BY DEF WellFormed, IteratorsInList
  <1>2. Datas(b) \in Seq(Seq(S)) /\ \A i \in 1..Len(Datas(b)) : Datas(b)[i] = <<>>
    BY DatasFacts
  <1>3. FlattenSeq(Datas(b)) = <<>>
    BY <1>2, FlattenOfEmpty
  <1>. QED
    BY <1>1, <1>3, ContentsFacts, EmptySeq

\* discard erases the blocks in front that it has read to their end.
LEMMA DiscardLeavesFront ==
  ASSUME NEW S, NEW b \in Values(S), WellFormed(b), NEW n \in Nat, n <= b.readable,
         NEW c, Equal(c, Discard(b, n))
  PROVE  HasFront(c)
  <1>1. PICK d : Equal(d, DropBytes(b, n))
    BY DEF Equal
  <1>2. d \in Values(S) /\ Shortened(b, n, d)
    BY <1>1, DropBytesFacts
  <1>3. PICK k : Equal(k, Erased(d))
    BY DEF Equal
  <1>4. c.blocks = SubSeq(d.blocks, k + 1, Len(d.blocks)) /\ c.last = d.last - k
    <2>1. c = EraseFront(d)
      BY <1>1 DEF Equal, Discard
    <2>2. c = [d EXCEPT !.blocks = SubSeq(@, k + 1, Len(@)), !.first = 1, !.last = @ - k]
      BY <1>3, <2>1 DEF Equal, EraseFront
    <2>. QED
      BY <1>2, <2>2 DEF Values
  <1>5. c \in Values(S) /\ WellFormed(c)
    BY DiscardFacts
  <1>6. /\ b.last \in Nat /\ b.last >= 1 /\ d.last = b.last
        /\ d.blocks \in Seq(Blocks(S)) /\ Len(d.blocks) \in Nat
        /\ b.last <= Len(d.blocks) \/ (Len(d.blocks) = 0 /\ b.last = 1)
    <2>1. /\ b.last \in Nat /\ Len(b.blocks) \in Nat /\ d.blocks \in Seq(Blocks(S)) /\ Len(d.blocks) \in Nat
          /\ (b.blocks = <<>> => Len(b.blocks) = 0)
      BY <1>2, ValueFacts, EmptySeq
    <2>2. d.last = b.last /\ Len(d.blocks) = Len(b.blocks)
      BY <1>2 DEF Shortened
    <2>3. b.last \in 1..Len(b.blocks) \/ (b.blocks = <<>> /\ b.last = 1)
      BY DEF WellFormed, IteratorsInList
    <2>. QED
      BY <2>1, <2>2, <2>3
  <1>7. /\ k \in 0..(d.last - 1)
        /\ k < d.last - 1 => d.blocks[k + 1].data # <<>>
    BY <1>2, <1>3, <1>6, ErasedFacts
  <1>8. k \in 0..Len(d.blocks)
    BY <1>6, <1>7
  <1>9. /\ Len(c.blocks) = Len(d.blocks) - k
        /\ \A j \in 1..(Len(d.blocks) - k) : c.blocks[j] = d.blocks[k + j]
    BY <1>4, <1>6, <1>8, SplitAt
  <1>10. CASE k < d.last - 1
    <2>1. 1 \in 1..(Len(d.blocks) - k)
      BY <1>6, <1>8, <1>10, <1>7
    <2>2. c.blocks[1] = d.blocks[k + 1] /\ c.blocks # <<>>
      BY <1>9, <2>1, EmptySeq
    <2>. QED
      BY <1>7, <1>10, <2>2 DEF HasFront
  <1>11. CASE ~ (k < d.last - 1)
    <2>. SUFFICES ASSUME c.blocks = <<>> \/ c.blocks[1].data = <<>> PROVE c.readable = 0
      BY DEF HasFront
    <2>1. c.last = 1
      BY <1>4, <1>6, <1>7, <1>11
    <2>2. \A i \in 2..Len(c.blocks) : c.blocks[i].data = <<>>
      BY <1>5, <2>1 DEF WellFormed, DataInOrder
    <2>3. Len(c.blocks) \in Nat /\ (c.blocks = <<>> => Len(c.blocks) = 0)
      BY <1>5, ValueFacts, EmptySeq
    <2>4. \A i \in 1..Len(c.blocks) : c.blocks[i].data = <<>>
      <3>1. \A i \in 1..Len(c.blocks) : i = 1 \/ i \in 2..Len(c.blocks)
        BY <2>3
      <3>. QED
        BY <2>2, <2>3, <3>1
    <2>. QED
      BY <1>5, <2>4, NoData
  <1>. QED
    BY <1>10, <1>11

-----------------------------------------------------------------------------
(* BufferInputStream *)

\* What the blocks behind the first k make.
RestOf(b, k) == FlattenSeq(SubSeq(Datas(b), k + 1, Len(b.blocks)))

\* It gets shorter by a block.
LEMMA RestFacts ==
  ASSUME NEW S, NEW b \in Values(S), NEW k \in 0..Len(b.blocks)
  PROVE  /\ RestOf(b, k) \in Seq(S)
         /\ k = 0 => RestOf(b, k) = FlattenSeq(Datas(b))
         /\ (\A i \in k + 1..Len(b.blocks) : b.blocks[i].data = <<>>) => RestOf(b, k) = <<>>
         /\ k < Len(b.blocks) => /\ RestOf(b, k) = b.blocks[k + 1].data \o RestOf(b, k + 1)
                                 /\ RestOf(b, k + 1) \in Seq(S) /\ b.blocks[k + 1].data \in Seq(S)
  <1>1. PICK ss, n : Equal(ss, Datas(b)) /\ Equal(n, Len(b.blocks))
    BY DEF Equal
  <1>2. /\ ss \in Seq(Seq(S)) /\ Len(ss) = n /\ n \in Nat /\ k \in 0..n
        /\ \A i \in 1..n : ss[i] = b.blocks[i].data
    BY <1>1, DatasFacts, ValueFacts DEF Equal
  <1>3. \A j \in Nat : RestOf(b, j) = FlattenSeq(SubSeq(ss, j + 1, n))
    BY <1>1 DEF Equal, RestOf
  <1>4. PICK tt : Equal(tt, SubSeq(ss, k + 1, n))
    BY DEF Equal
  <1>5. /\ tt \in Seq(Seq(S)) /\ Len(tt) = n - k /\ \A j \in 1..(n - k) : tt[j] = ss[k + j]
    BY <1>2, <1>4, SplitAt DEF Equal
  <1>6. RestOf(b, k) = FlattenSeq(tt)
    BY <1>2, <1>3, <1>4 DEF Equal
  <1>7. RestOf(b, k) \in Seq(S)
    BY <1>5, <1>6, FlattenType
  <1>8. k = 0 => RestOf(b, k) = FlattenSeq(ss)
    <2>. SUFFICES ASSUME k = 0 PROVE RestOf(b, k) = FlattenSeq(ss)
      OBVIOUS
    <2>1. RestOf(b, k) = FlattenSeq(SubSeq(ss, 1, n))
      BY <1>2, <1>3, 0 + 1 = 1
    <2>2. SubSeq(ss, 1, n) = ss
      BY <1>2, SubSeqFull
    <2>. QED
      BY <2>1, <2>2
  <1>9. ASSUME \A i \in k + 1..n : ss[i] = <<>> PROVE RestOf(b, k) = <<>>
    <2>1. \A j \in 1..Len(tt) : k + j \in k + 1..n
      BY <1>2, <1>5
    <2>2. \A j \in 1..Len(tt) : tt[j] = <<>>
      BY <1>5, <1>9, <2>1
    <2>. QED
      BY <1>5, <1>6, <2>2, FlattenOfEmpty
  <1>10. ASSUME k < n PROVE RestOf(b, k) = ss[k + 1] \o RestOf(b, k + 1) /\ RestOf(b, k + 1) \in Seq(S)
    <2>1. k + 1 \in 1..Len(ss) /\ n \in (k + 1)..Len(ss) /\ k + 1 \in 0..n /\ k + 1 \in Nat
      BY <1>2, <1>10
    <2>2. SubSeq(ss, k + 1, n) = <<ss[k + 1]>> \o SubSeq(ss, (k + 1) + 1, n)
      BY <1>2, <2>1, SubSeqRecursiveFirst
    <2>3. PICK uu, x : Equal(uu, SubSeq(ss, (k + 1) + 1, n)) /\ Equal(x, ss[k + 1])
      BY DEF Equal
    <2>4. uu \in Seq(Seq(S)) /\ x \in Seq(S)
      BY <1>2, <2>1, <2>3, SplitAt DEF Equal
    <2>5. RestOf(b, k + 1) = FlattenSeq(uu)
      BY <1>3, <2>1, <2>3 DEF Equal
    <2>6. FlattenSeq(<<x>>) = x /\ <<x>> \in Seq(Seq(S))
      BY <2>4, FlattenOne
    <2>7. FlattenSeq(<<x>> \o uu) = FlattenSeq(<<x>>) \o FlattenSeq(uu)
      BY <2>4, <2>6, FlattenConcat
    <2>8. tt = <<x>> \o uu
      BY <1>4, <2>2, <2>3 DEF Equal
    <2>9. RestOf(b, k) = x \o RestOf(b, k + 1)
      BY <1>6, <2>5, <2>6, <2>7, <2>8
    <2>. QED
      BY <2>3, <2>4, <2>5, <2>9, FlattenType DEF Equal
  <1>11. k < n => k + 1 \in 1..n /\ ss[k + 1] = b.blocks[k + 1].data /\ ss[k + 1] \in Seq(S)
    <2>1. \A i \in 1..Len(ss) : ss[i] \in Seq(S)
      BY <1>2, LenProperties
    <2>2. k < n => k + 1 \in 1..n
      BY <1>2
    <2>. QED
      BY <1>2, <2>1, <2>2
  <1>12. \A i \in k + 1..n : ss[i] = b.blocks[i].data
    BY <1>2
  <1>. QED
    BY <1>1, <1>7, <1>8, <1>9, <1>10, <1>11, <1>12 DEF Equal

\* d is what t begins with.
Begins(S, d, t) == \E r \in Seq(S) : Equal(t, d \o r)

\* A stream over b that has come to block k + 1, if it is to give n bytes.
Reads(S) == [buffer : Values(S), data : Seq(S), left : Int]

AtBlock(b, k, v) ==
    /\ k <= Len(b.blocks) /\ v.buffer.blocks = b.blocks /\ v.buffer.last = b.last
    /\ v.buffer.first = k + 1 /\ v.buffer.readable = Len(RestOf(b, k))
    /\ v.data \o RestOf(b, k) = Contents(b)

AtEnd(b, v) == v.buffer.readable = 0 /\ v.data = Contents(b)

Reading(S, b, n, k, v) ==
    /\ v \in Reads(S) /\ v.left = n - Len(v.data) /\ Begins(S, v.data, Contents(b))
    /\ v.left # 0 => AtBlock(b, k, v) \/ AtEnd(b, v)

\* The blocks with data come one after the other.
LEMMA NextHasData ==
  ASSUME NEW S, NEW b \in Values(S), WellFormed(b), HasFront(b), NEW k \in 0..Len(b.blocks),
         RestOf(b, k) # <<>>
  PROVE  /\ k + 1 \in 1..Len(b.blocks) /\ k + 1 <= b.last /\ b.blocks[k + 1].data # <<>>
  <1>1. Len(b.blocks) \in Nat /\ b.last \in Nat /\ k \in Nat
    BY ValueFacts
  <1>2. \E i \in k + 1..Len(b.blocks) : b.blocks[i].data # <<>>
    BY RestFacts
  <1>3. PICK i \in k + 1..Len(b.blocks) : b.blocks[i].data # <<>>
    BY <1>2
  <1>4. b.last \in 1..Len(b.blocks)
    <2>1. b.blocks # <<>>
      BY <1>1, <1>3, EmptySeq
    <2>. QED
      BY <2>1 DEF WellFormed, IteratorsInList
  <1>5. /\ \A j \in 2..(b.last - 1) : b.blocks[j].data # <<>>
        /\ \A j \in (b.last + 1)..Len(b.blocks) : b.blocks[j].data = <<>>
    BY DEF WellFormed, DataInOrder
  <1>6. i <= b.last
    <2>1. ~ (i \in (b.last + 1)..Len(b.blocks))
      BY <1>3, <1>5
    <2>. QED
      BY <1>1, <1>4, <2>1
  <1>7. k + 1 \in 1..Len(b.blocks) /\ k + 1 <= b.last
    BY <1>1, <1>4, <1>6
  <1>8. CASE i = k + 1
    BY <1>3, <1>7, <1>8
  <1>9. CASE i # k + 1 /\ k # 0
    <2>1. k + 1 \in 2..(b.last - 1)
      BY <1>1, <1>4, <1>6, <1>9
    <2>. QED
      BY <1>5, <1>7, <2>1
  <1>10. CASE k = 0
    <2>1. b.readable # 0
      <3>1. b.first = 1 /\ b.readable = Len(Contents(b))
        BY DEF WellFormed, IteratorsInList
      <3>2. Contents(b) = RestOf(b, k) /\ Contents(b) \in Seq(S)
        BY <1>10, <3>1, ContentsFacts, RestFacts
      <3>. QED
        BY <3>1, <3>2, EmptySeq
    <2>. QED
      BY <1>7, <1>10, <2>1 DEF HasFront
  <1>. QED
    BY <1>8, <1>9, <1>10

\* all() lists the next block first.
LEMMA FirstBlockIs ==
  ASSUME NEW c, NEW k \in Nat, c.first = k + 1, c.last \in Nat, k + 1 <= c.last,
         c.blocks[k + 1].data # <<>>
  PROVE  FirstBlock(c) = k + 1
  <1>. DEFINE T == {i \in c.first..c.last : c.blocks[i].data # <<>>}
  <1>1. k + 1 \in T
    OBVIOUS
  <1>2. \A i \in T : k + 1 <= i /\ i \in Nat
    OBVIOUS
  <1>3. FirstBlock(c) = Min(T)
    BY DEF FirstBlock
  <1>. HIDE DEF T
  <1>4. Min(T) \in T /\ \A i \in T : Min(T) <= i
    BY <1>1, <1>2 DEF Min
  <1>. QED
    BY <1>1, <1>2, <1>3, <1>4

\* Next gives the next block, until bytes_ is 0 or there are no more bytes.
LEMMA ReadingNext ==
  ASSUME NEW S, NEW b \in Values(S), WellFormed(b), HasFront(b), NEW n \in Int, NEW k \in Nat,
         NEW v, Reading(S, b, n, k, v), NEW w, Equal(w, NextBlock(v))
  PROVE  Reading(S, b, n, k + 1, w)
  <1>1. /\ v \in Reads(S) /\ v.buffer \in Values(S) /\ v.data \in Seq(S) /\ v.left \in Int
        /\ Len(b.blocks) \in Nat /\ v.left = n - Len(v.data)
    BY ValueFacts DEF Reading, Reads
  <1>2. CASE v.left = 0
    <2>1. w = v
      BY <1>2 DEF Equal, NextBlock
    <2>. QED
      BY <1>2, <2>1 DEF Reading
  <1>3. CASE v.left # 0 /\ v.buffer.readable = 0
    <2>1. w = v
      BY <1>3 DEF Equal, NextBlock
    <2>2. AtEnd(b, v)
      <3>1. CASE AtBlock(b, k, v)
        <4>1. k \in 0..Len(b.blocks)
          BY <1>1, <3>1 DEF AtBlock
        <4>2. RestOf(b, k) \in Seq(S) /\ Len(RestOf(b, k)) = 0
          BY <1>3, <3>1, <4>1, RestFacts DEF AtBlock
        <4>3. RestOf(b, k) = <<>>
          BY <4>2, EmptySeq
        <4>4. v.data \o <<>> = v.data
          BY <1>1, ConcatEmptySeq
        <4>. QED
          BY <1>3, <3>1, <4>3, <4>4 DEF AtBlock, AtEnd
      <3>. QED
        BY <1>3, <3>1 DEF Reading
    <2>. QED
      BY <2>1, <2>2 DEF Reading
  <1>4. CASE v.left # 0 /\ v.buffer.readable # 0
    <2>1. /\ k <= Len(b.blocks) /\ v.buffer.blocks = b.blocks /\ v.buffer.last = b.last
          /\ v.buffer.first = k + 1 /\ v.buffer.readable = Len(RestOf(b, k))
          /\ v.data \o RestOf(b, k) = Contents(b)
      BY <1>4 DEF Reading, AtBlock, AtEnd
    <2>2. k \in 0..Len(b.blocks)
      BY <1>1, <2>1
    <2>3. RestOf(b, k) # <<>>
      BY <1>4, <2>1, EmptySeq
    <2>4. k + 1 \in 1..Len(b.blocks) /\ k + 1 <= b.last /\ b.blocks[k + 1].data # <<>>
      BY <2>2, <2>3, NextHasData
    <2>5. PICK c, x, r, t : /\ Equal(c, v.buffer) /\ Equal(x, b.blocks[k + 1].data)
                            /\ Equal(r, RestOf(b, k + 1)) /\ Equal(t, Contents(b))
      BY DEF Equal
    <2>6. x \in Seq(S) /\ r \in Seq(S) /\ RestOf(b, k) = x \o r
      <3>1. k < Len(b.blocks)
        BY <1>1, <2>4
      <3>2. /\ RestOf(b, k) = b.blocks[k + 1].data \o RestOf(b, k + 1)
            /\ RestOf(b, k + 1) \in Seq(S) /\ b.blocks[k + 1].data \in Seq(S)
        BY <2>2, <3>1, RestFacts
      <3>. QED
        BY <2>5, <3>2 DEF Equal
    <2>7. v.buffer.readable = Len(x) + Len(r) /\ Len(x) \in Nat /\ Len(r) \in Nat
      BY <2>1, <2>6, ConcatProperties, LenProperties
    <2>8. /\ v.data \o x \in Seq(S) /\ (v.data \o x) \o r = t /\ Len(v.data) \in Nat
          /\ Len(v.data \o x) = Len(v.data) + Len(x)
      <3>1. PICK y : Equal(y, v.data)
        BY DEF Equal
      <3>2. y \in Seq(S)
        BY <1>1, <3>1 DEF Equal
      <3>3. y \o x \in Seq(S) /\ Len(y \o x) = Len(y) + Len(x) /\ Len(y) \in Nat
        BY <2>6, <3>2, ConcatProperties, LenProperties
      <3>4. (y \o x) \o r = y \o (x \o r)
        BY <2>6, <3>2, ConcatAssociative
      <3>5. v.data \o (x \o r) = t
        BY <2>1, <2>5, <2>6 DEF Equal
      <3>. QED
        BY <3>1, <3>3, <3>4, <3>5 DEF Equal
    <2>9. FirstBlock(v.buffer) = k + 1
      <3>1. b.last \in Nat
        BY ValueFacts
      <3>2. /\ c.first = k + 1 /\ c.last \in Nat /\ k + 1 <= c.last /\ c.blocks[k + 1].data # <<>>
        BY <2>1, <2>4, <2>5, <3>1 DEF Equal
      <3>3. FirstBlock(c) = k + 1
        BY <3>2, FirstBlockIs
      <3>. QED
        BY <2>5, <3>3 DEF Equal
    <2>10. v.buffer.blocks[FirstBlock(v.buffer)].data = x
      BY <2>1, <2>5, <2>9 DEF Equal
    <2>11. w = [buffer |-> [c EXCEPT !.first = @ + 1, !.readable = @ - Len(x)],
                data |-> v.data \o x, left |-> v.left - Len(x)]
      BY <1>4, <2>5, <2>10 DEF Equal, NextBlock
    <2>12. PICK d : Equal(d, [c EXCEPT !.first = @ + 1, !.readable = @ - Len(x)])
      BY DEF Equal
    <2>13. /\ d \in Values(S) /\ d.blocks = b.blocks /\ d.last = b.last /\ d.first = (k + 1) + 1
           /\ d.readable = Len(r)
      <3>1. /\ c \in Values(S) /\ c.blocks = b.blocks /\ c.last = b.last /\ c.first = k + 1
            /\ c.readable = Len(x) + Len(r)
        BY <1>1, <2>1, <2>5, <2>7 DEF Equal
      <3>2. d = [c EXCEPT !.first = (k + 1) + 1, !.readable = Len(r)]
        <4>1. (Len(x) + Len(r)) - Len(x) = Len(r)
          BY <2>7
        <4>. QED
          BY <2>12, <3>1, <4>1 DEF Equal
      <3>3. c = [blocks |-> c.blocks, first |-> c.first, last |-> c.last,
                 readable |-> c.readable, own |-> c.own]
        BY <3>1 DEF Values
      <3>4. d = [blocks |-> c.blocks, first |-> (k + 1) + 1, last |-> c.last,
                 readable |-> Len(r), own |-> c.own]
        BY <3>2, <3>3
      <3>5. c.blocks \in Seq(Blocks(S)) /\ c.last \in Nat /\ c.own \in BOOLEAN /\ (k + 1) + 1 \in Nat
        BY <3>1, ValueFacts
      <3>. QED
        BY <2>7, <3>1, <3>4, <3>5 DEF Values
    <2>14. /\ w.buffer = d /\ w.data = v.data \o x /\ w.left = n - Len(v.data \o x) /\ w \in Reads(S)
      <3>1. v.left - Len(x) = n - Len(v.data \o x) /\ v.left - Len(x) \in Int
        BY <1>1, <2>7, <2>8
      <3>2. w = [buffer |-> d, data |-> v.data \o x, left |-> v.left - Len(x)]
        BY <2>11, <2>12 DEF Equal
      <3>. QED
        BY <2>8, <2>13, <3>1, <3>2 DEF Reads
    <2>15. Begins(S, w.data, Contents(b))
      <3>1. Equal(t, (v.data \o x) \o r)
        BY <2>8 DEF Equal
      <3>2. Begins(S, v.data \o x, t)
        BY <2>6, <3>1 DEF Begins
      <3>. QED
        BY <2>5, <2>14, <3>2 DEF Equal
    <2>16. AtBlock(b, k + 1, w)
      <3>1. w.data \o RestOf(b, k + 1) = Contents(b) /\ w.buffer.readable = Len(RestOf(b, k + 1))
        BY <2>5, <2>8, <2>13, <2>14 DEF Equal
      <3>2. k + 1 <= Len(b.blocks)
        BY <1>1, <2>4
      <3>. QED
        BY <2>13, <2>14, <3>1, <3>2 DEF AtBlock
    <2>17. w.left = n - Len(w.data)
      BY <2>14
    <2>. QED
      BY <2>14, <2>15, <2>16, <2>17 DEF Reading
  <1>. QED
    BY <1>2, <1>3, <1>4

\* What calls of Next one after the other lead to.
ReadCalls(x, n) == CHOOSE f : f = [k \in 0..n |-> IF k = 0 THEN x ELSE NextBlock(f[k - 1])]

\* The stream gives what the buffer begins with, and not what it was asked for only if that is all.
LEMMA ReadBlocksFacts ==
  ASSUME NEW S, NEW b \in Values(S), WellFormed(b), HasFront(b), NEW bytes \in Int,
         NEW r, Equal(r, ReadBlocks(b, bytes))
  PROVE  /\ r.data \in Seq(S) /\ r.left = bytes - Len(r.data) /\ Begins(S, r.data, Contents(b))
         /\ r.left # 0 => r.data = Contents(b)
  <1>1. PICK x, n : Equal(x, [buffer |-> b, data |-> <<>>, left |-> bytes]) /\ Equal(n, Len(b.blocks))
    BY DEF Equal
  <1>2. PICK f : Equal(f, ReadCalls(x, n))
    BY DEF Equal
  <1>3. r = f[n]
    BY <1>1, <1>2 DEF Equal, ReadBlocks, ReadCalls
  <1>4. n \in Nat /\ n = Len(b.blocks)
    BY <1>1, ValueFacts DEF Equal
  <1>5. Reading(S, b, bytes, 0, x)
    <2>1. x = [buffer |-> b, data |-> <<>>, left |-> bytes] /\ <<>> \in Seq(S) /\ Len(<<>>) = 0
      BY <1>1, EmptySeq DEF Equal
    <2>2. x \in Reads(S) /\ x.buffer = b /\ x.data = <<>> /\ x.left = bytes - Len(x.data)
      BY <2>1 DEF Reads
    <2>3. /\ RestOf(b, 0) = Contents(b) /\ Contents(b) \in Seq(S) /\ b.readable = Len(Contents(b))
          /\ b.first = 0 + 1
      <3>1. b.first = 1 /\ b.readable = Len(Contents(b))
        BY DEF WellFormed, IteratorsInList
      <3>2. 0 \in 0..Len(b.blocks)
        BY <1>4
      <3>3. Contents(b) = FlattenSeq(Datas(b)) /\ Contents(b) \in Seq(S)
        BY <3>1, ContentsFacts
      <3>4. RestOf(b, 0) = FlattenSeq(Datas(b))
        BY <3>2, RestFacts
      <3>. QED
        BY <3>1, <3>3, <3>4
    <2>4. AtBlock(b, 0, x)
      BY <1>4, <2>2, <2>3, ConcatEmptySeq DEF AtBlock
    <2>5. Begins(S, x.data, Contents(b))
      <3>1. PICK t : Equal(t, Contents(b))
        BY DEF Equal
      <3>2. t \in Seq(S)
        BY <2>3, <3>1 DEF Equal
      <3>3. Equal(t, <<>> \o t)
        BY <3>2, ConcatEmptySeq DEF Equal
      <3>4. Begins(S, <<>>, t)
        BY <3>2, <3>3 DEF Begins
      <3>. QED
        BY <2>2, <3>1, <3>4 DEF Equal
    <2>. QED
      BY <2>2, <2>4, <2>5 DEF Reading
  <1>. DEFINE D == {v \in Reads(S) : \E k \in Nat : Reading(S, b, bytes, k, v)}
              F == [v \in D |-> NextBlock(v)]
              G(h) == [k \in 0..n |-> IF k = 0 THEN x ELSE NextBlock(h[k - 1])]
  <1>6. PICK g : Steps(D, x, F, n, g)
    <2>1. x \in D
      BY <1>5 DEF Reading
    <2>2. ASSUME NEW v \in D PROVE NextBlock(v) \in D
      <3>1. PICK k \in Nat : Reading(S, b, bytes, k, v)
        OBVIOUS
      <3>2. PICK w : Equal(w, NextBlock(v))
        BY DEF Equal
      <3>3. Reading(S, b, bytes, k + 1, w) /\ k + 1 \in Nat
        BY <3>1, <3>2, ReadingNext
      <3>4. w \in D
        BY <3>3 DEF Reading
      <3>. QED
        BY <3>2, <3>4 DEF Equal
    <2>. HIDE DEF D
    <2>3. F \in [D -> D]
      BY <2>2
    <2>. HIDE DEF F
    <2>. QED
      BY <1>4, <2>1, <2>3, FiniteRecursion
  <1>. HIDE DEF D
  <1>7. g[0] = x /\ g \in [0..n -> D] /\ \A k \in 1..n : g[k] = NextBlock(g[k - 1])
    BY <1>6 DEF Steps
  <1>. HIDE DEF F
  <1>8. g = G(g)
    <2>1. ASSUME NEW k \in 0..n PROVE g[k] = IF k = 0 THEN x ELSE NextBlock(g[k - 1])
      <3>1. k # 0 => k \in 1..n
        BY <1>4
      <3>. QED
        BY <1>7, <3>1
    <2>2. g = [k \in 0..n |-> g[k]]
      BY <1>7
    <2>. QED
      BY <2>1, <2>2
  <1>9. f = G(f)
    <2>1. f = CHOOSE y : y = G(y)
      BY <1>2 DEF Equal, ReadCalls
    <2>. HIDE DEF G
    <2>. QED
      BY <1>8, <2>1
  <1>10. f[0] = x /\ \A k \in 1..n : f[k] = NextBlock(f[k - 1])
    <2>1. \A k \in 0..n : f[k] = IF k = 0 THEN x ELSE NextBlock(f[k - 1])
      BY <1>9
    <2>2. 0 \in 0..n /\ \A k \in 1..n : k \in 0..n /\ k # 0
      BY <1>4
    <2>. QED
      BY <2>1, <2>2
  <1>. HIDE DEF G
  <1>. DEFINE T == {k \in Nat : k <= n => Reading(S, b, bytes, k, f[k])}
  <1>11. 0 \in T
    BY <1>5, <1>10
  <1>12. ASSUME NEW k \in Nat, k \in T PROVE k + 1 \in T
    <2>. SUFFICES ASSUME k + 1 <= n PROVE Reading(S, b, bytes, k + 1, f[k + 1])
      OBVIOUS
    <2>1. k + 1 \in 1..n /\ (k + 1) - 1 = k /\ k <= n
      BY <1>4
    <2>2. Equal(f[k + 1], NextBlock(f[k])) /\ Reading(S, b, bytes, k, f[k])
      BY <1>10, <1>12, <2>1 DEF Equal
    <2>3. PICK v, w : Equal(v, f[k]) /\ Equal(w, f[k + 1])
      BY DEF Equal
    <2>4. Reading(S, b, bytes, k, v) /\ Equal(w, NextBlock(v))
      BY <2>2, <2>3 DEF Equal
    <2>5. Reading(S, b, bytes, k + 1, w)
      BY <2>4, ReadingNext
    <2>. QED
      BY <2>3, <2>5 DEF Equal
  <1>. HIDE DEF T
  <1>13. \A k \in Nat : k \in T
    BY <1>11, <1>12, Induction
  <1>14. Reading(S, b, bytes, n, f[n])
    BY <1>4, <1>13 DEF T
  <1>15. RestOf(b, n) = <<>>
    <2>1. n \in 0..Len(b.blocks) /\ \A i \in n + 1..Len(b.blocks) : b.blocks[i].data = <<>>
      BY <1>4
    <2>. QED
      BY <2>1, RestFacts
  <1>16. f[n].left # 0 => f[n].data = Contents(b)
    <2>1. ASSUME AtBlock(b, n, f[n]) PROVE f[n].data = Contents(b)
      <3>1. PICK y : Equal(y, f[n].data)
        BY DEF Equal
      <3>2. y \in Seq(S)
        BY <1>14, <3>1 DEF Equal, Reading, Reads
      <3>3. y \o <<>> = y
        BY <3>2, ConcatEmptySeq
      <3>4. y \o <<>> = Contents(b)
        BY <1>15, <2>1, <3>1 DEF AtBlock, Equal
      <3>. QED
        BY <3>1, <3>3, <3>4 DEF Equal
    <2>. QED
      BY <1>14, <2>1 DEF Reading, AtEnd
  <1>17. f[n].data \in Seq(S) /\ f[n].left = bytes - Len(f[n].data) /\ Begins(S, f[n].data, Contents(b))
    BY <1>14 DEF Reading, Reads
  <1>. QED
    BY <1>3, <1>16, <1>17

-----------------------------------------------------------------------------
(* Codec::decode *)

\* A buffer's length is that of its contents.
LEMMA ReadableIs ==
  ASSUME NEW S, NEW b \in Values(S), WellFormed(b), NEW t, Equal(t, Contents(b))
  PROVE  t \in Seq(S) /\ b.readable = Len(t) /\ Len(t) \in Nat
  <1>1. b.first = 1 /\ b.readable = Len(Contents(b))
    BY DEF WellFormed, IteratorsInList
  <1>2. Contents(b) \in Seq(S)
    BY <1>1, ContentsFacts
  <1>. QED
    BY <1>1, <1>2, LenProperties DEF Equal

\* p is the first n elements of t, and q the others.
CutAt(S, t, n, p, q) ==
    /\ p \in Seq(S) /\ Len(p) = n /\ q \in Seq(S) /\ t = p \o q
    /\ \A i \in 1..n : p[i] = t[i]

LEMMA Cutting ==
  ASSUME NEW S, NEW t \in Seq(S), NEW n \in 0..Len(t), NEW p, Equal(p, SubSeq(t, 1, n)),
         NEW q, Equal(q, SubSeq(t, n + 1, Len(t)))
  PROVE  CutAt(S, t, n, p, q)
  BY SplitAt DEF CutAt, Equal

\* Two ways to cut a sequence in two: the shorter front is the front of the other.
LEMMA LongerFront ==
  ASSUME NEW S, NEW t \in Seq(S), NEW w \in Seq(S), NEW f \in Seq(S), NEW g \in Seq(S),
         Equal(t \o w, f \o g), Len(t) >= Len(f)
  PROVE  Begins(S, f, t)
  <1>1. PICK u, v : Equal(u, t \o w) /\ Equal(v, f \o g)
    BY DEF Equal
  <1>2. /\ u = v /\ Len(t) \in Nat /\ Len(f) \in Nat /\ Len(w) \in Nat /\ Len(g) \in Nat
        /\ \A i \in 1..(Len(t) + Len(w)) : u[i] = IF i <= Len(t) THEN t[i] ELSE w[i - Len(t)]
        /\ \A i \in 1..(Len(f) + Len(g)) : v[i] = IF i <= Len(f) THEN f[i] ELSE g[i - Len(f)]
    BY <1>1, ConcatProperties, LenProperties DEF Equal
  <1>3. Len(f) \in 0..Len(t)
    BY <1>2
  <1>4. PICK p, q : Equal(p, SubSeq(t, 1, Len(f))) /\ Equal(q, SubSeq(t, Len(f) + 1, Len(t)))
    BY DEF Equal
  <1>5. /\ p \in Seq(S) /\ Len(p) = Len(f) /\ q \in Seq(S) /\ t = p \o q
        /\ \A i \in 1..Len(f) : p[i] = t[i]
    <2>1. PICK n : Equal(n, Len(f))
      BY DEF Equal
    <2>2. n \in 0..Len(t) /\ Equal(p, SubSeq(t, 1, n)) /\ Equal(q, SubSeq(t, n + 1, Len(t)))
      BY <1>3, <1>4, <2>1 DEF Equal
    <2>3. CutAt(S, t, n, p, q)
      BY <2>2, Cutting
    <2>. QED
      BY <2>1, <2>3 DEF CutAt, Equal
  <1>6. ASSUME NEW i \in 1..Len(p) PROVE p[i] = f[i]
    <2>1. i \in 1..(Len(t) + Len(w)) /\ i <= Len(t) /\ i \in 1..(Len(f) + Len(g)) /\ i <= Len(f)
      BY <1>2, <1>3, <1>5
    <2>2. u[i] = t[i] /\ v[i] = f[i]
      BY <1>2, <2>1
    <2>. QED
      BY <1>2, <1>5, <2>2
  <1>7. p = f
    BY <1>5, <1>6, SeqEqual
  <1>. QED
    BY <1>5, <1>7 DEF Begins, Equal

\* With the bytes of a length there, decode is unable just while the first frame is not whole.
LEMMA PartOfFrame ==
  ASSUME NEW m \in Messages, NEW b \in Values(Byte), WellFormed(b), NEW w \in Seq(Byte),
         NEW g \in Seq(Byte), Equal(Contents(b) \o w, FrameOf(m) \o g), b.readable >= IntSize
  PROVE  Unable(b) <=> b.readable < Len(FrameOf(m))
  <1>1. PICK x, y, t : /\ Equal(x, IntBytes(PackLength(m))) /\ Equal(t, Contents(b))
                       /\ Equal(y, IntBytes(Len(m.name)) \o (m.name \o m.body))
    BY DEF Equal
  <1>2. /\ x \in Seq(Byte) /\ Len(x) = IntSize /\ IntOf(x) = PackLength(m) /\ y \in Seq(Byte)
        /\ Len(FrameOf(m)) = PackLength(m) + IntSize
    BY <1>1, FrameFacts DEF Equal
  <1>3. t \in Seq(Byte) /\ b.readable = Len(t) /\ Len(t) \in Nat
    BY <1>1, ReadableIs
  <1>4. y \o g \in Seq(Byte) /\ (x \o y) \o g = x \o (y \o g)
    BY <1>2, ConcatProperties, ConcatAssociative
  <1>5. Equal(t \o w, x \o (y \o g))
    BY <1>1, <1>4 DEF Equal, FrameOf
  <1>6. Begins(Byte, x, t)
    BY <1>2, <1>3, <1>4, <1>5, LongerFront
  <1>7. PICK r \in Seq(Byte) : Equal(t, x \o r)
    BY <1>6 DEF Begins
  <1>8. Equal(Contents(b), x \o r)
    BY <1>1, <1>7 DEF Equal
  <1>9. Peek(b, Len(x)) = x
    BY <1>2, <1>8, FrontFacts
  <1>10. PeekInt(b) = PackLength(m)
    BY <1>2, <1>9 DEF PeekInt
  <1>11. IntSize \in Nat /\ PackLength(m) \in Nat
    BY MessageFacts
  <1>. QED
    BY <1>2, <1>3, <1>10, <1>11 DEF Unable

\* What decode makes of a name, the buffer behind it and the length of the body.
DecodedAs(name, c, n) ==
    IF name \notin Generated THEN [results |-> {"err"}, buffer |-> c]
    ELSE [results |-> Parsed(ReadBlocks(c, n)), buffer |-> ReadBlocks(c, n).buffer,
          message |-> [name |-> name, body |-> ReadBlocks(c, n).data]]

\* It finds them one after the other.
LEMMA DecodedIs ==
  ASSUME NEW b, NEW c1, Equal(c1, Discard(b, IntSize)), NEW c2, Equal(c2, Discard(c1, IntSize)),
         NEW name, Equal(name, Peek(c2, PeekInt(c1))), NEW c3, Equal(c3, Discard(c2, Len(name)))
  PROVE  Decoded(b) = DecodedAs(name, c3, PeekInt(b) - Len(name) - IntSize)
  BY DEF Decoded, DecodedAs, Equal

\* What may come of a buffer with the frame of m in front and g behind it.
Results(m, g, d) ==
    \A x \in d.results :
        /\ x \in {"ok", "err", "abort"}
        /\ x = "ok" => m.name \in Generated /\ d.message = m
        /\ x = "err" => m.name \notin Generated \/ g # <<>>
        /\ x = "abort" => g # <<>>

\* A stream over a body and what is behind it gives the body, or more than it was asked for.
LEMMA BodyIsRead ==
  ASSUME NEW v \in Bodies, NEW g \in Seq(Byte), NEW c \in Values(Byte), WellFormed(c), HasFront(c),
         Equal(Contents(c), v \o g), NEW r, Equal(r, ReadBlocks(c, Len(v)))
  PROVE  /\ r.left = 0 => r.data = v
         /\ r.left # 0 => g # <<>>
  <1>1. v \in Seq(Byte) /\ Len(v) \in Nat /\ Len(v) \in Int
    BY CodecAssumption, LenProperties
  <1>2. /\ r.data \in Seq(Byte) /\ r.left = Len(v) - Len(r.data) /\ Begins(Byte, r.data, Contents(c))
        /\ r.left # 0 => r.data = Contents(c)
    BY <1>1, ReadBlocksFacts
  <1>3. PICK d : Equal(d, r.data)
    BY DEF Equal
  <1>4. d \in Seq(Byte) /\ Len(d) \in Nat /\ r.left = Len(v) - Len(d)
    BY <1>2, <1>3, LenProperties DEF Equal
  <1>5. ASSUME r.left = 0 PROVE d = v
    <2>1. Begins(Byte, d, Contents(c))
      BY <1>2, <1>3 DEF Equal
    <2>2. PICK h \in Seq(Byte) : Equal(Contents(c), d \o h)
      BY <2>1 DEF Begins
    <2>3. Len(d) = Len(v)
      BY <1>1, <1>4, <1>5
    <2>4. PICK s : Equal(s, v \o g)
      BY DEF Equal
    <2>5. s = d \o h /\ s = v \o g
      BY <2>2, <2>4 DEF Equal
    <2>6. SubSeq(s, 1, Len(v)) = v
      BY <1>1, <2>5, FrontOfConcat
    <2>7. SubSeq(s, 1, Len(d)) = d
      BY <1>4, <2>5, FrontOfConcat
    <2>. QED
      BY <2>3, <2>6, <2>7
  <1>6. ASSUME r.left # 0, g = <<>> PROVE FALSE
    <2>1. d = Contents(c)
      BY <1>2, <1>3, <1>6 DEF Equal
    <2>2. v \o <<>> = v
      BY <1>1, ConcatEmptySeq
    <2>3. d = v
      BY <1>6, <2>1, <2>2 DEF Equal
    <2>. QED
      BY <1>1, <1>4, <1>6, <2>3
  <1>. QED
    BY <1>3, <1>5, <1>6 DEF Equal

\* Concatenation is associative, for the provers to match.
SameConcat(s, t, u) == (s \o t) \o u = s \o (t \o u)

LEMMA Associates ==
  ASSUME NEW S, NEW s \in Seq(S), NEW t \in Seq(S), NEW u \in Seq(S)
  PROVE  SameConcat(s, t, u)
  BY ConcatAssociative DEF SameConcat

\* What is behind a frame is behind its last part.
LEMMA FrameAssociative ==
  ASSUME NEW S, NEW x \in Seq(S), NEW y \in Seq(S), NEW u \in Seq(S), NEW v \in Seq(S), NEW g \in Seq(S)
  PROVE  SameConcat(x, y \o (u \o v), g) /\ SameConcat(y, u \o v, g) /\ SameConcat(u, v, g)
  <1>1. PICK p, q : Equal(p, u \o v) /\ Equal(q, y \o p)
    BY DEF Equal
  <1>2. p \in Seq(S)
    BY <1>1, ConcatProperties DEF Equal
  <1>3. q \in Seq(S)
    BY <1>1, <1>2, ConcatProperties DEF Equal
  <1>4. SameConcat(x, q, g)
    BY <1>3, Associates
  <1>5. SameConcat(y, p, g)
    BY <1>2, Associates
  <1>6. SameConcat(u, v, g)
    BY Associates
  <1>. QED
    BY <1>1, <1>4, <1>5, <1>6 DEF Equal

\* decode makes of a whole frame the message it was made from, if its type is known.
LEMMA DecodedFacts ==
  ASSUME NEW m \in Messages, NEW b \in Values(Byte), WellFormed(b), NEW g \in Seq(Byte),
         Equal(Contents(b), FrameOf(m) \o g), NEW d, Equal(d, Decoded(b))
  PROVE  Results(m, g, d)
  <1>1. PICK x, y, u, v : /\ Equal(x, IntBytes(PackLength(m))) /\ Equal(y, IntBytes(Len(m.name)))
                          /\ Equal(u, m.name) /\ Equal(v, m.body)
    BY DEF Equal
  <1>2. /\ x \in Seq(Byte) /\ Len(x) = IntSize /\ IntOf(x) = PackLength(m)
        /\ y \in Seq(Byte) /\ Len(y) = IntSize /\ IntOf(y) = Len(u)
        /\ u \in Seq(Byte) /\ v \in Seq(Byte) /\ v \in Bodies
    BY <1>1, FrameFacts, MessageFacts DEF Equal
  <1>3. PICK r1, r2, r3 : Equal(r3, v \o g) /\ Equal(r2, u \o r3) /\ Equal(r1, y \o r2)
    BY DEF Equal
  <1>4. r3 \in Seq(Byte) /\ r2 \in Seq(Byte) /\ r1 \in Seq(Byte)
    <2>1. r3 \in Seq(Byte)
      BY <1>2, <1>3, ConcatProperties DEF Equal
    <2>2. r2 \in Seq(Byte)
      BY <1>2, <1>3, <2>1, ConcatProperties DEF Equal
    <2>3. r1 \in Seq(Byte)
      BY <1>2, <1>3, <2>2, ConcatProperties DEF Equal
    <2>. QED
      BY <2>1, <2>2, <2>3
  <1>5. Equal(Contents(b), x \o r1)
    <2>1. (x \o (y \o (u \o v))) \o g = x \o (y \o (u \o (v \o g)))
      <3>1. SameConcat(x, y \o (u \o v), g) /\ SameConcat(y, u \o v, g) /\ SameConcat(u, v, g)
        BY <1>2, FrameAssociative
      <3>. QED
        BY <3>1 DEF SameConcat
    <2>2. x \o (y \o (u \o (v \o g))) = x \o r1
      BY <1>3 DEF Equal
    <2>3. FrameOf(m) = x \o (y \o (u \o v))
      BY <1>1 DEF Equal, FrameOf
    <2>. QED
      BY <2>1, <2>2, <2>3 DEF Equal
  <1>6. PICK c1 : Equal(c1, Discard(b, Len(x)))
    BY DEF Equal
  <1>7. PICK c2 : Equal(c2, Discard(c1, Len(y)))
    BY DEF Equal
  <1>8. PICK c3 : Equal(c3, Discard(c2, Len(u)))
    BY DEF Equal
  <1>9. Peek(b, Len(x)) = x /\ c1 \in Values(Byte) /\ WellFormed(c1) /\ Contents(c1) = r1
    BY <1>2, <1>4, <1>5, <1>6, FrontFacts
  <1>10. Peek(c1, Len(y)) = y /\ c2 \in Values(Byte) /\ WellFormed(c2) /\ Contents(c2) = r2
    <2>1. Equal(Contents(c1), y \o r2)
      BY <1>3, <1>9 DEF Equal
    <2>. QED
      BY <1>2, <1>4, <1>7, <1>9, <2>1, FrontFacts
  <1>11. Peek(c2, Len(u)) = u /\ c3 \in Values(Byte) /\ WellFormed(c3) /\ Contents(c3) = r3
    <2>1. Equal(Contents(c2), u \o r3)
      BY <1>3, <1>10 DEF Equal
    <2>. QED
      BY <1>2, <1>4, <1>8, <1>10, <2>1, FrontFacts
  <1>12. HasFront(c3)
    <2>1. c2.readable = Len(r2)
      BY <1>10 DEF WellFormed
    <2>2. Len(u) \in Nat /\ Len(r3) \in Nat /\ Len(r2) = Len(u) + Len(r3)
      BY <1>2, <1>3, <1>4, ConcatProperties, LenProperties DEF Equal
    <2>3. Len(u) <= c2.readable
      BY <2>1, <2>2
    <2>. QED
      BY <1>8, <1>10, <2>2, <2>3, DiscardLeavesFront
  <1>13. PICK r : Equal(r, ReadBlocks(c3, Len(v)))
    BY DEF Equal
  <1>14. (r.left = 0 => r.data = v) /\ (r.left # 0 => g # <<>>)
    <2>1. Equal(Contents(c3), v \o g)
      BY <1>3, <1>11 DEF Equal
    <2>. QED
      BY <1>2, <1>11, <1>12, <1>13, <2>1, BodyIsRead
  <1>15. PeekInt(b) = PackLength(m) /\ PeekInt(c1) = Len(u)
    BY <1>2, <1>9, <1>10 DEF PeekInt
  <1>16. PackLength(m) - Len(u) - IntSize = Len(v)
    <2>1. PackLength(m) = Len(u) + Len(v) + IntSize /\ Len(u) \in Nat /\ Len(v) \in Nat /\ IntSize \in Nat
      BY <1>1, MessageFacts DEF Equal
    <2>. QED
      BY <2>1
  <1>17. d = DecodedAs(u, c3, Len(v))
    <2>1. Equal(c1, Discard(b, IntSize)) /\ Equal(c2, Discard(c1, IntSize))
      BY <1>2, <1>6, <1>7
    <2>2. Equal(u, Peek(c2, PeekInt(c1)))
      BY <1>11, <1>15 DEF Equal
    <2>3. Decoded(b) = DecodedAs(u, c3, PeekInt(b) - Len(u) - IntSize)
      BY <1>8, <2>1, <2>2, DecodedIs
    <2>. QED
      BY <1>15, <1>16, <2>3 DEF Equal
  <1>18. u \in Names /\ m = [name |-> u, body |-> v] /\ m.name = u
    BY <1>1, MessageFacts DEF Equal
  <1>19. CASE u \notin Generated
    <2>1. d.results = {"err"}
      BY <1>17, <1>19 DEF DecodedAs
    <2>. QED
      BY <1>18, <1>19, <2>1 DEF Results
  <1>20. CASE u \in Generated
    <2>1. d = [results |-> Parsed(r), buffer |-> r.buffer, message |-> [name |-> u, body |-> r.data]]
      BY <1>13, <1>17, <1>20 DEF DecodedAs, Equal
    <2>2. d.results = Parsed(r) /\ d.message = [name |-> u, body |-> r.data]
      BY <2>1
    <2>3. CASE r.left = 0
      <3>1. r.data \in Bodies /\ d.message = m
        BY <1>2, <1>14, <1>18, <2>2, <2>3
      <3>2. d.results = {"ok"}
        BY <2>2, <2>3, <3>1 DEF Parsed
      <3>. QED
        BY <1>18, <1>20, <3>1, <3>2 DEF Results
    <2>4. CASE r.left # 0
      <3>1. d.results = {"err", "abort"} /\ g # <<>>
        BY <1>14, <2>2, <2>4 DEF Parsed
      <3>. QED
        BY <3>1 DEF Results
    <2>. QED
      BY <2>3, <2>4
  <1>. QED
    BY <1>19, <1>20

-----------------------------------------------------------------------------
(* Frames behind each other *)

FrameList(s) == [i \in 1..Len(s) |-> Frames[s[i]]]

\* There is one for each message.
LEMMA FrameListFacts ==
  ASSUME NEW s \in Seq(Messages)
  PROVE  FrameList(s) \in Seq(Seq(Byte)) /\ Len(FrameList(s)) = Len(s)
  <1>1. Len(s) \in Nat /\ \A i \in 1..Len(s) : s[i] \in Messages
    BY LenProperties
  <1>2. \A i \in 1..Len(s) : Frames[s[i]] \in Seq(Byte)
    BY <1>1, FrameIs, FrameFacts
  <1>. QED
    BY <1>1, <1>2 DEF FrameList

\* One more message, one more frame behind the others.
LEMMA FramesGrow ==
  ASSUME NEW s \in Seq(Messages), NEW m \in Messages
  PROVE  /\ FramesOf(s) \in Seq(Byte) /\ Frames[m] \in Seq(Byte)
         /\ FramesOf(Append(s, m)) = FramesOf(s) \o Frames[m]
  <1>1. PICK f, e : Equal(f, Frames[m]) /\ Equal(e, Append(s, m))
    BY DEF Equal
  <1>2. PICK ss, tt : Equal(ss, FrameList(s)) /\ Equal(tt, FrameList(e))
    BY DEF Equal
  <1>3. f \in Seq(Byte) /\ FlattenSeq(<<f>>) = f /\ <<f>> \in Seq(Seq(Byte))
    <2>1. f \in Seq(Byte)
      BY <1>1, FrameIs, FrameFacts DEF Equal
    <2>. QED
      BY <2>1, FlattenOne
  <1>4. /\ e \in Seq(Messages) /\ Len(e) = Len(s) + 1 /\ e[Len(s) + 1] = m /\ Len(s) \in Nat
        /\ \A i \in 1..Len(s) : e[i] = s[i]
    BY <1>1, AppendProperties, LenProperties DEF Equal
  <1>5. ss \in Seq(Seq(Byte)) /\ Len(ss) = Len(s) /\ tt \in Seq(Seq(Byte)) /\ Len(tt) = Len(s) + 1
    BY <1>2, <1>4, FrameListFacts DEF Equal
  <1>6. PICK uu : Equal(uu, ss \o <<f>>)
    BY DEF Equal
  <1>7. /\ uu \in Seq(Seq(Byte)) /\ Len(uu) = Len(s) + 1 /\ uu[Len(s) + 1] = f
        /\ \A i \in 1..Len(s) : uu[i] = ss[i]
    <2>1. Len(<<f>>) = 1 /\ <<f>>[1] = f
      OBVIOUS
    <2>2. /\ uu \in Seq(Seq(Byte)) /\ Len(uu) = Len(ss) + Len(<<f>>)
          /\ \A i \in 1..(Len(ss) + Len(<<f>>)) : uu[i] = IF i <= Len(ss) THEN ss[i] ELSE <<f>>[i - Len(ss)]
      BY <1>3, <1>5, <1>6, ConcatProperties DEF Equal
    <2>3. Len(s) + 1 \in 1..(Len(s) + 1) /\ ~ (Len(s) + 1 <= Len(s)) /\ (Len(s) + 1) - Len(s) = 1
      BY <1>4
    <2>4. uu[Len(s) + 1] = <<f>>[1]
      BY <1>5, <2>1, <2>2, <2>3
    <2>5. \A i \in 1..Len(s) : i \in 1..(Len(s) + 1) /\ i <= Len(s)
      BY <1>4
    <2>. QED
      BY <1>5, <2>1, <2>2, <2>4, <2>5
  <1>8. ASSUME NEW i \in 1..Len(tt) PROVE tt[i] = uu[i]
    <2>1. tt[i] = Frames[e[i]]
      BY <1>2, <1>4, <1>5 DEF Equal, FrameList
    <2>2. CASE i \in 1..Len(s)
      <3>1. ss[i] = Frames[s[i]]
        BY <1>2, <2>2 DEF Equal, FrameList
      <3>. QED
        BY <1>4, <1>7, <2>1, <2>2, <3>1
    <2>3. CASE i = Len(s) + 1
      BY <1>1, <1>4, <1>7, <2>1, <2>3 DEF Equal
    <2>. QED
      BY <1>4, <1>5, <2>2, <2>3
  <1>9. tt = uu
    BY <1>5, <1>7, <1>8, SeqEqual
  <1>10. FlattenSeq(ss \o <<f>>) = FlattenSeq(ss) \o FlattenSeq(<<f>>)
    BY <1>3, <1>5, FlattenConcat
  <1>11. FlattenSeq(tt) = FlattenSeq(ss) \o f
    BY <1>3, <1>6, <1>9, <1>10 DEF Equal
  <1>12. FramesOf(s) = FlattenSeq(ss) /\ FramesOf(e) = FlattenSeq(tt)
    BY <1>2 DEF Equal, FrameList, FramesOf
  <1>13. FlattenSeq(ss) \in Seq(Byte)
    BY <1>5, FlattenType
  <1>. QED
    BY <1>1, <1>3, <1>11, <1>12, <1>13 DEF Equal

\* The first frame is in front.
LEMMA FirstInFront ==
  ASSUME NEW s \in Seq(Messages), s # <<>>
  PROVE  s[1] \in Messages /\ Begins(Byte, FrameOf(s[1]), FramesOf(s))
  <1>1. Len(s) \in Nat /\ Len(s) # 0 /\ 1 \in 1..Len(s) /\ s[1] \in Messages
    <2>1. Len(s) \in Nat /\ Len(s) # 0 /\ \A i \in 1..Len(s) : s[i] \in Messages
      BY EmptySeq, LenProperties
    <2>2. 1 \in 1..Len(s)
      BY <2>1
    <2>. QED
      BY <2>1, <2>2
  <1>2. PICK ss : Equal(ss, FrameList(s))
    BY DEF Equal
  <1>3. ss \in Seq(Seq(Byte)) /\ Len(ss) = Len(s)
    BY <1>2, FrameListFacts DEF Equal
  <1>4. ss[1] = FrameOf(s[1])
    BY <1>1, <1>2, FrameIs DEF Equal, FrameList
  <1>5. PICK pp, qq : Equal(pp, SubSeq(ss, 1, 1 - 1)) /\ Equal(qq, SubSeq(ss, 1 + 1, Len(ss)))
    BY DEF Equal
  <1>6. /\ FlattenSeq(pp) \in Seq(Byte) /\ FlattenSeq(qq) \in Seq(Byte)
        /\ FlattenSeq(ss) = FlattenSeq(pp) \o (ss[1] \o FlattenSeq(qq))
    <2>1. 1 \in 1..Len(ss)
      BY <1>1, <1>3
    <2>2. /\ FlattenSeq(SubSeq(ss, 1, 1 - 1)) \in Seq(Byte)
          /\ FlattenSeq(SubSeq(ss, 1 + 1, Len(ss))) \in Seq(Byte)
          /\ FlattenSeq(ss) = FlattenSeq(SubSeq(ss, 1, 1 - 1))
                               \o (ss[1] \o FlattenSeq(SubSeq(ss, 1 + 1, Len(ss))))
      BY <1>3, <2>1, FlattenAround
    <2>. QED
      BY <1>5, <2>2 DEF Equal
  <1>7. FlattenSeq(pp) = <<>>
    <2>1. 0 \in 0..Len(ss) /\ 1 - 1 = 0
      BY <1>1, <1>3
    <2>2. pp \in Seq(Seq(Byte)) /\ Len(pp) = 0
      BY <1>3, <1>5, <2>1, SplitAt DEF Equal
    <2>3. \A i \in 1..Len(pp) : pp[i] = <<>>
      BY <2>2
    <2>. QED
      BY <2>2, <2>3, FlattenOfEmpty
  <1>8. PICK f, g, h : /\ Equal(f, FrameOf(s[1])) /\ Equal(g, FlattenSeq(qq)) /\ Equal(h, f \o g)
    BY DEF Equal
  <1>9. f \in Seq(Byte) /\ g \in Seq(Byte) /\ h \in Seq(Byte) /\ <<>> \o h = h
    <2>1. f \in Seq(Byte) /\ g \in Seq(Byte)
      BY <1>1, <1>6, <1>8, FrameFacts DEF Equal
    <2>2. h \in Seq(Byte)
      BY <1>8, <2>1, ConcatProperties DEF Equal
    <2>. QED
      BY <2>1, <2>2, ConcatEmptySeq
  <1>10. FlattenSeq(ss) = f \o g
    BY <1>4, <1>6, <1>7, <1>8, <1>9 DEF Equal
  <1>11. FramesOf(s) = FlattenSeq(ss)
    BY <1>2 DEF Equal, FrameList, FramesOf
  <1>12. Begins(Byte, f, FramesOf(s))
    BY <1>9, <1>10, <1>11 DEF Begins, Equal
  <1>. QED
    BY <1>1, <1>8, <1>12 DEF Equal

\* Nothing was sent, no bytes.
LEMMA NoFrames ==
  FramesOf(<<>>) = <<>>
  <1>1. PICK e : Equal(e, <<>>)
    BY DEF Equal
  <1>2. PICK ss : Equal(ss, FrameList(e))
    BY DEF Equal
  <1>3. e \in Seq(Messages) /\ Len(e) = 0
    BY <1>1, EmptySeq DEF Equal
  <1>4. ss \in Seq(Seq(Byte)) /\ Len(ss) = 0
    BY <1>2, <1>3, FrameListFacts DEF Equal
  <1>5. \A i \in 1..Len(ss) : ss[i] = <<>>
    BY <1>4
  <1>6. FlattenSeq(ss) = <<>>
    BY <1>4, <1>5, FlattenOfEmpty
  <1>7. FramesOf(e) = FlattenSeq(ss)
    BY <1>2 DEF Equal, FrameList, FramesOf
  <1>. QED
    BY <1>1, <1>6, <1>7 DEF Equal

-----------------------------------------------------------------------------
(* Steps *)

\* The buffer b and the wire w hold the frames of the messages s.
Holds(b, w, s) ==
    /\ b \in Values(Byte) /\ WellFormed(b) /\ w \in Seq(Byte) /\ s \in Seq(Messages)
    /\ Contents(b) \o w = FramesOf(s)

\* What the dispatcher is given.
Dispatches == [message : Messages, to : Names \cup {<<>>}]

\* What the invariant says but for the bytes.
Rest(w, c, r, s, d) ==
    /\ w \in Seq(Byte) /\ c \subseteq Names /\ r \in {"none", "unable", "ok", "err", "abort"}
    /\ s \in Seq(Messages) /\ d \in Seq(Dispatches)
    /\ r \in {"none", "unable"} => d = <<>>

\* The invariant is made of these.
LEMMA InvariantIs ==
  /\ CodecIInv <=> /\ Rest(wire, callbacks, ret, sent, dispatched)
                   /\ ret \in {"none", "unable"} => Holds(buffer, wire, sent)
  /\ CodecIInv' <=> /\ Rest(wire', callbacks', ret', sent', dispatched')
                    /\ ret' \in {"none", "unable"} => Holds(buffer', wire', sent')
  BY DEF CodecIInv, CodecTypeOK, NothingIsLost, Undecided, Holds, Rest, Dispatches

\* There is nothing to read before the first frame.
LEMMA NothingYet ==
  Holds(Empty, <<>>, <<>>)
  <1>1. Empty \in Values(Byte) /\ WellFormed(Empty) /\ Contents(Empty) = <<>>
    BY EmptyIs
  <1>2. <<>> \in Seq(Byte) /\ <<>> \in Seq(Messages) /\ <<>> \o <<>> = <<>>
    BY EmptySeq, ConcatEmptySeq
  <1>3. Contents(Empty) \o <<>> = FramesOf(<<>>)
    BY <1>1, <1>2, NoFrames
  <1>. QED
    BY <1>1, <1>2, <1>3 DEF Holds

\* A frame is sent behind what is on its way.
LEMMA Sending ==
  ASSUME NEW b, NEW w, NEW s, Holds(b, w, s), NEW m \in Messages
  PROVE  Holds(b, w \o Frames[m], Append(s, m))
  <1>1. /\ b \in Values(Byte) /\ WellFormed(b) /\ w \in Seq(Byte) /\ s \in Seq(Messages)
        /\ Contents(b) \o w = FramesOf(s)
    BY DEF Holds
  <1>2. PICK t, f : Equal(t, Contents(b)) /\ Equal(f, Frames[m])
    BY DEF Equal
  <1>3. t \in Seq(Byte) /\ f \in Seq(Byte) /\ FramesOf(Append(s, m)) = FramesOf(s) \o f
    <2>1. t \in Seq(Byte)
      BY <1>1, <1>2, ReadableIs
    <2>2. Frames[m] \in Seq(Byte) /\ FramesOf(Append(s, m)) = FramesOf(s) \o Frames[m]
      BY <1>1, FramesGrow
    <2>. QED
      BY <1>2, <2>1, <2>2 DEF Equal
  <1>4. w \o f \in Seq(Byte) /\ (t \o w) \o f = t \o (w \o f)
    BY <1>1, <1>3, ConcatProperties, ConcatAssociative
  <1>5. t \o w = FramesOf(s)
    BY <1>1, <1>2 DEF Equal
  <1>6. t \o (w \o f) = FramesOf(Append(s, m))
    BY <1>3, <1>4, <1>5
  <1>7. Append(s, m) \in Seq(Messages)
    BY <1>1, AppendProperties
  <1>8. Holds(b, w \o f, Append(s, m))
    BY <1>1, <1>2, <1>4, <1>6, <1>7 DEF Holds, Equal
  <1>. QED
    BY <1>2, <1>8 DEF Equal

\* What libuv has read is behind what was there before.
LEMMA Arriving ==
  ASSUME NEW b, NEW w, NEW s, Holds(b, w, s), NEW n \in 0..Len(w), NEW c, Equal(c, NextSpace(b)),
         n <= Writeable(c.blocks[Offered(c)]), NEW d, Equal(d, Extend(c, SubSeq(w, 1, n))),
         NEW v, Equal(v, SubSeq(w, n + 1, Len(w)))
  PROVE  Holds(d, v, s)
  <1>1. /\ b \in Values(Byte) /\ WellFormed(b) /\ w \in Seq(Byte) /\ s \in Seq(Messages)
        /\ Contents(b) \o w = FramesOf(s)
    BY DEF Holds
  <1>2. PICK u, t : Equal(u, SubSeq(w, 1, n)) /\ Equal(t, Contents(b))
    BY DEF Equal
  <1>3. u \in Seq(Byte) /\ Len(u) = n /\ v \in Seq(Byte) /\ w = u \o v
    BY <1>1, <1>2, SplitAt DEF Equal
  <1>4. t \in Seq(Byte)
    BY <1>1, <1>2, ReadableIs
  <1>5. c \in Values(Byte) /\ WellFormed(c) /\ Contents(c) = t /\ HasOffer(c)
    BY <1>1, <1>2, NextSpaceFacts DEF Equal
  <1>6. d \in Values(Byte) /\ WellFormed(d) /\ Contents(d) = Contents(c) \o u
    <2>1. Len(u) <= Writeable(c.blocks[Offered(c)]) /\ Equal(d, Extend(c, u))
      BY <1>2, <1>3 DEF Equal
    <2>2. u \in Seq(Byte) /\ c \in Values(Byte) /\ WellFormed(c) /\ HasOffer(c)
      BY <1>3, <1>5
    <2>. QED
      BY <2>1, <2>2, ExtendFacts
  <1>7. (t \o u) \o v = t \o (u \o v)
    BY <1>3, <1>4, ConcatAssociative
  <1>8. t \o (u \o v) = FramesOf(s)
    BY <1>1, <1>2, <1>3 DEF Equal
  <1>9. Contents(d) \o v = FramesOf(s)
    BY <1>5, <1>6, <1>7, <1>8
  <1>. QED
    BY <1>1, <1>3, <1>6, <1>9 DEF Holds

\* If there is a length to read, a message was sent, and what there is begins like its frame.
LEMMA FirstArrives ==
  ASSUME NEW b, NEW w, NEW s, Holds(b, w, s), b.readable >= IntSize
  PROVE  /\ s # <<>> /\ s[1] \in Messages
         /\ \E g \in Seq(Byte) : Equal(Contents(b) \o w, FrameOf(s[1]) \o g)
  <1>1. /\ b \in Values(Byte) /\ WellFormed(b) /\ w \in Seq(Byte) /\ s \in Seq(Messages)
        /\ Contents(b) \o w = FramesOf(s)
    BY DEF Holds
  <1>2. ASSUME s = <<>> PROVE FALSE
    <2>1. PICK t : Equal(t, Contents(b))
      BY DEF Equal
    <2>2. t \in Seq(Byte) /\ b.readable = Len(t) /\ Len(t) \in Nat
      BY <1>1, <2>1, ReadableIs
    <2>3. t \o w = <<>>
      BY <1>1, <1>2, <2>1, NoFrames DEF Equal
    <2>4. Len(t) + Len(w) = 0 /\ Len(w) \in Nat
      BY <1>1, <2>2, <2>3, ConcatProperties, EmptySeq, LenProperties
    <2>5. IntSize \in Nat \ {0}
      BY CodecAssumption
    <2>. QED
      BY <2>2, <2>4, <2>5
  <1>3. s # <<>>
    BY <1>2
  <1>4. s[1] \in Messages /\ Begins(Byte, FrameOf(s[1]), FramesOf(s))
    BY <1>1, <1>3, FirstInFront
  <1>5. PICK g \in Seq(Byte) : Equal(FramesOf(s), FrameOf(s[1]) \o g)
    BY <1>4 DEF Begins
  <1>6. Equal(Contents(b) \o w, FrameOf(s[1]) \o g)
    BY <1>1, <1>5 DEF Equal
  <1>. QED
    BY <1>3, <1>4, <1>6

\* A whole frame is taken out as the message it was made from, or with more behind it.
LEMMA WholeFrame ==
  ASSUME NEW b, NEW w, NEW s, Holds(b, w, s), b.readable >= IntSize, ~Unable(b),
         NEW m, Equal(m, s[1]), NEW d, Equal(d, Decoded(b))
  PROVE  /\ s # <<>> /\ m \in Messages /\ b.readable >= Len(Frames[m])
         /\ \E g \in Seq(Byte) : Results(m, g, d) /\ (g # <<>> => b.readable > Len(Frames[m]))
  <1>1. PICK t : Equal(t, Contents(b))
    BY DEF Equal
  <1>2. s # <<>> /\ m \in Messages /\ \E g \in Seq(Byte) : Equal(Contents(b) \o w, FrameOf(m) \o g)
    <2>1. /\ s # <<>> /\ s[1] \in Messages
          /\ \E g \in Seq(Byte) : Equal(Contents(b) \o w, FrameOf(s[1]) \o g)
      BY FirstArrives
    <2>2. m = s[1]
      BY DEF Equal
    <2>. QED
      BY <2>1, <2>2, Zenon
  <1>3. b \in Values(Byte) /\ WellFormed(b) /\ w \in Seq(Byte)
    BY DEF Holds
  <1>4. PICK g \in Seq(Byte) : Equal(Contents(b) \o w, FrameOf(m) \o g)
    BY <1>2
  <1>5. Unable(b) <=> b.readable < Len(FrameOf(m))
    BY <1>2, <1>3, <1>4, PartOfFrame
  <1>6. t \in Seq(Byte) /\ b.readable = Len(t) /\ Len(t) \in Nat
    BY <1>1, <1>3, ReadableIs
  <1>7. PICK f : Equal(f, FrameOf(m))
    BY DEF Equal
  <1>8. f \in Seq(Byte) /\ Len(f) \in Nat /\ f = Frames[m] /\ f = FrameOf(m)
    BY <1>2, <1>7, FrameFacts, FrameIs, LenProperties DEF Equal
  <1>9. Len(t) >= Len(f)
    BY <1>5, <1>6, <1>8
  <1>10. Equal(t \o w, f \o g)
    BY <1>1, <1>4, <1>7 DEF Equal
  <1>11. Begins(Byte, f, t)
    BY <1>3, <1>6, <1>8, <1>9, <1>10, LongerFront
  <1>12. PICK h \in Seq(Byte) : Equal(t, f \o h)
    BY <1>11 DEF Begins
  <1>13. Equal(Contents(b), FrameOf(m) \o h)
    BY <1>1, <1>7, <1>12 DEF Equal
  <1>14. Results(m, h, d)
    BY <1>2, <1>3, <1>13, DecodedFacts
  <1>15. h # <<>> => b.readable > Len(f)
    <2>1. Len(t) = Len(f) + Len(h) /\ Len(h) \in Nat
      BY <1>8, <1>12, ConcatProperties, LenProperties DEF Equal
    <2>2. h # <<>> => Len(h) # 0
      BY EmptySeq
    <2>. QED
      BY <1>6, <1>8, <2>1, <2>2
  <1>16. b.readable >= Len(f)
    BY <1>6, <1>9
  <1>. QED
    BY <1>2, <1>8, <1>14, <1>15, <1>16

\* What decode answers, and what the dispatcher is given.
LEMMA Decoding ==
  ASSUME CodecIInv, Decode
  PROVE  Answered /\ Rest(wire', callbacks', ret', sent', dispatched')
         /\ (ret' \in {"none", "unable"} => ret' = "unable" /\ buffer' = buffer)
  <1>1. Rest(wire, callbacks, ret, sent, dispatched) /\ Holds(buffer, wire, sent) /\ ret = "none"
    BY InvariantIs DEF Decode
  <1>2. UNCHANGED <<wire, callbacks, sent>> /\ dispatched = <<>>
    BY <1>1 DEF Decode, Rest
  <1>3. CASE NoLength
    <2>1. ret' = "abort" /\ buffer.readable < IntSize /\ UNCHANGED dispatched
      BY <1>3 DEF NoLength
    <2>. QED
      BY <1>1, <1>2, <2>1 DEF Answered, Rest
  <1>4. CASE NotWhole
    <2>1. buffer.readable >= IntSize /\ Unable(buffer) /\ ret' = "unable" /\ UNCHANGED <<buffer, dispatched>>
      BY <1>4 DEF NotWhole
    <2>2. sent # <<>> /\ sent[1] \in Messages
      BY <1>1, <2>1, FirstArrives
    <2>3. PICK g \in Seq(Byte) : Equal(Contents(buffer) \o wire, FrameOf(sent[1]) \o g)
      BY <1>1, <2>1, FirstArrives
    <2>4. buffer.readable < Len(FrameOf(sent[1]))
      BY <1>1, <2>1, <2>2, <2>3, PartOfFrame DEF Holds
    <2>5. buffer.readable < FirstFrame
      BY <2>2, <2>4, FrameIs DEF FirstFrame
    <2>. QED
      BY <1>1, <1>2, <2>1, <2>2, <2>5 DEF Answered, Rest
  <1>5. CASE TakeFrame
    <2>1. PICK d : Equal(d, Decoded(buffer))
      BY DEF Equal
    <2>2. /\ buffer.readable >= IntSize /\ ~Unable(buffer) /\ ret' \in d.results
          /\ IF ret' = "ok" THEN OnMessage(d.message) ELSE UNCHANGED dispatched
      <3>1. /\ buffer.readable >= IntSize /\ ~Unable(buffer) /\ ret' \in Decoded(buffer).results
            /\ IF ret' = "ok"
               THEN dispatched' = Append(dispatched, [message |-> Decoded(buffer).message,
                        to |-> IF Decoded(buffer).message.name \in callbacks
                               THEN Decoded(buffer).message.name ELSE <<>>])
               ELSE UNCHANGED dispatched
        BY <1>5 DEF TakeFrame, OnMessage
      <3>. QED
        BY <2>1, <3>1 DEF Equal, OnMessage
    <2>3. PICK m : Equal(m, sent[1])
      BY DEF Equal
    <2>4. /\ sent # <<>> /\ m \in Messages /\ buffer.readable >= FirstFrame
          /\ \E g \in Seq(Byte) : Results(m, g, d) /\ (g # <<>> => buffer.readable > FirstFrame)
      <3>1. /\ sent # <<>> /\ m \in Messages /\ buffer.readable >= Len(Frames[m])
            /\ \E g \in Seq(Byte) : Results(m, g, d) /\ (g # <<>> => buffer.readable > Len(Frames[m]))
        BY <1>1, <2>1, <2>2, <2>3, WholeFrame
      <3>2. FirstFrame = Len(Frames[m])
        BY <2>3 DEF Equal, FirstFrame
      <3>. QED
        BY <3>1, <3>2
    <2>5. PICK g \in Seq(Byte) : Results(m, g, d) /\ (g # <<>> => buffer.readable > FirstFrame)
      BY <2>4
    <2>6. /\ ret' \in {"ok", "err", "abort"}
          /\ ret' = "ok" => m.name \in Generated /\ d.message = m
          /\ ret' = "err" => m.name \notin Generated \/ g # <<>>
          /\ ret' = "abort" => g # <<>>
      BY <2>2, <2>5 DEF Results
    <2>7. CASE ret' = "ok"
      <3>1. PICK e : Equal(e, [message |-> m, to |-> IF m.name \in callbacks THEN m.name ELSE <<>>])
        BY DEF Equal
      <3>2. dispatched' = <<e>>
        <4>1. dispatched' = Append(dispatched, e)
          BY <2>2, <2>6, <2>7, <3>1 DEF OnMessage, Equal
        <4>. QED
          BY <1>2, <4>1
      <3>3. e \in Dispatches
        BY <2>4, <3>1, MessageFacts DEF Equal, Dispatches
      <3>4. dispatched' \in Seq(Dispatches)
        BY <3>2, <3>3
      <3>5. FirstIsDispatched
        BY <2>3, <3>1, <3>2 DEF Equal, FirstIsDispatched
      <3>6. Answered
        BY <2>3, <2>4, <2>6, <2>7, <3>5 DEF Answered, Equal
      <3>. QED
        BY <1>1, <1>2, <2>7, <3>4, <3>6 DEF Rest
    <2>8. CASE ret' # "ok"
      <3>1. UNCHANGED dispatched
        BY <2>2, <2>8
      <3>2. Answered
        BY <2>3, <2>4, <2>5, <2>6, <2>8 DEF Answered, Equal
      <3>. QED
        BY <1>1, <1>2, <2>6, <2>8, <3>1, <3>2 DEF Rest
    <2>. QED
      BY <2>7, <2>8
  <1>. QED
    BY <1>3, <1>4, <1>5 DEF Decode

\* At first nothing was sent.
LEMMA CodecStarts ==
  ASSUME CodecInit
  PROVE  CodecIInv
  <1>1. Holds(buffer, wire, sent)
    BY NothingYet DEF CodecInit
  <1>2. Rest(wire, callbacks, ret, sent, dispatched)
    BY EmptySeq DEF CodecInit, Rest
  <1>. QED
    BY <1>1, <1>2, InvariantIs

\* Every step keeps the invariant.
LEMMA CodecSteps ==
  ASSUME CodecIInv, [CodecNext]_codecVars
  PROVE  CodecIInv'
  <1>1. /\ Rest(wire, callbacks, ret, sent, dispatched)
        /\ ret \in {"none", "unable"} => Holds(buffer, wire, sent)
    BY InvariantIs
  <1>2. wire \in Seq(Byte) /\ sent \in Seq(Messages)
    BY <1>1 DEF Rest
  <1>3. ASSUME NEW m \in Messages, Send(m) PROVE CodecIInv'
    <2>1. /\ wire' = wire \o Frames[m] /\ sent' = Append(sent, m)
          /\ UNCHANGED <<buffer, callbacks, ret, dispatched>>
      BY <1>3 DEF Send
    <2>2. ret' \in {"none", "unable"} => Holds(buffer', wire', sent')
      BY <1>1, <2>1, Sending
    <2>3. wire' \in Seq(Byte) /\ sent' \in Seq(Messages)
      <3>1. Frames[m] \in Seq(Byte)
        BY <1>2, FramesGrow
      <3>2. wire \o Frames[m] \in Seq(Byte) /\ Append(sent, m) \in Seq(Messages)
        BY <1>2, <3>1, ConcatProperties, AppendProperties
      <3>. QED
        BY <2>1, <3>2
    <2>4. Rest(wire', callbacks', ret', sent', dispatched')
      BY <1>1, <2>1, <2>3 DEF Rest
    <2>. QED
      BY <2>2, <2>4, InvariantIs
  <1>4. ASSUME NEW name \in Names, Register(name) PROVE CodecIInv'
    <2>1. callbacks' = callbacks \cup {name} /\ UNCHANGED <<wire, buffer, ret, sent, dispatched>>
      BY <1>4 DEF Register
    <2>2. Rest(wire', callbacks', ret', sent', dispatched')
      BY <1>1, <2>1 DEF Rest
    <2>. QED
      BY <1>1, <2>1, <2>2, InvariantIs
  <1>5. ASSUME NEW n \in 0..Len(wire), Read(n) PROVE CodecIInv'
    <2>1. PICK c : Equal(c, NextSpace(buffer))
      BY DEF Equal
    <2>2. PICK d, v : Equal(d, Extend(c, SubSeq(wire, 1, n))) /\ Equal(v, SubSeq(wire, n + 1, Len(wire)))
      BY DEF Equal
    <2>3. /\ n <= Writeable(c.blocks[Offered(c)]) /\ wire' = v /\ buffer' = d /\ ret' = "none"
          /\ ret \in {"none", "unable"} /\ UNCHANGED <<callbacks, sent, dispatched>>
      BY <1>5, <2>1, <2>2 DEF Read, Undecided, Equal
    <2>4. Holds(d, v, sent)
      BY <1>1, <2>1, <2>2, <2>3, Arriving
    <2>5. Rest(wire', callbacks', ret', sent', dispatched')
      BY <1>1, <2>3, <2>4 DEF Rest, Holds
    <2>. QED
      BY <2>3, <2>4, <2>5, InvariantIs
  <1>6. CASE Decode
    <2>1. /\ Rest(wire', callbacks', ret', sent', dispatched')
          /\ ret' \in {"none", "unable"} => buffer' = buffer
      BY <1>6, Decoding
    <2>2. ret = "none" /\ UNCHANGED <<wire, sent>>
      BY <1>6 DEF Decode
    <2>. QED
      BY <1>1, <2>1, <2>2, InvariantIs
  <1>7. CASE UNCHANGED codecVars
    BY <1>1, <1>7, InvariantIs DEF codecVars
  <1>. QED
    BY <1>3, <1>4, <1>5, <1>6, <1>7 DEF CodecNext

\* Whatever pieces the frames arrive in, however many lie behind each other and however often decode
\* is called before it has an answer, for blocks of any size and names and messages of any length
\* that an integer holds, the receiver's buffer is well-formed, and it and the wire hold the frames
\* that were sent: no byte is lost or taken out too early (Codec.h, Buffer.cpp).
THEOREM CodecInvariantHolds == CodecSpec => []CodecIInv
  <1>1. CodecInit => CodecIInv
    BY CodecStarts
  <1>2. CodecIInv /\ [CodecNext]_codecVars => CodecIInv'
    BY CodecSteps
  <1>. QED
    BY <1>1, <1>2, PTL DEF CodecSpec

\* decode is unable just while the first frame is not whole, and then gives the dispatcher the first
\* message as it was sent and the callback of its type; it has an error only for a type that is not
\* known or with bytes behind the first frame, and an assertion fails only then or if there is no
\* length to read (Codec.h, BufferStream.h, Dispatcher.h).
THEOREM DecodeAnswersRight == CodecSpec => DecodeIsRight
  <1>1. CodecIInv => (Decode => Answered)
    BY Decoding
  <1>2. CodecIInv /\ [CodecNext]_codecVars => [Decode => Answered]_codecVars
    BY <1>1
  <1>. QED
    BY <1>2, CodecInvariantHolds, PTL DEF CodecSpec, DecodeIsRight
=============================================================================
