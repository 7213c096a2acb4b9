--------------------------- MODULE SequenceProofs ---------------------------
(***************************************************************************)
(* Facts about sequences that the other proofs cite.                       *)
(*                                                                         *)
(* Subsequence: the ranks number a finite set of indices without gaps, so  *)
(* that every index has its place in the subsequence and every place its   *)
(* index.  FlattenSeq: what a recursion over a sequence computes, from the *)
(* smallest sequence for which it would compute something else.  Prefixes: *)
(* what is left of one when its beginning is taken off.                    *)
(***************************************************************************)
EXTENDS Subsequences, SequencesExt, FiniteSetTheorems, SequenceTheorems,
        WellFoundedInduction, TLAPS

\* A rank is a place in the subsequence, and ranks grow with the indices.
LEMMA RankRange ==
  ASSUME NEW T, IsFiniteSet(T), T \subseteq Int, NEW i \in T
  PROVE  Rank(T, i) \in Nat /\ Rank(T, i) \in 1..Cardinality(T)
<1> DEFINE B == {j \in T : j <= i}
<1>1. IsFiniteSet(B) /\ Cardinality(B) <= Cardinality(T)
  BY FS_Subset
<1>2. Cardinality(B) \in Nat /\ Cardinality(T) \in Nat
  BY <1>1, FS_CardinalityType
<1>3. i \in B
  OBVIOUS
<1>4. Cardinality(B) # 0
  BY <1>1, <1>3, FS_EmptySet
<1> QED BY <1>1, <1>2, <1>4 DEF Rank

LEMMA RankIncreases ==
  ASSUME NEW T, IsFiniteSet(T), T \subseteq Int, NEW i \in T, NEW j \in T, i < j
  PROVE  Rank(T, i) < Rank(T, j)
<1> DEFINE B == {m \in T : m <= i}
           C == {m \in T : m <= j}
<1>1. IsFiniteSet(B) /\ IsFiniteSet(C)
  BY FS_Subset
<1>2. Cardinality(B) \in Nat /\ Cardinality(C) \in Nat
  BY <1>1, FS_CardinalityType
<1>3. i \in Int /\ j \in Int
  OBVIOUS
<1>4. B \subseteq C
  <2> SUFFICES ASSUME NEW m \in T, m <= i PROVE m <= j
    OBVIOUS
  <2>1. m \in Int
    OBVIOUS
  <2> QED BY <1>3, <2>1
<1>5. j \in C /\ j \notin B
  BY <1>3
<1>6. Cardinality(B) <= Cardinality(C) /\ (Cardinality(B) = Cardinality(C) => B = C)
  <2>1. B \in SUBSET C
    BY <1>4
  <2> HIDE DEF B, C
  <2> QED BY <1>1, <2>1, FS_Subset
<1>7. Cardinality(B) # Cardinality(C)
  BY <1>5, <1>6
<1> QED BY <1>2, <1>6, <1>7 DEF Rank

\* Every place has an index, and its index has that rank.
LEMMA NthRank ==
  ASSUME NEW T, IsFiniteSet(T), T \subseteq Int, NEW k \in 1..Cardinality(T)
  PROVE  Nth(T, k) \in T /\ Rank(T, Nth(T, k)) = k
<1> DEFINE n == Cardinality(T)
           rank == [i \in T |-> Rank(T, i)]
<1>1. n \in Nat
  BY FS_CardinalityType
<1>2. rank \in [T -> 1..n]
  BY RankRange
<1>3. ASSUME NEW i \in T, NEW j \in T, rank[i] = rank[j] PROVE i = j
  <2>1. i \in Int /\ j \in Int
    OBVIOUS
  <2>2. /\ Rank(T, i) \in Nat /\ Rank(T, j) \in Nat
        /\ Rank(T, i) = Rank(T, j)
    BY <1>3, RankRange
  <2>3. ~(i < j) /\ ~(j < i)
    <3>1. i < j => Rank(T, i) < Rank(T, j)
      BY RankIncreases
    <3>2. j < i => Rank(T, j) < Rank(T, i)
      BY RankIncreases
    <3> QED BY <2>2, <3>1, <3>2
  <2> QED BY <2>1, <2>3
<1>4. rank \in Injection(T, 1..n)
  BY <1>2, <1>3 DEF Injection, IsInjective
<1>5. IsFiniteSet(1..n) /\ Cardinality(1..n) = n
  BY <1>1, FS_Interval
<1>6. rank \in Surjection(T, 1..n)
  BY <1>4, <1>5, FS_Injection
<1>7. \E i \in T : rank[i] = k
  BY <1>6 DEF Surjection
<1>8. \E i \in T : Rank(T, i) = k
  BY <1>7
<1> QED BY <1>8 DEF Nth

\* The other way round: the index at the rank of i is i.
LEMMA NthOfRank ==
  ASSUME NEW T, IsFiniteSet(T), T \subseteq Int, NEW i \in T
  PROVE  Nth(T, Rank(T, i)) = i
<1> DEFINE j == Nth(T, Rank(T, i))
<1>1. j \in T /\ Rank(T, j) = Rank(T, i)
  BY RankRange, NthRank
<1>2. Rank(T, i) \in Nat /\ Rank(T, j) \in Nat
  BY <1>1, RankRange
<1> HIDE DEF j
<1>3. i \in Int /\ j \in Int
  BY <1>1
<1>4. i < j => Rank(T, i) < Rank(T, j)
  BY <1>1, RankIncreases
<1>5. j < i => Rank(T, j) < Rank(T, i)
  BY <1>1, RankIncreases
<1>6. i = j
  BY <1>1, <1>2, <1>3, <1>4, <1>5
<1> QED BY <1>6 DEF j

-----------------------------------------------------------------------------
\* A subsequence is a sequence, as long as its set of indices, of the values
\* of f at them, each at the rank of its index.
LEMMA SubsequenceLen ==
  ASSUME NEW f, NEW T, IsFiniteSet(T)
  PROVE  /\ Len(Subsequence(f, T)) = Cardinality(T)
         /\ Cardinality(T) \in Nat
         /\ DOMAIN Subsequence(f, T) = 1..Cardinality(T)
<1>1. Cardinality(T) \in Nat
  BY FS_CardinalityType
<1> QED BY <1>1 DEF Subsequence

LEMMA SubsequenceAt ==
  ASSUME NEW f, NEW T, IsFiniteSet(T), T \subseteq Int, NEW i \in T
  PROVE  Subsequence(f, T)[Rank(T, i)] = f[i]
BY RankRange, NthOfRank DEF Subsequence

LEMMA SubsequenceRange ==
  ASSUME NEW f, NEW T, IsFiniteSet(T), T \subseteq Int
  PROVE  {Subsequence(f, T)[k] : k \in DOMAIN Subsequence(f, T)} = {f[i] : i \in T}
<1> DEFINE s == Subsequence(f, T)
<1>1. DOMAIN s = 1..Cardinality(T)
  BY DEF Subsequence
<1>2. ASSUME NEW k \in DOMAIN s PROVE s[k] \in {f[i] : i \in T}
  BY <1>1, <1>2, NthRank DEF Subsequence
<1>3. ASSUME NEW i \in T PROVE f[i] \in {s[k] : k \in DOMAIN s}
  <2>1. Rank(T, i) \in DOMAIN s /\ s[Rank(T, i)] = f[i]
    BY <1>1, RankRange, SubsequenceAt
  <2> QED BY <2>1
<1> QED BY <1>2, <1>3

LEMMA SubsequenceSeq ==
  ASSUME NEW f, NEW T, IsFiniteSet(T), T \subseteq Int, NEW S, \A i \in T : f[i] \in S
  PROVE  Subsequence(f, T) \in Seq(S)
<1>1. Cardinality(T) \in Nat
  BY FS_CardinalityType
<1>2. \A k \in 1..Cardinality(T) : f[Nth(T, k)] \in S
  BY NthRank
<1> QED BY <1>1, <1>2 DEF Subsequence

\* At all its indices a sequence is its own subsequence.
LEMMA WholeSubsequence ==
  ASSUME NEW S, NEW f \in Seq(S)
  PROVE  Subsequence(f, DOMAIN f) = f
<1> DEFINE n == Len(f)
<1>1. n \in Nat /\ DOMAIN f = 1..n /\ f = [k \in 1..n |-> f[k]]
  OBVIOUS
<1> HIDE DEF n
<1>2. IsFiniteSet(1..n) /\ Cardinality(1..n) = n
  BY <1>1, FS_Interval
<1>3. ASSUME NEW i \in 1..n PROVE Rank(1..n, i) = i
  <2>1. {j \in 1..n : j <= i} = 1..i
    BY <1>1, <1>3
  <2>2. Cardinality(1..i) = i
    BY <1>1, <1>3, FS_Interval
  <2> QED BY <2>1, <2>2 DEF Rank
<1>4. ASSUME NEW k \in 1..n PROVE Nth(1..n, k) = k
  <2>1. Rank(1..n, k) = k
    BY <1>3
  <2>2. Nth(1..n, Rank(1..n, k)) = k
    BY <1>1, <1>2, NthOfRank
  <2> QED BY <2>1, <2>2
<1>5. Subsequence(f, 1..n) = [k \in 1..n |-> f[k]]
  BY <1>2, <1>4 DEF Subsequence
<1> QED BY <1>1, <1>5

-----------------------------------------------------------------------------
(***************************************************************************)
(* Induction.  A property of all numbers is proved from its smallest       *)
(* counterexample, which exists by the library's well-foundedness of "<".  *)
(***************************************************************************)
LEMMA SmallestNumber ==
  ASSUME NEW T, T \subseteq Nat, T # {}
  PROVE  \E m \in T : \A n \in T : m <= n
<1>1. PICK m \in T : \A n \in T : <<n, m>> \notin OpToRel(<, Nat)
  BY NatLessThanWellFounded, WFMin
<1>2. \A n \in T : ~(n < m)
  BY <1>1 DEF OpToRel
<1> QED BY <1>2

(***************************************************************************)
(* FlattenSeq.  Its recursion has exactly one solution, so that a sequence *)
(* of sequences may be flattened from its first one on.                    *)
(***************************************************************************)
\* Named, so that the provers match it instead of an equation, which they would
\* apply without end.
Associates(s, t, u) == (s \o t) \o u = s \o (t \o u)

LEMMA Regrouped ==
  ASSUME NEW S
  PROVE  \A s, t, u \in Seq(S) : Associates(s, t, u)
<1> TAKE s, t, u \in Seq(S)
<1> QED BY ConcatAssociative DEF Associates

IsFlattening(f, seqs) ==
  f = [i \in 1..Len(seqs) |-> IF i = 1 THEN seqs[i] ELSE f[i - 1] \o seqs[i]]

\* The recursive function of FlattenSeq, at the first index where two differ.
LEMMA FlatteningUnique ==
  ASSUME NEW S, NEW seqs \in Seq(Seq(S)), NEW f, NEW g,
         IsFlattening(f, seqs), IsFlattening(g, seqs)
  PROVE  f = g
<1> DEFINE n == Len(seqs)
           T == {i \in 1..n : f[i] # g[i]}
<1>1. n \in Nat
  OBVIOUS
<1>2. /\ \A i \in 1..n : f[i] = IF i = 1 THEN seqs[i] ELSE f[i - 1] \o seqs[i]
      /\ \A i \in 1..n : g[i] = IF i = 1 THEN seqs[i] ELSE g[i - 1] \o seqs[i]
  BY DEF IsFlattening
<1>3. T = {}
  <2> SUFFICES ASSUME T # {} PROVE FALSE
    OBVIOUS
  <2>1. PICK m \in T : \A i \in T : m <= i
    <3>1. T \subseteq Nat
      BY <1>1
    <3> HIDE DEF T
    <3> QED BY <3>1, SmallestNumber
  <2>2. m # 1
    BY <1>2, <2>1
  <2>3. m - 1 \in 1..n /\ m - 1 \notin T
    BY <1>1, <2>1, <2>2
  <2>4. f[m - 1] = g[m - 1]
    BY <2>3
  <2> QED BY <1>2, <2>1, <2>2, <2>4
<1>4. \A i \in 1..n : f[i] = g[i]
  BY <1>3
<1>5. /\ f = [i \in 1..n |-> f[i]]
      /\ g = [i \in 1..n |-> g[i]]
  BY DEF IsFlattening
<1> QED BY <1>4, <1>5

\* The solution for a sequence with x in front.
IsPrepended(g, x, f, n) ==
  /\ g = [i \in 1..(n + 1) |-> g[i]]
  /\ g[1] = x
  /\ \A j \in 1..n : g[j + 1] = x \o f[j]

\* With a sequence in front, all that was flattened moves behind it.
LEMMA FlatteningFirst ==
  ASSUME NEW S, NEW x \in Seq(S), NEW seqs \in Seq(Seq(S)),
         NEW f \in [1..Len(seqs) -> Seq(S)], IsFlattening(f, seqs),
         NEW g, IsPrepended(g, x, f, Len(seqs))
  PROVE  /\ g \in [1..Len(<<x>> \o seqs) -> Seq(S)]
         /\ IsFlattening(g, <<x>> \o seqs)
<1> DEFINE n == Len(seqs)
           all == <<x>> \o seqs
<1>1. n \in Nat /\ Len(all) = n + 1 /\ all \in Seq(Seq(S))
  OBVIOUS
<1>2. all[1] = x /\ \A j \in 1..n : all[j + 1] = seqs[j] /\ seqs[j] \in Seq(S)
  OBVIOUS
<1>3. \A i \in 1..n : f[i] = IF i = 1 THEN seqs[i] ELSE f[i - 1] \o seqs[i]
  BY DEF IsFlattening
<1>4. g[1] = x /\ \A j \in 1..n : g[j + 1] = x \o f[j]
  BY DEF IsPrepended
<1> HIDE DEF all, n
<1>5. ASSUME NEW i \in 1..(n + 1)
      PROVE  g[i] = IF i = 1 THEN all[i] ELSE g[i - 1] \o all[i]
  <2>1. CASE i = 1
    BY <1>2, <1>4, <2>1
  <2>2. CASE i # 1
    <3>1. PICK j \in 1..n : i = j + 1 /\ i - 1 = j
      BY <1>1, <2>2
    <3>2. g[i] = x \o f[j] /\ all[i] = seqs[j] /\ seqs[j] \in Seq(S)
      BY <1>2, <1>4, <3>1
    <3>3. CASE j = 1
      BY <1>3, <1>4, <2>2, <3>1, <3>2, <3>3
    <3>4. CASE j # 1
      <4>1. PICK k \in 1..n : j = k + 1 /\ j - 1 = k
        BY <1>1, <3>4
      <4>2. g[j] = x \o f[k] /\ f[j] = f[k] \o seqs[j]
        BY <1>3, <1>4, <3>4, <4>1
      <4>3. f[k] \in Seq(S)
        BY DEF n
      <4>4. (x \o f[k]) \o seqs[j] = x \o (f[k] \o seqs[j])
        <5>1. x \in Seq(S) /\ seqs[j] \in Seq(S)
          BY <3>2
        <5>2. Associates(x, f[k], seqs[j])
          BY <4>3, <5>1, Regrouped
        <5> QED BY ONLY <5>2 DEF Associates
      <4> QED BY <2>2, <3>1, <3>2, <4>2, <4>4
    <3> QED BY <3>3, <3>4
  <2> QED BY <2>1, <2>2
<1>6. IsFlattening(g, all)
  <2>1. g = [i \in 1..(n + 1) |-> g[i]]
    BY DEF n, IsPrepended
  <2> QED BY <1>1, <1>5, <2>1 DEF IsFlattening
<1>7. g \in [1..(n + 1) -> Seq(S)]
  <2>1. ASSUME NEW i \in 1..(n + 1) PROVE g[i] \in Seq(S)
    <3>1. CASE i = 1
      BY <1>4, <3>1
    <3>2. CASE i # 1
      <4>1. PICK j \in 1..n : i = j + 1 /\ i - 1 = j
        BY <1>1, <3>2
      <4>2. f[j] \in Seq(S) /\ g[i] = x \o f[j]
        BY <1>4, <4>1 DEF n
      <4> QED BY <4>2, ConcatProperties
    <3> QED BY <3>1, <3>2
  <2>2. g = [i \in 1..(n + 1) |-> g[i]]
    BY DEF n, IsPrepended
  <2> QED BY <2>1, <2>2
<1> QED BY <1>1, <1>6, <1>7 DEF all

\* A shortest list that could not be flattened would be a sequence and another.
LEMMA FlatteningExists ==
  ASSUME NEW S
  PROVE  \A seqs \in Seq(Seq(S)) :
           \E f \in [1..Len(seqs) -> Seq(S)] : IsFlattening(f, seqs)
<1> DEFINE Has(seqs) == \E f \in [1..Len(seqs) -> Seq(S)] : IsFlattening(f, seqs)
           T == {n \in Nat : \E seqs \in Seq(Seq(S)) : Len(seqs) = n /\ ~Has(seqs)}
<1> SUFFICES ASSUME T # {} PROVE FALSE
  OBVIOUS
<1>1. PICK n \in T : \A m \in T : n <= m
  BY SmallestNumber
<1>2. PICK seqs \in Seq(Seq(S)) : Len(seqs) = n /\ ~Has(seqs)
  OBVIOUS
<1>3. CASE seqs = <<>>
  <2> DEFINE f == [i \in 1..0 |-> <<>>]
  <2>1. f \in [1..Len(seqs) -> Seq(S)] /\ IsFlattening(f, seqs)
    BY <1>3 DEF IsFlattening
  <2> QED BY <1>2, <2>1
<1>4. CASE seqs # <<>>
  <2> DEFINE x == Head(seqs)
             rest == Tail(seqs)
  <2>1. /\ x \in Seq(S) /\ rest \in Seq(Seq(S)) /\ Len(rest) = n - 1 /\ n \in Nat
        /\ seqs = <<x>> \o rest
    BY <1>2, <1>4
  <2> HIDE DEF x, rest
  <2>2. Has(rest)
    <3>1. n - 1 \notin T
      BY <1>1, <2>1
    <3>2. n - 1 \in Nat
      BY <2>1
    <3> QED BY <2>1, <3>1, <3>2
  <2>3. Has(<<x>> \o rest)
    <3>1. PICK f \in [1..Len(rest) -> Seq(S)] : IsFlattening(f, rest)
      BY <2>2
    <3> DEFINE g == [i \in 1..(Len(rest) + 1) |-> IF i = 1 THEN x ELSE x \o f[i - 1]]
    <3>3. IsPrepended(g, x, f, Len(rest))
      <4> HIDE DEF Has
      <4> DEFINE m == Len(rest)
      <4>1. m \in Nat
        BY <2>1
      <4>2. \A i \in 1..(m + 1) : g[i] = IF i = 1 THEN x ELSE x \o f[i - 1]
        OBVIOUS
      <4>3. g = [i \in 1..(m + 1) |-> g[i]]
        OBVIOUS
      <4> HIDE DEF g, m
      <4>4. ASSUME NEW j \in 1..m PROVE g[j + 1] = x \o f[j]
        <5>1. j + 1 \in 1..(m + 1) /\ j + 1 # 1 /\ (j + 1) - 1 = j
          BY <4>1
        <5> QED BY <4>2, <5>1
      <4>5. g[1] = x
        BY <4>1, <4>2
      <4> QED BY <4>3, <4>4, <4>5 DEF m, IsPrepended
    <3> HIDE DEF Has, g
    <3>2. g \in [1..Len(<<x>> \o rest) -> Seq(S)] /\ IsFlattening(g, <<x>> \o rest)
      BY <2>1, <3>1, <3>3, FlatteningFirst
    <3> QED BY <3>2 DEF Has
  <2> QED BY <1>2, <2>1, <2>3
<1> QED BY <1>3, <1>4

\* FlattenSeq is its recursive function at the last index.
LEMMA FlattenIs ==
  ASSUME NEW S, NEW seqs \in Seq(Seq(S)), seqs # <<>>,
         NEW f, IsFlattening(f, seqs)
  PROVE  FlattenSeq(seqs) = f[Len(seqs)]
<1>1. FlattenSeq(seqs) = (CHOOSE g : IsFlattening(g, seqs))[Len(seqs)]
  BY DEF FlattenSeq, IsFlattening
<1>2. IsFlattening(CHOOSE g : IsFlattening(g, seqs), seqs)
  OBVIOUS
<1>3. (CHOOSE g : IsFlattening(g, seqs)) = f
  BY <1>2, FlatteningUnique
<1> QED BY <1>1, <1>3

LEMMA FlattenEmpty == FlattenSeq(<<>>) = <<>>
BY DEF FlattenSeq

\* FlattenSeq puts the first sequence before those that it makes of the others.
LEMMA FlattenFirst ==
  ASSUME NEW S, NEW x \in Seq(S), NEW seqs \in Seq(Seq(S))
  PROVE  /\ FlattenSeq(<<x>> \o seqs) = x \o FlattenSeq(seqs)
         /\ FlattenSeq(seqs) \in Seq(S)
<1>1. PICK f \in [1..Len(seqs) -> Seq(S)] : IsFlattening(f, seqs)
  BY FlatteningExists
<1> DEFINE n == Len(seqs)
           g == [i \in 1..(n + 1) |-> IF i = 1 THEN x ELSE x \o f[i - 1]]
<1>2. IsFlattening(g, <<x>> \o seqs)
  <2>1. IsPrepended(g, x, f, n)
    BY DEF IsPrepended
  <2> HIDE DEF g
  <2> QED BY <1>1, <2>1, FlatteningFirst
<1>3. /\ <<x>> \o seqs \in Seq(Seq(S)) /\ <<x>> \o seqs # <<>>
      /\ Len(<<x>> \o seqs) = n + 1 /\ n \in Nat
  OBVIOUS
<1>4. FlattenSeq(<<x>> \o seqs) = g[n + 1]
  <2> HIDE DEF g
  <2> QED BY <1>2, <1>3, FlattenIs
<1>5. CASE seqs = <<>>
  <2>1. FlattenSeq(seqs) = <<>> /\ g[n + 1] = x
    BY <1>5, FlattenEmpty
  <2>2. x \o <<>> = x /\ <<>> \in Seq(S)
    BY ConcatEmptySeq
  <2> QED BY <1>4, <2>1, <2>2
<1>6. CASE seqs # <<>>
  <2>1. n >= 1
    BY <1>3, <1>6
  <2>2. FlattenSeq(seqs) = f[n]
    BY <1>1, <1>6, FlattenIs
  <2>3. f[n] \in Seq(S)
    BY <1>1, <1>3, <2>1
  <2>4. g[n + 1] = x \o f[n]
    BY <1>3, <2>1
  <2> QED BY <1>4, <2>2, <2>3, <2>4
<1> QED BY <1>5, <1>6

IsJoined(u, s, t) ==
  /\ Len(u) = Len(s) + Len(t)
  /\ \A i \in 1..Len(s) : u[i] = s[i]
  /\ \A i \in 1..Len(t) : u[Len(s) + i] = t[i]

\* Where the parts of a concatenation are.
LEMMA Joined ==
  ASSUME NEW S
  PROVE  \A s, t \in Seq(S) : s \o t \in Seq(S) /\ IsJoined(s \o t, s, t)
BY DEF IsJoined

\* A pair is two sequences of one.
LEMMA PairIs ==
  ASSUME NEW S, NEW x \in S, NEW y \in S
  PROVE  <<x, y>> = <<x>> \o <<y>>
<1> DEFINE t == <<x>> \o <<y>>
<1>1. <<x, y>> \in Seq(S) /\ Len(<<x, y>>) = 2 /\ <<x, y>>[1] = x /\ <<x, y>>[2] = y
  OBVIOUS
<1>2. t \in Seq(S) /\ Len(t) = 2 /\ t[1] = x /\ t[2] = y
  <2>1. /\ <<x>> \in Seq(S) /\ Len(<<x>>) = 1 /\ <<x>>[1] = x
        /\ <<y>> \in Seq(S) /\ Len(<<y>>) = 1 /\ <<y>>[1] = y
    OBVIOUS
  <2> QED BY <2>1, ConcatProperties
<1> HIDE DEF t
<1>3. \A i \in 1..2 : <<x, y>>[i] = t[i]
  BY <1>1, <1>2
<1>4. <<x, y>> = t
  BY <1>1, <1>2, <1>3, SeqEqual
<1> QED BY <1>4 DEF t

\* A prefix is no longer, and agrees at each of its places.
LEMMA PrefixIs ==
  ASSUME NEW S, NEW s \in Seq(S), NEW t \in Seq(S)
  PROVE  IsPrefix(s, t) <=> Len(s) <= Len(t) /\ \A i \in 1..Len(s) : s[i] = t[i]
<1>1. Len(s) \in Nat /\ Len(t) \in Nat
  OBVIOUS
<1>2. ASSUME Len(s) <= Len(t)
      PROVE  SubSeq(s, 1, Len(s)) = SubSeq(t, 1, Len(s)) <=> \A i \in 1..Len(s) : s[i] = t[i]
  <2>1. SubSeq(s, 1, Len(s)) = s
    OBVIOUS
  <2> DEFINE u == SubSeq(t, 1, Len(s))
  <2>2. u \in Seq(S) /\ Len(u) = Len(s) /\ \A i \in 1..Len(s) : u[i] = t[i]
    BY <1>1, <1>2
  <2> HIDE DEF u
  <2>3. (\A i \in 1..Len(s) : s[i] = u[i]) => s = u
    BY <2>2, SeqEqual
  <2> QED BY <2>1, <2>2, <2>3 DEF u
<1> QED BY <1>2 DEF IsPrefix

\* Past the first part of a sequence, a prefix is one of the rest.
LEMMA PrefixRest ==
  ASSUME NEW S, NEW a \in Seq(S), NEW b \in Seq(S), NEW c \in Seq(S), NEW d \in Seq(S),
         IsPrefix(a \o b, c \o d), Len(c) <= Len(a)
  PROVE  /\ SubSeq(a, Len(c) + 1, Len(a)) \in Seq(S)
         /\ IsPrefix(SubSeq(a, Len(c) + 1, Len(a)) \o b, d)
         /\ \A i \in 1..Len(c) : a[i] = c[i]
<1> DEFINE r == SubSeq(a, Len(c) + 1, Len(a))
           la == Len(a)
           lb == Len(b)
           lc == Len(c)
           ld == Len(d)
<1>1. la \in Nat /\ lb \in Nat /\ lc \in Nat /\ ld \in Nat /\ lc <= la
  OBVIOUS
<1>2. /\ r \in Seq(S) /\ Len(r) = la - lc /\ \A i \in 1..(la - lc) : r[i] = a[i + lc]
  OBVIOUS
<1>3. /\ a \o b \in Seq(S) /\ Len(a \o b) = la + lb
      /\ \A i \in 1..la : (a \o b)[i] = a[i]
      /\ \A i \in 1..lb : (a \o b)[la + i] = b[i]
  OBVIOUS
<1>4. /\ c \o d \in Seq(S) /\ Len(c \o d) = lc + ld
      /\ \A i \in 1..lc : (c \o d)[i] = c[i]
      /\ \A i \in 1..ld : (c \o d)[lc + i] = d[i]
  OBVIOUS
<1>5. la + lb <= lc + ld /\ \A i \in 1..(la + lb) : (a \o b)[i] = (c \o d)[i]
  <2> DEFINE ab == a \o b
             cd == c \o d
  <2>1. ab \in Seq(S) /\ cd \in Seq(S) /\ IsPrefix(ab, cd)
        /\ Len(ab) = la + lb /\ Len(cd) = lc + ld
    BY <1>3, <1>4
  <2> HIDE DEF ab, cd, la, lb, lc, ld
  <2>2. Len(ab) <= Len(cd) /\ \A i \in 1..Len(ab) : ab[i] = cd[i]
    BY <2>1, PrefixIs
  <2>3. Len(ab) <= Len(cd) /\ \A i \in 1..(la + lb) : ab[i] = cd[i]
    BY <2>1, <2>2
  <2> QED BY <2>1, <2>3 DEF ab, cd
<1>6. /\ r \o b \in Seq(S) /\ Len(r \o b) = (la - lc) + lb
      /\ \A i \in 1..(la - lc) : (r \o b)[i] = r[i]
      /\ \A i \in 1..lb : (r \o b)[(la - lc) + i] = b[i]
  <2> HIDE DEF r
  <2>1. b \in Seq(S) /\ Len(b) = lb /\ Len(r) = la - lc /\ r \in Seq(S)
    BY <1>2
  <2> HIDE DEF la, lb, lc, ld
  <2>2. /\ r \o b \in Seq(S) /\ Len(r \o b) = Len(r) + Len(b)
        /\ \A i \in 1..Len(r) : (r \o b)[i] = r[i]
        /\ \A i \in 1..Len(b) : (r \o b)[Len(r) + i] = b[i]
    <3>1. r \o b \in Seq(S) /\ IsJoined(r \o b, r, b)
      BY <2>1, Joined, Zenon
    <3> QED BY ONLY <3>1 DEF IsJoined
  <2> QED BY ONLY <2>1, <2>2
<1> HIDE DEF r, la, lb, lc, ld
<1>7. ASSUME NEW i \in 1..((la - lc) + lb)
      PROVE  (r \o b)[i] = d[i]
  <2>1. i \in 1..ld /\ lc + i \in 1..(la + lb)
    BY <1>1, <1>5
  <2>2. d[i] = (a \o b)[lc + i]
    BY <1>4, <1>5, <2>1
  <2>3. CASE i \in 1..(la - lc)
    <3>1. lc + i \in 1..la /\ i + lc = lc + i
      BY <1>1, <2>3
    <3> QED BY <1>2, <1>3, <1>6, <2>2, <2>3, <3>1
  <2>4. CASE i \notin 1..(la - lc)
    <3>1. PICK j \in 1..lb : i = (la - lc) + j /\ lc + i = la + j
      <4>1. i - (la - lc) \in 1..lb
        BY <1>1, <2>4
      <4> QED BY <1>1, <4>1
    <3> QED BY <1>3, <1>6, <2>2, <3>1
  <2> QED BY <2>3, <2>4
<1>8. IsPrefix(r \o b, d)
  <2>1. Len(d) = ld /\ (la - lc) + lb <= ld
    BY <1>1, <1>5 DEF ld
  <2> QED BY <1>6, <1>7, <2>1, PrefixIs
<1>9. \A i \in 1..lc : a[i] = c[i]
  <2> TAKE i \in 1..lc
  <2>1. i \in 1..la /\ i \in 1..(la + lb)
    BY <1>1
  <2> QED BY <1>3, <1>4, <1>5, <2>1
<1> QED BY <1>2, <1>8, <1>9 DEF r, lc

\* What a prefix begins with is a prefix.
LEMMA PrefixOfLeft ==
  ASSUME NEW S, NEW a \in Seq(S), NEW b \in Seq(S), NEW t \in Seq(S), IsPrefix(a \o b, t)
  PROVE  IsPrefix(a, t)
<1> DEFINE ab == a \o b
<1>1. /\ ab \in Seq(S) /\ Len(ab) = Len(a) + Len(b)
      /\ \A i \in 1..Len(a) : ab[i] = a[i]
      /\ Len(a) \in Nat /\ Len(b) \in Nat /\ Len(t) \in Nat
  <2>1. ab \in Seq(S) /\ IsJoined(ab, a, b)
    BY Joined, Zenon
  <2> HIDE DEF ab
  <2> QED BY <2>1 DEF IsJoined
<1>2. IsPrefix(ab, t)
  OBVIOUS
<1> HIDE DEF ab
<1>3. Len(ab) <= Len(t) /\ \A i \in 1..Len(ab) : ab[i] = t[i]
  BY <1>1, <1>2, PrefixIs
<1>4. \A i \in 1..Len(a) : i \in 1..Len(ab)
  BY <1>1
<1>5. Len(a) <= Len(t) /\ \A i \in 1..Len(a) : a[i] = t[i]
  BY <1>1, <1>3, <1>4
<1> QED BY <1>5, PrefixIs

=============================================================================
