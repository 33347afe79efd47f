------------------------ MODULE Subsequences_proofs ------------------------
(***************************************************************************)
(* What Keeping keeps: the elements at the positions it is given, each     *)
(* once and in their order.                                                *)
(***************************************************************************)
EXTENDS Subsequences, FiniteSetTheorems, SequenceTheorems, WellFoundedInduction, TLAPS

\* Every nonempty set of naturals has a least element.
LEMMA NatLeast ==
  ASSUME NEW S \in SUBSET Nat, S # {}
  PROVE  \E m \in S : \A x \in S : m <= x
<1> DEFINE R == OpToRel(<, Nat)
<1>1. IsWellFoundedOn(R, Nat)
  BY NatLessThanWellFounded
<1>2. PICK m \in S : \A x \in S : <<x, m>> \notin R
  <2> HIDE DEF R
  <2> QED BY <1>1, WFMin
<1>3. \A x \in S : m <= x
  <2> SUFFICES ASSUME NEW x \in S, x < m PROVE FALSE
    OBVIOUS
  <2>1. <<x, m>> \in R
    BY DEF OpToRel
  <2> QED BY <2>1, <1>2
<1> QED BY <1>3

\* And one of a set of numbers up to n, a greatest.
LEMMA NatGreatest ==
  ASSUME NEW n \in Nat, NEW S \in SUBSET (0 .. n), S # {}
  PROVE  \E m \in S : \A x \in S : x <= m
<1> DEFINE T == {n - x : x \in S}
<1>1. T \in SUBSET Nat /\ T # {}
  <2>1. \A x \in S : n - x \in Nat
    OBVIOUS
  <2>2. T \subseteq Nat
    BY <2>1
  <2>3. PICK x : x \in S
    OBVIOUS
  <2>4. n - x \in T
    BY <2>3
  <2> QED BY <2>2, <2>4
<1>2. PICK t \in T : \A x \in T : t <= x
  <2> HIDE DEF T
  <2> QED BY <1>1, NatLeast
<1>3. PICK m \in S : t = n - m
  BY <1>2
<1>4. ASSUME NEW x \in S PROVE x <= m
  <2>1. t <= n - x
    BY <1>2
  <2> QED BY <2>1, <1>3
<1> QED BY <1>4

\* The members of I up to i.
UpTo(I, i) == {j \in I : j <= i}

LEMMA UpToIn ==
  ASSUME NEW n \in Nat, NEW I \in SUBSET (1 .. n), NEW i \in Int, NEW j
  PROVE  /\ UpTo(I, i) \subseteq I
         /\ j \in UpTo(I, i) <=> j \in I /\ j \in 1 .. n /\ j <= i
BY DEF UpTo

\* Counting the members of a set of positions from the first to the last.
LEMMA UpToCounts ==
  ASSUME NEW n \in Nat, NEW I \in SUBSET (1 .. n)
  PROVE  /\ IsFiniteSet(I) /\ Cardinality(I) \in Nat
         /\ \A i : IsFiniteSet(UpTo(I, i)) /\ Cardinality(UpTo(I, i)) \in Nat
         /\ Cardinality(UpTo(I, 0)) = 0 /\ UpTo(I, n) = I
         /\ \A i \in 1 .. n : Cardinality(UpTo(I, i)) =
              IF i \in I THEN Cardinality(UpTo(I, i - 1)) + 1
                         ELSE Cardinality(UpTo(I, i - 1))
<1>1. IsFiniteSet(1 .. n)
  BY FS_Interval
<1>2. IsFiniteSet(I)
  BY <1>1, FS_Subset
<1>3. \A i : IsFiniteSet(UpTo(I, i))
  <2> TAKE i
  <2>1. UpTo(I, i) \subseteq I
    BY DEF UpTo
  <2> QED BY <1>2, <2>1, FS_Subset
<1>4. Cardinality(UpTo(I, 0)) = 0 /\ UpTo(I, n) = I
  <2>1. ASSUME NEW j PROVE j \notin UpTo(I, 0) /\ (j \in UpTo(I, n) <=> j \in I)
    <3>1. j \in UpTo(I, 0) <=> j \in I /\ j \in 1 .. n /\ j <= 0
      BY UpToIn
    <3>2. j \in UpTo(I, n) <=> j \in I /\ j \in 1 .. n /\ j <= n
      BY UpToIn
    <3>3. j \in 1 .. n => ~(j <= 0) /\ j <= n
      OBVIOUS
    <3>4. j \in I => j \in 1 .. n
      OBVIOUS
    <3> QED BY <3>1, <3>2, <3>3, <3>4
  <2>2. UpTo(I, 0) = {} /\ UpTo(I, n) = I
    BY <2>1
  <2> QED BY <2>2, FS_EmptySet
<1>5. ASSUME NEW i \in 1 .. n
      PROVE  Cardinality(UpTo(I, i)) =
               IF i \in I THEN Cardinality(UpTo(I, i - 1)) + 1
                          ELSE Cardinality(UpTo(I, i - 1))
  <2>1. CASE i \in I
    <3>1. ASSUME NEW j
          PROVE  /\ j \in UpTo(I, i) <=> j \in UpTo(I, i - 1) \/ j = i
                 /\ i \notin UpTo(I, i - 1)
      <4>1. j \in UpTo(I, i) <=> j \in I /\ j \in 1 .. n /\ j <= i
        BY UpToIn
      <4>2. j \in UpTo(I, i - 1) <=> j \in I /\ j \in 1 .. n /\ j <= i - 1
        BY UpToIn
      <4>3. i \in UpTo(I, i - 1) <=> i \in I /\ i \in 1 .. n /\ i <= i - 1
        BY UpToIn
      <4> QED BY <2>1, <4>1, <4>2, <4>3
    <3>2. UpTo(I, i) = UpTo(I, i - 1) \cup {i} /\ i \notin UpTo(I, i - 1)
      BY <3>1
    <3> QED BY <1>3, <2>1, <3>2, FS_AddElement
  <2>2. CASE i \notin I
    <3>1. ASSUME NEW j
          PROVE  j \in UpTo(I, i) <=> j \in UpTo(I, i - 1)
      <4>1. j \in UpTo(I, i) <=> j \in I /\ j \in 1 .. n /\ j <= i
        BY UpToIn
      <4>2. j \in UpTo(I, i - 1) <=> j \in I /\ j \in 1 .. n /\ j <= i - 1
        BY UpToIn
      <4> QED BY <2>2, <4>1, <4>2
    <3>2. UpTo(I, i) = UpTo(I, i - 1)
      BY <3>1
    <3> QED BY <2>2, <3>2
  <2> QED BY <2>1, <2>2
<1> QED BY <1>2, <1>3, <1>4, <1>5, FS_CardinalityType

\* The n-th member is there for every n up to the size of the set.
LEMMA NthThere ==
  ASSUME NEW n \in Nat, NEW I \in SUBSET (1 .. n), NEW k \in 1 .. Cardinality(I)
  PROVE  Nth(I, k) \in I /\ Cardinality(UpTo(I, Nth(I, k))) = k
<1> DEFINE c(i) == Cardinality(UpTo(I, i))
           T == {i \in 0 .. n : c(i) >= k}
<1>1. /\ \A i : c(i) \in Nat
      /\ c(0) = 0 /\ c(n) = Cardinality(I) /\ Cardinality(I) \in Nat
      /\ \A i \in 1 .. n : c(i) = IF i \in I THEN c(i - 1) + 1 ELSE c(i - 1)
  <2>1. c(n) = Cardinality(I)
    BY UpToCounts
  <2> HIDE DEF T
  <2> QED BY <2>1, UpToCounts
<1> HIDE DEF c
<1>2. T \in SUBSET Nat /\ n \in T
  BY <1>1
<1>3. PICK i \in T : \A x \in T : i <= x
  BY <1>2, NatLeast
<1>4. i \in 1 .. n
  BY <1>1, <1>3
<1>5. c(i - 1) < k
  BY <1>1, <1>3, <1>4
<1>6. i \in I /\ c(i) = k
  BY <1>1, <1>3, <1>4, <1>5
<1>7. \E x \in I : Cardinality({j \in I : j <= x}) = k
  BY <1>6 DEF c, UpTo
<1>8. Nth(I, k) \in I /\ Cardinality({j \in I : j <= Nth(I, k)}) = k
  BY <1>7 DEF Nth
<1> QED BY <1>8 DEF UpTo

\* A later member comes after an earlier one, and each is some n-th one.
LEMMA NthOrder ==
  ASSUME NEW n \in Nat, NEW I \in SUBSET (1 .. n)
  PROVE  /\ \A k, l \in 1 .. Cardinality(I) : k < l => Nth(I, k) < Nth(I, l)
         /\ \A i \in I : /\ Cardinality(UpTo(I, i)) \in 1 .. Cardinality(I)
                         /\ Nth(I, Cardinality(UpTo(I, i))) = i
<1> DEFINE c(i) == Cardinality(UpTo(I, i))
<1>1. /\ \A i : IsFiniteSet(UpTo(I, i)) /\ c(i) \in Nat
      /\ IsFiniteSet(I) /\ Cardinality(I) \in Nat
      /\ \A i \in 1 .. n : c(i) = IF i \in I THEN c(i - 1) + 1 ELSE c(i - 1)
  BY UpToCounts
<1>2. ASSUME NEW i \in Int, NEW j \in Int, i <= j
      PROVE  c(i) <= c(j)
  <2>1. ASSUME NEW x \in UpTo(I, i) PROVE x \in UpTo(I, j)
    <3>1. x \in UpTo(I, i) <=> x \in I /\ x \in 1 .. n /\ x <= i
      BY UpToIn
    <3>2. x \in UpTo(I, j) <=> x \in I /\ x \in 1 .. n /\ x <= j
      BY UpToIn
    <3> QED BY <1>2, <2>1, <3>1, <3>2
  <2> QED BY <1>1, <2>1, FS_Subset
<1>3. ASSUME NEW i \in I, NEW j \in I, i < j
      PROVE  c(i) < c(j)
  <2>1. j \in 1 .. n /\ i \in 1 .. n /\ i <= j - 1
    BY <1>3
  <2>2. c(i) <= c(j - 1) /\ c(j) = c(j - 1) + 1
    BY <1>1, <1>2, <2>1
  <2> HIDE DEF c
  <2> QED BY <1>1, <2>2
<1>4. ASSUME NEW k \in 1 .. Cardinality(I), NEW l \in 1 .. Cardinality(I), k < l
      PROVE  Nth(I, k) < Nth(I, l)
  <2>1. Nth(I, k) \in I /\ Nth(I, l) \in I /\ c(Nth(I, k)) = k /\ c(Nth(I, l)) = l
    BY NthThere
  <2> HIDE DEF c
  <2>2. Nth(I, k) \in 1 .. n /\ Nth(I, l) \in 1 .. n
    BY <2>1
  <2>3. ~(Nth(I, l) <= Nth(I, k))
    BY <1>2, <1>4, <2>1, <2>2
  <2> QED BY <2>2, <2>3
<1>5. ASSUME NEW i \in I
      PROVE  c(i) \in 1 .. Cardinality(I) /\ Nth(I, c(i)) = i
  <2>1. i \in 1 .. n
    BY <1>5
  <2>2. c(i) >= 1
    BY <1>1, <2>1
  <2>3. c(i) <= Cardinality(I)
    <3>1. UpTo(I, i) \subseteq I
      BY DEF UpTo
    <3> QED BY <1>1, <3>1, FS_Subset
  <2>4. c(i) \in 1 .. Cardinality(I)
    BY <1>1, <2>2, <2>3
  <2>5. Nth(I, c(i)) \in I /\ c(Nth(I, c(i))) = c(i)
    BY <2>4, NthThere
  <2> HIDE DEF c
  <2>6. Nth(I, c(i)) \in 1 .. n
    BY <2>5
  <2>7. c(i) \in Nat
    BY <1>1 DEF c
  <2>8. ~(i < Nth(I, c(i))) /\ ~(Nth(I, c(i)) < i)
    <3> DEFINE m == Nth(I, c(i))
    <3>1. m \in I /\ c(m) = c(i)
      BY <2>5
    <3> HIDE DEF m
    <3>2. ~(i < m) /\ ~(m < i)
      BY <1>3, <2>7, <3>1
    <3> QED BY <3>2 DEF m
  <2>9. Nth(I, c(i)) = i
    <3> DEFINE m == Nth(I, c(i))
    <3>1. m \in Int /\ i \in Int /\ ~(i < m) /\ ~(m < i)
      BY <2>1, <2>6, <2>8
    <3> HIDE DEF m
    <3>2. m = i
      BY <3>1
    <3> QED BY <3>2 DEF m
  <2> QED BY <2>4, <2>9
<1> QED BY <1>4, <1>5

\* Keeping is a sequence of the elements at the positions kept, all of them and
\* no other.
LEMMA KeepingIs ==
  ASSUME NEW S, NEW s \in Seq(S), NEW I \in SUBSET (DOMAIN s),
         NEW T, \A i \in I : s[i] \in T
  PROVE  /\ Keeping(s, I) \in Seq(T)
         /\ Cardinality(I) \in Nat /\ Cardinality(I) <= Len(s)
         /\ Len(Keeping(s, I)) = Cardinality(I)
         /\ DOMAIN Keeping(s, I) = 1 .. Cardinality(I)
         /\ \A k \in 1 .. Cardinality(I) : Nth(I, k) \in I /\ Keeping(s, I)[k] = s[Nth(I, k)]
         /\ \A k, l \in 1 .. Cardinality(I) : k < l => Nth(I, k) < Nth(I, l)
         /\ \A i \in I : \E k \in 1 .. Cardinality(I) : Nth(I, k) = i
<1>1. DOMAIN s = 1 .. Len(s) /\ Len(s) \in Nat /\ I \in SUBSET (1 .. Len(s))
  BY LenProperties
<1>2. Cardinality(I) \in Nat
  BY <1>1, UpToCounts
<1>3. \A k \in 1 .. Cardinality(I) : Nth(I, k) \in I
  BY <1>1, NthThere
<1>4. Keeping(s, I) \in [1 .. Cardinality(I) -> T]
  BY <1>3 DEF Keeping
<1>5. /\ Keeping(s, I) \in Seq(T) /\ Len(Keeping(s, I)) = Cardinality(I)
      /\ DOMAIN Keeping(s, I) = 1 .. Cardinality(I)
  BY <1>2, <1>4
<1>6. Cardinality(I) <= Len(s)
  <2>1. IsFiniteSet(1 .. Len(s)) /\ Cardinality(1 .. Len(s)) = Len(s)
    BY <1>1, FS_Interval
  <2> QED BY <1>1, <2>1, FS_Subset
<1>7. \A k \in 1 .. Cardinality(I) : Keeping(s, I)[k] = s[Nth(I, k)]
  BY DEF Keeping
<1> QED BY <1>1, <1>2, <1>3, <1>5, <1>6, <1>7, NthOrder

\* Whoever keeps all keeps the sequence.
LEMMA KeepingAll ==
  ASSUME NEW S, NEW s \in Seq(S)
  PROVE  Keeping(s, DOMAIN s) = s
<1> DEFINE n == Len(s)
           I == DOMAIN s
<1>1. I = 1 .. n /\ n \in Nat /\ s \in [1 .. n -> S]
  BY LenProperties
<1>2. Cardinality(I) = n
  BY <1>1, FS_Interval
<1>3. ASSUME NEW i \in 1 .. n
      PROVE  Nth(I, i) = i
  <2>1. UpTo(I, i) = 1 .. i
    BY <1>1 DEF UpTo
  <2>2. Cardinality(UpTo(I, i)) = i
    BY <2>1, FS_Interval
  <2>3. I \in SUBSET (1 .. n) /\ i \in I /\ n \in Nat
    BY <1>1
  <2> HIDE DEF I, n
  <2>4. Nth(I, Cardinality(UpTo(I, i))) = i
    BY <2>3, NthOrder
  <2> QED BY <2>2, <2>4
<1>4. Keeping(s, I) = [k \in 1 .. n |-> s[k]]
  BY <1>2, <1>3 DEF Keeping
<1> QED BY <1>1, <1>4
\* What is kept of one element more.
LEMMA KeepingAppend ==
  ASSUME NEW S, NEW s \in Seq(S), NEW e \in S, NEW I \in SUBSET (DOMAIN s)
  PROVE  /\ Keeping(Append(s, e), I) = Keeping(s, I)
         /\ Keeping(Append(s, e), I \cup {Len(s) + 1}) = Append(Keeping(s, I), e)
<1> DEFINE n == Len(s)
           r == Append(s, e)
           J == I \cup {n + 1}
           c == Cardinality(I)
<1>1. /\ n \in Nat /\ DOMAIN s = 1 .. n /\ I \in SUBSET (1 .. n)
      /\ r[n + 1] = e /\ \A i \in 1 .. n : r[i] = s[i]
  BY LenProperties, AppendProperties
<1>2. /\ c \in Nat /\ Keeping(s, I) \in Seq(S) /\ Len(Keeping(s, I)) = c
      /\ \A k \in 1 .. c : Nth(I, k) \in I /\ Keeping(s, I)[k] = s[Nth(I, k)]
  <2>1. \A i \in I : s[i] \in S
    BY <1>1, ElementOfSeq
  <2> QED BY <2>1, KeepingIs
<1>3. IsFiniteSet(I) /\ n + 1 \notin I
  BY <1>1, UpToCounts
<1>4. Cardinality(J) = c + 1
  BY <1>3, FS_AddElement
<1> HIDE DEF r, n, c
<1>5. J \in SUBSET (1 .. (n + 1)) /\ n + 1 \in Nat
  BY <1>1
<1>6. \A i \in I : UpTo(J, i) = UpTo(I, i)
  BY <1>1 DEF UpTo
<1>7. ASSUME NEW k \in 1 .. c PROVE Nth(J, k) = Nth(I, k)
  <2>1. Nth(I, k) \in I /\ Cardinality(UpTo(I, Nth(I, k))) = k
    BY <1>1, NthThere DEF c
  <2>2. Nth(I, k) \in J
    BY <2>1
  <2> HIDE DEF J
  <2>3. Nth(J, Cardinality(UpTo(J, Nth(I, k)))) = Nth(I, k)
    BY <1>5, <2>2, NthOrder
  <2> QED BY <1>6, <2>1, <2>3
<1>8. Nth(J, c + 1) = n + 1
  <2>1. UpTo(J, n + 1) = J
    BY <1>1 DEF UpTo
  <2>2. n + 1 \in J
    OBVIOUS
  <2> HIDE DEF J
  <2>3. Nth(J, Cardinality(UpTo(J, n + 1))) = n + 1
    BY <1>5, <2>2, NthOrder
  <2> QED BY <1>4, <2>1, <2>3
<1>9. Keeping(r, I) = Keeping(s, I)
  <2>1. \A k \in 1 .. c : r[Nth(I, k)] = s[Nth(I, k)]
    BY <1>1, <1>2
  <2> QED BY <2>1 DEF Keeping, c
<1>10. Keeping(r, J) = Append(Keeping(s, I), e)
  <2> DEFINE t == Append(Keeping(s, I), e)
  <2>1. t \in Seq(S) /\ Len(t) = c + 1 /\ t[c + 1] = e /\ \A k \in 1 .. c : t[k] = Keeping(s, I)[k]
    BY <1>2, AppendProperties
  <2>2. DOMAIN t = 1 .. (c + 1) /\ t = [k \in 1 .. (c + 1) |-> t[k]]
    BY <2>1, LenProperties
  <2> HIDE DEF t, J
  <2>3. ASSUME NEW k \in 1 .. (c + 1) PROVE t[k] = r[Nth(J, k)]
    <3>1. CASE k = c + 1
      BY <1>1, <1>8, <2>1, <3>1
    <3>2. CASE k # c + 1
      <4>1. k \in 1 .. c
        BY <1>2, <3>2
      <4> QED BY <1>1, <1>2, <1>7, <2>1, <4>1
    <3> QED BY <3>1, <3>2
  <2>4. Keeping(r, J) = [k \in 1 .. (c + 1) |-> r[Nth(J, k)]]
    BY <1>4 DEF Keeping
  <2> QED BY <2>2, <2>3, <2>4 DEF t
<1> QED BY <1>9, <1>10 DEF r, n

=============================================================================
