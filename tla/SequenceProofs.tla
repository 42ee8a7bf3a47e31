----------------------------- MODULE SequenceProofs -----------------------------
(***************************************************************************)
(* What the proofs about lists share: positions taken in their order       *)
(* (Positions), and sequences of sequences flattened (SequencesExt).       *)
(***************************************************************************)
EXTENDS Positions, SequencesExt, FiniteSetTheorems, SequenceTheorems, WellFoundedInduction, TLAPS

-----------------------------------------------------------------------------
(* Positions in order.                                                     *)

(* Induction over numbers, as the least number of a set.                   *)
LEMMA Least ==
  ASSUME NEW T, T \subseteq Nat, T # {}
  PROVE  \E n \in T : \A k \in T : ~(k < n)
<1>1. IsWellFoundedOn(OpToRel(<, Nat), Nat)
  BY NatLessThanWellFounded
<1>2. PICK n \in T : \A k \in T : ~(<<k, n>> \in OpToRel(<, Nat))
  BY <1>1, WFMin
<1>3. \A k \in T : ~(k < n)
  BY <1>2 DEF OpToRel
<1> QED BY <1>3

LEMMA Below ==
  ASSUME NEW n \in Nat, NEW S, S \subseteq 1..n
  PROVE  IsFiniteSet(S) /\ Cardinality(S) \in Nat
<1>1. IsFiniteSet(1..n)
  BY FS_Interval
<1> QED BY <1>1, FS_Subset, FS_CardinalityType

(* A later position comes last.                                            *)
LEMMA OneMore ==
  ASSUME NEW n \in Nat, NEW S, S \subseteq 1..n
  PROVE  /\ Cardinality(S \union {n + 1}) = Cardinality(S) + 1
         /\ InOrder(S \union {n + 1}) =
              [i \in 1..Cardinality(S) + 1 |-> IF i = Cardinality(S) + 1 THEN n + 1 ELSE InOrder(S)[i]]
<1> DEFINE U == S \union {n + 1}
           Rank(A, j) == Cardinality({k \in A : k < j})
<1>0. \A k \in S : k \in Nat /\ k < n + 1
  OBVIOUS
<1>1. IsFiniteSet(S) /\ Cardinality(S) \in Nat
  BY Below
<1>2. Cardinality(U) = Cardinality(S) + 1
  BY <1>0, <1>1, FS_AddElement
<1>3. Rank(U, n + 1) = Cardinality(S)
  <2>1. \A k \in U : k < n + 1 <=> k # n + 1
    BY <1>0
  <2>2. \A k \in U : k # n + 1 <=> k \in S
    BY <1>0
  <2>3. {k \in U : k < n + 1} = S
    BY <2>1, <2>2
  <2> QED BY <2>3
<1>4. ASSUME NEW j \in S PROVE Rank(U, j) = Rank(S, j) /\ Rank(S, j) \in Nat /\ Rank(S, j) < Cardinality(S)
  <2>1. {k \in U : k < j} = {k \in S : k < j}
    BY <1>4, <1>0
  <2>2. {k \in S : k < j} \subseteq S \ {j}
    BY <1>4, <1>0
  <2>3. IsFiniteSet(S \ {j}) /\ Cardinality(S \ {j}) = Cardinality(S) - 1
    BY <1>1, <1>4, FS_RemoveElement
  <2>4. Rank(S, j) \in Nat /\ Rank(S, j) <= Cardinality(S \ {j})
    BY <2>2, <2>3, FS_Subset, FS_CardinalityType
  <2> QED BY <2>1, <2>3, <2>4, <1>1
<1>5. InOrder(U) = [i \in 1..Cardinality(U) |-> CHOOSE j \in U : Rank(U, j) = i - 1]
  BY DEF InOrder
<1>6. \A i \in 1..Cardinality(S) : InOrder(S)[i] = CHOOSE j \in S : Rank(S, j) = i - 1
  BY DEF InOrder
<1>7. \A j : j \in U <=> j \in S \/ j = n + 1
  OBVIOUS
<1> HIDE DEF Rank, U
<1>8. ASSUME NEW i \in 1..Cardinality(S) + 1
      PROVE (CHOOSE j \in U : Rank(U, j) = i - 1) = IF i = Cardinality(S) + 1 THEN n + 1 ELSE InOrder(S)[i]
  <2>1. CASE i = Cardinality(S) + 1
    <3>1. i - 1 = Cardinality(S)
      BY <1>1, <2>1
    <3>2. \A j \in S : Rank(U, j) # i - 1
      BY <1>1, <1>4, <3>1
    <3>3. n + 1 \in U /\ Rank(U, n + 1) = i - 1
      BY <1>3, <1>7, <3>1
    <3> QED BY <3>2, <3>3, <1>7, <2>1
  <2>2. CASE i # Cardinality(S) + 1
    <3>1. i \in 1..Cardinality(S)
      BY <2>2, <1>1
    <3>2. Cardinality(S) # i - 1
      BY <3>1, <1>1
    <3>3. \A j : (j \in U /\ Rank(U, j) = i - 1) <=> (j \in S /\ Rank(S, j) = i - 1)
      BY <1>3, <1>4, <1>7, <3>2
    <3> QED BY <3>3, <1>6, <3>1, <2>2
  <2> QED BY <2>1, <2>2
<1>9. InOrder(U) = [i \in 1..Cardinality(S) + 1 |-> IF i = Cardinality(S) + 1 THEN n + 1 ELSE InOrder(S)[i]]
  BY <1>2, <1>5, <1>8
<1> QED BY <1>2, <1>9 DEF U

\* The order lists every position once, from the least to the greatest.
Enumerates(S) ==
  /\ \A i \in 1..Cardinality(S) : InOrder(S)[i] \in S
  /\ \A i, j \in 1..Cardinality(S) : i < j => InOrder(S)[i] < InOrder(S)[j]
  /\ \A k \in S : \E i \in 1..Cardinality(S) : InOrder(S)[i] = k

LEMMA EnumeratesOneMore ==
  ASSUME NEW n \in Nat, NEW S, S \subseteq 1..n, Enumerates(S)
  PROVE  Enumerates(S \union {n + 1})
<1> DEFINE U == S \union {n + 1}
           c == Cardinality(S)
<1>1. /\ Cardinality(U) = c + 1
      /\ InOrder(U) = [i \in 1..c + 1 |-> IF i = c + 1 THEN n + 1 ELSE InOrder(S)[i]]
  BY OneMore
<1>2. c \in Nat
  BY Below
<1>3. \A k \in S : k \in 1..n
  OBVIOUS
<1>4. n + 1 \in U /\ \A k \in U : k \in S \/ k = n + 1
  OBVIOUS
<1>5. \A k \in S : k \in U
  OBVIOUS
<1> HIDE DEF U, c
<1>6. InOrder(U)[c + 1] = n + 1 /\ \A i \in 1..c : InOrder(U)[i] = InOrder(S)[i] /\ InOrder(S)[i] \in S
  BY <1>1, <1>2 DEF Enumerates, c
<1>7. \A i \in 1..c + 1 : i = c + 1 \/ i \in 1..c
  BY <1>2
<1>8. \A i \in 1..c + 1 : InOrder(U)[i] \in U
  BY <1>4, <1>5, <1>6, <1>7
<1>9. ASSUME NEW i \in 1..c + 1, NEW j \in 1..c + 1, i < j
      PROVE  InOrder(U)[i] < InOrder(U)[j]
  <2>1. i \in 1..c
    BY <1>2, <1>9
  <2>2. CASE j = c + 1
    <3>1. InOrder(U)[i] \in 1..n /\ InOrder(U)[j] = n + 1
      BY <1>3, <1>6, <2>1, <2>2
    <3> QED BY ONLY <3>1, n \in Nat
  <2>3. CASE j \in 1..c
    BY <1>6, <1>9, <2>1, <2>3 DEF Enumerates, c
  <2> QED BY <1>7, <2>2, <2>3
<1>10. ASSUME NEW k \in U PROVE \E i \in 1..c + 1 : InOrder(U)[i] = k
  <2>1. CASE k = n + 1
    BY <1>2, <1>6, <2>1
  <2>2. CASE k \in S
    <3>1. PICK i \in 1..c : InOrder(S)[i] = k
      BY <2>2 DEF Enumerates, c
    <3> QED BY <3>1, <1>2, <1>6
  <2> QED BY <1>4, <2>1, <2>2
<1>11. Enumerates(U)
  BY <1>1, <1>8, <1>9, <1>10 DEF Enumerates
<1> QED BY <1>11 DEF U

LEMMA OrderEnumerates ==
  ASSUME NEW n \in Nat, NEW S, S \subseteq 1..n
  PROVE  Enumerates(S)
<1> DEFINE T == {m \in Nat : \E A : A \subseteq 1..m /\ ~Enumerates(A)}
<1> SUFFICES ASSUME T # {} PROVE FALSE
  OBVIOUS
<1>1. PICK m \in T : \A k \in T : ~(k < m)
  BY Least
<1>2. m \in Nat /\ \A k \in Nat : k < m => \A A : A \subseteq 1..k => Enumerates(A)
  BY <1>1
<1>3. PICK A : A \subseteq 1..m /\ ~Enumerates(A)
  BY <1>1
<1>4. CASE m \in A
  <2> DEFINE B == A \ {m}
  <2>1. m - 1 \in Nat /\ m - 1 < m /\ B \subseteq 1..m - 1 /\ A = B \union {(m - 1) + 1}
    BY <1>2, <1>3, <1>4
  <2>2. Enumerates(B)
    BY <2>1, <1>2
  <2> HIDE DEF B
  <2>3. Enumerates(B \union {(m - 1) + 1})
    BY ONLY <2>1, <2>2, EnumeratesOneMore, m - 1 \in Nat, B \subseteq 1..m - 1
  <2> QED BY <1>3, <2>1, <2>3
<1>5. CASE m \notin A
  <2>1. m # 0
    <3>1. SUFFICES ASSUME m = 0 PROVE FALSE
      OBVIOUS
    <3>2. A = {}
      BY <3>1, <1>3
    <3>3. Cardinality(A) = 0
      BY <3>2, FS_EmptySet
    <3> QED BY <3>2, <3>3, <1>3 DEF Enumerates
  <2>2. m - 1 \in Nat /\ m - 1 < m /\ A \subseteq 1..m - 1
    BY <2>1, <1>5, <1>2, <1>3
  <2> QED BY <2>2, <1>2, <1>3
<1> QED BY <1>4, <1>5

LEMMA OrderedMembers ==
  ASSUME NEW n \in Nat, NEW S, S \subseteq 1..n
  PROVE  \A i \in 1..Cardinality(S) : InOrder(S)[i] \in S
BY OrderEnumerates DEF Enumerates

LEMMA LatestIsLast ==
  ASSUME NEW n \in Nat, NEW S, S \subseteq 1..n, S # {}
  PROVE  Latest(S) \in S /\ \A k \in S : k <= Latest(S)
<1> DEFINE T == {m \in Nat : \A k \in S : k <= m}
<1>1. n \in T
  OBVIOUS
<1>2. PICK m \in T : \A k \in T : ~(k < m)
  BY <1>1, Least
<1>3. m \in S
  <2> SUFFICES ASSUME m \notin S PROVE FALSE
    OBVIOUS
  <2>1. \A k \in S : k \in Nat /\ k <= m /\ k # m /\ k >= 1
    BY <1>2
  <2>2. PICK k \in S : TRUE
    OBVIOUS
  <2>3. m - 1 \in Nat /\ \A i \in S : i <= m - 1
    BY <2>1, <2>2, <1>2
  <2> QED BY <2>3, <1>2
<1>4. \E j \in S : \A k \in S : k <= j
  BY <1>2, <1>3
<1> QED BY <1>4 DEF Latest

-----------------------------------------------------------------------------
(* Sequences, whatever they are of.                                        *)

LEMMA AsFunction ==
  ASSUME NEW S, NEW t \in Seq(S)
  PROVE  t = [i \in 1..Len(t) |-> t[i]]
OBVIOUS

IsASequence(s) == Len(s) \in Nat /\ s = [i \in 1..Len(s) |-> s[i]]

LEMMA OfItsMembers ==
  ASSUME NEW s, IsASequence(s)
  PROVE  s \in Seq(ToSet(s))
<1>1. DOMAIN s = 1..Len(s)
  BY DEF IsASequence
<1>2. \A i \in 1..Len(s) : s[i] \in ToSet(s)
  BY <1>1 DEF ToSet
<1> HIDE DEF ToSet
<1> QED BY <1>2 DEF IsASequence

LEMMA SequenceOf ==
  ASSUME NEW S, NEW s \in Seq(S)
  PROVE  IsASequence(s)
BY AsFunction DEF IsASequence

LEMMA JoinedSequence ==
  ASSUME NEW s, NEW t, IsASequence(s), IsASequence(t)
  PROVE  IsASequence(s \o t)
<1> DEFINE S == ToSet(s) \union ToSet(t)
<1>1. s \in Seq(ToSet(s)) /\ t \in Seq(ToSet(t)) /\ ToSet(s) \subseteq S /\ ToSet(t) \subseteq S
  BY OfItsMembers
<1> HIDE DEF S
<1>2. s \in Seq(S) /\ t \in Seq(S)
  BY <1>1, SeqMonotonic
<1>3. s \o t \in Seq(S)
  BY <1>2, ConcatProperties
<1> QED BY <1>3, SequenceOf

LEMMA RangedSequence ==
  ASSUME NEW n \in Nat, NEW s, s = [i \in 1..n |-> s[i]]
  PROVE  IsASequence(s)
BY DEF IsASequence
LEMMA PartSequence ==
  ASSUME NEW s, NEW m \in Int, NEW n \in Int
  PROVE  Len(SubSeq(s, m, n)) \in Nat /\ DOMAIN SubSeq(s, m, n) = 1..Len(SubSeq(s, m, n))
<1> DEFINE S == {s[i] : i \in m..n}
<1>1. SubSeq(s, m, n) \in Seq(S)
  BY SubSeqProperties
<1> QED BY <1>1

(* The items at some positions of a sequence are a sequence of those       *)
(* items, each as often as it has positions there.                         *)
LEMMA ItemsAtThem ==
  ASSUME NEW s, IsASequence(s), NEW S, S \subseteq DOMAIN s
  PROVE  /\ Cardinality(S) \in Nat
         /\ ItemsAt(s, S) = [i \in 1..Cardinality(S) |-> s[InOrder(S)[i]]]
         /\ IsASequence(ItemsAt(s, S)) /\ Len(ItemsAt(s, S)) = Cardinality(S)
         /\ \A i \in DOMAIN ItemsAt(s, S) : \E k \in S : ItemsAt(s, S)[i] = s[k]
         /\ \A k \in S : \E i \in DOMAIN ItemsAt(s, S) : ItemsAt(s, S)[i] = s[k]
<1>0. Len(s) \in Nat /\ S \subseteq 1..Len(s)
  BY DEF IsASequence
<1>1. Cardinality(S) \in Nat
  BY <1>0, Below
<1>2. ItemsAt(s, S) = [i \in 1..Cardinality(S) |-> s[InOrder(S)[i]]]
  BY DEF ItemsAt, InOrder
<1>3. Enumerates(S)
  BY <1>0, OrderEnumerates
<1> DEFINE t == ItemsAt(s, S)
<1>4. DOMAIN t = 1..Cardinality(S) /\ \A i \in DOMAIN t : t[i] = s[InOrder(S)[i]]
  BY <1>2
<1>5. t = [i \in 1..Cardinality(S) |-> t[i]]
  BY <1>2
<1> HIDE DEF t
<1>6. IsASequence(t) /\ Len(t) = Cardinality(S)
  BY <1>1, <1>5, RangedSequence
<1>7. \A i \in DOMAIN t : \E k \in S : t[i] = s[k]
  BY <1>3, <1>4 DEF Enumerates
<1>8. \A k \in S : \E i \in DOMAIN t : t[i] = s[k]
  BY <1>3, <1>4 DEF Enumerates
<1> QED BY <1>1, <1>2, <1>6, <1>7, <1>8 DEF t

LEMMA ItemsAtOnce ==
  ASSUME NEW s, IsASequence(s), NEW S, S \subseteq DOMAIN s,
         \A k, l \in S : s[k] = s[l] => k = l
  PROVE  IsInjective(ItemsAt(s, S))
<1> DEFINE t == ItemsAt(s, S)
<1>0. Len(s) \in Nat /\ S \subseteq 1..Len(s)
  BY DEF IsASequence
<1>1. Cardinality(S) \in Nat /\ t = [i \in 1..Cardinality(S) |-> s[InOrder(S)[i]]]
  BY <1>0, Below DEF ItemsAt, InOrder
<1>2. Enumerates(S)
  BY <1>0, OrderEnumerates
<1> HIDE DEF t
<1>3. ASSUME NEW i \in DOMAIN t, NEW j \in DOMAIN t, t[i] = t[j] PROVE i = j
  <2>1. i \in 1..Cardinality(S) /\ j \in 1..Cardinality(S)
    BY <1>1, <1>3
  <2>2. InOrder(S)[i] = InOrder(S)[j]
    BY <1>1, <1>2, <1>3, <2>1 DEF Enumerates
  <2>3. InOrder(S)[i] \in S /\ InOrder(S)[j] \in S
    BY <1>2, <2>1 DEF Enumerates
  <2>6. InOrder(S)[i] \in Int /\ InOrder(S)[j] \in Int
    <3>1. \A k \in S : k \in Int
      BY <1>0
    <3> QED BY ONLY <2>3, <3>1
  <2>4. i < j => InOrder(S)[i] < InOrder(S)[j]
    BY <1>2, <2>1 DEF Enumerates
  <2>5. j < i => InOrder(S)[j] < InOrder(S)[i]
    BY <1>2, <2>1 DEF Enumerates
  <2> QED BY <1>1, <2>1, <2>2, <2>6, <2>4, <2>5
<1> QED BY <1>3 DEF IsInjective, t

-----------------------------------------------------------------------------
(* A sequence of sequences, flattened one piece at a time.                 *)

IsFlat(f, s, n) == f = [i \in 1..n |-> IF i = 1 THEN s[i] ELSE f[i - 1] \o s[i]]

LEMMA FlatAt ==
  ASSUME NEW s, NEW n, NEW f, IsFlat(f, s, n), NEW i \in 1..n
  PROVE  f[i] = IF i = 1 THEN s[i] ELSE f[i - 1] \o s[i]
BY Zenon DEF IsFlat

LEMMA FlatExists ==
  ASSUME NEW s, NEW n \in Nat
  PROVE  \E f : IsFlat(f, s, n)
<1> DEFINE T == {m \in Nat : ~\E f : IsFlat(f, s, m)}
<1> SUFFICES ASSUME T # {} PROVE FALSE
  OBVIOUS
<1>1. PICK m \in T : \A k \in T : ~(k < m)
  BY Least
<1>2. m \in Nat /\ ~\E f : IsFlat(f, s, m)
  BY <1>1
<1>3. CASE m = 0
  <2> DEFINE f == [i \in 1..0 |-> s]
  <2>1. f = [i \in 1..0 |-> IF i = 1 THEN s[i] ELSE f[i - 1] \o s[i]]
    OBVIOUS
  <2> QED BY <2>1, <1>2, <1>3 DEF IsFlat
<1>4. CASE m # 0
  <2>1. m - 1 \in Nat /\ m - 1 < m
    BY <1>2, <1>4
  <2>2. PICK g : IsFlat(g, s, m - 1)
    BY <2>1, <1>1
  <2> DEFINE f == [i \in 1..m |-> IF i = 1 THEN s[i] ELSE g[i - 1] \o s[i]]
  <2>3. g = [i \in 1..m - 1 |-> IF i = 1 THEN s[i] ELSE g[i - 1] \o s[i]]
    BY <2>2 DEF IsFlat
  <2> DEFINE e == [i \in 1..m - 1 |-> IF i = 1 THEN s[i] ELSE g[i - 1] \o s[i]]
  <2>4. \A i \in 1..m - 1 : f[i] = e[i]
    BY <2>1
  <2>5. \A i \in 1..m - 1 : f[i] = g[i]
    BY <2>3, <2>4
  <2>6. \A i \in 1..m : i = 1 \/ i - 1 \in 1..m - 1
    BY <2>1
  <2> HIDE DEF e
  <2>7. \A i \in 1..m : f[i] = IF i = 1 THEN s[i] ELSE f[i - 1] \o s[i]
    BY <2>5, <2>6
  <2>8. f = [i \in 1..m |-> f[i]]
    OBVIOUS
  <2> HIDE DEF f
  <2>9. f = [i \in 1..m |-> IF i = 1 THEN s[i] ELSE f[i - 1] \o s[i]]
    BY <2>7, <2>8
  <2> QED BY <2>9, <1>2 DEF IsFlat
<1> QED BY <1>3, <1>4

Agree(s, t, n) == \A i \in 1..n : s[i] = t[i]

LEMMA FlatAgree ==
  ASSUME NEW s, NEW n \in Nat, NEW f, IsFlat(f, s, n),
         NEW t, NEW m \in Nat, NEW g, IsFlat(g, t, m), n <= m, Agree(s, t, n)
  PROVE  Agree(f, g, n)
<1> USE DEF Agree
<1> DEFINE T == {i \in 1..n : f[i] # g[i]}
<1> SUFFICES ASSUME T # {} PROVE FALSE
  OBVIOUS
<1>0. T \subseteq Nat
  OBVIOUS
<1>1. PICK i \in T : \A k \in T : ~(k < i)
  BY <1>0, Least
<1>2. i \in 1..n /\ i \in 1..m /\ f[i] # g[i]
  BY <1>1
<1>3. f[i] = IF i = 1 THEN s[i] ELSE f[i - 1] \o s[i]
  BY <1>2, FlatAt
<1>4. g[i] = IF i = 1 THEN t[i] ELSE g[i - 1] \o t[i]
  BY <1>2, FlatAt
<1>5. i # 1 => f[i - 1] = g[i - 1]
  <2> SUFFICES ASSUME i # 1, f[i - 1] # g[i - 1] PROVE FALSE
    OBVIOUS
  <2>1. i - 1 \in 1..n /\ i - 1 < i
    BY <1>2
  <2> QED BY <2>1, <1>1
<1> QED BY <1>2, <1>3, <1>4, <1>5

LEMMA FlattenIs ==
  ASSUME NEW s, NEW n \in Nat, Len(s) = n, n # 0
  PROVE  \E f : IsFlat(f, s, n) /\ FlattenSeq(s) = f[n]
<1> DEFINE flatten == CHOOSE f : f = [i \in 1..n |-> IF i = 1 THEN s[i] ELSE f[i - 1] \o s[i]]
<1>1. IsFlat(flatten, s, n)
  BY FlatExists DEF IsFlat
<1>2. FlattenSeq(s) = flatten[n]
  BY Zenon DEF FlattenSeq
<1> QED BY <1>1, <1>2, Zenon

LEMMA FlattenOn ==
  ASSUME NEW S, NEW n \in Nat, NEW s \in [1..n + 1 -> Seq(S)]
  PROVE  /\ FlattenSeq([k \in 1..0 |-> s[k]]) = <<>>
         /\ FlattenSeq(s) = FlattenSeq([k \in 1..n |-> s[k]]) \o s[n + 1]
<1> DEFINE before == [k \in 1..n |-> s[k]]
<1>1. Len(s) = n + 1 /\ Len(before) = n /\ n + 1 \in Nat /\ n + 1 # 0 /\ n + 1 \in 1..n + 1 /\ n + 1 - 1 = n
  OBVIOUS
<1>2. \A k \in 1..n : before[k] = s[k]
  OBVIOUS
<1>3. PICK f : IsFlat(f, s, n + 1) /\ FlattenSeq(s) = f[n + 1]
  BY <1>1, FlattenIs
<1>4. f[n + 1] = IF n + 1 = 1 THEN s[n + 1] ELSE f[n] \o s[n + 1]
  <2>1. f[n + 1] = IF n + 1 = 1 THEN s[n + 1] ELSE f[n + 1 - 1] \o s[n + 1]
    <3>1. IsFlat(f, s, n + 1) /\ n + 1 \in 1..n + 1
      BY <1>1, <1>3
    <3> QED BY ONLY <3>1, FlatAt
  <2> QED BY <2>1, <1>1
<1>5. FlattenSeq([k \in 1..0 |-> s[k]]) = <<>>
  <2>1. Len([k \in 1..0 |-> s[k]]) = 0 /\ [k \in 1..0 |-> s[k]] = <<>>
    OBVIOUS
  <2> QED BY <2>1, Zenon DEF FlattenSeq
<1>6. CASE n = 0
  <2>1. before = [k \in 1..0 |-> s[k]]
    BY <1>6
  <2>2. <<>> \o s[n + 1] = s[n + 1]
    OBVIOUS
  <2> QED BY <1>3, <1>4, <1>5, <1>6, <2>1, <2>2
<1>7. CASE n # 0
  <2> HIDE DEF before
  <2>1. PICK g : IsFlat(g, before, n) /\ FlattenSeq(before) = g[n]
    BY <1>1, <1>7, FlattenIs
  <2>2. n \in 1..n /\ n <= n + 1
    BY <1>7
  <2>3. \A i \in 1..n : g[i] = f[i]
    <3>1. IsFlat(g, before, n) /\ IsFlat(f, s, n + 1) /\ n <= n + 1 /\ n \in Nat /\ n + 1 \in Nat
          /\ Agree(before, s, n)
      BY <2>1, <2>2, <1>1, <1>2, <1>3 DEF Agree
    <3>2. Agree(g, f, n)
      BY ONLY <3>1, FlatAgree
    <3> QED BY <3>2 DEF Agree
  <2>4. FlattenSeq(s) = FlattenSeq(before) \o s[n + 1]
    <3>1. n + 1 # 1 /\ g[n] = f[n]
      BY <2>2, <2>3, <1>7
    <3> QED BY ONLY <3>1, <2>1, <1>3, <1>4
  <2> QED BY <2>4, <1>5 DEF before
<1> QED BY <1>6, <1>7

LEMMA FlattenType ==
  ASSUME NEW S, NEW n \in Nat, NEW s \in [1..n -> Seq(S)]
  PROVE  FlattenSeq(s) \in Seq(S)
<1> DEFINE T == {m \in Nat : \E t \in [1..m -> Seq(S)] : FlattenSeq(t) \notin Seq(S)}
<1> SUFFICES ASSUME T # {} PROVE FALSE
  OBVIOUS
<1>1. PICK m \in T : \A k \in T : ~(k < m)
  BY Least
<1>2. PICK t \in [1..m -> Seq(S)] : FlattenSeq(t) \notin Seq(S)
  BY <1>1
<1>3. CASE m = 0
  <2>1. Len(t) = 0 /\ t = <<>>
    BY <1>3
  <2>2. FlattenSeq(t) = t
    BY <2>1, Zenon DEF FlattenSeq
  <2>3. <<>> \in Seq(S)
    OBVIOUS
  <2> QED BY ONLY <2>1, <2>2, <2>3, <1>2
<1>4. CASE m # 0
  <2> DEFINE k == m - 1
             before == [i \in 1..k |-> t[i]]
  <2>1. k \in Nat /\ k < m /\ m = k + 1 /\ k + 1 \in 1..m
    BY <1>1, <1>4
  <2>2. before \in [1..k -> Seq(S)]
    BY <2>1
  <2>3. FlattenSeq(before) \in Seq(S)
    BY <2>1, <2>2, <1>1
  <2> HIDE DEF k
  <2>4. FlattenSeq(t) = FlattenSeq(before) \o t[k + 1]
    BY <2>1, FlattenOn
  <2>5. t[k + 1] \in Seq(S)
    BY <2>1
  <2>6. \A a, b \in Seq(S) : a \o b \in Seq(S)
    OBVIOUS
  <2>7. FlattenSeq(before) \o t[k + 1] \in Seq(S)
    BY ONLY <2>3, <2>5, <2>6
  <2> QED BY ONLY <2>4, <2>7, <1>2
<1> QED BY <1>3, <1>4

LEMMA JoinedMembers ==
  ASSUME NEW S, NEW a \in Seq(S), NEW b \in Seq(S)
  PROVE  ToSet(a \o b) = ToSet(a) \union ToSet(b)
<1>1. /\ Len(a \o b) = Len(a) + Len(b) /\ Len(a) \in Nat /\ Len(b) \in Nat
      /\ \A i \in 1..Len(a) + Len(b) : (a \o b)[i] = IF i <= Len(a) THEN a[i] ELSE b[i - Len(a)]
      /\ DOMAIN (a \o b) = 1..Len(a \o b) /\ DOMAIN a = 1..Len(a) /\ DOMAIN b = 1..Len(b)
  BY ConcatProperties
<1>2. \A i \in 1..Len(a) + Len(b) : i \in 1..Len(a) \/ i - Len(a) \in 1..Len(b)
  BY <1>1
<1>3. \A i \in 1..Len(a) : i \in 1..Len(a) + Len(b) /\ i <= Len(a)
  BY <1>1
<1>4. ToSet(a \o b) \subseteq ToSet(a) \union ToSet(b)
  BY <1>1, <1>2 DEF ToSet
<1>5. ToSet(a) \subseteq ToSet(a \o b)
  BY <1>1, <1>3 DEF ToSet
<1>6. ASSUME NEW i \in 1..Len(b) PROVE b[i] \in ToSet(a \o b)
  <2> DEFINE k == i + Len(a)
  <2>1. k \in 1..Len(a) + Len(b) /\ ~(k <= Len(a)) /\ k - Len(a) = i
    BY <1>1
  <2> HIDE DEF k
  <2> QED BY <1>1, <2>1 DEF ToSet
<1>7. ToSet(b) \subseteq ToSet(a \o b)
  BY <1>1, <1>6 DEF ToSet
<1> QED BY <1>4, <1>5, <1>7

(* What is in a flattened sequence is in a piece of it, and is all of it.  *)
LEMMA FlattenMembers ==
  ASSUME NEW S, NEW n \in Nat, NEW s \in [1..n -> Seq(S)]
  PROVE  /\ IsASequence(FlattenSeq(s))
         /\ ToSet(FlattenSeq(s)) = UNION {ToSet(s[k]) : k \in 1..n}
<1> DEFINE Same(t, m) == ToSet(FlattenSeq(t)) = UNION {ToSet(t[k]) : k \in 1..m}
           T == {m \in Nat : \E t \in [1..m -> Seq(S)] : ~Same(t, m)}
<1>0. IsASequence(FlattenSeq(s))
  BY FlattenType, SequenceOf
<1> SUFFICES ASSUME T # {} PROVE FALSE
  BY <1>0
<1> HIDE DEF Same
<1>1. PICK m \in T : \A k \in T : ~(k < m)
  BY Least
<1>2. PICK t \in [1..m -> Seq(S)] : ~Same(t, m)
  BY <1>1
<1>3. CASE m = 0
  <2>1. Len(t) = 0 /\ t = <<>>
    BY <1>3
  <2>2. FlattenSeq(t) = <<>>
    BY <2>1, Zenon DEF FlattenSeq
  <2>3. ToSet(<<>>) = {}
    BY DEF ToSet
  <2> QED BY <1>2, <1>3, <2>2, <2>3 DEF Same
<1>4. CASE m # 0
  <2> DEFINE k == m - 1
             before == [i \in 1..k |-> t[i]]
  <2>1. k \in Nat /\ k < m /\ m = k + 1 /\ k + 1 \in 1..m
    BY <1>1, <1>4
  <2>2. before \in [1..k -> Seq(S)]
    BY <2>1
  <2>3. Same(before, k) /\ FlattenSeq(before) \in Seq(S)
    BY <2>1, <2>2, <1>1, FlattenType
  <2> HIDE DEF k
  <2>4. FlattenSeq(t) = FlattenSeq(before) \o t[k + 1]
    BY <2>1, FlattenOn
  <2>5. t[k + 1] \in Seq(S)
    BY <2>1
  <2>6. ToSet(FlattenSeq(t)) = ToSet(FlattenSeq(before)) \union ToSet(t[k + 1])
    BY ONLY <2>3, <2>4, <2>5, JoinedMembers
  <2>7. (UNION {ToSet(t[i]) : i \in 1..k + 1}) = (UNION {ToSet(before[i]) : i \in 1..k}) \union ToSet(t[k + 1])
    <3>1. \A i \in 1..k + 1 : i = k + 1 \/ i \in 1..k
      BY <2>1
    <3>2. \A i \in 1..k : i \in 1..k + 1 /\ before[i] = t[i]
      BY <2>1
    <3> HIDE DEF before
    <3> QED BY <3>1, <3>2, <2>1
  <2> QED BY <1>2, <2>1, <2>3, <2>6, <2>7 DEF Same
<1> QED BY <1>3, <1>4

(* What a flattened sequence begins with is what its first piece does.     *)
LEMMA FlattenFirst ==
  ASSUME NEW S, NEW n \in Nat, n # 0, NEW s \in [1..n -> Seq(S)], s[1] # <<>>
  PROVE  FlattenSeq(s) # <<>> /\ FlattenSeq(s)[1] = s[1][1]
<1> DEFINE Begins(t) == FlattenSeq(t) # <<>> /\ FlattenSeq(t)[1] = t[1][1]
           T == {m \in Nat : m # 0 /\ \E t \in [1..m -> Seq(S)] : t[1] # <<>> /\ ~Begins(t)}
<1> SUFFICES ASSUME T # {} PROVE FALSE
  OBVIOUS
<1> HIDE DEF Begins
<1>1. PICK m \in T : \A k \in T : ~(k < m)
  BY Least
<1>2. PICK t \in [1..m -> Seq(S)] : t[1] # <<>> /\ ~Begins(t)
  BY <1>1
<1> DEFINE k == m - 1
           before == [i \in 1..k |-> t[i]]
<1>3. k \in Nat /\ k < m /\ m = k + 1 /\ k + 1 \in 1..m
  BY <1>1
<1>4. before \in [1..k -> Seq(S)] /\ before = [i \in 1..k |-> t[i]]
  BY <1>3
<1> HIDE DEF k
<1>5. FlattenSeq(t) = FlattenSeq(before) \o t[k + 1] /\ FlattenSeq([i \in 1..0 |-> t[i]]) = <<>>
  BY <1>3, FlattenOn
<1>6. t[k + 1] \in Seq(S) /\ FlattenSeq(before) \in Seq(S)
  BY <1>3, <1>4, FlattenType
<1>7. CASE k = 0
  <2>1. FlattenSeq(before) = <<>> /\ t[k + 1] = t[1]
    BY <1>5, <1>7
  <2>2. \A a \in Seq(S) : <<>> \o a = a
    OBVIOUS
  <2>3. FlattenSeq(t) = t[1]
    BY ONLY <2>1, <2>2, <1>5, <1>6
  <2> QED BY <2>3, <1>2 DEF Begins
<1>8. CASE k # 0
  <2>1. before[1] = t[1]
    BY <1>3, <1>8
  <2> HIDE DEF before
  <2>2. Begins(before)
    BY <2>1, <1>1, <1>2, <1>3, <1>4, <1>8
  <2>3. \A a, b \in Seq(S) : a # <<>> => a \o b # <<>> /\ (a \o b)[1] = a[1]
    OBVIOUS
  <2>4. FlattenSeq(t) # <<>> /\ FlattenSeq(t)[1] = FlattenSeq(before)[1]
    BY ONLY <2>2, <2>3, <1>5, <1>6 DEF Begins
  <2>5. FlattenSeq(t) # <<>> /\ FlattenSeq(t)[1] = t[1][1]
    BY <2>1, <2>2, <2>4 DEF Begins
  <2> QED BY <2>5, <1>2 DEF Begins
<1> QED BY <1>7, <1>8

(* Pieces of one item each are the items.                                  *)
LEMMA FlattenSingles ==
  ASSUME NEW n \in Nat, NEW x
  PROVE  FlattenSeq([k \in 1..n |-> <<x[k]>>]) = [k \in 1..n |-> x[k]]
<1> DEFINE S == {x[k] : k \in 1..n}
           Ones(m) == [k \in 1..m |-> <<x[k]>>]
           Items(m) == [k \in 1..m |-> x[k]]
           T == {m \in 0..n : FlattenSeq(Ones(m)) # Items(m)}
<1> SUFFICES ASSUME T # {} PROVE FALSE
  <2>1. n \in 0..n /\ (n \notin T => FlattenSeq(Ones(n)) = Items(n))
    OBVIOUS
  <2> HIDE DEF T
  <2> QED BY <2>1
<1>0. T \subseteq Nat
  OBVIOUS
<1>1. PICK m \in T : \A k \in T : ~(k < m)
  BY <1>0, Least
<1>2. m \in 0..n /\ FlattenSeq(Ones(m)) # Items(m)
  BY <1>1
<1>3. CASE m = 0
  <2>1. Ones(m) = <<>> /\ Len(Ones(m)) = 0 /\ Items(m) = <<>>
    BY <1>3
  <2>2. FlattenSeq(Ones(m)) = <<>>
    BY <2>1, Zenon DEF FlattenSeq
  <2> QED BY <1>2, <2>1, <2>2
<1>4. CASE m # 0
  <2> DEFINE k == m - 1
  <2>1. k \in Nat /\ k < m /\ m = k + 1 /\ k \in 0..n /\ k + 1 \in 1..m /\ k + 1 \in 1..n
    BY <1>2, <1>4
  <2>2. FlattenSeq(Ones(k)) = Items(k)
    BY <2>1, <1>1
  <2> HIDE DEF k
  <2>3. \A i \in 1..n : <<x[i]>> \in Seq(S)
    OBVIOUS
  <2>4. \A i \in 1..m : i \in 1..n
    BY <2>1
  <2>5. Ones(m) \in [1..k + 1 -> Seq(S)]
    <3> HIDE DEF S
    <3> QED BY <2>1, <2>3, <2>4
  <2>6. Ones(k) = [i \in 1..k |-> Ones(m)[i]] /\ Ones(m)[k + 1] = <<x[k + 1]>>
    BY <2>1
  <2>7. Items(k) \in Seq(S) /\ Items(m) = Append(Items(k), x[k + 1])
    BY <2>1
  <2>8. \A a \in Seq(S) : a \o <<x[k + 1]>> = Append(a, x[k + 1])
    BY <2>1
  <2> HIDE DEF Ones, Items, S
  <2>9. FlattenSeq(Ones(m)) = FlattenSeq(Ones(k)) \o <<x[k + 1]>>
    <3>1. FlattenSeq(Ones(m)) = FlattenSeq([i \in 1..k |-> Ones(m)[i]]) \o Ones(m)[k + 1]
      BY ONLY <2>1, <2>5, FlattenOn
    <3> QED BY <3>1, <2>6
  <2>10. FlattenSeq(Ones(m)) = Items(m)
    BY ONLY <2>2, <2>7, <2>8, <2>9
  <2> QED BY <1>2, <2>10
<1> QED BY <1>3, <1>4

\* What the pieces are pieces of.
ItemsOf(s, n) == UNION {ToSet(s[k]) : k \in 1..n}

LEMMA PiecesAreOfItems ==
  ASSUME NEW n \in Nat, NEW s, s = [k \in 1..n |-> s[k]], \A k \in 1..n : IsASequence(s[k])
  PROVE  s \in [1..n -> Seq(ItemsOf(s, n))]
<1>1. ASSUME NEW k \in 1..n PROVE s[k] \in Seq(ItemsOf(s, n))
  <2>1. s[k] \in Seq(ToSet(s[k])) /\ ToSet(s[k]) \subseteq ItemsOf(s, n)
    BY OfItsMembers DEF ItemsOf
  <2> QED BY <2>1, SeqMonotonic
<1> QED BY <1>1

-----------------------------------------------------------------------------
(* Parts of a set that do not overlap have together as many members as the *)
(* set.                                                                    *)

LEMMA SumOfParts ==
  ASSUME NEW C, IsFiniteSet(C), NEW U, IsFiniteSet(U), NEW P, \A c \in C : P[c] \subseteq U,
         \A c, d \in C : c # d => P[c] \cap P[d] = {}
  PROVE  SumFunction([c \in C |-> Cardinality(P[c])]) = Cardinality(UNION {P[c] : c \in C})
<1> DEFINE fun == [c \in C |-> Cardinality(P[c])]
           all(s) == UNION {P[c] : c \in s}
           first(s) == CHOOSE x \in s : TRUE
           count == [s \in SUBSET C |-> Cardinality(all(s))]
           iter == CHOOSE f : f = [s \in SUBSET C |-> IF s = {} THEN 0 ELSE fun[first(s)] + f[s \ {first(s)}]]
<1>1. \A s : s # {} => first(s) \in s
  OBVIOUS
<1>2. SumFunction(fun) = iter[C]
  <2>1. DOMAIN fun = C
    OBVIOUS
  <2>2. SumFunction(fun) = iter[DOMAIN fun]
    <3> HIDE DEF fun
    <3>1. SumFunction(fun) =
            LET sum[s \in SUBSET DOMAIN fun] ==
                  IF s = {} THEN 0 ELSE LET x == CHOOSE x \in s : TRUE IN fun[x] + sum[s \ {x}]
            IN sum[DOMAIN fun]
      BY Zenon DEF SumFunction, SumFunctionOnSet, FoldFunctionOnSet, MapThenFoldSet
    <3> QED BY <2>1, <3>1, Zenon
  <2> QED BY <2>1, <2>2
<1> HIDE DEF first
<1>3. \A s \in SUBSET C : IsFiniteSet(all(s)) /\ Cardinality(all(s)) \in Nat
  <2>1. \A s \in SUBSET C : all(s) \subseteq U
    OBVIOUS
  <2> HIDE DEF all
  <2> QED BY <2>1, FS_Subset, FS_CardinalityType
<1>4. ASSUME NEW s \in SUBSET C, s # {}
      PROVE  Cardinality(all(s)) = fun[first(s)] + Cardinality(all(s \ {first(s)}))
  <2> DEFINE x == first(s)
             rest == s \ {x}
  <2>1. x \in s /\ x \in C /\ rest \in SUBSET C
    BY <1>1, <1>4
  <2>2. IsFiniteSet(P[x]) /\ Cardinality(P[x]) \in Nat /\ fun[x] = Cardinality(P[x])
    BY <2>1, FS_Subset, FS_CardinalityType
  <2>3. all(s) = P[x] \cup all(rest) /\ P[x] \cap all(rest) = {}
    <3>1. \A c \in s : c = x \/ c \in rest
      OBVIOUS
    <3>2. \A c \in rest : c \in s /\ c \in C /\ c # x /\ P[c] \cap P[x] = {}
      BY <2>1
    <3> HIDE DEF rest, x
    <3>3. all(s) = P[x] \cup all(rest)
      BY <2>1, <3>1, <3>2
    <3>4. P[x] \cap all(rest) = {}
      BY <3>2
    <3> QED BY <3>3, <3>4
  <2>4. IsFiniteSet(all(rest)) /\ Cardinality(all(rest)) \in Nat
    BY <2>1, <1>3
  <2> HIDE DEF fun, all, rest, x
  <2>5. Cardinality(P[x] \cup all(rest)) = Cardinality(P[x]) + Cardinality(all(rest)) - Cardinality({})
    BY <2>2, <2>3, <2>4, FS_Union
  <2>6. Cardinality(all(s)) = fun[x] + Cardinality(all(rest))
    BY <2>2, <2>3, <2>4, <2>5, FS_EmptySet
  <2> QED BY <2>6 DEF x, rest
<1>5. Cardinality(all({})) = 0
  <2>1. all({}) = {}
    OBVIOUS
  <2> QED BY <2>1, FS_EmptySet
<1>6. DOMAIN count = SUBSET C /\ \A s \in SUBSET C : count[s] = Cardinality(all(s))
  OBVIOUS
<1>7. \A s \in SUBSET C : s \ {first(s)} \in SUBSET C
  OBVIOUS
<1> HIDE DEF fun, all
<1>8. count = [s \in SUBSET C |-> IF s = {} THEN 0 ELSE fun[first(s)] + count[s \ {first(s)}]]
  <2>1. \A s \in SUBSET C : count[s] = IF s = {} THEN 0 ELSE fun[first(s)] + count[s \ {first(s)}]
    BY <1>4, <1>5, <1>6, <1>7
  <2>2. count = [s \in SUBSET C |-> count[s]]
    OBVIOUS
  <2> HIDE DEF count
  <2> QED BY <2>1, <2>2
<1>9. iter = [s \in SUBSET C |-> IF s = {} THEN 0 ELSE fun[first(s)] + iter[s \ {first(s)}]]
  <2> HIDE DEF count
  <2> QED BY <1>8, Zenon
<1> HIDE DEF iter, count
<1>10. \A s \in SUBSET C : iter[s] = IF s = {} THEN 0 ELSE fun[first(s)] + iter[s \ {first(s)}]
  BY <1>9, Zenon
<1>11. \A s \in SUBSET C : iter[s] = count[s]
  <2> DEFINE T == {n \in Nat : \E s \in SUBSET C : Cardinality(s) = n /\ iter[s] # count[s]}
  <2>1. \A s \in SUBSET C : IsFiniteSet(s) /\ Cardinality(s) \in Nat
    BY FS_Subset, FS_CardinalityType
  <2> SUFFICES ASSUME T # {} PROVE FALSE
    BY <2>1
  <2>2. PICK n \in T : \A k \in T : ~(k < n)
    BY Least
  <2>3. PICK s \in SUBSET C : Cardinality(s) = n /\ iter[s] # count[s]
    BY <2>2
  <2>4. s # {}
    BY <1>10, <1>5, <1>6, <2>3
  <2> DEFINE rest == s \ {first(s)}
  <2>5. rest \in SUBSET C /\ Cardinality(rest) = n - 1 /\ n - 1 \in Nat /\ n - 1 < n
    <3>1. Cardinality(rest) = n - 1
      BY <1>1, <2>1, <2>3, <2>4, FS_RemoveElement
    <3> QED BY <3>1, <2>1, <2>2
  <2>6. iter[rest] = count[rest]
    BY <2>2, <2>5
  <2>7. iter[s] = fun[first(s)] + iter[rest]
    BY <1>10, <2>4
  <2>8. count[s] = fun[first(s)] + count[rest]
    BY <1>4, <1>6, <2>4, <2>5
  <2> QED BY <2>3, <2>6, <2>7, <2>8
<1>12. C \in SUBSET C
  OBVIOUS
<1> QED BY <1>2, <1>6, <1>11, <1>12 DEF fun, all
=============================================================================
