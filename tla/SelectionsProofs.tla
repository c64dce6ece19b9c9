-------------------------- MODULE SelectionsProofs --------------------------
(* What the proofs about the components need to know of a selection.        *)
EXTENDS Selections, Sequences, FiniteSetTheorems, SequenceTheorems, WellFoundedInduction, TLAPS

(* A set of numbers has a least one.                                       *)
LEMMA MinExists ==
  ASSUME NEW S \in SUBSET Nat, S # {}
  PROVE  \E i \in S : \A j \in S : i <= j
<1>1. PICK less : less = OpToRel(<, Nat)
  OBVIOUS
<1>2. IsWellFoundedOn(less, Nat)
  BY <1>1, NatLessThanWellFounded
<1>3. \A x, y \in Nat : x < y => <<x, y>> \in less
  BY <1>1 DEF OpToRel
<1>4. PICK i \in S : \A j \in S : ~(<<j, i>> \in less)
  BY <1>2, WFMin
<1>5. ASSUME NEW j \in S PROVE i <= j
  <2>1. i \in Nat /\ j \in Nat
    OBVIOUS
  <2>2. ~(j < i)
    BY <1>3, <1>4, <2>1
  <2> QED BY <2>1, <2>2
<1> QED BY <1>5

(* Of two elements the greater has the higher rank.                        *)
LEMMA RankIsMonotonic ==
  ASSUME NEW S \in SUBSET Int, IsFiniteSet(S), NEW x \in S
  PROVE  /\ Rank(S, x) \in 0..(Cardinality(S) - 1)
         /\ \A y \in S : x < y => Rank(S, x) < Rank(S, y)
<1> DEFINE B(z) == {w \in S : w < z}
<1>1. Cardinality(S) \in Nat /\ \A z \in S : IsFiniteSet(B(z)) /\ Cardinality(B(z)) \in Nat
  BY FS_CardinalityType, FS_Subset
<1>2. Rank(S, x) \in 0..(Cardinality(S) - 1)
  <2>1. B(x) \subseteq S /\ x \notin B(x)
    OBVIOUS
  <2>2. Cardinality(B(x)) <= Cardinality(S) /\ Cardinality(B(x)) # Cardinality(S)
    BY <2>1, FS_Subset
  <2> QED BY <1>1, <2>2 DEF Rank
<1>3. ASSUME NEW y \in S, x < y PROVE Rank(S, x) < Rank(S, y)
  <2>1. B(x) \subseteq B(y) /\ x \in B(y) /\ x \notin B(x)
    <3>1. \A w \in S : w \in Int
      OBVIOUS
    <3>2. \A w \in S : w < x => w < y
      BY <1>3, <3>1
    <3>3. ~(x < x)
      BY <3>1
    <3> QED BY <1>3, <3>2, <3>3
  <2>2. Cardinality(B(x)) <= Cardinality(B(y)) /\ Cardinality(B(x)) # Cardinality(B(y))
    BY <1>1, <2>1, FS_Subset
  <2> QED BY <1>1, <2>2 DEF Rank
<1> QED BY <1>2, <1>3

(* Every place below the size of the set is the rank of one element: ranks *)
(* tell the elements apart, and there are as many of them as of places.    *)
LEMMA RankIsOnto ==
  ASSUME NEW S \in SUBSET Int, IsFiniteSet(S), NEW k \in 0..(Cardinality(S) - 1)
  PROVE  \E x \in S : Rank(S, x) = k
<1> DEFINE T == 0..(Cardinality(S) - 1)
           f == [x \in S |-> Rank(S, x)]
<1>1. Cardinality(S) \in Nat
  BY FS_CardinalityType
<1>2. IsFiniteSet(T) /\ Cardinality(T) = Cardinality(S)
  BY <1>1, FS_Interval
<1>3. f \in [S -> T]
  BY RankIsMonotonic
<1>4. \A x, y \in S : f[x] = f[y] => x = y
  <2> SUFFICES ASSUME NEW x \in S, NEW y \in S, x < y PROVE f[x] # f[y]
    OBVIOUS
  <2>1. Rank(S, x) \in Int /\ Rank(S, x) < Rank(S, y)
    BY RankIsMonotonic
  <2> QED BY <2>1
<1> HIDE DEF f, T
<1>5. f \in Injection(S, T)
  BY <1>3, <1>4 DEF Injection, IsInjective
<1>6. f \in Surjection(S, T)
  BY <1>2, <1>5, FS_Injection
<1>7. PICK x \in S : f[x] = k
  BY <1>6 DEF Surjection, T
<1> QED BY <1>7 DEF f

(* Ascending lists every element once, in order.                           *)
LEMMA AscendingLemma ==
  ASSUME NEW S \in SUBSET Int, IsFiniteSet(S)
  PROVE  /\ Cardinality(S) \in Nat
         /\ Ascending(S) \in [1..Cardinality(S) -> S]
         /\ Ascending(S) \in Seq(S) /\ Len(Ascending(S)) = Cardinality(S)
         /\ \A i, j \in 1..Cardinality(S) : i < j => Ascending(S)[i] < Ascending(S)[j]
         /\ \A x \in S : \E i \in 1..Cardinality(S) : Ascending(S)[i] = x
<1> DEFINE n == Cardinality(S)
           e == Ascending(S)
<1>1. n \in Nat
  BY FS_CardinalityType
<1>2. \A i \in 1..n : e[i] \in S /\ Rank(S, e[i]) = i - 1
  <2> SUFFICES ASSUME NEW i \in 1..n PROVE e[i] \in S /\ Rank(S, e[i]) = i - 1
    OBVIOUS
  <2>1. i - 1 \in 0..(n - 1)
    BY <1>1
  <2>2. \E x \in S : Rank(S, x) = i - 1
    BY <2>1, RankIsOnto
  <2>3. e[i] = CHOOSE x \in S : Rank(S, x) = i - 1
    BY DEF Ascending
  <2> QED BY <2>2, <2>3
<1>3. e \in [1..n -> S]
  BY <1>2 DEF Ascending
<1> HIDE DEF n, e
<1>4. e \in Seq(S) /\ Len(e) = n
  BY <1>1, <1>3, SeqDef, LenProperties
<1>5. \A x, y \in S : Rank(S, x) \in Int /\ (x < y => Rank(S, x) < Rank(S, y))
  BY RankIsMonotonic
<1>6. ASSUME NEW i \in 1..n, NEW j \in 1..n, i < j PROVE e[i] < e[j]
  <2>1. e[i] \in Int /\ e[j] \in Int /\ Rank(S, e[i]) = i - 1 /\ Rank(S, e[j]) = j - 1
    BY <1>2
  <2>2. ~(e[j] < e[i]) /\ e[i] # e[j]
    BY <1>1, <1>2, <1>5, <1>6, <2>1
  <2> QED BY <2>1, <2>2
<1>7. ASSUME NEW x \in S PROVE \E i \in 1..n : e[i] = x
  <2>1. Rank(S, x) \in 0..(n - 1)
    BY RankIsMonotonic DEF n
  <2> DEFINE i == Rank(S, x) + 1
  <2>2. i \in 1..n /\ i - 1 = Rank(S, x)
    BY <1>1, <2>1
  <2>3. e[i] \in S /\ Rank(S, e[i]) = Rank(S, x)
    BY <1>2, <2>2
  <2>4. e[i] = x
    <3> HIDE DEF i
    <3>1. e[i] \in Int /\ x \in Int /\ Rank(S, x) \in Int
      BY <1>5, <2>3
    <3>2. ~(Rank(S, x) < Rank(S, x))
      BY <3>1
    <3>3. ~(e[i] < x) /\ ~(x < e[i])
      BY <1>5, <2>3, <3>2
    <3> QED BY <3>1, <3>3
  <2> QED BY <2>2, <2>4
<1> QED BY <1>1, <1>3, <1>4, <1>6, <1>7 DEF n, e

(* KeepAt picks the items at these places, each once, in order.            *)
LEMMA KeepAtLemma ==
  ASSUME NEW T, NEW s \in Seq(T), NEW S \in SUBSET DOMAIN s
  PROVE  /\ KeepAt(s, S) \in Seq(T)
         /\ Len(KeepAt(s, S)) = Cardinality(S) /\ Len(KeepAt(s, S)) <= Len(s)
         /\ \E at \in [DOMAIN KeepAt(s, S) -> S] :
              /\ \A i \in DOMAIN KeepAt(s, S) : KeepAt(s, S)[i] = s[at[i]]
              /\ \A i, j \in DOMAIN KeepAt(s, S) : i < j => at[i] < at[j]
              /\ \A k \in S : \E i \in DOMAIN KeepAt(s, S) : at[i] = k
<1> DEFINE at == Ascending(S)
           n == Cardinality(S)
           kept == KeepAt(s, S)
<1>1. IsFiniteSet(DOMAIN s) /\ Cardinality(DOMAIN s) = Len(s) /\ S \in SUBSET Int
  <2>1. Len(s) \in Nat /\ DOMAIN s = 1..Len(s)
    BY LenProperties
  <2>2. \A m \in Nat : IsFiniteSet(1..m) /\ Cardinality(1..m) = m
    BY FS_Interval
  <2>3. IsFiniteSet(DOMAIN s) /\ Cardinality(DOMAIN s) = Len(s)
    BY <2>1, <2>2
  <2>4. S \in SUBSET Int
    BY <2>1
  <2> QED BY <2>3, <2>4
<1>2. IsFiniteSet(S) /\ n <= Len(s)
  BY <1>1, FS_Subset
<1>3. /\ n \in Nat /\ at \in [1..n -> S]
      /\ \A i, j \in 1..n : i < j => at[i] < at[j]
      /\ \A k \in S : \E i \in 1..n : at[i] = k
  BY <1>1, <1>2, AscendingLemma
<1>4. kept = [i \in 1..n |-> s[at[i]]]
  BY DEF KeepAt
<1> HIDE DEF at, n, kept
<1>5. \A i \in 1..n : s[at[i]] \in T
  BY <1>3
<1>6. kept \in [1..n -> T]
  BY <1>4, <1>5
<1>7. kept \in Seq(T) /\ Len(kept) = n /\ DOMAIN kept = 1..n
  BY <1>3, <1>6, SeqDef, LenProperties
<1> QED BY <1>2, <1>3, <1>4, <1>7 DEF n, kept

(* The same without the places: each kept item is an item of the list, each *)
(* pair in the same order, and nothing else is lost.                        *)
LEMMA KeptItems ==
  ASSUME NEW T, NEW s \in Seq(T), NEW S \in SUBSET DOMAIN s, NEW kept, kept = KeepAt(s, S)
  PROVE  /\ kept \in Seq(T) /\ Len(kept) \in Nat /\ Len(kept) <= Len(s)
         /\ DOMAIN kept = 1..Len(kept)
         /\ \A i \in DOMAIN kept : \E a \in S : kept[i] = s[a]
         /\ \A i, j \in DOMAIN kept : i < j =>
              \E a, b \in S : a < b /\ kept[i] = s[a] /\ kept[j] = s[b]
         /\ \A a \in S : \E i \in DOMAIN kept : kept[i] = s[a]
<1>1. /\ kept \in Seq(T) /\ Len(kept) <= Len(s)
      /\ \E at \in [DOMAIN kept -> S] :
           /\ \A i \in DOMAIN kept : kept[i] = s[at[i]]
           /\ \A i, j \in DOMAIN kept : i < j => at[i] < at[j]
           /\ \A k \in S : \E i \in DOMAIN kept : at[i] = k
  BY KeepAtLemma, SMTT(30)
<1>2. PICK at \in [DOMAIN kept -> S] :
           /\ \A i \in DOMAIN kept : kept[i] = s[at[i]]
           /\ \A i, j \in DOMAIN kept : i < j => at[i] < at[j]
           /\ \A k \in S : \E i \in DOMAIN kept : at[i] = k
  BY <1>1
<1>3. Len(kept) \in Nat /\ DOMAIN kept = 1..Len(kept)
  BY <1>1, LenProperties
<1> QED BY <1>1, <1>2, <1>3

(* The newest items of a list: its end.                                    *)
LEMMA LastOfLemma ==
  ASSUME NEW T, NEW s \in Seq(T), NEW n \in Nat \ {0}
  PROVE  /\ LastOf(s, n) \in Seq(T) /\ Len(LastOf(s, n)) <= n
         /\ \E d \in Nat :
              /\ d = IF Len(s) <= n THEN 0 ELSE Len(s) - n
              /\ DOMAIN LastOf(s, n) = 1..(Len(s) - d)
              /\ \A i \in 1..(Len(s) - d) : LastOf(s, n)[i] = s[i + d]
<1>1. Len(s) \in Nat /\ DOMAIN s = 1..Len(s)
  BY LenProperties
<1>2. CASE Len(s) <= n
  <2>1. LastOf(s, n) = s /\ 0 \in Nat /\ Len(s) - 0 = Len(s) /\ \A i \in 1..Len(s) : i + 0 = i
    BY <1>1, <1>2 DEF LastOf
  <2> QED BY <1>1, <1>2, <2>1
<1>3. CASE ~(Len(s) <= n)
  <2> DEFINE d == Len(s) - n
             c == SubSeq(s, d + 1, Len(s))
  <2>1. d \in Nat /\ d + 1 \in Int /\ d + 1 <= Len(s) /\ LastOf(s, n) = c
    BY <1>1, <1>3 DEF LastOf
  <2>2. \A i \in (d + 1)..Len(s) : s[i] \in T
    BY <1>1, <2>1, ElementOfSeq
  <2> HIDE DEF d
  <2>3. /\ c \in Seq(T) /\ Len(c) = Len(s) - d
        /\ \A i \in 1..(Len(s) - (d + 1) + 1) : c[i] = s[(d + 1) + i - 1]
    BY <1>1, <2>1, <2>2, SubSeqProperties
  <2>4. DOMAIN c = 1..(Len(s) - d)
    BY <2>3, LenProperties
  <2> HIDE DEF c
  <2>5. \A i \in 1..(Len(s) - d) : c[i] = s[i + d]
    BY <1>1, <2>1, <2>3
  <2>6. Len(s) - d = n /\ d = IF Len(s) <= n THEN 0 ELSE Len(s) - n
    BY <1>1, <1>3 DEF d
  <2>7. Len(c) = n /\ n <= n /\ LastOf(s, n) = c /\ c \in Seq(T)
    BY ONLY n \in Nat \ {0}, <2>1, <2>3, <2>6
  <2>8. /\ d = IF Len(s) <= n THEN 0 ELSE Len(s) - n
        /\ DOMAIN LastOf(s, n) = 1..(Len(s) - d)
        /\ \A i \in 1..(Len(s) - d) : LastOf(s, n)[i] = s[i + d]
    BY <2>1, <2>4, <2>5, <2>6
  <2> QED BY ONLY <2>1, <2>7, <2>8
<1> QED BY <1>2, <1>3
=============================================================================
