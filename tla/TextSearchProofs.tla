-------------------------- MODULE TextSearchProofs --------------------------
(***************************************************************************)
(* The text search and the profile search, for any notes, words and names. *)
(* Both walk an index in the order of its comparison function: what they   *)
(* find rests on these orders being total, and on the entries between two  *)
(* words that begin alike beginning like them.                             *)
(***************************************************************************)
EXTENDS TextSearch, FiniteSetTheorems, SequenceTheorems, NaturalsInduction, WellFoundedInduction, TLAPS

-----------------------------------------------------------------------------
(* Numbers, sets and loops *)

\* A set of numbers that is not empty has a least one.
LEMMA LeastNat ==
    ASSUME NEW S \in SUBSET Nat, S # {}
    PROVE  \E x \in S : \A y \in S : x <= y
  <1> DEFINE R == {ss \in Nat \X Nat : ss[1] < ss[2]}
  <1>a. IsWellFoundedOn(R, Nat)
    BY NatLessThanWellFounded DEF OpToRel
  <1>b. \A x, y \in Nat : x < y => <<x, y>> \in R
    OBVIOUS
  <1> HIDE DEF R
  <1>1. PICK x \in S : \A y \in S : ~(<<y, x>> \in R)
    BY <1>a, WFMin
  <1>2. \A y \in S : x <= y
    <2> SUFFICES ASSUME NEW y \in S PROVE x <= y
      OBVIOUS
    <2>1. x \in Nat /\ y \in Nat /\ ~(y < x)
      BY <1>1, <1>b
    <2> QED BY <2>1
  <1> QED BY <1>2

\* R puts the elements of K in a total order.
Orders(R, K) ==
    /\ \A a, b \in K : a = b \/ <<a, b>> \in R \/ <<b, a>> \in R
    /\ \A a, b, c \in K : <<a, b>> \in R /\ <<b, c>> \in R => <<a, c>> \in R

\* A finite set that is not empty has a first element in any total order.
LEMMA FirstExists ==
    ASSUME NEW K, NEW R, Orders(R, K), NEW S \in SUBSET K, IsFiniteSet(S), S # {}
    PROVE  \E e \in S : \A o \in S : o = e \/ <<e, o>> \in R
  <1> DEFINE First(T) == \E e \in T : \A o \in T : o = e \/ <<e, o>> \in R
             Bad(T) == IsFiniteSet(T) /\ T # {} /\ ~First(T)
             N == {n \in Nat : \E T \in SUBSET K : Bad(T) /\ Cardinality(T) = n}
  <1> SUFFICES ASSUME ~First(S) PROVE FALSE
    OBVIOUS
  <1>1. N # {}
    BY FS_CardinalityType
  <1>2. PICK n \in N : \A m \in N : n <= m
    BY <1>1, LeastNat
  <1>3. PICK T \in SUBSET K : Bad(T) /\ Cardinality(T) = n
    BY <1>2
  <1>4. PICK x \in T : TRUE
    BY <1>3
  <1>5. IsFiniteSet(T \ {x}) /\ Cardinality(T \ {x}) = n - 1 /\ n \in Nat
    BY <1>3, <1>4, FS_RemoveElement
  <1>6. Cardinality(T \ {x}) \in Nat
    BY <1>5, FS_CardinalityType
  <1>7. ~Bad(T \ {x})
    <2> SUFFICES ASSUME Bad(T \ {x}) PROVE FALSE
      OBVIOUS
    <2>1. n - 1 \in N
      BY <1>3, <1>5, <1>6
    <2> QED BY <2>1, <1>2, <1>5
  <1>8. CASE T \ {x} = {}
    BY <1>3, <1>4, <1>8
  <1>9. CASE First(T \ {x})
    <2>1. PICK e \in T \ {x} : \A o \in T \ {x} : o = e \/ <<e, o>> \in R
      BY <1>9
    <2>2. CASE <<e, x>> \in R
      BY <2>1, <2>2, <1>3
    <2>3. CASE <<x, e>> \in R
      <3>1. \A o \in T : o = x \/ <<x, o>> \in R
        BY <2>1, <2>3, <1>3, <1>4 DEF Orders
      <3> QED BY <3>1, <1>3, <1>4
    <2>4. e = x \/ <<e, x>> \in R \/ <<x, e>> \in R
      BY <2>1, <1>3, <1>4 DEF Orders
    <2> QED BY <2>1, <2>2, <2>3, <2>4
  <1> QED BY <1>5, <1>7, <1>8, <1>9

-----------------------------------------------------------------------------
(* The order of the words *)

Words == Seq(Nat)

\* The characters of a word are numbers.
LEMMA WordIs ==
    ASSUME NEW a \in Words
    PROVE  Len(a) \in Nat /\ \A k \in 1..Len(a) : a[k] \in Nat
  BY ElementOfSeq, LenProperties DEF Words

\* No word is before itself.
LEMMA MemIrreflexive ==
    ASSUME NEW a \in Words
    PROVE  ~MemLess(a, a)
  BY DEF MemLess, Words

\* The order of words is transitive.
LEMMA MemTransitive ==
    ASSUME NEW a \in Words, NEW b \in Words, NEW c \in Words, MemLess(a, b), MemLess(b, c)
    PROVE  MemLess(a, c)
  <1>0. Len(a) \in Nat /\ Len(b) \in Nat /\ Len(c) \in Nat
        /\ (\A k \in 1..Len(a) : a[k] \in Nat) /\ (\A k \in 1..Len(b) : b[k] \in Nat)
        /\ (\A k \in 1..Len(c) : c[k] \in Nat)
    BY WordIs
  <1>1. PICK i \in 1..Len(b) : /\ \A k \in 1..(i - 1) : k <= Len(a) /\ a[k] = b[k]
                               /\ i > Len(a) \/ a[i] < b[i]
    BY DEF MemLess
  <1>2. PICK m \in 1..Len(c) : /\ \A k \in 1..(m - 1) : k <= Len(b) /\ b[k] = c[k]
                               /\ m > Len(b) \/ b[m] < c[m]
    BY DEF MemLess
  <1>3. CASE i < m
    <2>1. i \in 1..Len(c) /\ b[i] = c[i] /\ \A k \in 1..(i - 1) : k <= Len(a) /\ a[k] = c[k]
      BY <1>0, <1>1, <1>2, <1>3
    <2> QED BY <2>1, <1>1 DEF MemLess
  <1>4. CASE m < i
    <2>1. \A k \in 1..(m - 1) : k <= Len(a) /\ a[k] = c[k]
      BY <1>0, <1>1, <1>2, <1>4
    <2>2. m <= Len(a) /\ a[m] = b[m] /\ b[m] < c[m]
      BY <1>0, <1>1, <1>2, <1>4
    <2> QED BY <2>1, <2>2 DEF MemLess
  <1>5. CASE i = m
    <2>1. \A k \in 1..(m - 1) : k <= Len(a) /\ a[k] = c[k]
      BY <1>0, <1>1, <1>2, <1>5
    <2>2. m > Len(a) \/ a[m] < c[m]
      <3>1. b[m] < c[m] /\ b[m] \in Nat /\ c[m] \in Nat
        BY <1>0, <1>1, <1>2, <1>5
      <3>2. CASE m > Len(a)
        BY <3>2
      <3>3. CASE m <= Len(a)
        <4>1. a[m] < b[m] /\ a[m] \in Nat
          BY <1>0, <1>1, <3>3, <1>5
        <4> QED BY <3>1, <4>1
      <3> QED BY <3>2, <3>3, <1>0
    <2> QED BY <2>1, <2>2 DEF MemLess
  <1> QED BY <1>3, <1>4, <1>5

\* Of two words one is before the other, unless they are the same.
LEMMA MemTotal ==
    ASSUME NEW a \in Words, NEW b \in Words
    PROVE  a = b \/ MemLess(a, b) \/ MemLess(b, a)
  <1> DEFINE D == {i \in Nat \ {0} : i > Len(a) \/ i > Len(b) \/ a[i] # b[i]}
  <1>0. Len(a) \in Nat /\ Len(b) \in Nat
        /\ (\A k \in 1..Len(a) : a[k] \in Nat) /\ (\A k \in 1..Len(b) : b[k] \in Nat)
    BY WordIs
  <1>1. Len(a) + 1 \in D
    BY <1>0
  <1>2. PICK i \in D : \A k \in D : i <= k
    <2>1. D \in SUBSET Nat /\ D # {}
      BY <1>1
    <2> HIDE DEF D
    <2> QED BY <2>1, LeastNat
  <1>3. \A k \in 1..(i - 1) : k <= Len(a) /\ k <= Len(b) /\ a[k] = b[k]
    <2> SUFFICES ASSUME NEW k \in 1..(i - 1) PROVE k <= Len(a) /\ k <= Len(b) /\ a[k] = b[k]
      OBVIOUS
    <2>1. k \notin D /\ k \in Nat \ {0}
      BY <1>2
    <2> QED BY <2>1, <1>0
  <1>4. CASE i > Len(a) /\ i > Len(b)
    <2>1. i \in Nat \ {0} /\ Len(a) = i - 1 /\ Len(b) = i - 1
      <3>1. i \in Nat \ {0}
        OBVIOUS
      <3>2. CASE i = 1
        BY <3>2, <1>0, <1>4
      <3>3. CASE i > 1
        <4>1. i - 1 \in 1..(i - 1)
          BY <3>1, <3>3
        <4> QED BY <4>1, <3>1, <1>0, <1>3, <1>4
      <3> QED BY <3>1, <3>2, <3>3
    <2>2. \A k \in 1..Len(a) : a[k] = b[k]
      BY <2>1, <1>3
    <2> QED BY <2>1, <2>2, SeqEqual DEF Words
  <1>5. CASE i <= Len(b) /\ (i > Len(a) \/ a[i] < b[i])
    <2>1. i \in 1..Len(b)
      BY <1>0, <1>5
    <2> QED BY <1>3, <1>5, <2>1 DEF MemLess
  <1>6. CASE i <= Len(a) /\ (i > Len(b) \/ b[i] < a[i])
    <2>1. i \in 1..Len(a)
      BY <1>0, <1>6
    <2> QED BY <1>3, <1>6, <2>1 DEF MemLess
  <1>7. \/ i > Len(a) /\ i > Len(b)
        \/ i <= Len(b) /\ (i > Len(a) \/ a[i] < b[i])
        \/ i <= Len(a) /\ (i > Len(b) \/ b[i] < a[i])
    BY <1>0, <1>2
  <1> QED BY <1>4, <1>5, <1>6, <1>7

\* What lies between two words that begin alike begins like them.
LEMMA Between ==
    ASSUME NEW a \in Words, NEW b \in Words, NEW c \in Words, NEW m \in Nat,
           m <= Len(a), m <= Len(c), \A k \in 1..m : a[k] = c[k],
           a = b \/ MemLess(a, b), b = c \/ MemLess(b, c)
    PROVE  m <= Len(b) /\ \A k \in 1..m : a[k] = b[k]
  <1>0. Len(a) \in Nat /\ Len(b) \in Nat /\ Len(c) \in Nat
        /\ (\A k \in 1..Len(a) : a[k] \in Nat) /\ (\A k \in 1..Len(b) : b[k] \in Nat)
        /\ (\A k \in 1..Len(c) : c[k] \in Nat)
    BY WordIs
  <1>1. CASE a = b \/ b = c
    BY <1>1
  <1>2. CASE MemLess(a, b) /\ MemLess(b, c)
    <2>1. PICK i \in 1..Len(b) : /\ \A k \in 1..(i - 1) : k <= Len(a) /\ a[k] = b[k]
                                 /\ i > Len(a) \/ a[i] < b[i]
      BY <1>2 DEF MemLess
    <2>2. PICK n \in 1..Len(c) : /\ \A k \in 1..(n - 1) : k <= Len(b) /\ b[k] = c[k]
                                 /\ n > Len(b) \/ b[n] < c[n]
      BY <1>2 DEF MemLess
    <2>3. CASE i > m
      BY <1>0, <2>1, <2>3
    <2>4. CASE i <= m /\ i < n
      <3>1. i \in 1..m /\ i <= Len(a) /\ a[i] < b[i] /\ b[i] = c[i] /\ a[i] = c[i] /\ a[i] \in Nat
        BY <1>0, <2>1, <2>2, <2>4
      <3> QED BY <3>1
    <2>5. CASE i <= m /\ n < i
      <3>1. n \in 1..m /\ n <= Len(b) /\ a[n] = b[n] /\ b[n] < c[n] /\ a[n] = c[n] /\ a[n] \in Nat
        BY <1>0, <2>1, <2>2, <2>5
      <3> QED BY <3>1
    <2>6. CASE i <= m /\ n = i
      <3>1. i \in 1..m /\ i <= Len(a) /\ a[i] < b[i] /\ a[i] = c[i] /\ i <= Len(b) /\ b[i] < c[i]
            /\ a[i] \in Nat /\ b[i] \in Nat
        BY <1>0, <2>1, <2>2, <2>6
      <3> QED BY <3>1
    <2> QED BY <2>3, <2>4, <2>5, <2>6
  <1> QED BY <1>1, <1>2

\* The length of what two words have in common at their beginning.
LEMMA PrefixCountIs ==
    ASSUME NEW a \in Words, NEW b \in Words
    PROVE  /\ PrefixCount(a, b) \in Nat
           /\ PrefixCount(a, b) <= Len(a) /\ PrefixCount(a, b) <= Len(b)
           /\ \A k \in 1..PrefixCount(a, b) : a[k] = b[k]
           /\ \A m \in Nat : (m <= Len(a) /\ m <= Len(b) /\ \A k \in 1..m : a[k] = b[k])
                                => m <= PrefixCount(a, b)
  <1> DEFINE low == Least({Len(a), Len(b)})
             S == {i \in 1..low : \A k \in 1..i : a[k] = b[k]}
             D == {i \in Nat : i + 1 \notin S}
  <1>0. Len(a) \in Nat /\ Len(b) \in Nat
    BY WordIs
  <1>1. low \in {Len(a), Len(b)} /\ low <= Len(a) /\ low <= Len(b)
    <2>1. \E x \in {Len(a), Len(b)} : \A y \in {Len(a), Len(b)} : x <= y
      BY <1>0
    <2> QED BY <2>1 DEF Least
  <1> HIDE DEF low
  <1>2. low \in D
    BY <1>0, <1>1
  <1>3. PICK c \in D : \A i \in D : c <= i
    <2>1. D \in SUBSET Nat /\ D # {}
      BY <1>2
    <2> HIDE DEF D
    <2> QED BY <2>1, LeastNat
  <1>4. S = 1..c
    <2>1. ASSUME NEW i \in 1..c PROVE i \in S
      <3>1. i - 1 \in Nat /\ i - 1 < c
        BY <2>1
      <3>2. i - 1 \notin D
        BY <3>1, <1>3
      <3> QED BY <3>1, <3>2, <2>1
    <2>2. ASSUME NEW i \in S PROVE i \in 1..c
      <3> SUFFICES ASSUME i > c PROVE FALSE
        BY <1>3, <1>0, <1>1
      <3>1. c + 1 \in 1..low /\ \A k \in 1..(c + 1) : a[k] = b[k]
        BY <1>0, <1>1
      <3> QED BY <3>1, <1>3
    <2> QED BY <2>1, <2>2
  <1>5. PrefixCount(a, b) = c
    <2>1. Cardinality(1..c) = IF 1 > c THEN 0 ELSE c - 1 + 1
      BY FS_Interval
    <2>2. Cardinality(1..c) = c
      BY <2>1, <1>3
    <2>3. Cardinality(S) = c
      BY <2>2, <1>4
    <2> QED BY <2>3 DEF PrefixCount, low
  <1>6. c <= low
    BY <1>2, <1>3
  <1>7. \A k \in 1..c : a[k] = b[k]
    <2> SUFFICES ASSUME NEW k \in 1..c PROVE a[k] = b[k]
      OBVIOUS
    <2>1. k \in S
      BY <1>4
    <2> QED BY <2>1
  <1>8. ASSUME NEW m \in Nat, m <= Len(a), m <= Len(b), \A k \in 1..m : a[k] = b[k]
        PROVE  m <= c
    <2>1. CASE m = 0
      BY <2>1
    <2>2. CASE m > 0
      <3>1. m <= low
        BY <1>0, <1>1, <1>8
      <3>2. m \in S
        BY <1>8, <2>2, <3>1, <1>1
      <3> QED BY <3>2, <1>4
    <2> QED BY <2>1, <2>2
  <1> QED BY <1>0, <1>1, <1>3, <1>5, <1>6, <1>7, <1>8

\* Lower case letters are letters.
LEMMA LoweredIs ==
    ASSUME NEW w \in Words
    PROVE  Lowered(w) \in Words /\ Len(Lowered(w)) = Len(w)
  <1>1. Len(w) \in Nat /\ \A k \in 1..Len(w) : Lower(w[k]) \in Nat
    BY WordIs DEF Lower, Upper
  <1> QED BY <1>1 DEF Lowered, Words

\* A word that matches a search word begins like it, for more than two thirds.
LEMMA MatchIs ==
    ASSUME NEW s \in Words, NEW w \in Words
    PROVE  PrefixMatches(s, w) <=>
              \E m \in Nat : /\ m >= 2 /\ 3 * m > 2 * Len(w) /\ m <= Len(s) /\ m <= Len(w)
                             /\ \A k \in 1..m : s[k] = Lowered(w)[k]
  <1> DEFINE low == Lowered(w)
             c == PrefixCount(s, low)
  <1>0. low \in Words /\ Len(low) = Len(w) /\ Len(w) \in Nat /\ Len(s) \in Nat
    BY LoweredIs, WordIs
  <1>1. /\ c \in Nat /\ c <= Len(s) /\ c <= Len(low)
        /\ \A k \in 1..c : s[k] = low[k]
        /\ \A m \in Nat : (m <= Len(s) /\ m <= Len(low) /\ \A k \in 1..m : s[k] = low[k]) => m <= c
    BY <1>0, PrefixCountIs
  <1>2. PrefixMatches(s, w) <=> /\ Len(s) >= 2 /\ Len(low) >= 2
                                /\ s[1] = low[1] \/ s[2] = low[2]
                                /\ c > (2 * Len(low)) \div 3
    BY DEF PrefixMatches
  <1> HIDE DEF low, c
  <1>3. c > (2 * Len(low)) \div 3 <=> 3 * c > 2 * Len(w)
    BY <1>0, <1>1
  <1>4. ASSUME PrefixMatches(s, w)
        PROVE  c >= 2 /\ 3 * c > 2 * Len(w)
    BY <1>0, <1>1, <1>2, <1>3, <1>4
  <1>5. ASSUME NEW m \in Nat, m >= 2, 3 * m > 2 * Len(w), m <= Len(s), m <= Len(w),
               \A k \in 1..m : s[k] = low[k]
        PROVE  PrefixMatches(s, w)
    <2>1. m <= c /\ s[1] = low[1]
      BY <1>0, <1>1, <1>5
    <2> QED BY <2>1, <1>0, <1>1, <1>2, <1>3, <1>5
  <1> QED BY <1>0, <1>1, <1>4, <1>5 DEF low

-----------------------------------------------------------------------------
(* The order of the index *)

Keys == [word : Words, time : Nat, note : Nat, idx : Nat]

\* No entry is before itself.
LEMMA KeyIrreflexive ==
    ASSUME NEW a \in Keys
    PROVE  ~KeyLess(a, a)
  BY MemIrreflexive DEF KeyLess, Less3, Keys

\* The order of the index is transitive.
LEMMA KeyTransitive ==
    ASSUME NEW a \in Keys, NEW b \in Keys, NEW c \in Keys, KeyLess(a, b), KeyLess(b, c)
    PROVE  KeyLess(a, c)
  <1>1. a.word \in Words /\ b.word \in Words /\ c.word \in Words
    BY DEF Keys
  <1>2. CASE a.word = b.word /\ b.word = c.word
    <2>1. ~MemLess(a.word, b.word) /\ ~MemLess(b.word, c.word)
      BY <1>1, <1>2, MemIrreflexive
    <2> QED BY <1>2, <2>1 DEF KeyLess, Less3, Keys
  <1>3. CASE MemLess(a.word, b.word) \/ MemLess(b.word, c.word)
    <2>1. MemLess(a.word, c.word)
      BY <1>1, <1>3, MemTransitive DEF KeyLess
    <2> QED BY <2>1 DEF KeyLess
  <1> QED BY <1>2, <1>3 DEF KeyLess

\* Of two entries one is before the other.
LEMMA KeyTotal ==
    ASSUME NEW a \in Keys, NEW b \in Keys
    PROVE  a = b \/ KeyLess(a, b) \/ KeyLess(b, a)
  <1>1. a.word = b.word \/ MemLess(a.word, b.word) \/ MemLess(b.word, a.word)
    BY MemTotal DEF Keys
  <1> QED BY <1>1 DEF KeyLess, Less3, Keys

\* One way only.
LEMMA KeyAsymmetric ==
    ASSUME NEW a \in Keys, NEW b \in Keys, KeyLess(a, b)
    PROVE  ~KeyLess(b, a)
  BY KeyTransitive, KeyIrreflexive

\* MDB_SET_RANGE and MDB_NEXT find the first entry of what is left of the index.
LEMMA LeastIs ==
    ASSUME NEW S \in SUBSET Keys, IsFiniteSet(S), S # {}
    PROVE  LeastOf(S) \in S /\ \A o \in S : o = LeastOf(S) \/ KeyLess(LeastOf(S), o)
  <1> DEFINE R == {p \in Keys \X Keys : KeyLess(p[1], p[2])}
  <1>1. \A a, b \in Keys : <<a, b>> \in R <=> KeyLess(a, b)
    OBVIOUS
  <1>2. \A a, b \in Keys : a = b \/ <<a, b>> \in R \/ <<b, a>> \in R
    BY <1>1, KeyTotal
  <1>a. \A a, b, c \in Keys : <<a, b>> \in R /\ <<b, c>> \in R => <<a, c>> \in R
    BY <1>1, KeyTransitive
  <1> HIDE DEF R
  <1>b. Orders(R, Keys)
    BY <1>2, <1>a DEF Orders
  <1>3. \E e \in S : \A o \in S : o = e \/ <<e, o>> \in R
    BY <1>b, FirstExists
  <1>4. \E e \in S : \A o \in S : o = e \/ KeyLess(e, o)
    BY <1>1, <1>3
  <1> QED BY <1>4 DEF LeastOf

\* MDB_PREV finds the last one.
LEMMA GreatestIs ==
    ASSUME NEW S \in SUBSET Keys, IsFiniteSet(S), S # {}
    PROVE  GreatestOf(S) \in S /\ \A o \in S : o = GreatestOf(S) \/ KeyLess(o, GreatestOf(S))
  <1> DEFINE R == {p \in Keys \X Keys : KeyLess(p[2], p[1])}
  <1>1. \A a, b \in Keys : <<a, b>> \in R <=> KeyLess(b, a)
    OBVIOUS
  <1>2. \A a, b \in Keys : a = b \/ <<a, b>> \in R \/ <<b, a>> \in R
    BY <1>1, KeyTotal
  <1>a. \A a, b, c \in Keys : <<a, b>> \in R /\ <<b, c>> \in R => <<a, c>> \in R
    BY <1>1, KeyTransitive
  <1> HIDE DEF R
  <1>b. Orders(R, Keys)
    BY <1>2, <1>a DEF Orders
  <1>3. \E e \in S : \A o \in S : o = e \/ <<e, o>> \in R
    BY <1>b, FirstExists
  <1>4. \E e \in S : \A o \in S : o = e \/ KeyLess(o, e)
    BY <1>1, <1>3
  <1> QED BY <1>4 DEF GreatestOf

\* Keys keep the order of the times below the range of an int.
LEMMA KeyTimeIs ==
    ASSUME NEW t \in Nat
    PROVE  /\ KeyTime(t) \in Nat
           /\ KeyTime(t) <= KeyTime(IntRange - 1)
           /\ \A u \in Nat : t <= u /\ u < IntRange => KeyTime(t) <= KeyTime(u)
           /\ \A u \in Nat : t < u /\ u < IntRange => KeyTime(t) < KeyTime(u)
  <1>0. IntRange \in Nat \ {0} /\ LongRange \in Nat /\ IntRange <= LongRange
    BY SearchAssumption
  <1>1. \A u \in Nat : u % IntRange \in 0..(IntRange - 1)
    BY <1>0
  <1>2. \A u \in Nat : u < IntRange => u % IntRange = u
    BY <1>0
  <1>3. IntRange \div 2 \in Nat /\ 2 * (IntRange \div 2) <= IntRange /\ IntRange <= 2 * (IntRange \div 2) + 1
    BY <1>0
  <1> DEFINE h == IntRange \div 2
             low(u) == u % IntRange
  <1>4. \A u \in Nat : KeyTime(u) = IF low(u) < h THEN low(u) ELSE LongRange - IntRange + low(u)
    BY DEF KeyTime
  <1>5. low(t) \in 0..(IntRange - 1) /\ low(IntRange - 1) = IntRange - 1
    BY <1>0, <1>1, <1>2
  <1>6. \A u \in Nat : u < IntRange => low(u) = u
    BY <1>2
  <1> HIDE DEF h, low
  <1>7. h \in Nat /\ 2 * h <= IntRange /\ IntRange <= 2 * h + 1
    BY <1>3 DEF h
  <1>8. KeyTime(t) \in Nat
    BY <1>0, <1>4, <1>5, <1>7
  <1>9. KeyTime(t) <= KeyTime(IntRange - 1)
    BY <1>0, <1>4, <1>5, <1>7
  <1>10. ASSUME NEW u \in Nat, u < IntRange, t <= u
         PROVE  KeyTime(t) <= KeyTime(u) /\ (t < u => KeyTime(t) < KeyTime(u))
    <2>1. low(t) = t /\ low(u) = u
      BY <1>0, <1>6, <1>10
    <2> QED BY <1>0, <1>4, <1>7, <1>10, <2>1
  <1> QED BY <1>8, <1>9, <1>10

-----------------------------------------------------------------------------
(* The words of a text *)

\* The loop of ndb_parse_words has a turn for every character.
LEMMA ParseExists ==
    ASSUME NEW s, NEW N \in Nat
    PROVE  \E f : f = [i \in 0..N |-> IF i = 0 THEN <<>> ELSE WordsWith(f[i - 1], s, i)]
  <1> DEFINE Is(f, n) == f = [i \in 0..n |-> IF i = 0 THEN <<>> ELSE WordsWith(f[i - 1], s, i)]
             S == {n \in Nat : ~\E f : Is(f, n)}
  <1> SUFFICES ASSUME S # {} PROVE FALSE
    OBVIOUS
  <1>1. PICK n \in S : \A m \in S : n <= m
    BY LeastNat
  <1>2. CASE n = 0
    <2>1. Is([i \in 0..0 |-> <<>>], 0)
      OBVIOUS
    <2> QED BY <1>2, <2>1
  <1>3. CASE n > 0
    <2>1. n - 1 \in Nat /\ n - 1 \notin S
      <3>1. n \in Nat /\ n - 1 \in Nat /\ ~(n <= n - 1)
        BY <1>1, <1>3
      <3> HIDE DEF S
      <3> QED BY <3>1, <1>1
    <2>2. PICK f : Is(f, n - 1)
      BY <2>1
    <2> DEFINE g == [i \in 0..n |-> IF i = n THEN WordsWith(f[n - 1], s, n) ELSE f[i]]
    <2>3. \A i \in 0..(n - 1) : g[i] = f[i]
      BY <2>1
    <2>4. \A i \in 0..(n - 1) : f[i] = IF i = 0 THEN <<>> ELSE WordsWith(f[i - 1], s, i)
      BY <2>2
    <2>5. \A i \in 0..n : g[i] = IF i = 0 THEN <<>> ELSE WordsWith(g[i - 1], s, i)
      BY <2>1, <2>3, <2>4, <1>3
    <2>6. Is(g, n)
      BY <2>5, Zenon
    <2> QED BY <2>6
  <1> QED BY <1>1, <1>2, <1>3

\* A turn adds a word or a character to the last one.
LEMMA WordsWithIs ==
    ASSUME NEW s \in Seq(Nat), NEW i \in 1..Len(s), NEW ws \in Seq(Words),
           (i > 1 /\ s[i - 1] # 0) => Len(ws) > 0
    PROVE  /\ WordsWith(ws, s, i) \in Seq(Words)
           /\ s[i] # 0 => Len(WordsWith(ws, s, i)) > 0
  <1>0. s[i] \in Nat /\ <<s[i]>> \in Words /\ Len(ws) \in Nat /\ Len(s) \in Nat
    BY ElementOfSeq DEF Words
  <1>1. CASE s[i] = 0
    BY <1>1 DEF WordsWith
  <1>2. CASE s[i] # 0 /\ (i = 1 \/ s[i - 1] = 0)
    <2>1. WordsWith(ws, s, i) = Append(ws, <<s[i]>>)
      BY <1>2 DEF WordsWith
    <2> HIDE DEF Words
    <2> QED BY <2>1, <1>0
  <1>3. CASE s[i] # 0 /\ i # 1 /\ s[i - 1] # 0
    <2>1. Len(ws) > 0 /\ Len(ws) \in 1..Len(ws)
      BY <1>0, <1>3
    <2>2. ws[Len(ws)] \in Seq(Nat)
      BY <2>1, ElementOfSeq DEF Words
    <2> DEFINE w == Append(ws[Len(ws)], s[i])
    <2>3. w \in Words
      BY <2>2, <1>0 DEF Words
    <2>4. WordsWith(ws, s, i) = [ws EXCEPT ![Len(ws)] = w]
      BY <1>3 DEF WordsWith
    <2> HIDE DEF w, Words
    <2>5. [ws EXCEPT ![Len(ws)] = w] \in Seq(Words) /\ Len([ws EXCEPT ![Len(ws)] = w]) = Len(ws)
      BY <2>1, <2>3, ExceptSeq
    <2> QED BY <2>1, <2>4, <2>5
  <1> QED BY <1>1, <1>2, <1>3

\* The words of a text are words.
LEMMA ParseWordsIs ==
    ASSUME NEW s \in Seq(Nat)
    PROVE  ParseWords(s) \in Seq(Words)
  <1> DEFINE u == CHOOSE f : f = [i \in 0..Len(s) |-> IF i = 0 THEN <<>> ELSE WordsWith(f[i - 1], s, i)]
  <1>0. Len(s) \in Nat
    OBVIOUS
  <1>1. u = [i \in 0..Len(s) |-> IF i = 0 THEN <<>> ELSE WordsWith(u[i - 1], s, i)]
    BY <1>0, ParseExists
  <1>2. ParseWords(s) = u[Len(s)]
    BY DEF ParseWords
  <1> HIDE DEF u
  <1> DEFINE Bad(i) == ~(u[i] \in Seq(Words) /\ ((i > 0 /\ s[i] # 0) => Len(u[i]) > 0))
             S == {i \in 0..Len(s) : Bad(i)}
  <1>3. S = {}
    <2> SUFFICES ASSUME S # {} PROVE FALSE
      OBVIOUS
    <2>0. S \in SUBSET Nat
      BY <1>0
    <2>1. PICK i \in S : \A k \in S : i <= k
      <3> HIDE DEF S
      <3> QED BY <2>0, LeastNat
    <2>2. CASE i = 0
      <3>1. u[0] = <<>>
        BY <1>0, <1>1
      <3>2. <<>> \in Seq(Words)
        OBVIOUS
      <3> QED BY <2>1, <2>2, <3>1, <3>2
    <2>3. CASE i > 0
      <3>1. i \in 1..Len(s) /\ i - 1 \in 0..Len(s) /\ ~(i <= i - 1)
        BY <1>0, <2>1, <2>3
      <3>2. ~Bad(i - 1)
        BY <2>1, <3>1
      <3>3. u[i] = WordsWith(u[i - 1], s, i)
        BY <1>1, <3>1, SMTT(30)
      <3>4. ~Bad(i)
        BY <3>1, <3>2, <3>3, WordsWithIs
      <3> QED BY <2>1, <3>4
    <2> QED BY <2>1, <2>2, <2>3, <1>0
  <1> QED BY <1>0, <1>2, <1>3

\* The words of a search are the first few of its text, in some order.
LEMMA SearchWordsAre ==
    ASSUME NEW q \in Queries, NEW ws \in LongestFirst(SearchWords(q)), SearchWords(q) # <<>>
    PROVE  ws \in Seq(Words) /\ Len(ws) \in 1..MaxWords
  <1> DEFINE all == ParseWords(q)
             cut == SearchWords(q)
             n == Least({MaxWords, Len(all)})
  <1>1. q \in Seq(Nat) /\ MaxWords \in Nat
    BY SearchAssumption
  <1>2. all \in Seq(Words) /\ Len(all) \in Nat
    BY <1>1, ParseWordsIs
  <1>3. n \in Nat /\ n <= Len(all) /\ n <= MaxWords
    <2> HIDE DEF all
    <2>1. \E x \in {MaxWords, Len(all)} : \A y \in {MaxWords, Len(all)} : x <= y
      BY <1>1, <1>2
    <2> QED BY <2>1, <1>1, <1>2 DEF Least
  <1>4. cut = SubSeq(all, 1, n)
    BY DEF SearchWords
  <1> HIDE DEF all, n, cut
  <1>5. cut \in Seq(Words) /\ Len(cut) = n
    <2>1. \A i \in 1..n : all[i] \in Words
      BY <1>2, <1>3, ElementOfSeq
    <2> QED BY <1>2, <1>3, <1>4, <2>1, SubSeqProperties
  <1>6. Len(cut) \in 1..MaxWords
    <2>1. cut # <<>>
      BY DEF cut
    <2> QED BY <2>1, <1>3, <1>5
  <1>7. ws \in LongestFirst(cut)
    BY DEF cut
  <1>8. PICK s \in [1..Len(cut) -> 1..Len(cut)] : ws = [i \in 1..Len(cut) |-> cut[s[i]]]
    BY <1>7 DEF LongestFirst
  <1>9. \A i \in 1..Len(cut) : cut[s[i]] \in Words
    BY <1>5, <1>6, <1>8, ElementOfSeq
  <1>10. ws \in [1..Len(cut) -> Words]
    BY <1>8, <1>9
  <1> QED BY <1>6, <1>10, IsASeq

-----------------------------------------------------------------------------
(* The cursor *)

\* The index holds entries of notes.
IndexIs == index \in SUBSET Keys /\ IsFiniteSet(index) /\ \A e \in index : e.note # 0

\* No entry of the index is the one that stands for none.
LEMMA NoEntryIs ==
    ASSUME IndexIs
    PROVE  NoEntry \in Keys /\ NoEntry \notin index
  <1>1. NoEntry \in Keys
    <2>1. <<>> \in Words
      BY DEF Words
    <2> HIDE DEF Words
    <2> QED BY <2>1 DEF NoEntry, Keys
  <1>2. NoEntry.note = 0
    BY DEF NoEntry
  <1> QED BY <1>1, <1>2 DEF IndexIs

\* What LeastOf and GreatestOf find in a part of the index.
LEMMA EndsAre ==
    ASSUME IndexIs, NEW S \in SUBSET index
    PROVE  /\ S = {} => LeastOf(S) = NoEntry /\ GreatestOf(S) = NoEntry
           /\ S # {} => /\ LeastOf(S) \in S /\ LeastOf(S) # NoEntry
                        /\ \A o \in S : o = LeastOf(S) \/ KeyLess(LeastOf(S), o)
                        /\ GreatestOf(S) \in S /\ GreatestOf(S) # NoEntry
                        /\ \A o \in S : o = GreatestOf(S) \/ KeyLess(o, GreatestOf(S))
  <1>1. S \in SUBSET Keys /\ IsFiniteSet(S)
    BY FS_Subset DEF IndexIs
  <1>2. NoEntry \notin S
    BY NoEntryIs
  <1>3. CASE S = {}
    BY <1>3 DEF LeastOf, GreatestOf
  <1>4. CASE S # {}
    BY <1>1, <1>2, <1>4, LeastIs, GreatestIs
  <1> QED BY <1>3, <1>4

\* MDB_SET_RANGE stands at the first entry that is not before the key.
LEMMA SetRangeIs ==
    ASSUME IndexIs, NEW key
    PROVE  /\ SetRange(key) = NoEntry => \A e \in index : KeyLess(e, key)
           /\ SetRange(key) # NoEntry =>
                 /\ SetRange(key) \in index /\ ~KeyLess(SetRange(key), key)
                 /\ \A o \in index : KeyLess(o, key) \/ o = SetRange(key) \/ KeyLess(SetRange(key), o)
  <1> DEFINE S == {e \in index : ~KeyLess(e, key)}
  <1>1. SetRange(key) = LeastOf(S) /\ S \in SUBSET index
    BY DEF SetRange
  <1>2. CASE S = {}
    BY <1>1, <1>2, EndsAre
  <1>3. CASE S # {}
    <2>1. LeastOf(S) \in S /\ LeastOf(S) # NoEntry /\ \A o \in S : o = LeastOf(S) \/ KeyLess(LeastOf(S), o)
      <3> HIDE DEF S
      <3> QED BY <1>1, <1>3, EndsAre
    <2> QED BY <1>1, <2>1
  <1> QED BY <1>2, <1>3

\* MDB_NEXT stands at the first entry after the one it was at.
LEMMA NextEntryIs ==
    ASSUME IndexIs, NEW e
    PROVE  /\ NextEntry(e) = NoEntry => \A o \in index : ~KeyLess(e, o)
           /\ NextEntry(e) # NoEntry =>
                 /\ NextEntry(e) \in index /\ KeyLess(e, NextEntry(e))
                 /\ \A o \in index : KeyLess(e, o) => o = NextEntry(e) \/ KeyLess(NextEntry(e), o)
  <1> DEFINE S == {o \in index : KeyLess(e, o)}
  <1>1. NextEntry(e) = LeastOf(S) /\ S \in SUBSET index
    BY DEF NextEntry
  <1>2. CASE S = {}
    BY <1>1, <1>2, EndsAre
  <1>3. CASE S # {}
    <2>1. LeastOf(S) \in S /\ LeastOf(S) # NoEntry /\ \A o \in S : o = LeastOf(S) \/ KeyLess(LeastOf(S), o)
      <3> HIDE DEF S
      <3> QED BY <1>1, <1>3, EndsAre
    <2> QED BY <1>1, <2>1
  <1> QED BY <1>2, <1>3

\* MDB_PREV stands at the last entry before the one it was at.
LEMMA PrevEntryIs ==
    ASSUME IndexIs, NEW e
    PROVE  /\ PrevEntry(e) = NoEntry => \A o \in index : ~KeyLess(o, e)
           /\ PrevEntry(e) # NoEntry =>
                 /\ PrevEntry(e) \in index /\ KeyLess(PrevEntry(e), e)
                 /\ \A o \in index : KeyLess(o, e) => o = PrevEntry(e) \/ KeyLess(o, PrevEntry(e))
  <1> DEFINE S == {o \in index : KeyLess(o, e)}
  <1>1. PrevEntry(e) = GreatestOf(S) /\ S \in SUBSET index
    BY DEF PrevEntry
  <1>2. CASE S = {}
    BY <1>1, <1>2, EndsAre
  <1>3. CASE S # {}
    <2>1. GreatestOf(S) \in S /\ GreatestOf(S) # NoEntry /\ \A o \in S : o = GreatestOf(S) \/ KeyLess(o, GreatestOf(S))
      <3> HIDE DEF S
      <3> QED BY <1>1, <1>3, EndsAre
    <2> QED BY <1>1, <2>1
  <1> QED BY <1>2, <1>3

\* What answers for a word is an entry that begins like it, in the note of the last.
LEMMA NextWordIs ==
    ASSUME IndexIs, NEW fresh \in BOOLEAN, NEW key, NEW word, NextWord(fresh, key, word) # NoEntry
    PROVE  /\ NextWord(fresh, key, word) \in index
           /\ last = NoEntry \/ NextWord(fresh, key, word).note = last.note
           /\ PrefixMatches(NextWord(fresh, key, word).word, word)
  <1> DEFINE at == IF ~fresh THEN (IF order = "desc" THEN PrevEntry(saved) ELSE NextEntry(saved))
                   ELSE IF SetRange(key) # NoEntry THEN SetRange(key)
                   ELSE IF order = "desc" THEN GreatestOf(index) ELSE NoEntry
             ours(e) == last = NoEntry \/ e.note = last.note
             before == IF PrevEntry(at) = NoEntry THEN at ELSE PrevEntry(at)
  <1>1. NextWord(fresh, key, word) =
            IF at = NoEntry \/ ~ours(at) THEN NoEntry
            ELSE IF PrefixMatches(at.word, word) THEN at
            ELSE IF fresh /\ order = "desc" /\ ours(before) /\ PrefixMatches(before.word, word) THEN before
            ELSE NoEntry
    BY DEF NextWord
  <1>2. at = NoEntry \/ at \in index
    BY SetRangeIs, NextEntryIs, PrevEntryIs, EndsAre
  <1> HIDE DEF at
  <1>3. before = at \/ before \in index
    BY PrevEntryIs
  <1> HIDE DEF before
  <1> QED BY <1>1, <1>2, <1>3

\* A word of two letters or more matches itself.
LEMMA MatchesItself ==
    ASSUME NEW w \in Words, Len(w) >= 2
    PROVE  PrefixMatches(Lowered(w), w)
  <1>1. Lowered(w) \in Words /\ Len(Lowered(w)) = Len(w) /\ Len(w) \in Nat
    BY LoweredIs, WordIs
  <1>2. \E m \in Nat : /\ m >= 2 /\ 3 * m > 2 * Len(w) /\ m <= Len(Lowered(w)) /\ m <= Len(w)
                       /\ \A k \in 1..m : Lowered(w)[k] = Lowered(w)[k]
    BY <1>1
  <1> QED BY <1>1, <1>2, MatchIs

\* An entry is not after another of the index.
UpTo(a, b) == a = b \/ KeyLess(a, b)

\* What lies between a word and an entry that begins like it begins like it.
LEMMA MatchesBetween ==
    ASSUME NEW a \in Keys, NEW b \in Keys, NEW c \in Keys, UpTo(a, b), UpTo(b, c),
           NEW w \in Words,
           \/ a.word = Lowered(w) /\ PrefixMatches(c.word, w)
           \/ c.word = Lowered(w) /\ PrefixMatches(a.word, w)
    PROVE  PrefixMatches(b.word, w)
  <1>1. a.word \in Words /\ b.word \in Words /\ c.word \in Words
    BY DEF Keys
  <1>2. /\ a.word = b.word \/ MemLess(a.word, b.word)
        /\ b.word = c.word \/ MemLess(b.word, c.word)
    BY DEF UpTo, KeyLess
  <1>3. Lowered(w) \in Words /\ Len(Lowered(w)) = Len(w)
    BY LoweredIs
  <1>4. PICK m \in Nat : /\ m >= 2 /\ 3 * m > 2 * Len(w) /\ m <= Len(w)
                         /\ m <= Len(a.word) /\ m <= Len(c.word)
                         /\ \A k \in 1..m : a.word[k] = c.word[k]
                         /\ \A k \in 1..m : a.word[k] = Lowered(w)[k]
    <2>1. CASE a.word = Lowered(w) /\ PrefixMatches(c.word, w)
      <3>1. PICK m \in Nat : /\ m >= 2 /\ 3 * m > 2 * Len(w) /\ m <= Len(c.word) /\ m <= Len(w)
                             /\ \A k \in 1..m : c.word[k] = Lowered(w)[k]
        BY <1>1, <2>1, MatchIs
      <3> QED BY <3>1, <2>1, <1>3
    <2>2. CASE c.word = Lowered(w) /\ PrefixMatches(a.word, w)
      <3>1. PICK m \in Nat : /\ m >= 2 /\ 3 * m > 2 * Len(w) /\ m <= Len(a.word) /\ m <= Len(w)
                             /\ \A k \in 1..m : a.word[k] = Lowered(w)[k]
        BY <1>1, <2>2, MatchIs
      <3> QED BY <3>1, <2>2, <1>3
    <2> QED BY <2>1, <2>2
  <1>5. m <= Len(b.word) /\ \A k \in 1..m : a.word[k] = b.word[k]
    <2> DEFINE aw == a.word
               bw == b.word
               cw == c.word
    <2>1. /\ aw \in Words /\ bw \in Words /\ cw \in Words
          /\ aw = bw \/ MemLess(aw, bw)
          /\ bw = cw \/ MemLess(bw, cw)
          /\ m <= Len(aw) /\ m <= Len(cw) /\ \A k \in 1..m : aw[k] = cw[k]
      BY <1>1, <1>2, <1>4
    <2> HIDE DEF aw, bw, cw
    <2>2. m <= Len(bw) /\ \A k \in 1..m : aw[k] = bw[k]
      BY <2>1, Between
    <2> QED BY <2>2 DEF aw, bw
  <1>6. \A k \in 1..m : b.word[k] = Lowered(w)[k]
    BY <1>4, <1>5
  <1> QED BY <1>1, <1>4, <1>5, <1>6, MatchIs

\* What lies between two entries of a word and a note is of that word and note.
LEMMA SameBetween ==
    ASSUME NEW a \in Keys, NEW b \in Keys, NEW c \in Keys, UpTo(a, b), UpTo(b, c),
           a.word = c.word, a.time = c.time, a.note = c.note
    PROVE  b.word = a.word /\ b.note = a.note
  <1>1. a.word \in Words /\ b.word \in Words /\ c.word \in Words
    BY DEF Keys
  <1>2. b.word = a.word
    <2>1. /\ a.word = b.word \/ MemLess(a.word, b.word)
          /\ b.word = a.word \/ MemLess(b.word, a.word)
      BY DEF UpTo, KeyLess
    <2> QED BY <1>1, <2>1, MemTransitive, MemIrreflexive
  <1>3. ~MemLess(a.word, b.word) /\ ~MemLess(b.word, c.word)
    BY <1>1, <1>2, MemIrreflexive
  <1> QED BY <1>2, <1>3 DEF UpTo, KeyLess, Less3, Keys

\* The key of a further word has the time and the note of the last entry.
LEMMA KeyNotedIs ==
    ASSUME NEW l \in Keys, NEW w \in Words
    PROVE  KeyNoted(w, l) = [word |-> Lowered(w), time |-> l.time, note |-> l.note, idx |-> 0]
  <1> DEFINE low == Lowered(w)
  <1>1. low \in Words
    BY LoweredIs
  <1> HIDE DEF low
  <1>0. PICK r : r = [l EXCEPT !.word = low, !.idx = 0]
    OBVIOUS
  <1>2. r = [word |-> low, time |-> l.time, note |-> l.note, idx |-> 0]
    BY <1>0, <1>1 DEF Keys
  <1> QED BY <1>0, <1>2 DEF KeyNoted, low

\* A further word is found in the note of the last one when the note has it.
LEMMA FurtherFound ==
    ASSUME IndexIs, NEW w \in Words, Len(w) >= 2, last \in index,
           NEW y \in index, y.note = last.note, y.time = last.time, y.word = Lowered(w)
    PROVE  NextWord(TRUE, KeyNoted(w, last), w) # NoEntry
  <1> DEFINE key == KeyNoted(w, last)
             at == SetRange(key)
  <1>1. y \in Keys /\ last \in Keys
    BY DEF IndexIs
  <1>2. key = [word |-> Lowered(w), time |-> last.time, note |-> last.note, idx |-> 0]
    BY <1>1, KeyNotedIs
  <1>3. key \in Keys
    BY <1>1, <1>2, LoweredIs DEF Keys
  <1> HIDE DEF key
  <1>4. UpTo(key, y)
    <2>1. key.word = y.word /\ key.time = y.time /\ key.note = y.note /\ key.idx = 0
      BY <1>2
    <2> QED BY <1>1, <1>2, <2>1 DEF UpTo, KeyLess, Less3, Keys
  <1>5. ~KeyLess(y, key)
    BY <1>1, <1>3, <1>4, KeyAsymmetric, KeyIrreflexive DEF UpTo
  <1>6. at # NoEntry /\ at \in index /\ ~KeyLess(at, key) /\ UpTo(at, y)
    BY <1>5, SetRangeIs DEF UpTo
  <1>7. at \in Keys /\ UpTo(key, at)
    BY <1>3, <1>6, KeyTotal DEF IndexIs, UpTo
  <1>8. at.word = Lowered(w) /\ at.note = last.note
    BY <1>1, <1>2, <1>3, <1>4, <1>6, <1>7, SameBetween
  <1>9. PrefixMatches(at.word, w)
    BY <1>8, MatchesItself
  <1>10. NextWord(TRUE, key, w) = at
    BY <1>6, <1>8, <1>9 DEF NextWord
  <1> QED BY <1>6, <1>10 DEF key

\* The root word goes on in the order of the search.
LEMMA RootMoves ==
    ASSUME IndexIs, NEW key, NEW w, NextWord(FALSE, key, w) # NoEntry
    PROVE  order = "desc" => KeyLess(NextWord(FALSE, key, w), saved)
  <1> SUFFICES ASSUME order = "desc" PROVE KeyLess(NextWord(FALSE, key, w), saved)
    OBVIOUS
  <1>1. NextWord(FALSE, key, w) = PrevEntry(saved)
    BY DEF NextWord
  <1> QED BY <1>1, PrevEntryIs

\* The root word stops at no entry of the word that the search has not passed.
LEMMA RootFound ==
    ASSUME IndexIs, last = NoEntry, order \in {"asc", "desc"}, saved \in index \cup {NoEntry},
           NEW w \in Words, Len(w) >= 2, NEW x \in index, x.word = Lowered(w),
           NEW key \in Keys, key.word = Lowered(w),
           saved = NoEntry => IF order = "desc" THEN KeyLess(x, key) ELSE KeyLess(key, x),
           saved # NoEntry => /\ PrefixMatches(saved.word, w)
                              /\ IF order = "desc" THEN KeyLess(x, saved) ELSE KeyLess(saved, x)
    PROVE  LET e == NextWord(saved = NoEntry, key, w)
           IN  /\ e # NoEntry
               /\ IF order = "desc" THEN UpTo(x, e) ELSE UpTo(e, x)
  <1> DEFINE e == NextWord(saved = NoEntry, key, w)
  <1>0. x \in Keys /\ index \subseteq Keys
    BY DEF IndexIs
  <1>00. PrefixMatches(x.word, w) /\ PrefixMatches(key.word, w)
    BY MatchesItself
  <1>1. CASE saved # NoEntry /\ order = "desc"
    <2> DEFINE at == PrevEntry(saved)
    <2>1. at # NoEntry /\ at \in index /\ KeyLess(at, saved) /\ UpTo(x, at)
      BY <1>1, PrevEntryIs DEF UpTo
    <2>2. at \in Keys /\ saved \in Keys
      BY <1>0, <1>1, <2>1
    <2>3. PrefixMatches(at.word, w)
      BY <1>0, <1>1, <2>1, <2>2, MatchesBetween DEF UpTo
    <2>4. e = at
      BY <1>1, <2>1, <2>3 DEF NextWord
    <2> QED BY <1>1, <2>1, <2>4
  <1>2. CASE saved # NoEntry /\ order = "asc"
    <2> DEFINE at == NextEntry(saved)
    <2>1. at # NoEntry /\ at \in index /\ KeyLess(saved, at) /\ UpTo(at, x)
      BY <1>2, NextEntryIs DEF UpTo
    <2>2. at \in Keys /\ saved \in Keys
      BY <1>0, <1>2, <2>1
    <2>3. PrefixMatches(at.word, w)
      BY <1>0, <1>2, <2>1, <2>2, MatchesBetween DEF UpTo
    <2>4. e = at
      BY <1>2, <2>1, <2>3 DEF NextWord
    <2> QED BY <1>2, <2>1, <2>4
  <1>3. CASE saved = NoEntry /\ order = "asc"
    <2> DEFINE at == SetRange(key)
    <2>1. KeyLess(key, x) /\ ~KeyLess(x, key)
      BY <1>0, <1>3, KeyAsymmetric
    <2>2. at # NoEntry /\ at \in index /\ ~KeyLess(at, key) /\ UpTo(at, x)
      BY <2>1, SetRangeIs DEF UpTo
    <2>3. at \in Keys /\ UpTo(key, at)
      BY <1>0, <2>2, KeyTotal DEF UpTo
    <2>4. PrefixMatches(at.word, w)
      BY <1>0, <1>00, <2>2, <2>3, MatchesBetween
    <2>5. e = at
      BY <1>3, <2>2, <2>4 DEF NextWord
    <2> QED BY <1>3, <2>2, <2>5
  <1>4. CASE saved = NoEntry /\ order = "desc" /\ SetRange(key) = NoEntry
    <2> DEFINE at == GreatestOf(index)
    <2>1. at # NoEntry /\ at \in index /\ UpTo(x, at) /\ KeyLess(at, key)
      BY <1>4, EndsAre, SetRangeIs DEF UpTo
    <2>2. PrefixMatches(at.word, w)
      BY <1>0, <1>00, <2>1, MatchesBetween DEF UpTo
    <2>3. e = at
      BY <1>4, <2>1, <2>2 DEF NextWord
    <2> QED BY <1>4, <2>1, <2>3
  <1>5. CASE saved = NoEntry /\ order = "desc" /\ SetRange(key) # NoEntry
    <2> DEFINE at == SetRange(key)
               before == PrevEntry(at)
    <2>1. at \in index /\ ~KeyLess(at, key) /\ \A o \in index : KeyLess(o, key) \/ o = at \/ KeyLess(at, o)
      BY <1>5, SetRangeIs
    <2>2. at \in Keys /\ UpTo(key, at) /\ KeyLess(x, key)
      BY <1>0, <1>5, <2>1, KeyTotal DEF UpTo
    <2>3. KeyLess(x, at)
      BY <1>0, <2>2, KeyTransitive DEF UpTo
    <2>4. before # NoEntry /\ before \in index /\ KeyLess(before, at) /\ UpTo(x, before)
      BY <2>3, PrevEntryIs DEF UpTo
    <2>5. before \in Keys /\ KeyLess(before, key)
      BY <1>0, <2>1, <2>2, <2>4, KeyAsymmetric, KeyIrreflexive
    <2>6. PrefixMatches(before.word, w)
      BY <1>0, <1>00, <2>4, <2>5, MatchesBetween DEF UpTo
    <2>7. e = at \/ e = before
      <3>1. at # NoEntry
        BY <1>5
      <3> HIDE DEF before
      <3>2. before = PrevEntry(at)
        BY DEF before
      <3> QED BY <1>5, <3>1, <3>2, <2>4, <2>6 DEF NextWord
    <2> QED BY <1>5, <2>3, <2>4, <2>7 DEF UpTo
  <1> QED BY <1>1, <1>2, <1>3, <1>4, <1>5

-----------------------------------------------------------------------------
(* The invariant of a text search *)

\* The index holds the words of the notes that have room in a key, and nothing else.
NotesInv ==
    /\ notes \in Seq([content : Contents, created_at : Times])
    /\ Len(notes) <= MaxNotes
    /\ index \in SUBSET Keys /\ IsFiniteSet(index)
    /\ \A e \in index :
          /\ e.note \in 1..Len(notes)
          /\ e.time = KeyTime(notes[e.note].created_at)
          /\ \E w \in Range(ParseWords(notes[e.note].content)) : e.word = Lowered(w)
    /\ \A n \in 1..Len(notes) : \A w \in Range(ParseWords(notes[n].content)) :
          Len(w) <= Longest => \E e \in index : e.note = n /\ e.word = Lowered(w)

\* What a search was started with, and the entries it is at.
StartedInv ==
    /\ phase \in {"write", "root", "word", "done", "overrun", "walk"}
    /\ words \in Seq(Words) /\ Len(words) <= MaxWords
    /\ filter \in Filters \cup {NoFilter} /\ order \in {"asc", "desc"} /\ limit \in Int
    /\ j \in 1..(MaxWords + 1)
    /\ saved \in index \cup {NoEntry} /\ last \in index \cup {NoEntry}
    /\ phase \in {"write", "walk"} => words = <<>>
    /\ phase \in {"root", "word"} => words # <<>>
    /\ words = <<>> => results = <<>> /\ saved = NoEntry

\* A note has a word that begins like the k-th of the search.
Matched(n, k) == \E w \in Range(ParseWords(notes[n].content)) : PrefixMatches(Lowered(w), words[k])

\* A candidate is one note, which has every word looked for so far.
CandidateInv ==
    /\ saved # NoEntry => PrefixMatches(saved.word, words[1])
    /\ phase = "word" => j <= Len(words) /\ Len(results) < limit
    /\ phase = "overrun" => limit > MaxResults
    /\ (phase = "word" /\ j = 1) => last = NoEntry
    /\ (phase = "word" /\ j > 1) =>
          /\ saved # NoEntry /\ last # NoEntry /\ root = saved /\ last.note = root.note
          /\ FilterMatches(root.note) /\ Len(results) < MaxResults
          /\ \A k \in 1..(j - 1) : Matched(root.note, k)

\* The results have every word, and their root entries are behind the search.
ResultsInv ==
    /\ results \in Seq([note : Nat, root : Keys])
    /\ results = <<>> \/ Len(results) <= limit
    /\ Len(results) <= MaxResults
    /\ \A i \in 1..Len(results) :
          /\ results[i].root \in index /\ results[i].note = results[i].root.note
          /\ FilterMatches(results[i].note)
          /\ \A k \in 1..Len(words) : Matched(results[i].note, k)
          /\ (order = "desc" /\ saved # NoEntry) => UpTo(saved, results[i].root)
    /\ NoteOnce
    /\ (saved = NoEntry /\ phase \in {"root", "word"}) => results = <<>>

\* A note that the search must return and has not returned.
Due(n) ==
    /\ Holds(n) /\ FilterMatches(n) /\ notes[n].created_at < IntRange
    /\ \A i \in 1..Len(results) : results[i].note # n

\* Such a note has its entries of the root word ahead of the search, or is its candidate.
AheadInv ==
    phase \in {"root", "word"} =>
        \A x \in index : (x.word = Lowered(words[1]) /\ Due(x.note)) =>
            \/ saved = NoEntry
            \/ IF order = "desc" THEN KeyLess(x, saved) ELSE KeyLess(saved, x)
            \/ phase = "word" /\ j > 1 /\ x = saved

SearchInv == NotesInv /\ StartedInv /\ CandidateInv /\ ResultsInv

-----------------------------------------------------------------------------
(* The invariant of a profile search *)

NameKeys == [name : Words, pubkey : Nat, time : Nat]

\* Where a profile search starts, and whether it has returned someone.
Asked == [name |-> NameKey(query), pubkey |-> 0, time |-> 0]
Reached(e) == \E h \in 1..Len(hits) : hits[h].pubkey = e.pubkey

\* Whoever is not before the start is ahead of the search, or has been returned.
PeopleInv ==
    /\ profiles \in Seq([pubkey : Pubkeys, names : SUBSET Names])
    /\ names \in SUBSET NameKeys /\ IsFiniteSet(names)
    /\ \A e \in names : e.pubkey # 0
    /\ \A i \in 1..Len(profiles) : \A n \in profiles[i].names :
          \E e \in names : e.name = NameKey(n) /\ e.pubkey = profiles[i].pubkey
    /\ query \in Names \cup {<<>>} /\ hits \in Seq(names)
    /\ \A i \in 1..(Len(hits) - 1) : hits[i].pubkey # hits[i + 1].pubkey /\ NameLess(hits[i], hits[i + 1])
    /\ phase \in {"write", "root", "word"} => query = <<>> /\ hits = <<>>
    /\ phase = "walk" => /\ hits # <<>>
                         /\ \A e \in names : ~NameLess(e, Asked) => NameLess(Last(hits), e) \/ Reached(e)
    /\ (phase = "done" /\ query # <<>>) => \A e \in names : ~NameLess(e, Asked) => Reached(e)

-----------------------------------------------------------------------------
(* Writing notes *)

\* The words of a content are words.
LEMMA ContentWords ==
    ASSUME NEW c \in Contents
    PROVE  /\ ParseWords(c) \in Seq(Words) /\ Len(ParseWords(c)) \in Nat
           /\ Range(ParseWords(c)) \subseteq Words
           /\ Range(ParseWords(c)) = {ParseWords(c)[i] : i \in 1..Len(ParseWords(c))}
  <1>1. c \in Seq(Nat)
    BY SearchAssumption
  <1>2. ParseWords(c) \in Seq(Words)
    BY <1>1, ParseWordsIs
  <1> DEFINE p == ParseWords(c)
  <1>3. p \in Seq(Words) /\ Len(p) \in Nat /\ DOMAIN p = 1..Len(p)
    BY <1>2
  <1> HIDE DEF p
  <1>4. \A i \in 1..Len(p) : p[i] \in Words
    BY <1>3, ElementOfSeq
  <1>5. Range(p) \subseteq Words /\ Range(p) = {p[i] : i \in 1..Len(p)}
    BY <1>3, <1>4 DEF Range
  <1> QED BY <1>3, <1>5 DEF p

\* The entries written for a note: one for every word with room, and nothing else.
LEMMA WordEntriesAre ==
    ASSUME NEW c \in Contents, NEW t \in Times, NEW key \in Nat
    PROVE  /\ WordEntries(c, t, key) \in SUBSET Keys /\ IsFiniteSet(WordEntries(c, t, key))
           /\ \A e \in WordEntries(c, t, key) :
                 e.note = key /\ e.time = KeyTime(t) /\ \E w \in Range(ParseWords(c)) : e.word = Lowered(w)
           /\ \A w \in Range(ParseWords(c)) :
                 Len(w) <= Longest => \E e \in WordEntries(c, t, key) : e.note = key /\ e.word = Lowered(w)
  <1> DEFINE all == ParseWords(c)
             kept == {i \in 1..Len(all) : Len(all[i]) <= Longest}
             rank(i) == Cardinality({k \in kept : k < i})
             f == [i \in kept |-> TextKey(all[i], t, key, rank(i))]
             E == WordEntries(c, t, key)
  <1>1. /\ all \in Seq(Words) /\ Len(all) \in Nat /\ Range(all) = {all[i] : i \in 1..Len(all)}
        /\ Range(all) \subseteq Words
    BY ContentWords
  <1>2. KeyTime(t) \in Nat
    BY KeyTimeIs, SearchAssumption
  <1>3. E = {f[i] : i \in kept}
    BY DEF WordEntries
  <1> HIDE DEF all, E
  <1>4. IsFiniteSet(kept) /\ \A i \in kept : rank(i) \in Nat
    <2>1. IsFiniteSet(1..Len(all))
      BY <1>1, FS_Interval
    <2>2. IsFiniteSet(kept)
      BY <2>1, FS_Subset
    <2>3. ASSUME NEW i \in kept PROVE rank(i) \in Nat
      <3>1. IsFiniteSet({k \in kept : k < i})
        BY <2>2, FS_Subset
      <3> QED BY <3>1, FS_CardinalityType
    <2> QED BY <2>2, <2>3
  <1> HIDE DEF rank
  <1>5. \A i \in kept : /\ f[i] = [word |-> Lowered(all[i]), time |-> KeyTime(t), note |-> key, idx |-> rank(i)]
                        /\ all[i] \in Range(all)
    BY <1>1 DEF TextKey
  <1>f. f = [i \in kept |-> f[i]]
    BY DEF f
  <1> HIDE DEF f, kept
  <1>6. \A i \in kept : Lowered(all[i]) \in Words
    BY <1>1, <1>5, LoweredIs
  <1>7. \A i \in kept : f[i] \in Keys
    <2> SUFFICES ASSUME NEW i \in kept PROVE f[i] \in Keys
      OBVIOUS
    <2>1. f[i] = [word |-> Lowered(all[i]), time |-> KeyTime(t), note |-> key, idx |-> rank(i)]
      BY <1>5
    <2>2. Lowered(all[i]) \in Words /\ rank(i) \in Nat
      BY <1>4, <1>6
    <2> QED BY <1>2, <2>1, <2>2 DEF Keys
  <1>8. IsFiniteSet(E)
    <2>1. f \in Surjection(kept, E)
      BY <1>3, <1>f DEF Surjection
    <2> QED BY <2>1, <1>4, FS_Surjection
  <1>9. \A e \in E : e \in Keys /\ e.note = key /\ e.time = KeyTime(t) /\ \E w \in Range(all) : e.word = Lowered(w)
    <2> SUFFICES ASSUME NEW i \in kept
                 PROVE  f[i].note = key /\ f[i].time = KeyTime(t) /\ \E w \in Range(all) : f[i].word = Lowered(w)
      BY <1>3, <1>7
    <2>0. f[i] = [word |-> Lowered(all[i]), time |-> KeyTime(t), note |-> key, idx |-> rank(i)]
      BY <1>5
    <2>1. f[i].note = key /\ f[i].time = KeyTime(t) /\ f[i].word = Lowered(all[i])
      BY <2>0
    <2>2. all[i] \in Range(all)
      BY <1>5
    <2> QED BY <2>1, <2>2
  <1>10. ASSUME NEW w \in Range(all), Len(w) <= Longest
         PROVE  \E e \in E : e.note = key /\ e.word = Lowered(w)
    <2>1. PICK i \in 1..Len(all) : w = all[i]
      BY <1>1
    <2>2. i \in kept
      BY <1>10, <2>1 DEF kept
    <2>0. f[i] = [word |-> Lowered(w), time |-> KeyTime(t), note |-> key, idx |-> rank(i)]
      BY <1>5, <2>1, <2>2
    <2>3. f[i].note = key /\ f[i].word = Lowered(w)
      BY <2>0
    <2>4. f[i] \in E
      BY <1>3, <2>2
    <2> QED BY <2>3, <2>4
  <1> QED BY <1>8, <1>9, <1>10 DEF all, E

\* Writing a note keeps the index exact.
LEMMA NotesWrite ==
    ASSUME NotesInv, WriteNote
    PROVE  NotesInv'
  <1>1. PICK c \in Contents, t \in Times :
            /\ notes' = Append(notes, [content |-> c, created_at |-> t])
            /\ index' = index \cup WordEntries(c, t, Len(notes) + 1)
    BY DEF WriteNote
  <1> DEFINE key == Len(notes) + 1
             E == WordEntries(c, t, key)
             Note == [content : Contents, created_at : Times]
  <1>2. notes \in Seq(Note) /\ Len(notes) \in Nat /\ Len(notes) < MaxNotes /\ MaxNotes \in Nat
    BY SearchAssumption DEF NotesInv, WriteNote
  <1>3. /\ notes' \in Seq(Note) /\ Len(notes') = key /\ notes'[key] = [content |-> c, created_at |-> t]
        /\ \A n \in 1..Len(notes) : notes'[n] = notes[n]
    <2> DEFINE note == [content |-> c, created_at |-> t]
    <2>1. note \in Note
      OBVIOUS
    <2> HIDE DEF note, Note
    <2>2. notes' = Append(notes, note)
      BY <1>1 DEF note
    <2>3. notes' \in Seq(Note) /\ Len(notes') = key /\ notes'[key] = note /\ \A n \in 1..Len(notes) : notes'[n] = notes[n]
      BY <1>2, <2>1, <2>2
    <2> QED BY <2>3 DEF note
  <1>4. notes'[key].content = c /\ notes'[key].created_at = t /\ key \in Nat /\ key \in 1..Len(notes')
    BY <1>2, <1>3
  <1>5. /\ E \in SUBSET Keys /\ IsFiniteSet(E)
        /\ \A e \in E : e.note = key /\ e.time = KeyTime(t) /\ \E w \in Range(ParseWords(c)) : e.word = Lowered(w)
        /\ \A w \in Range(ParseWords(c)) : Len(w) <= Longest => \E e \in E : e.note = key /\ e.word = Lowered(w)
    BY <1>4, WordEntriesAre
  <1> HIDE DEF E
  <1>6. index' = index \cup E
    BY <1>1 DEF E
  <1>7. index' \in SUBSET Keys /\ IsFiniteSet(index')
    BY <1>5, <1>6, FS_Union DEF NotesInv
  <1>8. ASSUME NEW e \in index'
        PROVE  /\ e.note \in 1..Len(notes')
               /\ e.time = KeyTime(notes'[e.note].created_at)
               /\ \E w \in Range(ParseWords(notes'[e.note].content)) : e.word = Lowered(w)
    <2>1. CASE e \in index
      <3>1. e.note \in 1..Len(notes) /\ e.note \in 1..Len(notes') /\ notes'[e.note] = notes[e.note]
        BY <1>2, <1>3, <2>1 DEF NotesInv
      <3> QED BY <2>1, <3>1 DEF NotesInv
    <2>2. CASE e \in E
      <3>1. e.note = key /\ e.time = KeyTime(t) /\ \E w \in Range(ParseWords(c)) : e.word = Lowered(w)
        BY <1>5, <2>2
      <3> QED BY <1>4, <3>1
    <2> QED BY <1>6, <2>1, <2>2
  <1>9. ASSUME NEW n \in 1..Len(notes'), NEW w \in Range(ParseWords(notes'[n].content)), Len(w) <= Longest
        PROVE  \E e \in index' : e.note = n /\ e.word = Lowered(w)
    <2>1. CASE n \in 1..Len(notes)
      <3>1. notes'[n] = notes[n]
        BY <1>3, <2>1
      <3> QED BY <1>6, <1>9, <2>1, <3>1 DEF NotesInv
    <2>2. CASE n = key
      BY <1>4, <1>5, <1>6, <1>9, <2>2
    <2> QED BY <1>2, <1>3, <2>1, <2>2
  <1> QED BY <1>2, <1>3, <1>7, <1>8, <1>9 DEF NotesInv

-----------------------------------------------------------------------------
(* What the steps of a search rest on *)

\* The entries of the index are entries of notes that were written.
LEMMA IndexKnown ==
    ASSUME NotesInv
    PROVE  /\ IndexIs
           /\ \A n \in 1..Len(notes) : /\ notes[n].created_at \in Nat /\ notes[n].content \in Contents
                                       /\ Range(ParseWords(notes[n].content)) \subseteq Words
  <1>1. \A n \in 1..Len(notes) : notes[n] \in [content : Contents, created_at : Times]
    BY ElementOfSeq DEF NotesInv
  <1>2. \A n \in 1..Len(notes) : notes[n].created_at \in Nat /\ notes[n].content \in Contents
    BY <1>1, SearchAssumption
  <1>3. IndexIs
    BY DEF IndexIs, NotesInv
  <1> QED BY <1>2, <1>3, ContentWords

\* A step that leaves the store and the search as they are keeps what is said of notes.
LEMMA StoreKept ==
    ASSUME UNCHANGED <<notes, index, words, filter, order, limit>>
    PROVE  /\ NotesInv => NotesInv'
           /\ \A n : FilterMatches(n)' <=> FilterMatches(n)
           /\ \A n : Holds(n)' <=> Holds(n)
           /\ \A n, k : Matched(n, k)' <=> Matched(n, k)
  BY DEF NotesInv, FilterMatches, Holds, Matched

\* An entry that answers for a word is in a note that has a word like it.
LEMMA EntryMatched ==
    ASSUME NotesInv, NEW e \in index, NEW k, PrefixMatches(e.word, words[k])
    PROVE  Matched(e.note, k)
  BY DEF NotesInv, Matched

\* A note that holds the words of the search has an entry for each.
LEMMA HeldEntry ==
    ASSUME NotesInv, words \in Seq(Words), NEW n \in 1..Len(notes), Holds(n), NEW k \in 1..Len(words)
    PROVE  /\ Len(words[k]) >= 2
           /\ \E y \in index : /\ y.note = n /\ y.word = Lowered(words[k])
                               /\ y.time = KeyTime(notes[n].created_at)
  <1>1. PICK w \in Range(ParseWords(notes[n].content)) : Lowered(w) = Lowered(words[k])
    BY DEF Holds
  <1>2. w \in Words /\ words[k] \in Words
    BY <1>1, IndexKnown, ElementOfSeq
  <1>3. Len(words[k]) \in 2..Longest /\ Longest \in Nat
    BY SearchAssumption DEF Holds
  <1>4. Len(w) = Len(words[k])
    BY <1>1, <1>2, LoweredIs
  <1>5. PICK y \in index : y.note = n /\ y.word = Lowered(w)
    BY <1>3, <1>4 DEF NotesInv
  <1>6. y.time = KeyTime(notes[n].created_at)
    BY <1>5 DEF NotesInv
  <1> QED BY <1>1, <1>3, <1>5, <1>6

\* The bound of a filter is a time that an int holds.
UntilFits == \A f \in Filters : f.until < IntRange

\* A search starts from a key on the far side of what it must return.
LEMMA RootKeyIs ==
    ASSUME NotesInv, StartedInv, words # <<>>, UntilFits,
           NEW x \in index, x.word = Lowered(words[1]), FilterMatches(x.note),
           notes[x.note].created_at < IntRange
    PROVE  /\ RootKey \in Keys /\ RootKey.word = Lowered(words[1])
           /\ IF order = "desc" THEN KeyLess(x, RootKey) ELSE KeyLess(RootKey, x)
  <1> DEFINE t == notes[x.note].created_at
             until == IF filter.until < 0 THEN IntRange - 1 ELSE filter.until
             since == IF filter.since < 0 THEN 0 ELSE filter.since
  <1>1. x \in Keys /\ x.note \in 1..Len(notes) /\ x.time = KeyTime(t) /\ t \in Nat /\ Len(notes) \in Nat /\ Len(notes) <= MaxNotes
    BY IndexKnown DEF NotesInv
  <1>2. /\ IntRange \in Nat \ {0} /\ Int32Max \in Nat /\ MaxNotes \in Nat /\ MaxNotes < Int32Max
        /\ \A f \in Filters : f.since \in Int /\ f.until \in Int
    BY SearchAssumption
  <1>3. filter.since \in Int /\ filter.until \in Int /\ filter.until < IntRange
    <2>1. CASE filter = NoFilter
      BY <1>2, <2>1 DEF NoFilter
    <2>2. CASE filter \in Filters
      BY <1>2, <2>2 DEF UntilFits
    <2> QED BY <2>1, <2>2 DEF StartedInv
  <1>4. until \in Nat /\ until < IntRange /\ since \in Nat
    BY <1>2, <1>3
  <1>5. t <= until /\ since <= t
    <2>1. CASE filter = NoFilter
      <3>1. filter.until < 0 /\ filter.since < 0
        BY <2>1 DEF NoFilter
      <3> QED BY <1>1, <1>2, <3>1
    <2>2. CASE filter # NoFilter
      <3>1. filter.since < 0 \/ t >= filter.since
        BY <2>2 DEF FilterMatches
      <3>2. filter.until < 0 \/ t < filter.until
        BY <2>2 DEF FilterMatches
      <3> HIDE DEF t
      <3>3. t < IntRange
        BY DEF t
      <3> QED BY <1>1, <1>2, <1>3, <3>1, <3>2, <3>3
    <2> QED BY <2>1, <2>2
  <1> HIDE DEF t, until, since
  <1>6. t < IntRange
    BY DEF t
  <1>7. KeyTime(t) <= KeyTime(until) /\ KeyTime(since) <= KeyTime(t)
    BY <1>1, <1>4, <1>5, <1>6, KeyTimeIs
  <1>8. KeyTime(t) \in Nat /\ KeyTime(until) \in Nat /\ KeyTime(since) \in Nat
    BY <1>1, <1>4, KeyTimeIs
  <1>9. words[1] \in Words
    <2>1. words \in Seq(Words) /\ 1 \in 1..Len(words)
      BY DEF StartedInv
    <2> QED BY <2>1, ElementOfSeq
  <1>10. Lowered(words[1]) \in Words
    BY <1>9, LoweredIs
  <1> DEFINE low == Lowered(words[1])
  <1>11. CASE order = "desc"
    <2>1. RootKey = [word |-> low, time |-> KeyTime(until), note |-> Int32Max, idx |-> 0]
      BY <1>11 DEF RootKey, KeyHigh, TextKey, until
    <2> HIDE DEF low
    <2>2. RootKey \in Keys
      BY <1>2, <1>8, <1>10, <2>1 DEF Keys, low
    <2>3. x.word = low /\ x.note \in Nat /\ x.note < Int32Max
      BY <1>1, <1>2 DEF low
    <2>4. RootKey.word = low /\ RootKey.time = KeyTime(until) /\ RootKey.note = Int32Max
      BY <2>1
    <2>5. KeyLess(x, RootKey)
      BY <1>1, <1>7, <1>8, <2>3, <2>4 DEF KeyLess, Less3
    <2> QED BY <1>11, <2>2, <2>4, <2>5 DEF low
  <1>12. CASE order # "desc"
    <2>1. RootKey = [word |-> low, time |-> KeyTime(since), note |-> 0, idx |-> 0]
      BY <1>12 DEF RootKey, KeyLow, TextKey, since
    <2> HIDE DEF low
    <2>2. RootKey \in Keys
      BY <1>2, <1>8, <1>10, <2>1 DEF Keys, low
    <2>3. x.word = low /\ x.note \in Nat /\ x.note > 0
      BY <1>1, <1>2 DEF low
    <2>4. RootKey.word = low /\ RootKey.time = KeyTime(since) /\ RootKey.note = 0
      BY <2>1
    <2>5. KeyLess(RootKey, x)
      BY <1>1, <1>7, <1>8, <2>3, <2>4 DEF KeyLess, Less3
    <2> QED BY <1>12, <2>2, <2>4, <2>5 DEF low
  <1> QED BY <1>11, <1>12

-----------------------------------------------------------------------------
(* The steps of a search *)

\* The top of the loop keeps what is known of the results.
LEMMA NextRootStep ==
    ASSUME SearchInv, NextRoot
    PROVE  SearchInv'
  <1>1. UNCHANGED <<notes, index, words, filter, order, limit, saved, root, results>> /\ j' = 1 /\ last' = NoEntry
    BY DEF NextRoot
  <1>2. phase = "root" /\ phase' \in {"done", "word"} /\ (phase' = "word" => Len(results) < limit)
    BY DEF NextRoot
  <1>3. NotesInv'
    BY <1>1, StoreKept DEF SearchInv
  <1>4. words # <<>> /\ words \in Seq(Words) /\ Len(words) \in Nat /\ Len(words) >= 1 /\ MaxWords \in Nat
    BY <1>2, SearchAssumption DEF SearchInv, StartedInv
  <1>5. StartedInv'
    BY <1>1, <1>2, <1>4 DEF SearchInv, StartedInv
  <1>6. CandidateInv'
    BY <1>1, <1>2, <1>4 DEF SearchInv, CandidateInv
  <1>7. ResultsInv'
    <2>1. NoteOnce'
      BY <1>1 DEF SearchInv, ResultsInv, NoteOnce
    <2>2. \A i \in 1..Len(results) :
              /\ FilterMatches(results[i].note)'
              /\ \A k \in 1..Len(words) : Matched(results[i].note, k)'
      BY <1>1 DEF SearchInv, ResultsInv, FilterMatches, Matched
    <2>3. (saved = NoEntry /\ phase \in {"root", "word"}) => results = <<>>
      BY DEF SearchInv, ResultsInv
    <2> QED BY <1>1, <1>2, <2>1, <2>2, <2>3 DEF SearchInv, ResultsInv
  <1> QED BY <1>3, <1>5, <1>6, <1>7 DEF SearchInv

\* A result that was added has what it must have, and so do the others.
LEMMA ResultAdded ==
    ASSUME SearchInv, phase = "word", Len(results) < MaxResults, NEW r \in index, FilterMatches(r.note),
           \A k \in 1..Len(words) : Matched(r.note, k),
           Len(words) > 1 => \A i \in 1..Len(results) : results[i].note # r.note,
           UNCHANGED <<notes, index, words, filter, order, limit>>,
           results' = Append(results, [note |-> r.note, root |-> r]),
           saved' \in index, UpTo(saved', r),
           order = "desc" => \A i \in 1..Len(results) : UpTo(saved', results[i].root)
    PROVE  ResultsInv'
  <1> DEFINE new == [note |-> r.note, root |-> r]
             Result == [note : Nat, root : Keys]
  <1>1. r \in Keys /\ r.note \in Nat
    BY DEF SearchInv, NotesInv, Keys
  <1>2. new \in Result /\ new.note = r.note /\ new.root = r
    BY <1>1
  <1>3. results \in Seq(Result) /\ Len(results) \in Nat /\ Len(results) < limit /\ limit \in Int
    BY DEF SearchInv, ResultsInv, CandidateInv, StartedInv
  <1>4. results' = Append(results, new)
    OBVIOUS
  <1> HIDE DEF new, Result
  <1>5. /\ results' \in Seq(Result) /\ Len(results') = Len(results) + 1 /\ results'[Len(results) + 1] = new
        /\ \A i \in 1..Len(results) : results'[i] = results[i]
    BY <1>2, <1>3, <1>4
  <1>6. ASSUME NEW i \in 1..Len(results')
        PROVE  /\ results'[i].root \in index' /\ results'[i].note = results'[i].root.note
               /\ FilterMatches(results[i].note)'
               /\ \A k \in 1..Len(words') : Matched(results[i].note, k)'
               /\ (order' = "desc" /\ saved' # NoEntry) => UpTo(saved', results'[i].root)
    <2>1. CASE i \in 1..Len(results)
      <3>1. results'[i] = results[i]
        BY <1>5, <2>1
      <3>2. /\ results[i].root \in index /\ results[i].note = results[i].root.note
            /\ FilterMatches(results[i].note) /\ \A k \in 1..Len(words) : Matched(results[i].note, k)
        BY <2>1 DEF SearchInv, ResultsInv
      <3>3. FilterMatches(results[i].note)' /\ \A k \in 1..Len(words) : Matched(results[i].note, k)'
        BY <3>1, <3>2 DEF FilterMatches, Matched
      <3> QED BY <2>1, <3>1, <3>2, <3>3
    <2>2. CASE i = Len(results) + 1
      <3>1. results'[i] = new
        BY <1>5, <2>2
      <3>2. results'[i].note = r.note /\ results'[i].root = r
        BY <1>2, <3>1
      <3>3. FilterMatches(results[i].note)' /\ \A k \in 1..Len(words) : Matched(results[i].note, k)'
        BY <3>2 DEF FilterMatches, Matched
      <3> QED BY <3>2, <3>3
    <2> QED BY <1>3, <1>5, <2>1, <2>2
  <1>7. NoteOnce'
    <2> SUFFICES ASSUME Len(words) > 1, NEW i \in 1..Len(results'), NEW k \in 1..Len(results'),
                        results'[i].note = results'[k].note
                 PROVE  i = k
      BY DEF NoteOnce
    <2>1. \A a, b \in 1..Len(results) : results[a].note = results[b].note => a = b
      BY DEF SearchInv, ResultsInv, NoteOnce
    <2>2. \A a \in 1..Len(results) : results[a].note # r.note
      OBVIOUS
    <2>3. i \in 1..Len(results) => results'[i] = results[i]
      BY <1>5
    <2>4. k \in 1..Len(results) => results'[k] = results[k]
      BY <1>5
    <2>5. i \notin 1..Len(results) => i = Len(results) + 1 /\ results'[i].note = r.note
      BY <1>2, <1>3, <1>5
    <2>6. k \notin 1..Len(results) => k = Len(results) + 1 /\ results'[k].note = r.note
      BY <1>2, <1>3, <1>5
    <2> QED BY <2>1, <2>2, <2>3, <2>4, <2>5, <2>6
  <1>8. saved' # NoEntry
    BY NoEntryIs, IndexKnown DEF SearchInv
  <1>9. Len(results') <= limit' /\ Len(results') <= MaxResults
    BY <1>3, <1>5, SearchAssumption
  <1> QED BY <1>5, <1>6, <1>7, <1>8, <1>9 DEF ResultsInv, Result

\* Results that stay as they are have what they must have.
LEMMA ResultsKept ==
    ASSUME SearchInv, UNCHANGED <<notes, index, words, filter, order, limit, results>>,
           order = "desc" /\ saved' # NoEntry => \A i \in 1..Len(results) : UpTo(saved', results[i].root),
           (saved' = NoEntry /\ phase' \in {"root", "word"}) => results = <<>>
    PROVE  ResultsInv'
  <1>1. NoteOnce'
    BY DEF SearchInv, ResultsInv, NoteOnce
  <1>2. \A i \in 1..Len(results) :
            /\ FilterMatches(results[i].note)'
            /\ \A k \in 1..Len(words) : Matched(results[i].note, k)'
    BY DEF SearchInv, ResultsInv, FilterMatches, Matched
  <1> QED BY <1>1, <1>2 DEF SearchInv, ResultsInv

\* What the root word finds: an entry that begins like it, before the results of a
\* descending search.
LEMMA RootWordFinds ==
    ASSUME SearchInv, phase = "word", j = 1, NEW e, e = RootEntry
    PROVE  \/ e = NoEntry
           \/ /\ e \in index /\ e # NoEntry /\ PrefixMatches(e.word, words[1]) /\ Matched(e.note, 1)
              /\ order = "desc" => \A i \in 1..Len(results) : UpTo(e, results[i].root)
  <1> SUFFICES ASSUME e # NoEntry
               PROVE  /\ e \in index /\ PrefixMatches(e.word, words[1]) /\ Matched(e.note, 1)
                      /\ order = "desc" => \A i \in 1..Len(results) : UpTo(e, results[i].root)
    OBVIOUS
  <1>1. IndexIs /\ NotesInv
    BY IndexKnown DEF SearchInv
  <1>2. e = NextWord(saved = NoEntry, RootKey, words[1])
    BY DEF RootEntry
  <1>3. e \in index /\ PrefixMatches(e.word, words[1])
    <2>1. (saved = NoEntry) \in BOOLEAN
      OBVIOUS
    <2>2. NextWord(saved = NoEntry, RootKey, words[1]) # NoEntry
      BY <1>2
    <2>3. /\ NextWord(saved = NoEntry, RootKey, words[1]) \in index
          /\ PrefixMatches(NextWord(saved = NoEntry, RootKey, words[1]).word, words[1])
      BY <1>1, <2>1, <2>2, NextWordIs, Zenon
    <2> QED BY <1>2, <2>3
  <1>4. Matched(e.note, 1)
    BY <1>1, <1>3, EntryMatched
  <1>5. ASSUME order = "desc", NEW i \in 1..Len(results)
        PROVE  UpTo(e, results[i].root)
    <2>1. saved # NoEntry
      BY DEF SearchInv, ResultsInv
    <2>2. e = NextWord(FALSE, RootKey, words[1])
      BY <1>2, <2>1
    <2>3. KeyLess(e, saved)
      BY <1>1, <1>5, <2>2, RootMoves
    <2>4. UpTo(saved, results[i].root) /\ results[i].root \in index /\ saved \in index
      BY <1>5, <2>1 DEF SearchInv, ResultsInv, StartedInv
    <2> QED BY <1>1, <1>3, <2>3, <2>4, KeyTransitive DEF UpTo, IndexIs
  <1> QED BY <1>3, <1>4, <1>5

\* The root word keeps what is known of the candidate and the results.
LEMMA RootWordStep ==
    ASSUME SearchInv, RootWord
    PROVE  SearchInv'
  <1> DEFINE e == RootEntry
  <1>1. /\ phase = "word" /\ j = 1 /\ j' = 2 /\ saved' = e /\ last' = e /\ root' = e
        /\ UNCHANGED <<notes, index, words, filter, order, limit>>
        /\ phase' = (IF e = NoEntry THEN "done" ELSE IF ~FilterMatches(e.note) THEN "root"
                     ELSE IF Len(words) = 1 THEN "root" ELSE "word")
        /\ results' = (IF e # NoEntry /\ FilterMatches(e.note) /\ Len(words) = 1
                       THEN Append(results, [note |-> e.note, root |-> e]) ELSE results)
        /\ e = NoEntry \/ Len(results) < MaxResults
    BY DEF RootWord
  <1>2. \/ e = NoEntry
        \/ /\ e \in index /\ e # NoEntry /\ PrefixMatches(e.word, words[1]) /\ Matched(e.note, 1)
           /\ order = "desc" => \A i \in 1..Len(results) : UpTo(e, results[i].root)
    BY <1>1, RootWordFinds
  <1> HIDE DEF e
  <1>3. NotesInv'
    BY <1>1, StoreKept DEF SearchInv
  <1>4. words # <<>> /\ words \in Seq(Words) /\ Len(words) \in Nat /\ Len(words) >= 1
        /\ MaxWords \in Nat /\ Len(words) <= MaxWords
    BY <1>1, SearchAssumption DEF SearchInv, StartedInv
  <1>5. StartedInv'
    <2>1. phase' \in {"root", "word", "done"} /\ 2 \in 1..(MaxWords + 1)
      BY <1>1, <1>4
    <2>2. saved' \in index' \cup {NoEntry} /\ last' \in index' \cup {NoEntry}
      BY <1>1, <1>2
    <2> QED BY <1>1, <1>4, <2>1, <2>2 DEF SearchInv, StartedInv
  <1>6. CandidateInv'
    <2>1. saved' # NoEntry => PrefixMatches(saved'.word, words'[1])
      BY <1>1, <1>2
    <2>2. CASE phase' # "word"
      BY <1>1, <2>1, <2>2 DEF CandidateInv
    <2>3. CASE phase' = "word"
      <3>1. e # NoEntry /\ FilterMatches(e.note) /\ Len(words) # 1 /\ results' = results
        BY <1>1, <2>3
      <3>2. j' <= Len(words') /\ Len(results') < limit'
        <4>1. Len(results) < limit
          BY <1>1 DEF SearchInv, CandidateInv
        <4>2. j' = 2 /\ words' = words /\ limit' = limit
          BY <1>1
        <4>3. Len(words) \in Nat /\ Len(words) >= 1 /\ Len(words) # 1
          BY <1>4, <3>1
        <4>4. \A n \in Nat : (n >= 1 /\ n # 1) => 2 <= n
          OBVIOUS
        <4>5. 2 <= Len(words)
          BY <4>3, <4>4
        <4> QED BY <3>1, <4>1, <4>2, <4>5
      <3>3. FilterMatches(root.note)' /\ Matched(root.note, 1)'
        BY <1>1, <1>2, <3>1 DEF FilterMatches, Matched
      <3>4. \A k \in 1..(j' - 1) : Matched(root.note, k)'
        BY <1>1, <3>3
      <3>5. Len(results') < MaxResults
        BY <1>1, <3>1
      <3> QED BY <1>1, <2>1, <3>1, <3>2, <3>3, <3>4, <3>5 DEF CandidateInv
    <2> QED BY <2>2, <2>3
  <1>7. ResultsInv'
    <2>1. CASE e # NoEntry /\ FilterMatches(e.note) /\ Len(words) = 1
      <3>1. \A k \in 1..Len(words) : Matched(e.note, k)
        BY <1>2, <2>1
      <3>2. UpTo(saved', e) /\ saved' \in index
        BY <1>1, <1>2, <2>1 DEF UpTo
      <3>3. ~(Len(words) > 1)
        BY <2>1
      <3> QED BY <1>1, <1>2, <2>1, <3>1, <3>2, <3>3, ResultAdded
    <2>2. CASE ~(e # NoEntry /\ FilterMatches(e.note) /\ Len(words) = 1)
      <3>1. results' = results
        BY <1>1, <2>2
      <3>2. ~(saved' = NoEntry /\ phase' \in {"root", "word"})
        BY <1>1
      <3> QED BY <1>1, <1>2, <3>1, <3>2, ResultsKept
    <2> QED BY <2>1, <2>2
  <1> QED BY <1>3, <1>5, <1>6, <1>7 DEF SearchInv

\* A further word keeps it.
LEMMA FurtherWordStep ==
    ASSUME SearchInv, FurtherWord
    PROVE  SearchInv'
  <1> DEFINE e == IF Known THEN NoEntry ELSE NextWord(TRUE, KeyNoted(words[j], last), words[j])
  <1>1. /\ phase = "word" /\ j > 1 /\ j' = j + 1 /\ last' = e
        /\ UNCHANGED <<notes, index, words, filter, order, limit, saved, root>>
        /\ phase' = (IF e = NoEntry \/ j = Len(words) THEN "root" ELSE "word")
        /\ results' = (IF e # NoEntry /\ j = Len(words)
                       THEN Append(results, [note |-> e.note, root |-> root]) ELSE results)
    BY DEF FurtherWord
  <1>2. IndexIs /\ NotesInv
    BY IndexKnown DEF SearchInv
  <1>3. /\ saved # NoEntry /\ last # NoEntry /\ root = saved /\ last.note = root.note
        /\ FilterMatches(root.note) /\ \A k \in 1..(j - 1) : Matched(root.note, k)
        /\ j <= Len(words) /\ Len(results) < limit /\ Len(results) < MaxResults
    BY <1>1 DEF SearchInv, CandidateInv
  <1>4. /\ words # <<>> /\ words \in Seq(Words) /\ Len(words) \in Nat /\ MaxWords \in Nat /\ Len(words) <= MaxWords
        /\ j \in Nat /\ saved \in index
    BY <1>1, <1>3, SearchAssumption DEF SearchInv, StartedInv
  <1>5. e = NoEntry \/ ( /\ ~Known /\ e \in index /\ e # NoEntry /\ e.note = root.note
                         /\ Matched(root.note, j) )
    <2> SUFFICES ASSUME e # NoEntry PROVE ~Known /\ e \in index /\ e.note = root.note /\ Matched(root.note, j)
      OBVIOUS
    <2>1. ~Known /\ e = NextWord(TRUE, KeyNoted(words[j], last), words[j])
      OBVIOUS
    <2>2. e \in index /\ e.note = last.note /\ PrefixMatches(e.word, words[j])
      <3> HIDE DEF e
      <3>1. TRUE \in BOOLEAN
        OBVIOUS
      <3> QED BY <1>2, <1>3, <2>1, <3>1, NextWordIs
    <2>3. Matched(e.note, j)
      BY <1>2, <2>2, EntryMatched
    <2> QED BY <1>3, <2>1, <2>2, <2>3
  <1> HIDE DEF e
  <1>6. NotesInv'
    BY <1>1, <1>2, StoreKept
  <1>7. StartedInv'
    <2>1. phase' \in {"root", "word"} /\ j' \in 1..(MaxWords + 1)
      BY <1>1, <1>3, <1>4
    <2>2. last' \in index' \cup {NoEntry}
      BY <1>1, <1>5
    <2> QED BY <1>1, <1>4, <2>1, <2>2 DEF SearchInv, StartedInv
  <1>8. CandidateInv'
    <2>1. saved' # NoEntry => PrefixMatches(saved'.word, words'[1])
      BY <1>1 DEF SearchInv, CandidateInv
    <2>2. CASE phase' # "word"
      BY <1>1, <2>1, <2>2 DEF CandidateInv
    <2>3. CASE phase' = "word"
      <3>1. e # NoEntry /\ j # Len(words) /\ results' = results
        BY <1>1, <2>3
      <3>2. j' <= Len(words') /\ Len(results') < limit' /\ j' # 1
        BY <1>1, <1>3, <1>4, <3>1
      <3>3. \A k \in 1..j : Matched(root.note, k)
        BY <1>3, <1>4, <1>5, <3>1
      <3>4. FilterMatches(root.note)' /\ \A k \in 1..j : Matched(root.note, k)'
        BY <1>1, <1>3, <3>3 DEF FilterMatches, Matched
      <3>5. \A k \in 1..(j' - 1) : Matched(root.note, k)'
        BY <1>1, <1>4, <3>4
      <3> QED BY <1>1, <1>3, <1>5, <2>1, <3>1, <3>2, <3>4, <3>5 DEF CandidateInv
    <2> QED BY <2>2, <2>3
  <1>9. ResultsInv'
    <2>1. order = "desc" => \A i \in 1..Len(results) : UpTo(saved', results[i].root)
      BY <1>1, <1>3 DEF SearchInv, ResultsInv
    <2>2. CASE e # NoEntry /\ j = Len(words)
      <3>1. \A k \in 1..Len(words) : Matched(root.note, k)
        BY <1>3, <1>4, <1>5, <2>2
      <3>2. \A i \in 1..Len(results) : results[i].note # root.note
        BY <1>3, <1>5, <2>2 DEF Known
      <3>3. results' = Append(results, [note |-> root.note, root |-> root])
        BY <1>1, <1>5, <2>2
      <3>4. UpTo(saved', root) /\ saved' \in index /\ root \in index
        BY <1>1, <1>3, <1>4 DEF UpTo
      <3> QED BY <1>1, <1>3, <2>1, <3>1, <3>2, <3>3, <3>4, ResultAdded
    <2>3. CASE ~(e # NoEntry /\ j = Len(words))
      <3>1. results' = results /\ saved' # NoEntry
        BY <1>1, <1>3, <2>3
      <3> QED BY <1>1, <2>1, <3>1, ResultsKept
    <2> QED BY <2>2, <2>3
  <1> QED BY <1>6, <1>7, <1>8, <1>9 DEF SearchInv

-----------------------------------------------------------------------------
(* The search as a whole *)

\* While no search runs there are no results.
LEMMA NothingYet ==
    ASSUME SearchInv, words = <<>>
    PROVE  results = <<>> /\ saved = NoEntry
  BY DEF SearchInv, StartedInv

\* Writing a note keeps what is known of the search, which has not begun.
LEMMA WriteNoteStep ==
    ASSUME SearchInv, WriteNote
    PROVE  SearchInv'
  <1>1. /\ UNCHANGED <<words, filter, order, limit, j, saved, last, root, results, phase>>
        /\ phase = "write" /\ index \subseteq index'
    BY DEF WriteNote
  <1>2. words = <<>> /\ results = <<>> /\ saved = NoEntry
    BY <1>1, NothingYet DEF SearchInv, StartedInv
  <1>3. NotesInv'
    BY NotesWrite DEF SearchInv
  <1>4. StartedInv'
    BY <1>1, <1>2 DEF SearchInv, StartedInv
  <1>5. CandidateInv'
    BY <1>1, <1>2 DEF SearchInv, CandidateInv
  <1>6. ResultsInv'
    <2>1. Len(results') = 0 /\ results' \in Seq([note : Nat, root : Keys]) /\ MaxResults \in Nat
      BY <1>1, <1>2, SearchAssumption
    <2> QED BY <1>1, <1>2, <2>1 DEF ResultsInv, NoteOnce
  <1> QED BY <1>3, <1>4, <1>5, <1>6 DEF SearchInv

\* The limit of a search is an int, whatever the filter and the config ask for.
LEMMA LimitsAre ==
    ASSUME NEW f \in Filters
    PROVE  FilterLimit(f) \in Int /\ \A l \in Limits : SearchLimit(f, l) \in Int
  <1>1. MaxResults \in Nat /\ f.limit \in Int /\ IntRange \in Nat \ {0} /\ Limits \subseteq Int
    BY SearchAssumption
  <1>2. FilterLimit(f) \in Int
    <2>1. f.limit % IntRange \in Int
      BY <1>1
    <2>2. ToInt(f.limit) \in Int
      BY <1>1, <2>1 DEF ToInt
    <2> QED BY <1>1, <2>2 DEF FilterLimit
  <1>3. ASSUME NEW a \in Int, NEW b \in Int
        PROVE  Least({a, b}) \in Int
    <2>1. \E x \in {a, b} : \A y \in {a, b} : x <= y
      OBVIOUS
    <2>2. Least({a, b}) \in {a, b}
      BY <2>1 DEF Least
    <2> QED BY <2>2
  <1> QED BY <1>1, <1>2, <1>3 DEF SearchLimit

\* A search starts with the words and the limit that it was given.
LEMMA StartSearchStep ==
    ASSUME SearchInv, StartSearch
    PROVE  SearchInv'
  <1>1. /\ UNCHANGED <<notes, index, j, saved, last, root, results>>
        /\ phase = "write" /\ phase' = "root"
    BY DEF StartSearch
  <1>2. PICK q \in Queries, f \in Filters :
            /\ SearchWords(q) # <<>> /\ words' \in LongestFirst(SearchWords(q)) /\ filter' = f
            /\ \/ order' = "desc" /\ limit' = FilterLimit(f)
               \/ \E l \in Limits, o \in {"asc", "desc"} : order' = o /\ limit' = SearchLimit(f, l)
    BY DEF StartSearch
  <1>3. results = <<>> /\ saved = NoEntry
    BY <1>1, NothingYet DEF SearchInv, StartedInv
  <1>4. words' \in Seq(Words) /\ Len(words') \in 1..MaxWords
    BY <1>2, SearchWordsAre
  <1>5. limit' \in Int
    BY <1>2, LimitsAre
  <1>6. NotesInv'
    BY <1>1 DEF SearchInv, NotesInv
  <1>7. StartedInv'
    <2>1. filter' \in Filters \cup {NoFilter} /\ order' \in {"asc", "desc"}
      BY <1>2
    <2>2. words' # <<>> /\ Len(words') <= MaxWords
      BY <1>4, SearchAssumption
    <2> QED BY <1>1, <1>3, <1>4, <1>5, <2>1, <2>2 DEF SearchInv, StartedInv
  <1>8. CandidateInv'
    BY <1>1, <1>3 DEF CandidateInv
  <1>9. ResultsInv'
    <2>1. Len(results') = 0 /\ results' \in Seq([note : Nat, root : Keys]) /\ MaxResults \in Nat
      BY <1>1, <1>3, SearchAssumption
    <2> QED BY <1>1, <1>3, <2>1 DEF ResultsInv, NoteOnce
  <1> QED BY <1>6, <1>7, <1>8, <1>9 DEF SearchInv

\* A search whose results are full goes past their array only if it may have more.
LEMMA OverrunStep ==
    ASSUME SearchInv, Overrun
    PROVE  SearchInv'
  <1>1. /\ UNCHANGED <<notes, index, words, filter, order, limit, j, saved, last, root, results>>
        /\ phase = "word" /\ phase' = "overrun" /\ Len(results) >= MaxResults
    BY DEF Overrun, text
  <1>2. NotesInv'
    BY <1>1, StoreKept DEF SearchInv
  <1>3. StartedInv'
    BY <1>1 DEF SearchInv, StartedInv
  <1>4. CandidateInv'
    <2>1. Len(results) < limit /\ limit \in Int /\ Len(results) \in Nat /\ MaxResults \in Nat
      BY <1>1, SearchAssumption DEF SearchInv, StartedInv, CandidateInv, ResultsInv
    <2>2. limit > MaxResults
      BY <1>1, <2>1
    <2> QED BY <1>1, <2>2 DEF SearchInv, CandidateInv
  <1>5. ResultsInv'
    BY <1>1, ResultsKept DEF SearchInv, ResultsInv
  <1> QED BY <1>2, <1>3, <1>4, <1>5 DEF SearchInv

\* The steps that do not touch the text search leave it as it is.
LEMMA OthersStep ==
    ASSUME SearchInv, UNCHANGED text,
           phase' = phase \/ (phase = "write" /\ phase' \in {"walk", "done"}) \/ (phase = "walk" /\ phase' = "done")
    PROVE  SearchInv'
  <1>1. UNCHANGED <<notes, index, words, filter, order, limit, j, saved, last, root, results>>
    BY DEF text
  <1>2. NotesInv'
    BY <1>1, StoreKept DEF SearchInv
  <1>3. StartedInv'
    BY <1>1 DEF SearchInv, StartedInv
  <1>4. CandidateInv'
    BY <1>1, StoreKept DEF SearchInv, CandidateInv, FilterMatches, Matched
  <1>5. ResultsInv'
    BY <1>1, ResultsKept DEF SearchInv, ResultsInv
  <1> QED BY <1>2, <1>3, <1>4, <1>5 DEF SearchInv

\* The search is what it must be at the start, and every step keeps it so.
LEMMA SearchInit ==
    ASSUME Init
    PROVE  SearchInv
  <1>1. NotesInv
    <2>1. notes = <<>> /\ Len(notes) = 0 /\ index = {} /\ MaxNotes \in Nat /\ IsFiniteSet({})
      BY SearchAssumption, FS_EmptySet DEF Init
    <2> QED BY <2>1 DEF NotesInv
  <1>2. StartedInv
    BY SearchAssumption DEF Init, StartedInv
  <1>3. CandidateInv
    BY DEF Init, CandidateInv
  <1>4. ResultsInv
    <2>1. Len(results) = 0 /\ results = <<>> /\ MaxResults \in Nat
      BY SearchAssumption DEF Init
    <2> QED BY <2>1 DEF ResultsInv, NoteOnce
  <1> QED BY <1>1, <1>2, <1>3, <1>4 DEF SearchInv

\* The search stays what it must be.
LEMMA SearchStep ==
    ASSUME SearchInv, [Next]_vars
    PROVE  SearchInv'
  <1>1. CASE WriteNote
    BY <1>1, WriteNoteStep
  <1>2. CASE StartSearch
    BY <1>2, StartSearchStep
  <1>3. CASE NextRoot
    BY <1>3, NextRootStep
  <1>4. CASE RootWord
    BY <1>4, RootWordStep
  <1>5. CASE FurtherWord
    BY <1>5, FurtherWordStep
  <1>6. CASE WriteProfile
    BY <1>6, OthersStep DEF WriteProfile
  <1>7. CASE SearchProfile
    <2>1. UNCHANGED text /\ phase = "write" /\ phase' \in {"walk", "done"}
      BY <1>7 DEF SearchProfile
    <2> QED BY <2>1, OthersStep
  <1>8. CASE SearchProfileNext
    <2>1. UNCHANGED text /\ phase = "walk" /\ phase' \in {"walk", "done"}
      BY <1>8 DEF SearchProfileNext
    <2> QED BY <2>1, OthersStep
  <1>9. CASE Overrun
    BY <1>9, OverrunStep
  <1>10. CASE UNCHANGED vars
    BY <1>10, OthersStep DEF vars
  <1> QED BY <1>1, <1>2, <1>3, <1>4, <1>5, <1>6, <1>7, <1>8, <1>9, <1>10 DEF Next, Search, Finished

\* The search is always what it must be.
LEMMA SearchAlways == Spec => []SearchInv
  BY SearchInit, SearchStep, PTL DEF Spec

-----------------------------------------------------------------------------
(* The order of the names *)

\* No name is before itself.
LEMMA NameIrreflexive ==
    ASSUME NEW a \in NameKeys
    PROVE  ~NameLess(a, a)
  BY MemIrreflexive DEF NameLess, Less3, NameKeys

\* The order of the names is transitive.
LEMMA NameTransitive ==
    ASSUME NEW a \in NameKeys, NEW b \in NameKeys, NEW c \in NameKeys, NameLess(a, b), NameLess(b, c)
    PROVE  NameLess(a, c)
  <1>1. a.name \in Words /\ b.name \in Words /\ c.name \in Words
    BY DEF NameKeys
  <1>2. CASE a.name = b.name /\ b.name = c.name
    <2>1. ~MemLess(a.name, b.name) /\ ~MemLess(b.name, c.name)
      BY <1>1, <1>2, MemIrreflexive
    <2> QED BY <1>2, <2>1 DEF NameLess, Less3, NameKeys
  <1>3. CASE MemLess(a.name, b.name) \/ MemLess(b.name, c.name)
    <2>1. MemLess(a.name, c.name)
      BY <1>1, <1>3, MemTransitive DEF NameLess
    <2> QED BY <2>1 DEF NameLess
  <1> QED BY <1>2, <1>3 DEF NameLess

\* Of two names one is before the other.
LEMMA NameTotal ==
    ASSUME NEW a \in NameKeys, NEW b \in NameKeys
    PROVE  a = b \/ NameLess(a, b) \/ NameLess(b, a)
  <1>1. a.name = b.name \/ MemLess(a.name, b.name) \/ MemLess(b.name, a.name)
    BY MemTotal DEF NameKeys
  <1> QED BY <1>1 DEF NameLess, Less3, NameKeys

\* The index of names holds names of someone.
NamesAre == names \in SUBSET NameKeys /\ IsFiniteSet(names) /\ \A e \in names : e.pubkey # 0

\* MDB_SET_RANGE and MDB_NEXT find the first of the names that are left.
LEMMA LeastNameIs ==
    ASSUME NamesAre, NEW S \in SUBSET names
    PROVE  /\ LeastName(S) = NoName <=> S = {}
           /\ S # {} => LeastName(S) \in S /\ \A o \in S : o = LeastName(S) \/ NameLess(LeastName(S), o)
  <1> DEFINE R == {p \in NameKeys \X NameKeys : NameLess(p[1], p[2])}
  <1>0. S \in SUBSET NameKeys /\ IsFiniteSet(S) /\ NoName \notin S
    <2>1. S \in SUBSET NameKeys /\ IsFiniteSet(S)
      BY FS_Subset DEF NamesAre
    <2>2. NoName.pubkey = 0
      BY DEF NoName
    <2> QED BY <2>1, <2>2 DEF NamesAre
  <1>1. \A a, b \in NameKeys : <<a, b>> \in R <=> NameLess(a, b)
    OBVIOUS
  <1>2. \A a, b \in NameKeys : a = b \/ <<a, b>> \in R \/ <<b, a>> \in R
    BY <1>1, NameTotal
  <1>3. \A a, b, c \in NameKeys : <<a, b>> \in R /\ <<b, c>> \in R => <<a, c>> \in R
    BY <1>1, NameTransitive
  <1> HIDE DEF R
  <1>4. Orders(R, NameKeys)
    BY <1>2, <1>3 DEF Orders
  <1>5. CASE S = {}
    BY <1>5 DEF LeastName
  <1>6. CASE S # {}
    <2>1. \E e \in S : \A o \in S : o = e \/ <<e, o>> \in R
      BY <1>0, <1>4, <1>6, FirstExists
    <2>2. \E e \in S : \A o \in S : o = e \/ NameLess(e, o)
      BY <1>0, <1>1, <2>1
    <2>3. LeastName(S) \in S /\ \A o \in S : o = LeastName(S) \/ NameLess(LeastName(S), o)
      BY <1>6, <2>2 DEF LeastName
    <2> QED BY <1>0, <1>6, <2>3
  <1> QED BY <1>5, <1>6

\* The key of a name is a word as long as the room for it.
LEMMA NameKeyIs ==
    ASSUME NEW s \in Seq(Nat)
    PROVE  /\ NameKey(s) \in Words /\ Len(NameKey(s)) = NameRoom
           /\ \A i \in 1..NameRoom : NameKey(s)[i] = IF i <= Len(s) THEN Lower(s[i]) ELSE 0
           /\ \A i \in 1..NameRoom : NameKey(s)[i] \in Nat
  <1>1. NameRoom \in Nat /\ \A i \in 1..Len(s) : s[i] \in Nat
    BY SearchAssumption, ElementOfSeq
  <1>2. \A i \in 1..NameRoom : (IF i <= Len(s) THEN Lower(s[i]) ELSE 0) \in Nat
    BY <1>1 DEF Lower, Upper
  <1>3. NameKey(s) \in [1..NameRoom -> Nat]
    BY <1>2 DEF NameKey
  <1> QED BY <1>1, <1>3 DEF NameKey, Words

\* A name that begins with the query is not before it.
LEMMA PrefixNotBefore ==
    ASSUME NEW q \in Seq(Nat), NEW n \in Seq(Nat), Len(q) <= NameRoom, IsPrefix(Lowered(q), Lowered(n)),
           NEW e \in NameKeys, e.name = NameKey(n)
    PROVE  ~NameLess(e, [name |-> NameKey(q), pubkey |-> 0, time |-> 0])
  <1> DEFINE kq == NameKey(q)
             kn == NameKey(n)
  <1>0. q \in Words /\ n \in Words
    BY DEF Words
  <1>1. /\ Lowered(q) \in Words /\ Lowered(n) \in Words /\ Len(Lowered(q)) = Len(q) /\ Len(Lowered(n)) = Len(n)
        /\ Len(q) \in Nat /\ Len(n) \in Nat /\ NameRoom \in Nat
    BY <1>0, LoweredIs, WordIs, SearchAssumption
  <1>2. Len(q) <= Len(n) /\ \A i \in 1..Len(q) : Lowered(q)[i] = Lowered(n)[i]
    <2>1. Len(q) <= Len(n) /\ SubSeq(Lowered(q), 1, Len(q)) = SubSeq(Lowered(n), 1, Len(q))
      BY <1>1 DEF IsPrefix
    <2>2. \A i \in 1..Len(q) : SubSeq(Lowered(q), 1, Len(q))[i] = Lowered(q)[i]
      BY <1>1 DEF Words
    <2>3. \A i \in 1..Len(q) : SubSeq(Lowered(n), 1, Len(q))[i] = Lowered(n)[i]
      BY <1>1, <2>1, SMTT(30) DEF Words
    <2> QED BY <2>1, <2>2, <2>3
  <1>3. \A i \in 1..Len(q) : Lower(q[i]) = Lower(n[i])
    <2> SUFFICES ASSUME NEW i \in 1..Len(q) PROVE Lower(q[i]) = Lower(n[i])
      OBVIOUS
    <2>1. i \in 1..Len(n)
      BY <1>1, <1>2
    <2>2. Lowered(q)[i] = Lower(q[i]) /\ Lowered(n)[i] = Lower(n[i])
      BY <2>1 DEF Lowered
    <2> QED BY <1>2, <2>2
  <1>4. /\ kq \in Words /\ kn \in Words /\ Len(kq) = NameRoom /\ Len(kn) = NameRoom
        /\ \A i \in 1..NameRoom : kq[i] = IF i <= Len(q) THEN Lower(q[i]) ELSE 0
        /\ \A i \in 1..NameRoom : kn[i] = IF i <= Len(n) THEN Lower(n[i]) ELSE 0
        /\ \A i \in 1..NameRoom : kq[i] \in Nat /\ kn[i] \in Nat
    BY NameKeyIs
  <1> HIDE DEF kq, kn
  <1>5. \A i \in 1..NameRoom : ~(kn[i] < kq[i])
    <2> SUFFICES ASSUME NEW i \in 1..NameRoom PROVE ~(kn[i] < kq[i])
      OBVIOUS
    <2>1. CASE i <= Len(q)
      <3>1. i \in 1..Len(q) /\ i <= Len(n)
        BY <1>1, <1>2, <2>1
      <3>2. kn[i] = kq[i]
        BY <1>3, <1>4, <2>1, <3>1
      <3> QED BY <1>4, <3>2
    <2>2. CASE ~(i <= Len(q))
      <3>1. kq[i] = 0 /\ kn[i] \in Nat
        BY <1>4, <2>2
      <3> QED BY <3>1
    <2> QED BY <2>1, <2>2
  <1>6. ~MemLess(kn, kq)
    BY <1>1, <1>4, <1>5 DEF MemLess
  <1>7. e.pubkey \in Nat /\ e.time \in Nat
    BY DEF NameKeys
  <1>8. ~Less3(<<e.pubkey, e.time, 0>>, <<0, 0, 0>>)
    BY <1>7 DEF Less3
  <1> QED BY <1>6, <1>8 DEF NameLess, kq, kn

-----------------------------------------------------------------------------
(* The steps of a profile search *)

\* A profile that is written is in the index under each of its names.
LEMMA WriteProfileStep ==
    ASSUME PeopleInv, WriteProfile
    PROVE  PeopleInv'
  <1>1. PICK p \in Pubkeys, n \in Names, d \in Names \cup {<<>>} :
            LET key(s) == [name |-> NameKey(s), pubkey |-> p, time |-> Len(profiles)]
            IN  /\ profiles' = Append(profiles, [pubkey |-> p, names |-> {n, d} \ {<<>>}])
                /\ names' = names \cup {key(s) : s \in {n, d} \ {<<>>}}
    BY DEF WriteProfile
  <1> DEFINE T == {n, d} \ {<<>>}
             key(s) == [name |-> NameKey(s), pubkey |-> p, time |-> Len(profiles)]
             new == [pubkey |-> p, names |-> T]
             Profile == [pubkey : Pubkeys, names : SUBSET Names]
             N == {key(s) : s \in T}
  <1>2. /\ phase = "write" /\ UNCHANGED <<query, hits, phase>>
        /\ profiles' = Append(profiles, new) /\ names' = names \cup N
    BY <1>1 DEF WriteProfile
  <1>3. new \in Profile /\ T \subseteq Names /\ new.pubkey = p /\ new.names = T
    OBVIOUS
  <1>4. query = <<>> /\ hits = <<>>
    BY <1>2 DEF PeopleInv
  <1>5. Pubkeys \subseteq Nat \ {0} /\ Names \subseteq Seq(Nat) /\ p \in Nat \ {0}
    BY SearchAssumption
  <1>6. profiles \in Seq(Profile) /\ Len(profiles) \in Nat
    BY DEF PeopleInv
  <1>7. \A s \in T : key(s) \in NameKeys /\ key(s).pubkey = p /\ key(s).name = NameKey(s)
    BY <1>3, <1>5, <1>6, NameKeyIs DEF NameKeys
  <1> HIDE DEF key
  <1>8. IsFiniteSet(N)
    <2>1. N \subseteq {key(n), key(d)}
      OBVIOUS
    <2>2. IsFiniteSet({key(n)} \cup {key(d)})
      BY FS_Singleton, FS_Union
    <2>3. IsFiniteSet({key(n), key(d)})
      <3>1. {key(n), key(d)} = {key(n)} \cup {key(d)}
        OBVIOUS
      <3> QED BY <2>2, <3>1
    <2> QED BY <2>1, <2>3, FS_Subset
  <1>9. \A e \in N : e \in NameKeys /\ e.pubkey = p
    BY <1>7
  <1> HIDE DEF N
  <1>10. names' \in SUBSET NameKeys /\ IsFiniteSet(names') /\ \A e \in names' : e.pubkey # 0
    BY <1>2, <1>5, <1>8, <1>9, FS_Union DEF PeopleInv
  <1> HIDE DEF new, Profile
  <1>11. /\ profiles' \in Seq(Profile) /\ Len(profiles') = Len(profiles) + 1
         /\ profiles'[Len(profiles) + 1] = new /\ \A i \in 1..Len(profiles) : profiles'[i] = profiles[i]
    BY <1>2, <1>3, <1>6
  <1>12. ASSUME NEW i \in 1..Len(profiles'), NEW m \in profiles'[i].names
         PROVE  \E e \in names' : e.name = NameKey(m) /\ e.pubkey = profiles'[i].pubkey
    <2>1. CASE i \in 1..Len(profiles)
      <3>1. profiles'[i] = profiles[i]
        BY <1>11, <2>1
      <3>2. PICK e \in names : e.name = NameKey(m) /\ e.pubkey = profiles[i].pubkey
        BY <1>12, <2>1, <3>1 DEF PeopleInv
      <3> QED BY <1>2, <3>1, <3>2
    <2>2. CASE i = Len(profiles) + 1
      <3>1. m \in T /\ profiles'[i].pubkey = p
        BY <1>3, <1>11, <1>12, <2>2
      <3>2. key(m) \in N
        BY <3>1 DEF N
      <3>3. key(m).name = NameKey(m) /\ key(m).pubkey = p
        BY <1>7, <3>1
      <3> QED BY <1>2, <3>1, <3>2, <3>3
    <2> QED BY <1>6, <1>11, <2>1, <2>2
  <1>13. hits' \in Seq(names') /\ Len(hits') = 0
    BY <1>2, <1>4
  <1> QED BY <1>2, <1>4, <1>10, <1>11, <1>12, <1>13 DEF PeopleInv, Profile

\* A profile search starts at the first name that is not before the query.
LEMMA SearchProfileStep ==
    ASSUME PeopleInv, SearchProfile
    PROVE  PeopleInv'
  <1>1. PICK q \in Names :
            LET first == LeastName({e \in names : ~NameLess(e, [name |-> NameKey(q), pubkey |-> 0, time |-> 0])})
            IN  /\ query' = q
                /\ hits' = (IF first = NoName THEN <<>> ELSE <<first>>)
                /\ phase' = (IF first = NoName THEN "done" ELSE "walk")
    BY DEF SearchProfile
  <1> DEFINE start == [name |-> NameKey(q), pubkey |-> 0, time |-> 0]
             S == {e \in names : ~NameLess(e, start)}
             first == LeastName(S)
  <1>2. /\ query' = q /\ UNCHANGED <<profiles, names>>
        /\ hits' = (IF first = NoName THEN <<>> ELSE <<first>>)
        /\ phase' = (IF first = NoName THEN "done" ELSE "walk")
    BY <1>1 DEF SearchProfile
  <1>3. Asked' = start
    BY <1>2 DEF Asked
  <1> HIDE DEF start
  <1>4. NamesAre /\ S \in SUBSET names
    BY DEF PeopleInv, NamesAre
  <1>5. /\ first = NoName <=> S = {}
        /\ S # {} => first \in S /\ \A o \in S : o = first \/ NameLess(first, o)
    <2> HIDE DEF S
    <2> QED BY <1>4, LeastNameIs
  <1> HIDE DEF first
  <1>6. CASE first = NoName
    <2>1. hits' = <<>> /\ phase' = "done" /\ \A e \in names : NameLess(e, start)
      BY <1>2, <1>5, <1>6
    <2> QED BY <1>2, <1>3, <2>1 DEF PeopleInv
  <1>7. CASE first # NoName
    <2>1. hits' = <<first>> /\ phase' = "walk" /\ first \in names
      BY <1>2, <1>5, <1>7
    <2>2. hits' \in Seq(names) /\ Len(hits') = 1 /\ hits'[1] = first /\ Last(hits') = first /\ hits' # <<>>
      BY <2>1 DEF Last
    <2>3. ASSUME NEW e \in names, ~NameLess(e, start)
          PROVE  NameLess(Last(hits'), e) \/ Reached(e)'
      <3>1. e = first \/ NameLess(first, e)
        BY <1>5, <1>7, <2>3
      <3>2. CASE e = first
        <4>1. \E h \in 1..Len(hits') : hits'[h].pubkey = e.pubkey
          BY <2>2, <3>2
        <4> QED BY <4>1 DEF Reached
      <3> QED BY <2>2, <3>1, <3>2
    <2> QED BY <1>2, <1>3, <2>1, <2>2, <2>3 DEF PeopleInv
  <1> QED BY <1>6, <1>7

\* The search goes on to the next name of someone else, and passes nobody.
LEMMA SearchProfileNextStep ==
    ASSUME PeopleInv, SearchProfileNext
    PROVE  PeopleInv'
  <1> DEFINE l == Last(hits)
             S == {o \in names : NameLess(l, o) /\ o.pubkey # l.pubkey}
             next == LeastName(S)
  <1>1. /\ phase = "walk" /\ UNCHANGED <<profiles, names, query>>
        /\ IF next = NoName THEN phase' = "done" /\ UNCHANGED hits
           ELSE hits' = Append(hits, next) /\ UNCHANGED phase
    BY DEF SearchProfileNext, NextName
  <1>2. /\ hits # <<>> /\ hits \in Seq(names) /\ Len(hits) \in Nat /\ Len(hits) >= 1
        /\ l = hits[Len(hits)] /\ Len(hits) \in 1..Len(hits)
    BY <1>1 DEF PeopleInv, Last
  <1>3. l \in names
    BY <1>2, ElementOfSeq
  <1> HIDE DEF l
  <1>4. \A e \in names : ~NameLess(e, Asked) => NameLess(l, e) \/ Reached(e)
    BY <1>1 DEF PeopleInv, l
  <1>5. NamesAre /\ S \in SUBSET names
    BY DEF PeopleInv, NamesAre
  <1>6. /\ next = NoName <=> S = {}
        /\ S # {} => next \in S /\ \A o \in S : o = next \/ NameLess(next, o)
    <2> HIDE DEF S
    <2> QED BY <1>5, LeastNameIs
  <1> HIDE DEF next
  <1>7. Asked' = Asked
    BY <1>1 DEF Asked
  <1>8. CASE next = NoName
    <2>1. phase' = "done" /\ hits' = hits
      BY <1>1, <1>8
    <2>2. \A e \in names : NameLess(l, e) => e.pubkey = l.pubkey
      BY <1>6, <1>8
    <2>3. \A e \in names : NameLess(l, e) => Reached(e)
      BY <1>2, <2>2 DEF Reached
    <2>4. \A e \in names : ~NameLess(e, Asked) => Reached(e)
      BY <1>4, <2>3
    <2>5. \A e \in names : Reached(e)' <=> Reached(e)
      BY <2>1 DEF Reached
    <2> QED BY <1>1, <1>7, <2>1, <2>4, <2>5 DEF PeopleInv
  <1>9. CASE next # NoName
    <2>1. phase' = "walk" /\ hits' = Append(hits, next) /\ next \in names
          /\ NameLess(l, next) /\ next.pubkey # l.pubkey /\ \A o \in S : o = next \/ NameLess(next, o)
      BY <1>1, <1>6, <1>9
    <2>2. /\ hits' \in Seq(names) /\ Len(hits') = Len(hits) + 1 /\ hits'[Len(hits) + 1] = next
          /\ \A i \in 1..Len(hits) : hits'[i] = hits[i]
      BY <1>2, <2>1
    <2>3. Last(hits') = next /\ hits' # <<>>
      BY <1>2, <2>2 DEF Last
    <2>4. ASSUME NEW i \in 1..(Len(hits') - 1)
          PROVE  hits'[i].pubkey # hits'[i + 1].pubkey /\ NameLess(hits'[i], hits'[i + 1])
      <3>1. CASE i = Len(hits)
        BY <1>2, <2>1, <2>2, <3>1
      <3>2. CASE i # Len(hits)
        <4>1. i \in 1..(Len(hits) - 1) /\ i \in 1..Len(hits) /\ i + 1 \in 1..Len(hits)
          BY <1>2, <2>2, <3>2
        <4>2. hits'[i] = hits[i] /\ hits'[i + 1] = hits[i + 1]
          BY <2>2, <4>1
        <4> QED BY <4>1, <4>2 DEF PeopleInv
      <3> QED BY <3>1, <3>2
    <2>5. ASSUME NEW e \in names, ~NameLess(e, Asked)
          PROVE  NameLess(Last(hits'), e) \/ Reached(e)'
      <3>1. CASE Reached(e)
        <4>1. PICK h \in 1..Len(hits) : hits[h].pubkey = e.pubkey
          BY <3>1 DEF Reached
        <4>2. h \in 1..Len(hits') /\ hits'[h].pubkey = e.pubkey
          BY <1>2, <2>2, <4>1
        <4> QED BY <4>2 DEF Reached
      <3>2. CASE NameLess(l, e) /\ e.pubkey = l.pubkey
        <4>1. Len(hits) \in 1..Len(hits') /\ hits'[Len(hits)].pubkey = e.pubkey
          BY <1>2, <2>2, <3>2
        <4> QED BY <4>1 DEF Reached
      <3>3. CASE NameLess(l, e) /\ e.pubkey # l.pubkey
        <4>1. e = next \/ NameLess(next, e)
          BY <2>1, <3>3
        <4>2. CASE e = next
          <5>1. Len(hits) + 1 \in 1..Len(hits') /\ hits'[Len(hits) + 1].pubkey = e.pubkey
            BY <1>2, <2>2, <4>2
          <5> QED BY <5>1 DEF Reached
        <4> QED BY <2>3, <4>1, <4>2
      <3> QED BY <1>4, <2>5, <3>1, <3>2, <3>3
    <2> QED BY <1>1, <1>7, <2>1, <2>2, <2>3, <2>4, <2>5 DEF PeopleInv
  <1> QED BY <1>8, <1>9

\* The other steps leave the names as they are.
LEMMA PeopleKept ==
    ASSUME PeopleInv, UNCHANGED people,
           \/ phase' = phase
           \/ phase \in {"write", "root", "word"} /\ phase' \in {"root", "word", "done", "overrun"}
    PROVE  PeopleInv'
  <1>1. UNCHANGED <<profiles, names, query, hits>>
    BY DEF people
  <1>2. Asked' = Asked /\ \A e : Reached(e)' <=> Reached(e)
    BY <1>1 DEF Asked, Reached
  <1> QED BY <1>1, <1>2 DEF PeopleInv

\* The profile search is always what it must be.
LEMMA PeopleAlways == Spec => []PeopleInv
  <1>1. ASSUME Init PROVE PeopleInv
    <2>1. /\ profiles = <<>> /\ names = {} /\ query = <<>> /\ hits = <<>> /\ phase = "write"
          /\ Len(hits) = 0 /\ Len(profiles) = 0 /\ IsFiniteSet({})
      BY <1>1, FS_EmptySet DEF Init
    <2> QED BY <2>1 DEF PeopleInv
  <1>2. ASSUME PeopleInv, [Next]_vars PROVE PeopleInv'
    <2>1. CASE WriteNote
      BY <1>2, <2>1, PeopleKept DEF WriteNote
    <2>2. CASE StartSearch
      BY <1>2, <2>2, PeopleKept DEF StartSearch
    <2>3. CASE NextRoot
      BY <1>2, <2>3, PeopleKept DEF NextRoot
    <2>4. CASE RootWord
      <3>1. UNCHANGED people /\ phase = "word" /\ phase' \in {"done", "root", "word"}
        BY <2>4 DEF RootWord
      <3> QED BY <1>2, <3>1, PeopleKept
    <2>5. CASE FurtherWord
      <3>1. UNCHANGED people /\ phase = "word" /\ phase' \in {"root", "word"}
        BY <2>5 DEF FurtherWord
      <3> QED BY <1>2, <3>1, PeopleKept
    <2>6. CASE WriteProfile
      BY <1>2, <2>6, WriteProfileStep
    <2>7. CASE SearchProfile
      BY <1>2, <2>7, SearchProfileStep
    <2>8. CASE SearchProfileNext
      BY <1>2, <2>8, SearchProfileNextStep
    <2>9. CASE Overrun
      BY <1>2, <2>9, PeopleKept DEF Overrun
    <2>10. CASE UNCHANGED vars
      BY <1>2, <2>10, PeopleKept DEF vars
    <2> QED BY <1>2, <2>1, <2>2, <2>3, <2>4, <2>5, <2>6, <2>7, <2>8, <2>9, <2>10 DEF Next, Search, Finished
  <1> QED BY <1>1, <1>2, PTL DEF Spec

\* PeopleFound (ndb_search_profile, ndb_search_profile_next): whatever profiles
\* were written, a search that is over has returned everyone who has, or had, a
\* name that begins with the query, in order and nobody twice in a row.
THEOREM EveryoneFound == Spec => []PeopleFound
  <1>1. ASSUME PeopleInv PROVE PeopleFound
    <2>1. \A i \in 1..Len(hits) - 1 : hits[i].pubkey # hits[i + 1].pubkey /\ NameLess(hits[i], hits[i + 1])
      BY <1>1 DEF PeopleInv
    <2>2. ASSUME phase = "done", query # <<>>, NEW i \in 1..Len(profiles), NEW n \in profiles[i].names,
                 Len(query) <= NameRoom, IsPrefix(Lowered(query), Lowered(n))
          PROVE  \E h \in 1..Len(hits) : hits[h].pubkey = profiles[i].pubkey
      <3>1. PICK e \in names : e.name = NameKey(n) /\ e.pubkey = profiles[i].pubkey
        BY <1>1, <2>2 DEF PeopleInv
      <3>2. profiles[i] \in [pubkey : Pubkeys, names : SUBSET Names]
        BY <1>1, ElementOfSeq DEF PeopleInv
      <3>3. n \in Seq(Nat) /\ query \in Seq(Nat) /\ e \in NameKeys
        BY <1>1, <2>2, <3>2, SearchAssumption DEF PeopleInv
      <3>4. ~NameLess(e, Asked)
        BY <2>2, <3>1, <3>3, PrefixNotBefore DEF Asked
      <3>5. Reached(e)
        BY <1>1, <2>2, <3>4 DEF PeopleInv
      <3> QED BY <3>1, <3>5 DEF Reached
    <2> QED BY <2>1, <2>2 DEF PeopleFound
  <1> QED BY <1>1, PeopleAlways, PTL

-----------------------------------------------------------------------------
(* The results are sound *)

\* ResultsSound (ndb_text_search_with): whatever was written and asked for, a
\* note that is returned has every word and passes the filter, there are no more
\* of them than the filter and the config ask for, a search goes past the end of
\* their array only if they ask for more than it holds, and a search of several
\* words returns no note twice.
THEOREM ResultsAreSound == Spec => []ResultsSound
  <1>1. ASSUME SearchInv, PeopleInv PROVE ResultsSound
    <2>0. NotesInv /\ StartedInv /\ CandidateInv /\ ResultsInv
      BY <1>1 DEF SearchInv
    <2>1. ASSUME NEW i \in 1..Len(results)
          PROVE  /\ results[i].note \in 1..Len(notes) /\ results[i].root \in index
                 /\ FilterMatches(results[i].note)
                 /\ \A k \in 1..Len(words) : Matched(results[i].note, k)
      BY <2>0 DEF NotesInv, ResultsInv
    <2>2. AllWordsFound
      <3> SUFFICES ASSUME NEW i \in 1..Len(results), NEW k \in 1..Len(words)
                   PROVE  \E w \in Range(ParseWords(notes[results[i].note].content)) :
                             Len(w) >= 2 /\ PrefixCount(Lowered(w), Lowered(words[k])) * 3 > 2 * Len(words[k])
        BY <2>1 DEF AllWordsFound
      <3>1. PICK w \in Range(ParseWords(notes[results[i].note].content)) : PrefixMatches(Lowered(w), words[k])
        BY <2>1 DEF Matched
      <3>2. w \in Words /\ words[k] \in Words
        <4>1. words \in Seq(Words)
          BY <2>0 DEF StartedInv
        <4> QED BY <2>0, <2>1, <4>1, IndexKnown, ElementOfSeq
      <3> DEFINE lw == Lowered(w)
                 lk == Lowered(words[k])
      <3>3. /\ lw \in Words /\ lk \in Words /\ Len(lw) = Len(w) /\ Len(lk) = Len(words[k]) /\ Len(words[k]) \in Nat
        BY <3>2, LoweredIs, WordIs
      <3>4. Len(lw) >= 2 /\ PrefixCount(lw, lk) > (2 * Len(lk)) \div 3
        BY <3>1 DEF PrefixMatches
      <3>5. PrefixCount(lw, lk) \in Nat
        BY <3>3, PrefixCountIs
      <3> HIDE DEF lw, lk
      <3>6. Len(w) >= 2 /\ PrefixCount(lw, lk) * 3 > 2 * Len(words[k])
        <4>1. \A c, m \in Nat : c > (2 * m) \div 3 => c * 3 > 2 * m
          OBVIOUS
        <4> QED BY <3>3, <3>4, <3>5, <4>1
      <3> QED BY <3>6 DEF lw, lk
    <2>3. NoteOnce
      BY <2>0 DEF ResultsInv
    <2>4. ResultsFit
      BY <2>0 DEF ResultsInv, CandidateInv, ResultsFit
    <2>5. TypeOK
      <3>1. \A i \in 1..Len(hits) : hits[i] \in names
        <4>1. hits \in Seq(names)
          BY <1>1 DEF PeopleInv
        <4> QED BY <4>1, ElementOfSeq
      <3>2. DOMAIN notes = 1..Len(notes) /\ Len(notes) <= MaxNotes
        BY <2>0 DEF NotesInv
      <3> QED BY <2>0, <2>1, <3>1, <3>2 DEF TypeOK, StartedInv
    <2> QED BY <2>2, <2>3, <2>4, <2>5 DEF ResultsSound
  <1> QED BY <1>1, SearchAlways, PeopleAlways, PTL

-----------------------------------------------------------------------------
(* The search passes no note by *)

\* A note that is due after a step was due before it.
LEMMA DueBefore ==
    ASSUME SearchInv, UNCHANGED <<notes, index, words, filter, order, limit>>,
           results' = results \/ \E r : results' = Append(results, r),
           NEW n, Due(n)'
    PROVE  Due(n)
  <1>1. Holds(n) /\ FilterMatches(n) /\ notes[n].created_at < IntRange
    BY StoreKept DEF Due
  <1>2. \A i \in 1..Len(results') : results'[i].note # n
    BY DEF Due
  <1>3. results \in Seq([note : Nat, root : Keys]) /\ Len(results) \in Nat
    BY DEF SearchInv, ResultsInv
  <1>4. \A i \in 1..Len(results) : i \in 1..Len(results') /\ results'[i] = results[i]
    <2>1. CASE results' = results
      BY <2>1
    <2>2. CASE \E r : results' = Append(results, r)
      <3>1. PICK r : results' = Append(results, r)
        BY <2>2
      <3>2. Len(results') = Len(results) + 1 /\ \A i \in 1..Len(results) : results'[i] = results[i]
        BY <1>3, <3>1, AppendProperties
      <3> QED BY <1>3, <3>2
    <2> QED BY <2>1, <2>2
  <1>5. \A i \in 1..Len(results) : results[i].note # n
    BY <1>2, <1>4
  <1> QED BY <1>1, <1>5 DEF Due

\* The root word finds an entry no further than those of a note that is due.
LEMMA RootReaches ==
    ASSUME UntilFits, SearchInv, AheadInv, phase = "word", j = 1,
           NEW x \in index, x.word = Lowered(words[1]), Due(x.note),
           NEW e, e = RootEntry
    PROVE  e # NoEntry /\ IF order = "desc" THEN UpTo(x, e) ELSE UpTo(e, x)
  <1>1. IndexIs /\ NotesInv /\ StartedInv /\ CandidateInv
    BY IndexKnown DEF SearchInv
  <1>2. /\ last = NoEntry /\ order \in {"asc", "desc"} /\ saved \in index \cup {NoEntry}
        /\ words # <<>> /\ words \in Seq(Words) /\ 1 \in 1..Len(words)
    BY <1>1 DEF StartedInv, CandidateInv
  <1>3. x.note \in 1..Len(notes)
    BY <1>1 DEF NotesInv
  <1>4. words[1] \in Words /\ Len(words[1]) >= 2
    BY <1>1, <1>2, <1>3, HeldEntry, ElementOfSeq DEF Due
  <1>5. /\ RootKey \in Keys /\ RootKey.word = Lowered(words[1])
        /\ IF order = "desc" THEN KeyLess(x, RootKey) ELSE KeyLess(RootKey, x)
    BY <1>1, <1>2, RootKeyIs DEF Due
  <1>6. saved # NoEntry => /\ PrefixMatches(saved.word, words[1])
                           /\ IF order = "desc" THEN KeyLess(x, saved) ELSE KeyLess(saved, x)
    BY <1>1 DEF CandidateInv, AheadInv
  <1> QED BY <1>1, <1>2, <1>4, <1>5, <1>6, RootFound DEF RootEntry

\* The top of the loop: a search that is full has returned nothing older.
LEMMA AheadNextRoot ==
    ASSUME SearchInv, AheadInv, NextRoot
    PROVE  AheadInv' /\ NewestFound'
  <1>1. /\ UNCHANGED <<notes, index, words, filter, order, limit, saved, results>> /\ phase = "root" /\ j' = 1
        /\ phase' = "word" \/ (phase' = "done" /\ Len(results) >= limit)
    BY DEF NextRoot
  <1>2. \A x \in index : (x.word = Lowered(words[1]) /\ Due(x.note)) =>
            saved = NoEntry \/ IF order = "desc" THEN KeyLess(x, saved) ELSE KeyLess(saved, x)
    BY <1>1 DEF AheadInv
  <1>3. AheadInv'
    <2>1. \A n : Due(n)' => Due(n)
      BY <1>1, DueBefore
    <2> QED BY <1>1, <1>2, <2>1 DEF AheadInv
  <1>4. NewestFound'
    <2> SUFFICES ASSUME phase' = "done", NEW n \in DOMAIN notes', Holds(n)', FilterMatches(n)',
                        notes'[n].created_at < IntRange, \A i \in 1..Len(results') : results'[i].note # n,
                        order' = "desc", NEW i \in 1..Len(results'), results'[i].root.word = Lowered(words'[1])
                 PROVE  results'[i].root.time >= KeyTime(notes'[n].created_at)
      BY <1>1 DEF NewestFound
    <2>1. Due(n) /\ Holds(n)
      BY <1>1, StoreKept DEF Due
    <2>2. NotesInv /\ StartedInv /\ ResultsInv /\ n \in 1..Len(notes) /\ words \in Seq(Words) /\ 1 \in 1..Len(words)
      <3>1. NotesInv /\ StartedInv /\ ResultsInv
        BY DEF SearchInv
      <3>2. n \in 1..Len(notes)
        BY <1>1, <3>1 DEF NotesInv
      <3>3. words \in Seq(Words) /\ 1 \in 1..Len(words)
        BY <1>1, <3>1 DEF StartedInv
      <3> QED BY <3>1, <3>2, <3>3
    <2>3. PICK x \in index : x.note = n /\ x.word = Lowered(words[1]) /\ x.time = KeyTime(notes[n].created_at)
      BY <2>1, <2>2, HeldEntry
    <2>4. saved # NoEntry /\ UpTo(saved, results[i].root) /\ results[i].root \in index /\ saved \in index
      BY <1>1, <2>2 DEF ResultsInv, StartedInv
    <2>5. KeyLess(x, saved)
      BY <1>1, <1>2, <2>1, <2>3, <2>4
    <2> DEFINE r == results[i].root
    <2>6. x \in Keys /\ saved \in Keys /\ r \in Keys
      BY <2>2, <2>3, <2>4 DEF NotesInv
    <2>7. KeyLess(x, r)
      BY <2>4, <2>5, <2>6, KeyTransitive DEF UpTo
    <2>8. r.word = x.word /\ x.word \in Words
      BY <1>1, <2>3, <2>6 DEF Keys
    <2> HIDE DEF r
    <2>9. ~MemLess(x.word, r.word)
      BY <2>8, MemIrreflexive
    <2>10. r.time >= x.time
      BY <2>6, <2>7, <2>9 DEF KeyLess, Less3, Keys
    <2> QED BY <1>1, <2>3, <2>10 DEF r
  <1> QED BY <1>3, <1>4

\* The root word: a search that ends here has returned every note.
LEMMA AheadRootWord ==
    ASSUME UntilFits, SearchInv, AheadInv, RootWord
    PROVE  AheadInv' /\ NewestFound'
  <1> DEFINE e == RootEntry
  <1>1. /\ phase = "word" /\ j = 1 /\ j' = 2 /\ saved' = e
        /\ UNCHANGED <<notes, index, words, filter, order, limit>>
        /\ phase' = (IF e = NoEntry THEN "done" ELSE IF ~FilterMatches(e.note) THEN "root"
                     ELSE IF Len(words) = 1 THEN "root" ELSE "word")
        /\ results' = (IF e # NoEntry /\ FilterMatches(e.note) /\ Len(words) = 1
                       THEN Append(results, [note |-> e.note, root |-> e]) ELSE results)
    BY DEF RootWord
  <1>2. ASSUME NEW x \in index, x.word = Lowered(words[1]), Due(x.note)
        PROVE  e # NoEntry /\ IF order = "desc" THEN UpTo(x, e) ELSE UpTo(e, x)
    BY <1>1, <1>2, RootReaches
  <1> HIDE DEF e
  <1>3. AheadInv'
    <2> SUFFICES ASSUME phase' \in {"root", "word"}, NEW x \in index', x.word = Lowered(words'[1]), Due(x.note)'
                 PROVE  \/ IF order' = "desc" THEN KeyLess(x, saved') ELSE KeyLess(saved', x)
                        \/ phase' = "word" /\ j' > 1 /\ x = saved'
      BY DEF AheadInv
    <2>1. results' = results \/ \E r : results' = Append(results, r)
      BY <1>1
    <2>2. Due(x.note)
      BY <1>1, <2>1, DueBefore
    <2>3. e # NoEntry /\ IF order = "desc" THEN UpTo(x, e) ELSE UpTo(e, x)
      BY <1>1, <1>2, <2>2
    <2>4. CASE x # e
      BY <1>1, <2>3, <2>4 DEF UpTo
    <2>5. CASE x = e
      <3>1. FilterMatches(e.note)
        BY <2>2, <2>5 DEF Due
      <3>2. CASE Len(words) = 1
        <4>1. results' = Append(results, [note |-> e.note, root |-> e])
          BY <1>1, <2>3, <3>1, <3>2
        <4>2. results \in Seq([note : Nat, root : Keys]) /\ Len(results) \in Nat
          BY DEF SearchInv, ResultsInv
        <4>3. Len(results') = Len(results) + 1 /\ results'[Len(results) + 1] = [note |-> e.note, root |-> e]
          BY <4>1, <4>2, AppendProperties
        <4>4. Len(results) + 1 \in 1..Len(results') /\ results'[Len(results) + 1].note = e.note
          BY <4>2, <4>3
        <4>5. \A i \in 1..Len(results') : results'[i].note # x.note
          BY DEF Due
        <4> QED BY <2>5, <4>4, <4>5
      <3>3. CASE Len(words) # 1
        BY <1>1, <2>3, <2>5, <3>1, <3>3
      <3> QED BY <3>2, <3>3
    <2> QED BY <2>4, <2>5
  <1>4. NewestFound'
    <2> SUFFICES ASSUME phase' = "done", NEW n \in DOMAIN notes', Holds(n)', FilterMatches(n)',
                        notes'[n].created_at < IntRange, \A i \in 1..Len(results') : results'[i].note # n
                 PROVE  FALSE
      BY DEF NewestFound
    <2>1. e = NoEntry /\ results' = results
      BY <1>1
    <2>2. Due(n) /\ Holds(n)
      BY <1>1, <2>1, StoreKept DEF Due
    <2>3. NotesInv /\ n \in 1..Len(notes) /\ words \in Seq(Words) /\ 1 \in 1..Len(words)
      BY <1>1 DEF SearchInv, NotesInv, StartedInv
    <2>4. PICK x \in index : x.note = n /\ x.word = Lowered(words[1])
      BY <2>2, <2>3, HeldEntry
    <2> QED BY <1>2, <2>1, <2>2, <2>4
  <1> QED BY <1>3, <1>4

\* A further word: a candidate that is due is found, and returned.
LEMMA AheadFurtherWord ==
    ASSUME SearchInv, AheadInv, FurtherWord
    PROVE  AheadInv' /\ NewestFound'
  <1> DEFINE e == IF Known THEN NoEntry ELSE NextWord(TRUE, KeyNoted(words[j], last), words[j])
  <1>1. /\ phase = "word" /\ j > 1 /\ j' = j + 1
        /\ UNCHANGED <<notes, index, words, filter, order, limit, saved, root>>
        /\ phase' = (IF e = NoEntry \/ j = Len(words) THEN "root" ELSE "word")
        /\ results' = (IF e # NoEntry /\ j = Len(words)
                       THEN Append(results, [note |-> e.note, root |-> root]) ELSE results)
    BY DEF FurtherWord
  <1>2. IndexIs /\ NotesInv
    BY IndexKnown DEF SearchInv
  <1>3. /\ saved # NoEntry /\ last # NoEntry /\ root = saved /\ last.note = root.note /\ j <= Len(words)
    BY <1>1 DEF SearchInv, CandidateInv
  <1>4. words \in Seq(Words) /\ Len(words) \in Nat /\ j \in 1..Len(words) /\ saved \in index /\ last \in index
    BY <1>1, <1>3 DEF SearchInv, StartedInv
  <1>5. e # NoEntry => e.note = last.note
    <2>1. TRUE \in BOOLEAN
      OBVIOUS
    <2> QED BY <1>2, <1>3, <2>1, NextWordIs
  <1>6. ASSUME Due(saved.note) PROVE e # NoEntry
    <2> DEFINE n == saved.note
    <2>1. ~Known
      BY <1>3, <1>6 DEF Known, Due
    <2>2. n \in 1..Len(notes) /\ last.note = n /\ last.time = KeyTime(notes[n].created_at)
      BY <1>2, <1>3, <1>4 DEF NotesInv
    <2>3. Holds(n)
      BY <1>6 DEF Due
    <2>4. PICK y \in index : y.note = n /\ y.word = Lowered(words[j]) /\ y.time = KeyTime(notes[n].created_at)
      BY <1>2, <1>4, <2>2, <2>3, HeldEntry
    <2>5. words[j] \in Words /\ Len(words[j]) >= 2
      BY <1>2, <1>4, <2>2, <2>3, HeldEntry, ElementOfSeq
    <2>6. NextWord(TRUE, KeyNoted(words[j], last), words[j]) # NoEntry
      BY <1>2, <1>4, <2>2, <2>4, <2>5, FurtherFound
    <2> QED BY <2>1, <2>6
  <1> HIDE DEF e
  <1>7. AheadInv'
    <2> SUFFICES ASSUME phase' \in {"root", "word"}, NEW x \in index', x.word = Lowered(words'[1]), Due(x.note)'
                 PROVE  \/ IF order' = "desc" THEN KeyLess(x, saved') ELSE KeyLess(saved', x)
                        \/ phase' = "word" /\ j' > 1 /\ x = saved'
      BY DEF AheadInv
    <2>1. results' = results \/ \E r : results' = Append(results, r)
      BY <1>1
    <2>2. Due(x.note)
      BY <1>1, <2>1, DueBefore
    <2>3. (IF order = "desc" THEN KeyLess(x, saved) ELSE KeyLess(saved, x)) \/ x = saved
      BY <1>1, <1>3, <2>2 DEF AheadInv
    <2>4. CASE x # saved
      BY <1>1, <2>3, <2>4
    <2>5. CASE x = saved
      <3>1. e # NoEntry /\ e.note = x.note
        BY <1>3, <1>5, <1>6, <2>2, <2>5
      <3>2. CASE j = Len(words)
        <4>1. results' = Append(results, [note |-> e.note, root |-> root])
          BY <1>1, <3>1, <3>2
        <4>2. results \in Seq([note : Nat, root : Keys]) /\ Len(results) \in Nat
          BY DEF SearchInv, ResultsInv
        <4>3. Len(results') = Len(results) + 1 /\ results'[Len(results) + 1] = [note |-> e.note, root |-> root]
          BY <4>1, <4>2, AppendProperties
        <4>4. Len(results) + 1 \in 1..Len(results') /\ results'[Len(results) + 1].note = e.note
          BY <4>2, <4>3
        <4>5. \A i \in 1..Len(results') : results'[i].note # x.note
          BY DEF Due
        <4> QED BY <3>1, <4>4, <4>5
      <3>3. CASE j # Len(words)
        <4>1. phase' = "word"
          BY <1>1, <3>1, <3>3
        <4>2. j' > 1
          BY <1>1, <1>4
        <4> QED BY <1>1, <2>5, <4>1, <4>2
      <3> QED BY <3>2, <3>3
    <2> QED BY <2>4, <2>5
  <1>8. NewestFound'
    <2>1. phase' # "done"
      BY <1>1
    <2> QED BY <2>1 DEF NewestFound
  <1> QED BY <1>7, <1>8

\* The search passes no note by: every step keeps what is due ahead.
LEMMA AheadStep ==
    ASSUME UntilFits, SearchInv, AheadInv, NewestFound, [Next]_vars
    PROVE  AheadInv' /\ NewestFound'
  <1>1. CASE WriteNote
    <2>1. phase = "write" /\ phase' = "write"
      BY <1>1 DEF WriteNote
    <2> QED BY <2>1 DEF AheadInv, NewestFound
  <1>2. CASE StartSearch
    <2>1. phase' = "root" /\ saved' = saved /\ phase = "write"
      BY <1>2 DEF StartSearch
    <2>2. saved = NoEntry
      BY <2>1 DEF SearchInv, StartedInv
    <2> QED BY <2>1, <2>2 DEF AheadInv, NewestFound
  <1>3. CASE NextRoot
    BY <1>3, AheadNextRoot
  <1>4. CASE RootWord
    BY <1>4, AheadRootWord
  <1>5. CASE FurtherWord
    BY <1>5, AheadFurtherWord
  <1>6. CASE WriteProfile
    <2>1. phase = "write" /\ phase' = "write"
      BY <1>6 DEF WriteProfile
    <2> QED BY <2>1 DEF AheadInv, NewestFound
  <1>7. CASE SearchProfile
    <2>1. UNCHANGED text /\ phase = "write" /\ phase' \in {"walk", "done"}
      BY <1>7 DEF SearchProfile
    <2>2. words' = <<>>
      BY <2>1 DEF SearchInv, StartedInv, text
    <2> QED BY <2>1, <2>2 DEF AheadInv, NewestFound
  <1>8. CASE SearchProfileNext
    <2>1. UNCHANGED text /\ phase = "walk" /\ phase' \in {"walk", "done"}
      BY <1>8 DEF SearchProfileNext
    <2>2. words' = <<>>
      BY <2>1 DEF SearchInv, StartedInv, text
    <2> QED BY <2>1, <2>2 DEF AheadInv, NewestFound
  <1>9. CASE Overrun
    <2>1. phase' = "overrun"
      BY <1>9 DEF Overrun
    <2> QED BY <2>1 DEF AheadInv, NewestFound
  <1>10. CASE UNCHANGED vars
    <2>1. UNCHANGED <<notes, index, words, filter, order, limit, j, saved, results, phase>>
      BY <1>10 DEF vars, text
    <2>2. \A n : Due(n)' => Due(n)
      BY <2>1, DueBefore
    <2>3. AheadInv'
      BY <2>1, <2>2 DEF AheadInv
    <2>4. NewestFound'
      BY <2>1, StoreKept DEF NewestFound
    <2> QED BY <2>3, <2>4
  <1> QED BY <1>1, <1>2, <1>3, <1>4, <1>5, <1>6, <1>7, <1>8, <1>9, <1>10 DEF Next, Search, Finished

\* NewestFound (ndb_text_search_with): as long as the bounds of the filters fit
\* the int that the keys cut a time to, a search that is over has returned every
\* note that holds its words and passes the filter, unless its results are full,
\* and a full descending search has left out none that is newer than one it
\* returned for the word itself.
THEOREM NewestAreFound ==
    ASSUME UntilFits
    PROVE  Spec => []NewestFound
  <1>1. ASSUME Init PROVE AheadInv /\ NewestFound
    BY <1>1 DEF Init, AheadInv, NewestFound
  <1>2. SearchInv /\ AheadInv /\ NewestFound /\ [Next]_vars => AheadInv' /\ NewestFound'
    BY AheadStep
  <1> QED BY <1>1, <1>2, SearchAlways, PTL DEF Spec

=============================================================================
