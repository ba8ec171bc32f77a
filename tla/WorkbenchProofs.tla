-------------------------- MODULE WorkbenchProofs --------------------------
(***************************************************************************)
(* The action properties of Workbench, for every value of the constants.   *)
(*                                                                         *)
(* Every one of them is about the step that publishes a close, so the      *)
(* proofs have one shape: the other steps leave the journal alone          *)
(* (OnlyCloseWrites), and the close appends to it, names a horizon that    *)
(* ends with it and regenerates the dossiers (ClosedExtendsJournal).  What *)
(* the invariant has to carry along is that the journal and the horizons   *)
(* are sequences, that no two horizons have one name, that the gate has    *)
(* verified what is selected, and what a running close has seen.           *)
(***************************************************************************)
EXTENDS Workbench, FiniteSetTheorems, SequenceTheorems, WellFoundedInduction, TLAPS

-----------------------------------------------------------------------------
(***************************************************************************)
(* Sequences whose elements are not given a type.                          *)
(***************************************************************************)
IsSequence(s) == s \in Seq(Range(s))

LEMMA SequenceFacts ==
  ASSUME NEW s, IsSequence(s)
  PROVE  /\ Len(s) \in Nat
         /\ DOMAIN s = 1 .. Len(s)
  BY LenProperties DEF IsSequence

LEMMA SequenceOver ==
  ASSUME NEW s, IsSequence(s), NEW T, Range(s) \subseteq T
  PROVE  s \in Seq(T)
  BY SeqMonotonic DEF IsSequence

LEMMA AppendIsSequence ==
  ASSUME NEW s, NEW e, IsSequence(s)
  PROVE  /\ IsSequence(Append(s, e))
         /\ Len(Append(s, e)) = Len(s) + 1
         /\ \A i \in 1 .. Len(s) : Append(s, e)[i] = s[i]
         /\ Append(s, e)[Len(s) + 1] = e
  <1> DEFINE T == Range(s) \cup { e }
  <1>1. s \in Seq(T) /\ e \in T
    BY SequenceOver
  <1> HIDE DEF T
  <1>2. /\ Append(s, e) \in Seq(T)
        /\ Len(Append(s, e)) = Len(s) + 1
        /\ \A i \in 1 .. Len(s) : Append(s, e)[i] = s[i]
        /\ Append(s, e)[Len(s) + 1] = e
    BY <1>1, AppendProperties
  <1>3. Append(s, e) \in Seq(Range(Append(s, e)))
    BY <1>2, SeqOfRange
  <1>4. QED
    BY <1>2, <1>3 DEF IsSequence

LEMMA ConcatIsSequence ==
  ASSUME NEW s, NEW t, IsSequence(s), IsSequence(t)
  PROVE  /\ IsSequence(s \o t)
         /\ Len(s \o t) = Len(s) + Len(t)
         /\ \A i \in 1 .. Len(s) : (s \o t)[i] = s[i]
         /\ \A j \in 1 .. Len(t) : (s \o t)[Len(s) + j] = t[j]
  <1> DEFINE T == Range(s) \cup Range(t)
  <1>1. s \in Seq(T) /\ t \in Seq(T)
    BY SequenceOver
  <1> HIDE DEF T
  <1>2. Len(s) \in Nat /\ Len(t) \in Nat
    BY SequenceFacts
  <1>3. /\ s \o t \in Seq(T)
        /\ Len(s \o t) = Len(s) + Len(t)
        /\ \A i \in 1 .. Len(s) + Len(t) :
              (s \o t)[i] = IF i <= Len(s) THEN s[i] ELSE t[i - Len(s)]
    BY <1>1, ConcatProperties
  <1>4. s \o t \in Seq(Range(s \o t))
    BY <1>3, SeqOfRange
  <1>5. \A i \in 1 .. Len(s) : (s \o t)[i] = s[i]
    BY <1>2, <1>3
  <1>6. ASSUME NEW j \in 1 .. Len(t)
        PROVE  (s \o t)[Len(s) + j] = t[j]
    <2>1. /\ Len(s) + j \in 1 .. Len(s) + Len(t)
          /\ ~ (Len(s) + j <= Len(s))
          /\ (Len(s) + j) - Len(s) = j
      BY <1>2
    <2>2. QED
      BY <1>3, <2>1
  <1>7. QED
    BY <1>3, <1>4, <1>5, <1>6 DEF IsSequence

LEMMA FrontIsSequence ==
  ASSUME NEW s, IsSequence(s), s # <<>>
  PROVE  /\ IsSequence(Front(s))
         /\ Len(Front(s)) = Len(s) - 1
         /\ Len(s) \in Nat \ { 0 }
         /\ \A i \in 1 .. Len(s) - 1 : Front(s)[i] = s[i]
  <1> DEFINE T == Range(s)
  <1>1. s \in Seq(T)
    BY DEF IsSequence
  <1> HIDE DEF T
  <1>2. Len(s) \in Nat \ { 0 }
    BY <1>1, EmptySeq
  <1> DEFINE n == Len(s) - 1
  <1>3. n \in Nat /\ Len(s) = n + 1 /\ n - 1 + 1 = n
    BY <1>2
  <1> HIDE DEF n
  <1>4. \A i \in 1 .. n : s[i] \in T
    BY <1>1, <1>3, ElementOfSeq
  <1>5. /\ SubSeq(s, 1, n) \in Seq(T)
        /\ Len(SubSeq(s, 1, n)) = n
        /\ \A i \in 1 .. n : SubSeq(s, 1, n)[i] = s[i]
    BY <1>3, <1>4, SubSeqProperties
  <1>6. Front(s) = SubSeq(s, 1, n)
    BY DEF Front, n
  <1>7. Front(s) \in Seq(Range(Front(s)))
    BY <1>5, <1>6, SeqOfRange
  <1>8. n = Len(s) - 1
    BY DEF n
  <1>9. QED
    BY <1>2, <1>5, <1>6, <1>7, <1>8 DEF IsSequence

\* A function over an initial segment of the numbers is a sequence.
LEMMA FunctionIsSequence ==
  ASSUME NEW n \in Nat, NEW f, f = [ i \in 1 .. n |-> f[i] ]
  PROVE  IsSequence(f) /\ Len(f) = n
  <1>1. f \in [ 1 .. n -> Range(f) ]
    BY DEF Range
  <1>2. f \in Seq(Range(f))
    BY <1>1, SeqDef
  <1>3. QED
    BY <1>1, <1>2, LenProperties DEF IsSequence

\* An initial segment of a sequence is the same in every extension of it.
LEMMA SubSeqOfExtension ==
  ASSUME NEW s, NEW t, IsSequence(s), IsSequence(t), Len(s) <= Len(t),
         \A i \in 1 .. Len(s) : t[i] = s[i],
         NEW n \in 0 .. Len(s)
  PROVE  SubSeq(s, 1, n) = SubSeq(t, 1, n)
  <1> DEFINE T == Range(s) \cup Range(t)
  <1>1. s \in Seq(T) /\ t \in Seq(T)
    BY SequenceOver
  <1> HIDE DEF T
  <1>2. Len(s) \in Nat /\ Len(t) \in Nat
    BY SequenceFacts
  <1>3. \A i \in 1 .. n : s[i] \in T /\ t[i] \in T
    BY <1>1, <1>2, ElementOfSeq
  <1>4. /\ SubSeq(s, 1, n) \in Seq(T)
        /\ Len(SubSeq(s, 1, n)) = n
        /\ \A i \in 1 .. n : SubSeq(s, 1, n)[i] = s[i]
    BY <1>2, <1>3, SubSeqProperties
  <1>5. /\ SubSeq(t, 1, n) \in Seq(T)
        /\ Len(SubSeq(t, 1, n)) = n
        /\ \A i \in 1 .. n : SubSeq(t, 1, n)[i] = t[i]
    BY <1>2, <1>3, SubSeqProperties
  <1>6. \A i \in 1 .. n : SubSeq(s, 1, n)[i] = SubSeq(t, 1, n)[i]
    BY <1>2, <1>4, <1>5
  <1>7. QED
    BY <1>4, <1>5, <1>6, SeqEqual

LEMMA SingletonIsSequence ==
  ASSUME NEW e
  PROVE  /\ IsSequence(<< e >>)
         /\ Len(<< e >>) = 1
         /\ << e >>[1] = e
  <1>1. << e >> \in Seq({ e })
    OBVIOUS
  <1>2. << e >> \in Seq(Range(<< e >>))
    BY <1>1, SeqOfRange
  <1>3. QED
    BY <1>2 DEF IsSequence

-----------------------------------------------------------------------------
(***************************************************************************)
(* The records a close adds are a sequence, whatever the draft says.       *)
(***************************************************************************)
LEMMA AscendingIsSequence ==
  ASSUME NEW S, IsFiniteSet(S)
  PROVE  IsSequence(Ascending(S)) /\ Len(Ascending(S)) = Cardinality(S)
  <1>1. Cardinality(S) \in Nat
    BY FS_CardinalityType
  <1> DEFINE e(k) == CHOOSE n \in S : Cardinality({ m \in S : m < n }) = k - 1
             f == Ascending(S)
  <1>2. f = [ k \in 1 .. Cardinality(S) |-> e(k) ]
    BY DEF Ascending
  <1> HIDE DEF e, f
  <1>3. f = [ k \in 1 .. Cardinality(S) |-> f[k] ]
    BY <1>2
  <1>4. IsSequence(f) /\ Len(f) = Cardinality(S)
    BY <1>1, <1>3, FunctionIsSequence
  <1>5. QED
    BY <1>4 DEF f

\* In a finite set of numbers, every rank is taken: the map from an element
\* to the number of smaller ones is injective into as many values.
LEMMA EveryRankIsTaken ==
  ASSUME NEW S \in SUBSET Int, IsFiniteSet(S), NEW k \in 1 .. Cardinality(S)
  PROVE  \E n \in S : Cardinality({ m \in S : m < n }) = k - 1
  <1> DEFINE below(n) == { m \in S : m < n }
             N == Cardinality(S)
             T == 0 .. N - 1
             f == [ n \in S |-> Cardinality(below(n)) ]
  <1>1. N \in Nat
    BY FS_CardinalityType
  <1>2. \A n \in S : IsFiniteSet(below(n)) /\ Cardinality(below(n)) \in Nat
    BY FS_Subset, FS_CardinalityType
  <1>3. ASSUME NEW n \in S, NEW m \in S, m < n
        PROVE  Cardinality(below(m)) < Cardinality(below(n))
    <2>1. below(m) \subseteq below(n) /\ m \in below(n) /\ m \notin below(m)
      <3>1. m \in Int /\ n \in Int
        OBVIOUS
      <3>2. m \in below(n) /\ m \notin below(m)
        BY <1>3, <3>1
      <3>3. ASSUME NEW i \in S, i < m
            PROVE  i < n
        BY <1>3, <3>1, <3>3
      <3>4. below(m) \subseteq below(n)
        BY <3>3
      <3>5. QED
        BY <3>2, <3>4
    <2>2. below(m) # below(n)
      BY <2>1
    <2> HIDE DEF below
    <2>3. /\ Cardinality(below(m)) <= Cardinality(below(n))
          /\ Cardinality(below(m)) # Cardinality(below(n))
      BY <1>2, <2>1, <2>2, FS_Subset
    <2>4. QED
      BY <1>2, <2>3
  <1>4. ASSUME NEW n \in S
        PROVE  Cardinality(below(n)) < N
    <2>1. below(n) \in SUBSET S /\ n \notin below(n) /\ below(n) # S
      OBVIOUS
    <2> HIDE DEF below
    <2>2. Cardinality(below(n)) <= Cardinality(S) /\ Cardinality(below(n)) # Cardinality(S)
      BY <2>1, FS_Subset
    <2>3. QED
      BY <1>1, <1>2, <2>2
  <1>5. f \in Injection(S, T)
    <2> HIDE DEF below, N
    <2>1. f \in [ S -> T ]
      BY <1>1, <1>2, <1>4
    <2>2. ASSUME NEW a \in S, NEW b \in S, f[a] = f[b]
          PROVE  a = b
      <3>1. ~ (a < b) /\ ~ (b < a)
        BY <1>2, <1>3, <2>2
      <3>2. QED
        BY <3>1
    <2>3. QED
      BY <2>1, <2>2 DEF Injection, IsInjective
  <1>6. IsFiniteSet(T) /\ Cardinality(T) = N
    <2> HIDE DEF N
    <2>1. QED
      BY <1>1, FS_Interval
  <1>7. f \in Surjection(S, T)
    BY <1>5, <1>6, FS_Injection
  <1>8. k - 1 \in T
    BY <1>1
  <1>9. QED
    BY <1>7, <1>8 DEF Surjection

LEMMA AscendingElements ==
  ASSUME NEW S \in SUBSET Int, IsFiniteSet(S), NEW k \in 1 .. Cardinality(S)
  PROVE  Ascending(S)[k] \in S
  <1>1. Ascending(S)[k] =
          CHOOSE n \in S : Cardinality({ m \in S : m < n }) = k - 1
    BY DEF Ascending
  <1>2. QED
    BY <1>1, EveryRankIsTaken

\* A non-empty set of numbers has a least element.
LEMMA LeastNumber ==
  ASSUME NEW T \in SUBSET Nat, T # {}
  PROVE  \E n \in T : \A m \in T : n <= m
  <1> DEFINE R == OpToRel(<, Nat)
  <1>1. IsWellFoundedOn(R, Nat)
    BY NatLessThanWellFounded
  <1>2. \A m, n \in Nat : m < n => <<m, n>> \in R
    BY DEF OpToRel
  <1> HIDE DEF R
  <1>3. PICK n \in T : \A m \in T : ~ (<<m, n>> \in R)
    BY <1>1, WFMin
  <1>4. ASSUME NEW m \in T PROVE n <= m
    <2>1. m \in Nat /\ n \in Nat /\ ~ (m < n)
      BY <1>2, <1>3
    <2>2. QED
      BY <2>1
  <1>5. QED
    BY <1>4

\* The last of some positions below n.
LEMMA LastOfPositions ==
  ASSUME NEW n \in Nat, NEW S \in SUBSET (1 .. n)
  PROVE  /\ LastOf(S) \in 0 .. n
         /\ S = {} => LastOf(S) = 0
         /\ S # {} => LastOf(S) \in S /\ LastOf(S) # 0
         /\ \A x \in S : x <= LastOf(S)
  <1>1. CASE S = {}
    <2>1. LastOf(S) = 0
      BY <1>1 DEF LastOf
    <2>2. QED
      BY <1>1, <2>1
  <1>2. CASE S # {}
    <2> DEFINE T == { n - x : x \in S }
    <2>1. T \in SUBSET Nat /\ T # {}
      <3>1. ASSUME NEW x \in S PROVE n - x \in Nat
        <4>1. x \in 1 .. n
          OBVIOUS
        <4>2. QED
          BY <4>1
      <3>2. QED
        BY <1>2, <3>1
    <2>2. PICK t \in T : \A m \in T : t <= m
      <3> HIDE DEF T
      <3>1. QED
        BY <2>1, LeastNumber
    <2>3. PICK x \in S : t = n - x
      OBVIOUS
    <2>4. \A y \in S : x >= y
      <3>1. SUFFICES ASSUME NEW y \in S PROVE x >= y
        OBVIOUS
      <3>2. n - y \in T
        OBVIOUS
      <3>3. n - x <= n - y
        BY <2>2, <2>3, <3>2
      <3>4. x \in 1 .. n /\ y \in 1 .. n
        OBVIOUS
      <3>5. QED
        BY <3>3, <3>4
    <2>5. Max(S) \in S /\ \A y \in S : Max(S) >= y
      BY <2>4 DEF Max
    <2>6. LastOf(S) = Max(S)
      BY <1>2 DEF LastOf
    <2>7. LastOf(S) \in S /\ \A y \in S : LastOf(S) >= y
      BY <2>5, <2>6
    <2>8. LastOf(S) \in 1 .. n /\ \A y \in S : y \in 1 .. n
      BY <2>7
    <2>9. QED
      BY <1>2, <2>7, <2>8
  <1>3. QED
    BY <1>1, <1>2

\* The last of some positions is the one that no other exceeds.
LEMMA LastOfIs ==
  ASSUME NEW n \in Nat, NEW S \in SUBSET (1 .. n), NEW c \in S,
         \A x \in S : x <= c
  PROVE  LastOf(S) = c
  <1>1. LastOf(S) \in S /\ c <= LastOf(S)
    BY LastOfPositions
  <1>2. LastOf(S) <= c
    BY <1>1
  <1>3. LastOf(S) \in 1 .. n /\ c \in 1 .. n
    BY <1>1
  <1>4. QED
    BY <1>1, <1>2, <1>3

\* Of two elements the smaller has the lower rank.
LEMMA RanksIncrease ==
  ASSUME NEW S \in SUBSET Int, IsFiniteSet(S), NEW n \in S, NEW m \in S, m < n
  PROVE  /\ Cardinality({ i \in S : i < m }) \in Nat
         /\ Cardinality({ i \in S : i < n }) \in Nat
         /\ Cardinality({ i \in S : i < m }) < Cardinality({ i \in S : i < n })
  <1> DEFINE A == { i \in S : i < m }
             B == { i \in S : i < n }
  <1>1. m \in B /\ m \notin A /\ A \in SUBSET B /\ B \in SUBSET S
    <2>1. m \in Int /\ n \in Int
      OBVIOUS
    <2>2. ASSUME NEW i \in S, i < m
          PROVE  i < n
      BY <2>1, <2>2
    <2>3. m \in B /\ m \notin A
      BY <2>1
    <2>4. A \in SUBSET B /\ B \in SUBSET S
      BY <2>2
    <2>5. QED
      BY <2>3, <2>4
  <1>2. A # B
    BY <1>1
  <1> HIDE DEF A, B
  <1>3. IsFiniteSet(B) /\ IsFiniteSet(A)
    BY <1>1, FS_Subset
  <1>4. Cardinality(A) \in Nat /\ Cardinality(B) \in Nat
    BY <1>3, FS_CardinalityType
  <1>5. Cardinality(A) <= Cardinality(B) /\ Cardinality(A) # Cardinality(B)
    BY <1>1, <1>2, <1>3, FS_Subset
  <1>6. Cardinality(A) < Cardinality(B)
    BY <1>4, <1>5
  <1>7. QED
    BY <1>4, <1>6 DEF A, B

\* Rank k - 1 is the rank of the element in place k.
LEMMA AscendingRank ==
  ASSUME NEW S \in SUBSET Int, IsFiniteSet(S), NEW k \in 1 .. Cardinality(S)
  PROVE  /\ Ascending(S)[k] \in S
         /\ Cardinality({ m \in S : m < Ascending(S)[k] }) = k - 1
  <1>1. Ascending(S)[k] =
          CHOOSE n \in S : Cardinality({ m \in S : m < n }) = k - 1
    BY DEF Ascending
  <1>2. QED
    BY <1>1, EveryRankIsTaken

\* Later places hold larger numbers.
LEMMA AscendingIncreases ==
  ASSUME NEW S \in SUBSET Int, IsFiniteSet(S),
         NEW k \in 1 .. Cardinality(S), NEW l \in 1 .. Cardinality(S), k < l
  PROVE  Ascending(S)[k] < Ascending(S)[l]
  <1> DEFINE a == Ascending(S)[k]
             b == Ascending(S)[l]
             rank(n) == Cardinality({ m \in S : m < n })
  <1>1. a \in S /\ b \in S /\ rank(a) = k - 1 /\ rank(b) = l - 1
    BY AscendingRank
  <1>2. Cardinality(S) \in Nat
    BY FS_CardinalityType
  <1>3. b < a => rank(b) < rank(a)
    BY <1>1, RanksIncrease
  <1> HIDE DEF a, b, rank
  <1>4. a # b /\ ~ (b < a)
    BY <1>1, <1>2, <1>3
  <1>5. a < b
    BY <1>1, <1>4
  <1>6. QED
    BY <1>5 DEF a, b

\* Every element has its place.
LEMMA AscendingIsOnto ==
  ASSUME NEW S \in SUBSET Int, IsFiniteSet(S), NEW n \in S
  PROVE  \E k \in 1 .. Cardinality(S) : Ascending(S)[k] = n
  <1> DEFINE below == { m \in S : m < n }
             N == Cardinality(S)
  <1>1. N \in Nat
    BY FS_CardinalityType
  <1>2. below \in SUBSET S /\ below # S
    <2>1. n \notin below
      OBVIOUS
    <2>2. QED
      BY <2>1
  <1> HIDE DEF below, N
  <1>3. /\ IsFiniteSet(below)
        /\ Cardinality(below) <= N
        /\ Cardinality(below) # N
    BY <1>2, FS_Subset DEF N
  <1>4. Cardinality(below) \in Nat
    BY <1>3, FS_CardinalityType
  <1> DEFINE k == Cardinality(below) + 1
  <1>5. k \in 1 .. N /\ k - 1 = Cardinality(below)
    BY <1>1, <1>3, <1>4
  <1> HIDE DEF k
  <1> DEFINE a == Ascending(S)[k]
  <1>6. a \in S /\ Cardinality({ m \in S : m < a }) = Cardinality(below)
    BY <1>5, AscendingRank DEF N
  <1> HIDE DEF a
  <1>7. ~ (a < n) /\ ~ (n < a)
    BY <1>4, <1>6, RanksIncrease DEF below
  <1>8. a = n
    BY <1>6, <1>7
  <1>9. QED
    BY <1>5, <1>8 DEF a, N

\* Elements next to each other have places next to each other.
LEMMA AscendingNeighbours ==
  ASSUME NEW S \in SUBSET Int, IsFiniteSet(S),
         NEW k \in 1 .. Cardinality(S), Ascending(S)[k] - 1 \in S
  PROVE  /\ k - 1 \in 1 .. Cardinality(S)
         /\ Ascending(S)[k - 1] = Ascending(S)[k] - 1
  <1> DEFINE n == Ascending(S)[k]
  <1>1. n \in S /\ n \in Int
    BY AscendingRank
  <1>2. PICK l \in 1 .. Cardinality(S) : Ascending(S)[l] = n - 1
    BY AscendingIsOnto
  <1>3. Cardinality(S) \in Nat
    BY FS_CardinalityType
  <1> HIDE DEF n
  <1>4. l < k
    <2>1. l # k
      BY <1>1, <1>2 DEF n
    <2>2. k < l => n < n - 1
      BY <1>2, AscendingIncreases DEF n
    <2>3. QED
      BY <1>1, <1>3, <2>1, <2>2
  <1>5. ~ (l + 1 < k)
    <2>1. SUFFICES ASSUME l + 1 < k PROVE FALSE
      OBVIOUS
    <2>2. l + 1 \in 1 .. Cardinality(S) /\ l < l + 1
      BY <1>3, <2>1
    <2> DEFINE o == Ascending(S)[l + 1]
    <2>3. o \in S
      BY <2>2, AscendingRank
    <2>4. n - 1 < o
      BY <1>2, <2>2, AscendingIncreases
    <2>5. o < n
      BY <2>1, <2>2, AscendingIncreases DEF n
    <2> HIDE DEF o
    <2>6. QED
      BY <1>1, <2>3, <2>4, <2>5
  <1>6. l = k - 1
    BY <1>3, <1>4, <1>5
  <1>7. QED
    BY <1>2, <1>6 DEF n

\* An increasing map of a finite set of numbers onto another carries the k-th
\* number of the one to the k-th number of the other.
LEMMA AscendingOfImage ==
  ASSUME NEW S \in SUBSET Int, IsFiniteSet(S), NEW T \in SUBSET Int, IsFiniteSet(T),
         NEW f \in [ S -> T ],
         \A m, n \in S : m < n => f[m] < f[n],
         \A t \in T : \E n \in S : f[n] = t
  PROVE  /\ Cardinality(S) = Cardinality(T)
         /\ \A k \in 1 .. Cardinality(S) : Ascending(T)[k] = f[Ascending(S)[k]]
  <1>1. \A m, n \in S : f[m] = f[n] => m = n
    <2>1. SUFFICES ASSUME NEW m \in S, NEW n \in S, f[m] = f[n]
                   PROVE  m = n
      OBVIOUS
    <2>2. m \in Int /\ n \in Int /\ f[m] \in Int
      OBVIOUS
    <2>3. ~ (m < n) /\ ~ (n < m)
      BY <2>1, <2>2
    <2>4. QED
      BY <2>2, <2>3
  <1>2. \A m, n \in S : f[m] < f[n] => m < n
    <2>1. SUFFICES ASSUME NEW m \in S, NEW n \in S, f[m] < f[n]
                   PROVE  m < n
      OBVIOUS
    <2>2. m \in Int /\ n \in Int /\ f[m] \in Int /\ f[n] \in Int
      OBVIOUS
    <2>3. m # n /\ ~ (n < m)
      BY <2>1, <2>2
    <2>4. QED
      BY <2>2, <2>3
  <1>3. Cardinality(S) = Cardinality(T)
    <2>1. f \in Bijection(S, T)
      BY <1>1 DEF Bijection, Injection, Surjection, IsInjective
    <2>2. QED
      BY <2>1, FS_Bijection DEF ExistsBijection
  <1>4. ASSUME NEW n \in S
        PROVE  Cardinality({ m \in S : m < n }) = Cardinality({ t \in T : t < f[n] })
    <2> DEFINE A == { m \in S : m < n }
               B == { t \in T : t < f[n] }
               h == [ m \in A |-> f[m] ]
    <2>1. A \in SUBSET S /\ IsFiniteSet(A)
      BY FS_Subset
    <2>2. \A m \in A : h[m] = f[m] /\ f[m] \in B
      OBVIOUS
    <2>3. h \in [ A -> B ]
      BY <2>2
    <2>4. ASSUME NEW t \in B
          PROVE  \E m \in A : h[m] = t
      <3>1. PICK m \in S : f[m] = t
        OBVIOUS
      <3>2. m < n
        BY <1>2, <3>1
      <3>3. QED
        BY <3>1, <3>2
    <2>5. \A m, l \in A : h[m] = h[l] => m = l
      BY <1>1
    <2> HIDE DEF A, B, h
    <2>6. h \in Bijection(A, B)
      BY <2>3, <2>4, <2>5 DEF Bijection, Injection, Surjection, IsInjective
    <2>7. Cardinality(A) = Cardinality(B)
      BY <2>1, <2>6, FS_Bijection DEF ExistsBijection
    <2>8. QED
      BY <2>7 DEF A, B
  <1>5. ASSUME NEW k \in 1 .. Cardinality(S)
        PROVE  Ascending(T)[k] = f[Ascending(S)[k]]
    <2> DEFINE n == Ascending(S)[k]
               t == Ascending(T)[k]
               rank(x) == Cardinality({ m \in T : m < x })
    <2>1. n \in S /\ Cardinality({ m \in S : m < n }) = k - 1
      BY AscendingRank
    <2>2. t \in T /\ rank(t) = k - 1
      BY <1>3, AscendingRank
    <2> HIDE DEF n
    <2>3. f[n] \in T /\ rank(f[n]) = k - 1
      BY <1>4, <2>1
    <2> HIDE DEF t
    <2>4. \A x, y \in T : x < y => rank(x) \in Nat /\ rank(x) < rank(y)
      BY RanksIncrease
    <2> HIDE DEF rank
    <2>5. ~ (t < f[n]) /\ ~ (f[n] < t)
      <3>1. t < f[n] => FALSE
        <4>1. t < f[n] => rank(t) \in Nat /\ rank(t) < rank(f[n])
          BY <2>2, <2>3, <2>4
        <4>2. QED
          BY <2>2, <2>3, <4>1
      <3>2. f[n] < t => FALSE
        <4>1. f[n] < t => rank(f[n]) \in Nat /\ rank(f[n]) < rank(t)
          BY <2>2, <2>3, <2>4
        <4>2. QED
          BY <2>2, <2>3, <4>1
      <3>3. QED
        BY <3>1, <3>2
    <2>6. t \in Int /\ f[n] \in Int
      BY <2>2, <2>3
    <2>7. t = f[n]
      BY <2>5, <2>6
    <2>8. QED
      BY <2>7 DEF t, n
  <1>6. QED
    BY <1>3, <1>5

\* What a sequence selects at some of its positions.
LEMMA SelectedElements ==
  ASSUME NEW s, NEW positions, IsFiniteSet(positions)
  PROVE  /\ DOMAIN Selected(s, positions) = 1 .. Cardinality(positions)
         /\ \A k \in 1 .. Cardinality(positions) :
               Selected(s, positions)[k] = s[Ascending(positions)[k]]
  <1>1. DOMAIN Ascending(positions) = 1 .. Cardinality(positions)
    BY DEF Ascending
  <1>2. QED
    BY <1>1 DEF Selected

\* The positions of a sequence that satisfy any condition are finitely many.
LEMMA PositionsAreFinite ==
  ASSUME NEW s, IsSequence(s), NEW P \in SUBSET DOMAIN s
  PROVE  IsFiniteSet(P)
  <1>1. Len(s) \in Nat /\ DOMAIN s = 1 .. Len(s)
    BY SequenceFacts
  <1>2. IsFiniteSet(1 .. Len(s))
    BY <1>1, FS_Interval
  <1>3. QED
    BY <1>1, <1>2, FS_Subset

LEMMA SourcesIsSequence ==
  ASSUME NEW draft, IsSequence(draft.actions)
  PROVE  /\ IsSequence(Sources(draft))
         /\ \A n \in DOMAIN Sources(draft) :
              \E i \in DOMAIN draft.actions :
                 /\ draft.actions[i].kind = "source"
                 /\ Sources(draft)[n] = draft.actions[i]
  <1> DEFINE S == { i \in DOMAIN draft.actions : draft.actions[i].kind = "source" }
             n == Cardinality(S)
  <1>1. IsFiniteSet(S)
    BY PositionsAreFinite
  <1>2. n \in Nat /\ DOMAIN Ascending(S) = 1 .. n
    BY <1>1, FS_CardinalityType DEF Ascending
  <1>3. Sources(draft) = [ i \in 1 .. n |-> Sources(draft)[i] ]
    BY <1>2 DEF Sources, Selected
  <1>4. S \in SUBSET Int
    BY SequenceFacts
  <1>5. ASSUME NEW k \in DOMAIN Sources(draft)
        PROVE  \E i \in S : Sources(draft)[k] = draft.actions[i]
    <2>1. k \in 1 .. n /\ Sources(draft)[k] = draft.actions[Ascending(S)[k]]
      BY <1>2, <1>5 DEF Sources, Selected
    <2>2. Ascending(S)[k] \in S
      BY <1>1, <1>4, <2>1, AscendingElements
    <2>3. QED
      BY <2>1, <2>2
  <1>6. IsSequence(Sources(draft))
    <2> HIDE DEF n
    <2>1. QED
      BY <1>2, <1>3, FunctionIsSequence
  <1>7. QED
    BY <1>5, <1>6

LEMMA SortedSourcesIsSequence ==
  ASSUME NEW draft, IsSequence(draft.actions)
  PROVE  IsSequence(SortedSources(draft))
  <1> DEFINE S == { i \in DOMAIN draft.actions : draft.actions[i].kind = "source" }
             T == { a.path : a \in SourceSet(draft) }
             f == [ i \in S |-> draft.actions[i].path ]
             n == Cardinality(T)
  <1>1. IsFiniteSet(S)
    BY PositionsAreFinite
  <1>2. f \in Surjection(S, T)
    BY DEF Surjection, SourceSet, ToSet
  <1>3. IsFiniteSet(T)
    BY <1>1, <1>2, FS_Surjection
  <1>4. n \in Nat /\ DOMAIN Ascending(T) = 1 .. n
    BY <1>3, FS_CardinalityType DEF Ascending
  <1> HIDE DEF n
  <1> DEFINE e(k) == CHOOSE a \in SourceSet(draft) : a.path = Ascending(T)[k]
             g == SortedSources(draft)
  <1>5. g = [ k \in 1 .. n |-> e(k) ]
    BY <1>4 DEF SortedSources
  <1> HIDE DEF e, g
  <1>6. g = [ k \in 1 .. n |-> g[k] ]
    BY <1>5
  <1>7. IsSequence(g)
    BY <1>4, <1>6, FunctionIsSequence
  <1>8. QED
    BY <1>7 DEF g

LEMMA SemanticSlotsAreFinite ==
  ASSUME NEW draft, IsSequence(draft.actions)
  PROVE  IsFiniteSet(SemanticSlots(draft))
  <1> DEFINE n == Len(draft.actions)
  <1>1. n \in Nat /\ DOMAIN draft.actions = 1 .. n
    BY SequenceFacts
  <1> HIDE DEF n
  <1>2. SemanticSlots(draft) \subseteq 1 .. 2 * n
    BY <1>1 DEF SemanticSlots, Slot
  <1>3. 2 * n \in Nat
    BY <1>1
  <1>4. IsFiniteSet(1 .. 2 * n)
    BY <1>3, FS_Interval
  <1>5. QED
    BY <1>2, <1>4, FS_Subset

LEMMA HorizonRecordsIsSequence ==
  ASSUME NEW g, IsSequence(g.draft.actions)
  PROVE  /\ IsSequence(HorizonRecords(g))
         /\ Len(HorizonRecords(g)) \in Nat \ { 0 }
         /\ HorizonRecords(g)[Len(HorizonRecords(g))].name = g.draft.name
  <1> DEFINE draft == g.draft
             sorted == SortedSources(draft)
             slots == Ascending(SemanticSlots(draft))
             opened == << BoundaryRecord("HorizonOpened", draft.id, draft) >>
             sources == [ n \in DOMAIN sorted |-> SourceRecord(draft, sorted[n]) ]
             semantic == [ n \in DOMAIN slots |-> RecordIn(draft, slots[n]) ]
             end == BoundaryRecord("HorizonClosed",
                                   GeneratedId("cls", AllTakenIds(g)), draft)
  <1>1. IsSequence(sorted) /\ IsSequence(slots)
    BY SortedSourcesIsSequence, SemanticSlotsAreFinite, AscendingIsSequence
  <1>2. /\ Len(sorted) \in Nat /\ DOMAIN sorted = 1 .. Len(sorted)
        /\ Len(slots) \in Nat /\ DOMAIN slots = 1 .. Len(slots)
    <2> HIDE DEF sorted, slots
    <2>1. QED
      BY <1>1, SequenceFacts
  <1>3. end.name = g.draft.name
    BY DEF BoundaryRecord
  <1>4. HorizonRecords(g) = opened \o sources \o semantic \o << end >>
    BY DEF HorizonRecords
  <1>5. IsSequence(opened) /\ IsSequence(<< end >>)
    BY SingletonIsSequence
  <1>6. IsSequence(sources)
    <2> HIDE DEF sorted
    <2>1. sources = [ n \in 1 .. Len(sorted) |-> sources[n] ]
      BY <1>2
    <2> HIDE DEF sources
    <2>2. QED
      BY <1>2, <2>1, FunctionIsSequence
  <1>7. IsSequence(semantic)
    <2> HIDE DEF slots
    <2>1. semantic = [ n \in 1 .. Len(slots) |-> semantic[n] ]
      BY <1>2
    <2> HIDE DEF semantic
    <2>2. QED
      BY <1>2, <2>1, FunctionIsSequence
  <1> HIDE DEF opened, sources, semantic, end
  <1>8. IsSequence(opened \o sources \o semantic)
    BY <1>5, <1>6, <1>7, ConcatIsSequence
  <1> DEFINE before == opened \o sources \o semantic
  <1>9. Len(<< end >>) = 1 /\ << end >>[1] = end
    BY SingletonIsSequence
  <1>10. Len(before) \in Nat
    BY <1>8, SequenceFacts
  <1> HIDE DEF before
  <1>11. /\ IsSequence(before \o << end >>)
         /\ Len(before \o << end >>) = Len(before) + 1
         /\ (before \o << end >>)[Len(before) + 1] = end
    BY <1>5, <1>8, <1>9, ConcatIsSequence DEF before
  <1>12. HorizonRecords(g) = before \o << end >>
    BY <1>4 DEF before
  <1>13. QED
    BY <1>3, <1>10, <1>11, <1>12

-----------------------------------------------------------------------------
(***************************************************************************)
(* Generations that commands stage.                                        *)
(***************************************************************************)
Members == { "records", "horizons", "snapshots", "draft", "captured",
             "requestedAsOf", "derived" }

\* An action of one of the four kinds; an assertion or a revision cites a
\* source.
SoundAction(a) ==
  \/ a.kind = "source" /\ a.path \in Paths
  \/ a.kind \in { "assertion-add", "assertion-revise" } /\ a.source # None
  \/ a.kind = "question"

SoundDraft(draft) ==
  /\ DOMAIN draft = { "name", "id", "actions" }
  /\ draft.name \in Names
  /\ IsSequence(draft.actions)
  /\ \A i \in DOMAIN draft.actions : SoundAction(draft.actions[i])

NamesOnce(horizons) ==
  \A k, l \in DOMAIN horizons : horizons[k].name = horizons[l].name => k = l

Sound(g) ==
  /\ DOMAIN g = Members
  /\ IsSequence(g.records)
  /\ IsSequence(g.horizons)
  /\ NamesOnce(g.horizons)
  /\ g.draft # NoDraft => SoundDraft(g.draft)

\* What the gate of a publication leaves behind, the derived files excepted:
\* the owner may edit those at any time.
Verified(g) ==
  /\ VerifyCanonical(g.records, g.horizons, g.snapshots)
  /\ ValidMetadata(g)
  /\ ValidDraft(g)

\* g is sound and differs from the selected generation in its draft and its
\* dossiers at most.
KeepsJournal(g) ==
  /\ Sound(g)
  /\ g.records = active.records
  /\ g.horizons = active.horizons

LEMMA ExtendedKeepsJournal ==
  ASSUME Sound(active), active.draft # NoDraft,
         NEW action, SoundAction(action)
  PROVE  /\ KeepsJournal(Extended(action))
         /\ Extended(action).draft.actions = Append(active.draft.actions, action)
  <1> DEFINE g == Extended(action)
  <1>1. /\ DOMAIN g = Members
        /\ g.records = active.records
        /\ g.horizons = active.horizons
        /\ g.draft.actions = Append(active.draft.actions, action)
        /\ DOMAIN g.draft = { "name", "id", "actions" }
        /\ g.draft.name \in Names
    BY DEF Extended, Sound, SoundDraft, Members
  <1>2. IsSequence(active.draft.actions)
    BY DEF Sound, SoundDraft
  <1>3. /\ IsSequence(g.draft.actions)
        /\ Len(g.draft.actions) = Len(active.draft.actions) + 1
        /\ \A i \in 1 .. Len(active.draft.actions) :
              g.draft.actions[i] = active.draft.actions[i]
        /\ g.draft.actions[Len(active.draft.actions) + 1] = action
    BY <1>1, <1>2, AppendIsSequence
  <1> HIDE DEF g
  <1>4. /\ Len(active.draft.actions) \in Nat
        /\ DOMAIN active.draft.actions = 1 .. Len(active.draft.actions)
        /\ DOMAIN g.draft.actions = 1 .. Len(active.draft.actions) + 1
    BY <1>2, <1>3, SequenceFacts
  <1>5. ASSUME NEW i \in DOMAIN g.draft.actions
        PROVE  SoundAction(g.draft.actions[i])
    <2>1. CASE i = Len(active.draft.actions) + 1
      BY <1>3, <1>5, <2>1
    <2>2. CASE i # Len(active.draft.actions) + 1
      <3>1. i \in 1 .. Len(active.draft.actions)
        BY <1>4, <2>2
      <3>2. QED
        BY <1>3, <1>4, <1>5, <3>1 DEF Sound, SoundDraft
    <2>3. QED
      BY <2>1, <2>2
  <1>6. SoundDraft(g.draft)
    BY <1>1, <1>3, <1>5 DEF SoundDraft
  <1>7. QED
    BY <1>1, <1>6 DEF KeepsJournal, Sound, g

LEMMA UndoneKeepsJournal ==
  ASSUME Sound(active), active.draft # NoDraft, active.draft.actions # <<>>
  PROVE  /\ KeepsJournal(Undone(active))
         /\ Undone(active).draft.actions = Front(active.draft.actions)
  <1> DEFINE g == Undone(active)
  <1>1. /\ DOMAIN g = Members
        /\ g.records = active.records
        /\ g.horizons = active.horizons
        /\ g.draft.actions = Front(active.draft.actions)
        /\ DOMAIN g.draft = { "name", "id", "actions" }
        /\ g.draft.name \in Names
    BY DEF Undone, Sound, SoundDraft, Members
  <1>2. IsSequence(active.draft.actions)
    BY DEF Sound, SoundDraft
  <1>3. /\ IsSequence(g.draft.actions)
        /\ Len(g.draft.actions) = Len(active.draft.actions) - 1
        /\ Len(active.draft.actions) \in Nat \ { 0 }
        /\ \A i \in 1 .. Len(active.draft.actions) - 1 :
              g.draft.actions[i] = active.draft.actions[i]
    BY <1>1, <1>2, FrontIsSequence
  <1> HIDE DEF g
  <1>4. /\ DOMAIN active.draft.actions = 1 .. Len(active.draft.actions)
        /\ DOMAIN g.draft.actions = 1 .. Len(active.draft.actions) - 1
    BY <1>2, <1>3, SequenceFacts
  <1>5. ASSUME NEW i \in DOMAIN g.draft.actions
        PROVE  SoundAction(g.draft.actions[i])
    <2>1. i \in DOMAIN active.draft.actions
          /\ g.draft.actions[i] = active.draft.actions[i]
      BY <1>3, <1>4
    <2>2. QED
      BY <1>5, <2>1 DEF Sound, SoundDraft
  <1>6. SoundDraft(g.draft)
    BY <1>1, <1>3, <1>5 DEF SoundDraft
  <1>7. QED
    BY <1>1, <1>6 DEF KeepsJournal, Sound, g

LEMMA OpenedKeepsJournal ==
  ASSUME Sound(active), NEW name \in Names, NEW id
  PROVE  KeepsJournal([ active EXCEPT !.draft =
                          [ name |-> name, id |-> id, actions |-> <<>> ] ])
  <1> DEFINE draft == [ name |-> name, id |-> id, actions |-> <<>> ]
             g == [ active EXCEPT !.draft = draft ]
  <1>1. <<>> \in Seq({}) /\ Len(<<>>) = 0
    BY EmptySeq
  <1>2. IsSequence(<<>>) /\ DOMAIN <<>> = 1 .. 0
    BY <1>1, SeqOfRange, SequenceFacts DEF IsSequence
  <1>3. SoundDraft(draft)
    BY <1>2 DEF SoundDraft
  <1> HIDE DEF draft
  <1>4. /\ DOMAIN g = Members
        /\ g.records = active.records
        /\ g.horizons = active.horizons
        /\ g.draft = draft
    BY DEF Sound, Members
  <1> HIDE DEF g
  <1>5. KeepsJournal(g)
    BY <1>3, <1>4 DEF KeepsJournal, Sound
  <1>6. QED
    BY <1>5 DEF g, draft

LEMMA RegeneratedKeepsJournal ==
  ASSUME Sound(active), NEW name
  PROVE  /\ KeepsJournal(ReplaceDerived(active))
         /\ KeepsJournal(WithDossier(active, name))
         /\ KeepsJournal(WithoutDraft(active))
  <1>1. /\ DOMAIN ReplaceDerived(active) = Members
        /\ ReplaceDerived(active).records = active.records
        /\ ReplaceDerived(active).horizons = active.horizons
        /\ ReplaceDerived(active).draft = active.draft
    BY DEF ReplaceDerived, Sound, Members
  <1>2. /\ DOMAIN WithDossier(active, name) = Members
        /\ WithDossier(active, name).records = active.records
        /\ WithDossier(active, name).horizons = active.horizons
        /\ WithDossier(active, name).draft = active.draft
    BY DEF WithDossier, ReplaceDerived, Sound, Members
  <1>3. /\ DOMAIN WithoutDraft(active) = Members
        /\ WithoutDraft(active).records = active.records
        /\ WithoutDraft(active).horizons = active.horizons
        /\ WithoutDraft(active).draft = NoDraft
    BY DEF WithoutDraft, Sound, Members
  <1>4. QED
    BY <1>1, <1>2, <1>3 DEF KeepsJournal, Sound

\* The commands that leave the journal as it is.
DraftCommand ==
  \/ \E n \in Names : OpenHorizon(n) \/ PublishDossier(n)
  \/ \E s \in SourceAliases, p \in Paths : AddSource(s, p)
  \/ \E a \in AssertionAliases, s \in SourceAliases :
        AddAssertion(a, s) \/ ReviseAssertion(a, s)
  \/ \E q \in QuestionAliases, s \in SourceAliases \cup { None } :
        AddQuestion(q, s)
  \/ UndoDraft \/ AbortHorizon \/ RebuildProjections

\* Each of them runs while no close does and publishes a generation with the
\* journal it read.
LEMMA DraftCommandsKeepJournal ==
  ASSUME Sound(active), DraftCommand
  PROVE  /\ LockFree
         /\ UNCHANGED <<host, closing>>
         /\ \E command, g : Publish(command, g) /\ KeepsJournal(g)
  <1>1. CASE \E n \in Names : OpenHorizon(n)
    BY <1>1, OpenedKeepsJournal DEF OpenHorizon
  <1>2. CASE \E n \in Names : PublishDossier(n)
    BY <1>2, RegeneratedKeepsJournal DEF PublishDossier
  <1>3. CASE \E s \in SourceAliases, p \in Paths : AddSource(s, p)
    <2>1. PICK alias \in SourceAliases, path \in Paths : AddSource(alias, path)
      BY <1>3
    <2> DEFINE id == GeneratedId("src", AllTakenIds(active))
               action == [ kind     |-> "source",
                           alias    |-> alias,
                           path     |-> path,
                           id       |-> id,
                           content  |-> host[path].content,
                           identity |-> host[path].identity ]
               g == [ Extended(action) EXCEPT
                        !.captured = With(@, id, host[path].content) ]
    <2>2. /\ MayExtendDraft
          /\ Publish("source", g)
          /\ UNCHANGED <<host, closing>>
      BY <2>1 DEF AddSource
    <2>3. SoundAction(action)
      BY DEF SoundAction
    <2> HIDE DEF action
    <2>4. KeepsJournal(Extended(action))
      BY <2>2, <2>3, ExtendedKeepsJournal DEF MayExtendDraft
    <2>5. /\ DOMAIN g = Members
          /\ g.records = active.records
          /\ g.horizons = active.horizons
          /\ g.draft = Extended(action).draft
      BY <2>4 DEF KeepsJournal, Sound, Members
    <2> HIDE DEF g
    <2>6. KeepsJournal(g)
      BY <2>4, <2>5 DEF KeepsJournal, Sound
    <2>7. QED
      BY <2>2, <2>6 DEF MayExtendDraft
  <1>4. CASE \E a \in AssertionAliases, s \in SourceAliases :
               AddAssertion(a, s) \/ ReviseAssertion(a, s)
    <2>1. \E command, action :
             /\ MayExtendDraft
             /\ SoundAction(action)
             /\ Publish(command, Extended(action))
             /\ UNCHANGED <<host, closing>>
      <3>1. \A s \in SourceAliases : s # None
        BY NoneAssumption
      <3>2. QED
        BY <1>4, <3>1 DEF AddAssertion, ReviseAssertion, SoundAction
    <2>2. QED
      BY <2>1, ExtendedKeepsJournal DEF MayExtendDraft
  <1>5. CASE \E q \in QuestionAliases, s \in SourceAliases \cup { None } :
               AddQuestion(q, s)
    <2>1. \E command, action :
             /\ MayExtendDraft
             /\ SoundAction(action)
             /\ Publish(command, Extended(action))
             /\ UNCHANGED <<host, closing>>
      BY <1>5 DEF AddQuestion, SoundAction
    <2>2. QED
      BY <2>1, ExtendedKeepsJournal DEF MayExtendDraft
  <1>6. CASE UndoDraft
    BY <1>6, UndoneKeepsJournal DEF UndoDraft, MayExtendDraft
  <1>7. CASE AbortHorizon
    BY <1>7, RegeneratedKeepsJournal DEF AbortHorizon, MayExtendDraft
  <1>8. CASE RebuildProjections
    BY <1>8, RegeneratedKeepsJournal DEF RebuildProjections
  <1>9. QED
    BY <1>1, <1>2, <1>3, <1>4, <1>5, <1>6, <1>7, <1>8 DEF DraftCommand

\* A close extends the journal by the records of its horizon and names a new
\* horizon that ends with the journal.
LEMMA ClosedExtendsJournal ==
  ASSUME NEW g, Sound(g), g.draft # NoDraft
  PROVE  /\ Closed(g).records = g.records \o HorizonRecords(g)
         /\ Len(g.records) < Len(Closed(g).records)
         /\ \A i \in 1 .. Len(g.records) : Closed(g).records[i] = g.records[i]
         /\ Closed(g).horizons =
              Append(g.horizons, HorizonItem(Closed(g).records, Len(Closed(g).records)))
         /\ HorizonItem(Closed(g).records, Len(Closed(g).records)).name = g.draft.name
         /\ Closed(g).requestedAsOf = g.requestedAsOf
         /\ Closed(g).derived = ExpectedProjections(Closed(g))
         /\ Closed(g).draft = NoDraft
         /\ Closed(g).captured = <<>>
         /\ Closed(g).snapshots =
              g.snapshots \cup { g.captured[a.id] : a \in SourceSet(g.draft) }
         /\ DOMAIN Closed(g) = Members
         /\ IsSequence(Closed(g).records)
  <1> DEFINE added == HorizonRecords(g)
             records == g.records \o added
             item == HorizonItem(records, Len(records))
  <1>1. IsSequence(g.draft.actions) /\ IsSequence(g.records)
    BY DEF Sound, SoundDraft
  <1>2. /\ IsSequence(added)
        /\ Len(added) \in Nat \ { 0 }
        /\ added[Len(added)].name = g.draft.name
    BY <1>1, HorizonRecordsIsSequence
  <1>3. /\ IsSequence(records)
        /\ Len(records) = Len(g.records) + Len(added)
        /\ \A i \in 1 .. Len(g.records) : records[i] = g.records[i]
        /\ \A j \in 1 .. Len(added) : records[Len(g.records) + j] = added[j]
    BY <1>1, <1>2, ConcatIsSequence
  <1>4. Len(g.records) \in Nat
    BY <1>1, SequenceFacts
  <1>5. Len(added) \in 1 .. Len(added)
    BY <1>2
  <1>6. item.name = g.draft.name
    BY <1>2, <1>3, <1>5 DEF HorizonItem
  <1>7. Len(g.records) < Len(records)
    BY <1>2, <1>3, <1>4
  <1> DEFINE snapshots == g.snapshots \cup { g.captured[a.id] : a \in SourceSet(g.draft) }
             c == [ WithoutDraft(g) EXCEPT !.records   = records,
                                           !.horizons  = Append(g.horizons, item),
                                           !.snapshots = snapshots ]
  <1>8. /\ DOMAIN WithoutDraft(g) = Members
        /\ WithoutDraft(g).draft = NoDraft
        /\ WithoutDraft(g).horizons = g.horizons
        /\ WithoutDraft(g).snapshots = g.snapshots
        /\ WithoutDraft(g).captured = <<>>
        /\ WithoutDraft(g).requestedAsOf = g.requestedAsOf
    BY DEF WithoutDraft, Sound, Members
  <1>9. Closed(g) = ReplaceDerived(c)
    BY <1>8 DEF Closed
  <1> HIDE DEF added, records, item, snapshots
  <1>10. /\ DOMAIN c = Members
         /\ c.records = records
         /\ c.horizons = Append(g.horizons, item)
         /\ c.draft = NoDraft
         /\ c.captured = <<>>
         /\ c.snapshots = snapshots
         /\ c.requestedAsOf = g.requestedAsOf
    BY <1>8 DEF Members
  <1> HIDE DEF c
  <1>11. /\ DOMAIN Closed(g) = Members
         /\ Closed(g).records = c.records
         /\ Closed(g).horizons = c.horizons
         /\ Closed(g).draft = c.draft
         /\ Closed(g).captured = c.captured
         /\ Closed(g).snapshots = c.snapshots
         /\ Closed(g).requestedAsOf = c.requestedAsOf
         /\ Closed(g).derived = ExpectedProjections(c)
    BY <1>9, <1>10 DEF ReplaceDerived, Members
  <1>12. ExpectedProjections(Closed(g)) = ExpectedProjections(c)
    BY <1>11 DEF ExpectedProjections, ProjectionPaths
  <1>13. records = g.records \o HorizonRecords(g)
    BY DEF records, added
  <1>14. item = HorizonItem(records, Len(records))
    BY DEF item
  <1>15. snapshots = g.snapshots \cup { g.captured[a.id] : a \in SourceSet(g.draft) }
    BY DEF snapshots
  <1>16. QED
    BY <1>3, <1>6, <1>7, <1>10, <1>11, <1>12, <1>13, <1>14, <1>15

LEMMA ClosedIsSound ==
  ASSUME NEW g, Sound(g), Verified(g), g.draft # NoDraft
  PROVE  Sound(Closed(g))
  <1> DEFINE h == Closed(g).horizons
             item == HorizonItem(Closed(g).records, Len(Closed(g).records))
  <1>1. IsSequence(g.horizons) /\ NamesOnce(g.horizons)
    BY DEF Sound
  <1>2. /\ DOMAIN Closed(g) = Members
        /\ IsSequence(Closed(g).records)
        /\ Closed(g).draft = NoDraft
        /\ h = Append(g.horizons, item)
        /\ item.name = g.draft.name
    BY ClosedExtendsJournal
  <1> HIDE DEF h, item
  <1>3. /\ IsSequence(h)
        /\ Len(h) = Len(g.horizons) + 1
        /\ \A i \in 1 .. Len(g.horizons) : h[i] = g.horizons[i]
        /\ h[Len(g.horizons) + 1] = item
    BY <1>1, <1>2, AppendIsSequence
  <1>4. /\ Len(g.horizons) \in Nat
        /\ DOMAIN g.horizons = 1 .. Len(g.horizons)
        /\ DOMAIN h = 1 .. Len(g.horizons) + 1
    BY <1>1, <1>3, SequenceFacts
  <1>5. \A i \in DOMAIN g.horizons : g.horizons[i].name # g.draft.name
    BY DEF Verified, ValidDraft, ClosedNames
  <1>6. NamesOnce(h)
    <2>1. SUFFICES ASSUME NEW k \in DOMAIN h, NEW l \in DOMAIN h,
                          h[k].name = h[l].name
                   PROVE  k = l
      BY DEF NamesOnce
    <2>2. CASE k \in DOMAIN g.horizons /\ l \in DOMAIN g.horizons
      BY <1>1, <1>3, <1>4, <2>1, <2>2 DEF NamesOnce
    <2>3. CASE k \notin DOMAIN g.horizons /\ l \in DOMAIN g.horizons
      <3>1. k = Len(g.horizons) + 1
        BY <1>4, <2>3
      <3>2. h[k].name = g.draft.name /\ h[l].name # g.draft.name
        BY <1>2, <1>3, <1>4, <1>5, <2>3, <3>1
      <3>3. QED
        BY <2>1, <3>2
    <2>4. CASE k \in DOMAIN g.horizons /\ l \notin DOMAIN g.horizons
      <3>1. l = Len(g.horizons) + 1
        BY <1>4, <2>4
      <3>2. h[l].name = g.draft.name /\ h[k].name # g.draft.name
        BY <1>2, <1>3, <1>4, <1>5, <2>4, <3>1
      <3>3. QED
        BY <2>1, <3>2
    <2>5. CASE k \notin DOMAIN g.horizons /\ l \notin DOMAIN g.horizons
      BY <1>4, <2>5
    <2>6. QED
      BY <2>2, <2>3, <2>4, <2>5
  <1>7. QED
    BY <1>2, <1>3, <1>6 DEF Sound, h

-----------------------------------------------------------------------------
(***************************************************************************)
(* The inductive invariant.                                                *)
(***************************************************************************)
HostTyped == host \in [ Paths -> Files \cup { None } ]

\* While a close runs there is a draft, and each source revalidated so far
\* was seen with the identity and the captured bytes of the draft.
ClosingSeesDraft ==
  /\ closing = [ on |-> closing.on, seen |-> closing.seen ]
  /\ closing.on =>
       /\ active.draft # NoDraft
       /\ IsSequence(closing.seen)
       /\ \A n \in 1 .. Len(closing.seen) :
            LET source == Sources(active.draft)[n]
            IN  closing.seen[n] = [ identity |-> source.identity,
                                    content  |-> active.captured[source.id] ]

WorkbenchInv ==
  /\ Sound(active)
  /\ Verified(active)
  /\ HostTyped
  /\ ClosingSeesDraft

LEMMA InitEstablishesInvariant == Init => WorkbenchInv
  <1> SUFFICES ASSUME Init PROVE WorkbenchInv
    OBVIOUS
  <1> DEFINE first == [ kind    |-> "WorkspaceInitialized",
                        id      |-> <<"wrk", Min(Serials)>>,
                        horizon |-> None ]
  <1>1. /\ active.records = << first >>
        /\ active.horizons = <<>>
        /\ active.snapshots = {}
        /\ active.draft = NoDraft
        /\ active.captured = <<>>
        /\ active.requestedAsOf = {}
        /\ DOMAIN active = Members
    BY DEF Init, Members
  <1>2. HostTyped
    BY InitialHostsAssumption DEF Init, HostTyped, Files
  <1>3. ClosingSeesDraft
    BY DEF Init, NoClose, ClosingSeesDraft
  <1>4. first.kind = "WorkspaceInitialized"
    OBVIOUS
  <1> HIDE DEF first
  <1>5. /\ IsSequence(<< first >>)
        /\ Len(<< first >>) = 1
        /\ << first >>[1] = first
        /\ DOMAIN << first >> = 1 .. 1
    BY SingletonIsSequence, SequenceFacts
  <1>6. <<>> \in Seq({}) /\ Len(<<>>) = 0
    BY EmptySeq
  <1>7. IsSequence(<<>>) /\ DOMAIN <<>> = {}
    BY <1>6, SeqOfRange, SequenceFacts DEF IsSequence
  <1>8. Sound(active)
    BY <1>1, <1>5, <1>7 DEF Sound, NamesOnce
  <1>9. \A kind : kind # "WorkspaceInitialized" => Positions(<< first >>, kind) = {}
    BY <1>4, <1>5 DEF Positions
  <1>10. OpeningAt(<< first >>, Len(<< first >>) + 1) = 0
    <2>1. LastBefore(<< first >>, "HorizonOpened", 2) = 0
          /\ LastBefore(<< first >>, "HorizonClosed", 2) = 0
      BY <1>9 DEF LastBefore, LastOf
    <2>2. QED
      BY <1>5, <2>1 DEF OpeningAt
  <1>11. GoodRecord(<< first >>, 1)
    <2>1. SubSeq(<< first >>, 1, 1 - 1) = <<>>
      BY SubSeqEmpty
    <2>2. JournalIds(<<>>) = {}
      BY <1>7 DEF JournalIds, Positions
    <2>3. QED
      BY <1>4, <1>5, <2>1, <2>2 DEF GoodRecord
  <1>12. VerifiedRecords(<< first >>)
    <2>1. << first >> # <<>>
      BY <1>5, <1>6
    <2>2. QED
      BY <1>5, <1>9, <1>10, <1>11, <2>1, MaxRecordsAssumption DEF VerifiedRecords
  <1>13. HorizonsAgree(<< first >>, <<>>)
    BY <1>7, <1>9 DEF HorizonsAgree
  <1>14. RetainedContents(<< first >>) = {}
    BY <1>9 DEF RetainedContents
  <1>15. Verified(active)
    BY <1>1, <1>7, <1>12, <1>13, <1>14
       DEF Verified, VerifyCanonical, ValidMetadata, ValidDraft
  <1>16. QED
    BY <1>2, <1>3, <1>8, <1>15 DEF WorkbenchInv

\* Selecting a generation that is sound keeps both parts about generations:
\* the gate of the publication has verified it.
LEMMA PublicationIsVerified ==
  ASSUME Sound(active), Verified(active),
         NEW command, NEW g, Publish(command, g), Sound(g)
  PROVE  /\ Sound(active')
         /\ Verified(active')
         /\ active' = g \/ active' = active
  <1>1. PublicationCode(g) = "OK" => ValidateStagedState(g)
    BY DEF PublicationCode
  <1>2. PublicationCode(g) = "OK" => Verified(g)
    BY <1>1 DEF ValidateStagedState, Verified
  <1>3. active' = IF PublicationCode(g) = "OK" THEN g ELSE active
    BY DEF Publish
  <1>4. CASE PublicationCode(g) = "OK"
    BY <1>2, <1>3, <1>4
  <1>5. CASE PublicationCode(g) # "OK"
    BY <1>3, <1>5
  <1>6. QED
    BY <1>4, <1>5

LEMMA EditedDerivedIsSound ==
  ASSUME Sound(active), Verified(active), NEW derived,
         active' = [ active EXCEPT !.derived = derived ]
  PROVE  /\ Sound(active')
         /\ Verified(active')
         /\ active'.records = active.records
         /\ active'.horizons = active.horizons
         /\ active'.draft = active.draft
         /\ active'.captured = active.captured
  <1>1. /\ DOMAIN active' = Members
        /\ active'.records = active.records
        /\ active'.horizons = active.horizons
        /\ active'.snapshots = active.snapshots
        /\ active'.draft = active.draft
        /\ active'.captured = active.captured
        /\ active'.requestedAsOf = active.requestedAsOf
    BY DEF Sound, Members
  <1>2. Sound(active')
    BY <1>1 DEF Sound
  <1>3. ValidMetadata(active') /\ ValidDraft(active')
    BY <1>1 DEF Verified, ValidMetadata, ValidDraft
  <1>4. QED
    BY <1>1, <1>2, <1>3 DEF Verified

LEMMA RevalidationKeepsInvariant ==
  ASSUME WorkbenchInv, RevalidateSource
  PROVE  ClosingSeesDraft'
  <1> DEFINE file == host[NextSource.path]
             n == Len(closing.seen) + 1
  <1>1. CASE RevalidationCode(NextSource, file) # "OK"
    <2>1. closing' = NoClose
      BY <1>1 DEF RevalidateSource
    <2>2. QED
      BY <2>1 DEF NoClose, ClosingSeesDraft
  <1>2. CASE RevalidationCode(NextSource, file) = "OK"
    <2>1. /\ closing.on
          /\ closing' = [ closing EXCEPT !.seen = Append(@, file) ]
          /\ active' = active
          /\ Len(closing.seen) < Len(Sources(active.draft))
      BY <1>2 DEF RevalidateSource
    <2>2. /\ active.draft # NoDraft
          /\ IsSequence(closing.seen)
          /\ closing = [ on |-> closing.on, seen |-> closing.seen ]
      BY <2>1 DEF WorkbenchInv, ClosingSeesDraft
    <2>3. closing'.on /\ closing'.seen = Append(closing.seen, file)
          /\ closing' = [ on |-> closing'.on, seen |-> closing'.seen ]
      BY <2>1, <2>2
    <2>4. /\ IsSequence(closing'.seen)
          /\ Len(closing'.seen) = n
          /\ \A i \in 1 .. Len(closing.seen) : closing'.seen[i] = closing.seen[i]
          /\ closing'.seen[n] = file
      BY <2>2, <2>3, AppendIsSequence
    <2>5. IsSequence(active.draft.actions)
      BY <2>2 DEF WorkbenchInv, Sound, SoundDraft
    <2>6. /\ Len(closing.seen) \in Nat
          /\ Len(Sources(active.draft)) \in Nat
          /\ DOMAIN Sources(active.draft) = 1 .. Len(Sources(active.draft))
      BY <2>2, <2>5, SourcesIsSequence, SequenceFacts
    <2>7. n \in DOMAIN Sources(active.draft)
      BY <2>1, <2>6
    <2>8. NextSource = Sources(active.draft)[n]
      BY DEF NextSource
    <2>9. NextSource.path \in Paths
      <3>1. PICK i \in DOMAIN active.draft.actions :
              /\ active.draft.actions[i].kind = "source"
              /\ NextSource = active.draft.actions[i]
        BY <2>5, <2>7, <2>8, SourcesIsSequence
      <3>2. QED
        BY <2>2, <3>1 DEF WorkbenchInv, Sound, SoundDraft, SoundAction
    <2>10. /\ file # None
           /\ file.identity = NextSource.identity
           /\ file.content = active.captured[NextSource.id]
      BY <1>2 DEF RevalidationCode
    <2>11. file \in Files
      BY <2>9, <2>10 DEF WorkbenchInv, HostTyped
    <2>12. file = [ identity |-> NextSource.identity,
                    content  |-> active.captured[NextSource.id] ]
      BY <2>10, <2>11 DEF Files
    <2> HIDE DEF file, n
    <2>13. ASSUME NEW i \in 1 .. Len(closing'.seen)
           PROVE  closing'.seen[i] =
                    [ identity |-> Sources(active.draft)[i].identity,
                      content  |-> active.captured[Sources(active.draft)[i].id] ]
      <3>1. CASE i = n
        BY <2>4, <2>8, <2>12, <3>1
      <3>2. CASE i # n
        <4>1. i \in 1 .. Len(closing.seen)
          BY <2>4, <2>6, <3>2 DEF n
        <4>2. QED
          BY <2>1, <2>4, <4>1 DEF WorkbenchInv, ClosingSeesDraft
      <3>3. QED
        BY <3>1, <3>2
    <2>14. QED
      BY <2>1, <2>2, <2>3, <2>4, <2>13 DEF ClosingSeesDraft
  <1>3. QED
    BY <1>1, <1>2

\* What a step may do to the selected generation, by the kind of step.
LEMMA CloseStep ==
  ASSUME WorkbenchInv, PublishClose
  PROVE  /\ Sound(active')
         /\ Verified(active')
         /\ active' = Closed(active) \/ active' = active
         /\ active.draft # NoDraft
         /\ closing' = NoClose
         /\ host' = host
  <1>1. active.draft # NoDraft /\ closing' = NoClose /\ host' = host
    BY DEF PublishClose, WorkbenchInv, ClosingSeesDraft
  <1>2. Sound(active) /\ Verified(active)
    BY DEF WorkbenchInv
  <1>3. Sound(Closed(active))
    BY <1>1, <1>2, ClosedIsSound
  <1>4. active' = active \/ Publish("close", Closed(active))
    BY DEF PublishClose
  <1>5. QED
    BY <1>1, <1>2, <1>3, <1>4, PublicationIsVerified

LEMMA DraftStep ==
  ASSUME WorkbenchInv, DraftCommand
  PROVE  /\ Sound(active')
         /\ Verified(active')
         /\ active'.records = active.records
         /\ active'.horizons = active.horizons
         /\ ~ closing.on
         /\ closing' = closing
         /\ host' = host
  <1>1. Sound(active) /\ Verified(active)
    BY DEF WorkbenchInv
  <1>2. LockFree /\ UNCHANGED <<host, closing>>
    BY <1>1, DraftCommandsKeepJournal
  <1>3. PICK command, g : Publish(command, g) /\ KeepsJournal(g)
    BY <1>1, DraftCommandsKeepJournal
  <1>4. /\ Sound(active')
        /\ Verified(active')
        /\ active' = g \/ active' = active
    BY <1>1, <1>3, PublicationIsVerified DEF KeepsJournal
  <1>5. QED
    BY <1>2, <1>3, <1>4 DEF KeepsJournal, LockFree

LEMMA DerivedStep ==
  ASSUME WorkbenchInv, OwnerOnDerived
  PROVE  /\ Sound(active')
         /\ Verified(active')
         /\ active'.records = active.records
         /\ active'.horizons = active.horizons
         /\ active'.draft = active.draft
         /\ active'.captured = active.captured
         /\ UNCHANGED <<host, closing>>
  <1>1. PICK derived : OwnerEditsDerived(derived)
    BY DEF OwnerOnDerived, OwnerDeletesDerived, OwnerAddsUnexpected,
           OwnerDamagesDossier, OwnerRestoresOlder
  <1>2. /\ active' = [ active EXCEPT !.derived = derived ]
        /\ UNCHANGED <<host, closing>>
    BY <1>1 DEF OwnerEditsDerived
  <1>3. QED
    BY <1>2, EditedDerivedIsSound DEF WorkbenchInv

\* Every other step leaves the generation alone.
LEMMA OtherSteps ==
  ASSUME Next, ~ DraftCommand, ~ OwnerOnDerived, ~ PublishClose
  PROVE  /\ BeginClose \/ RevalidateSource \/ OwnerOnHost
         /\ active' = active
  <1>1. BeginClose \/ RevalidateSource \/ OwnerOnHost
    BY DEF Next, Command, DraftCommand
  <1>2. QED
    BY <1>1 DEF BeginClose, RevalidateSource, OwnerOnHost, OwnerWritesFile,
                OwnerRemovesFile

LEMMA NextKeepsInvariant ==
  ASSUME WorkbenchInv, [Next]_vars
  PROVE  WorkbenchInv'
  <1>1. CASE UNCHANGED vars
    BY <1>1 DEF vars, WorkbenchInv, HostTyped, ClosingSeesDraft
  <1>2. CASE DraftCommand
    <2>1. /\ Sound(active') /\ Verified(active')
          /\ ~ closing.on /\ closing' = closing /\ host' = host
      BY <1>2, DraftStep
    <2>2. QED
      BY <2>1 DEF WorkbenchInv, HostTyped, ClosingSeesDraft
  <1>3. CASE PublishClose
    <2>1. /\ Sound(active') /\ Verified(active')
          /\ closing' = NoClose /\ host' = host
      BY <1>3, CloseStep
    <2>2. QED
      BY <2>1 DEF WorkbenchInv, HostTyped, ClosingSeesDraft, NoClose
  <1>4. CASE OwnerOnDerived
    <2>1. /\ Sound(active') /\ Verified(active')
          /\ active'.draft = active.draft /\ active'.captured = active.captured
          /\ closing' = closing /\ host' = host
      BY <1>4, DerivedStep
    <2>2. QED
      BY <2>1 DEF WorkbenchInv, HostTyped, ClosingSeesDraft
  <1>5. CASE Next /\ ~ DraftCommand /\ ~ OwnerOnDerived /\ ~ PublishClose
    <2>1. active' = active
      BY <1>5, OtherSteps
    <2>2. Sound(active') /\ Verified(active')
      BY <2>1 DEF WorkbenchInv
    <2>3. CASE BeginClose
      <3>1. /\ closing' = [ on |-> TRUE, seen |-> <<>> ]
            /\ active.draft # NoDraft
            /\ host' = host
        BY <2>3 DEF BeginClose, MayExtendDraft
      <3>2. <<>> \in Seq({}) /\ Len(<<>>) = 0
        BY EmptySeq
      <3>3. IsSequence(<<>>)
        BY <3>2, SeqOfRange DEF IsSequence
      <3>4. /\ closing'.seen = <<>>
            /\ closing' = [ on |-> closing'.on, seen |-> closing'.seen ]
        BY <3>1
      <3>5. ClosingSeesDraft'
        BY <2>1, <3>1, <3>2, <3>3, <3>4 DEF ClosingSeesDraft
      <3>6. QED
        BY <2>2, <3>1, <3>5 DEF WorkbenchInv, HostTyped
    <2>4. CASE RevalidateSource
      <3>1. host' = host
        BY <2>4 DEF RevalidateSource
      <3>2. ClosingSeesDraft'
        BY <2>4, RevalidationKeepsInvariant
      <3>3. QED
        BY <2>2, <3>1, <3>2 DEF WorkbenchInv, HostTyped
    <2>5. CASE OwnerOnHost
      <3>1. closing' = closing
        BY <2>5 DEF OwnerOnHost, OwnerWritesFile, OwnerRemovesFile
      <3>2. HostTyped'
        BY <2>5 DEF WorkbenchInv, HostTyped, OwnerOnHost, OwnerWritesFile,
                    OwnerRemovesFile, Files
      <3>3. QED
        BY <2>1, <2>2, <3>1, <3>2 DEF WorkbenchInv, ClosingSeesDraft
    <2>6. QED
      BY <1>5, <2>3, <2>4, <2>5, OtherSteps
  <1>6. QED
    BY <1>1, <1>2, <1>3, <1>4, <1>5

\* The invariant holds in every reachable state: every generation a command
\* selects has passed the verifier, its horizons have names of their own, and
\* a running close has seen what its draft captured.
THEOREM InvariantHolds == Spec => []WorkbenchInv
  BY InitEstablishesInvariant, NextKeepsInvariant, PTL DEF Spec

-----------------------------------------------------------------------------
(***************************************************************************)
(* The action properties.                                                  *)
(***************************************************************************)

\* Only a published close changes the journal, and it selects Closed(active).
LEMMA OnlyCloseWrites ==
  ASSUME WorkbenchInv, [Next]_vars
  PROVE  \/ active'.records = active.records /\ active'.horizons = active.horizons
         \/ PublishClose /\ active.draft # NoDraft /\ active' = Closed(active)
  <1>1. CASE UNCHANGED vars
    BY <1>1 DEF vars
  <1>2. CASE DraftCommand
    BY <1>2, DraftStep
  <1>3. CASE PublishClose
    BY <1>3, CloseStep
  <1>4. CASE OwnerOnDerived
    BY <1>4, DerivedStep
  <1>5. CASE Next /\ ~ DraftCommand /\ ~ OwnerOnDerived /\ ~ PublishClose
    BY <1>5, OtherSteps
  <1>6. QED
    BY <1>1, <1>2, <1>3, <1>4, <1>5

LEMMA StepExtendsJournal ==
  ASSUME WorkbenchInv, [Next]_vars
  PROVE  IsPrefix(active.records, active'.records)
  <1>1. IsSequence(active.records) /\ Len(active.records) \in Nat
    BY SequenceFacts DEF WorkbenchInv, Sound
  <1>2. CASE active'.records = active.records
    BY <1>1, <1>2 DEF IsPrefix
  <1>3. CASE active.draft # NoDraft /\ active' = Closed(active)
    <2>1. /\ IsSequence(active'.records)
          /\ Len(active.records) < Len(active'.records)
          /\ \A i \in 1 .. Len(active.records) :
                active'.records[i] = active.records[i]
      BY <1>3, ClosedExtendsJournal DEF WorkbenchInv
    <2>2. Len(active'.records) \in Nat
      BY <2>1, SequenceFacts
    <2>3. Len(active.records) \in 0 .. Len(active.records)
          /\ Len(active.records) <= Len(active'.records)
      BY <1>1, <2>1, <2>2
    <2>4. SubSeq(active.records, 1, Len(active.records))
            = SubSeq(active'.records, 1, Len(active.records))
      BY <1>1, <2>1, <2>3, SubSeqOfExtension
    <2>5. QED
      BY <2>3, <2>4 DEF IsPrefix
  <1>4. QED
    BY <1>2, <1>3, OnlyCloseWrites

\* The journal only grows, for every draft and every number of horizons.
THEOREM JournalIsAlwaysAdditive == Spec => JournalIsAdditive
  <1>1. WorkbenchInv /\ [Next]_vars => [IsPrefix(active.records, active'.records)]_active
    BY StepExtendsJournal
  <1>2. QED
    BY <1>1, InvariantHolds, PTL DEF Spec, JournalIsAdditive

\* A view depends on the journal up to the end of its horizon only.
LEMMA ViewDependsOnPrefix ==
  ASSUME NEW r, NEW s, NEW h, NEW i, NEW horizon,
         RecordsThroughHorizon(r, horizon) = RecordsThroughHorizon(s, horizon),
         NEW D, D = DOMAIN RecordsThroughHorizon(r, horizon),
         { h[k] : k \in { l \in DOMAIN h : h[l].end \in D } }
           = { i[k] : k \in { l \in DOMAIN i : i[l].end \in D } }
  PROVE  BuildView(r, h, horizon) = BuildView(s, i, horizon)
  BY DEF BuildView

LEMMA StepKeepsViews ==
  ASSUME WorkbenchInv, [Next]_vars, NEW n \in ClosedNames(active.horizons)
  PROVE  BuildView(active.records, active.horizons, HorizonNamed(active.horizons, n))
           = BuildView(active'.records, active'.horizons,
                       HorizonNamed(active'.horizons, n))
  <1>1. CASE active'.records = active.records /\ active'.horizons = active.horizons
    BY <1>1
  <1>2. CASE PublishClose /\ active.draft # NoDraft /\ active' = Closed(active)
    <2> DEFINE r == active.records
               s == active'.records
               h == active.horizons
               i == active'.horizons
               item == HorizonItem(s, Len(s))
    <2>1. /\ IsSequence(r) /\ IsSequence(h) /\ NamesOnce(h)
          /\ IsSequence(s) /\ IsSequence(i) /\ NamesOnce(i)
      BY <1>2, CloseStep DEF WorkbenchInv, Sound
    <2>2. /\ Len(r) < Len(s)
          /\ \A k \in 1 .. Len(r) : s[k] = r[k]
          /\ i = Append(h, item)
      BY <1>2, ClosedExtendsJournal DEF WorkbenchInv
    <2>3. item.end = Len(s)
      BY DEF HorizonItem
    <2>4. ASSUME NEW k \in DOMAIN h
          PROVE  h[k].end \in 1 .. Len(r)
      <3>1. h[k].end \in Positions(r, "HorizonClosed")
        BY DEF WorkbenchInv, Verified, VerifyCanonical, HorizonsAgree
      <3>2. QED
        BY <2>1, <3>1, SequenceFacts DEF Positions
    <2>5. PICK c \in DOMAIN h : h[c].name = n
      BY DEF ClosedNames
    <2> HIDE DEF r, s, h, i, item
    <2>6. /\ Len(i) = Len(h) + 1
          /\ \A k \in 1 .. Len(h) : i[k] = h[k]
          /\ i[Len(h) + 1] = item
      BY <2>1, <2>2, AppendIsSequence
    <2>7. /\ Len(r) \in Nat /\ Len(s) \in Nat /\ Len(h) \in Nat
          /\ DOMAIN h = 1 .. Len(h)
          /\ DOMAIN i = 1 .. Len(h) + 1
      BY <2>1, <2>6, SequenceFacts
    <2>8. HorizonNamed(h, n) = h[c]
      BY <2>1, <2>5 DEF HorizonNamed, NamesOnce
    <2>9. HorizonNamed(i, n) = h[c]
      <3>1. c \in DOMAIN i /\ i[c] = h[c]
        BY <2>5, <2>6, <2>7
      <3>2. QED
        BY <2>1, <2>5, <3>1 DEF HorizonNamed, NamesOnce
    <2> DEFINE e == h[c].end
    <2>10. e \in 1 .. Len(r) /\ e \in 0 .. Len(r)
      BY <2>4, <2>5, <2>7
    <2>11. SubSeq(r, 1, e) = SubSeq(s, 1, e)
      <3> HIDE DEF e
      <3>1. Len(r) <= Len(s)
        BY <2>2, <2>7
      <3>2. QED
        BY <2>1, <2>2, <2>10, <3>1, SubSeqOfExtension
    <2> DEFINE D == DOMAIN SubSeq(r, 1, e)
    <2>12. Len(s) \notin D
      <3> HIDE DEF e
      <3>1. \A k \in 1 .. e : r[k] \in Range(r)
        BY <2>1, <2>7, <2>10, SequenceFacts DEF Range
      <3>2. /\ SubSeq(r, 1, e) \in Seq(Range(r))
            /\ Len(SubSeq(r, 1, e)) = e
        BY <2>7, <2>10, <3>1, SubSeqProperties
      <3>3. D = 1 .. e
        BY <3>2, LenProperties
      <3>4. QED
        BY <2>2, <2>7, <2>10, <3>3
    <2> HIDE DEF D, e
    <2>13. { h[k] : k \in { l \in DOMAIN h : h[l].end \in D } }
             = { i[k] : k \in { l \in DOMAIN i : i[l].end \in D } }
      <3>1. ASSUME NEW k \in DOMAIN h
            PROVE  k \in DOMAIN i /\ i[k] = h[k]
        BY <2>6, <2>7
      <3>2. ASSUME NEW k \in DOMAIN i, i[k].end \in D
            PROVE  k \in DOMAIN h
        <4>1. k # Len(h) + 1
          BY <2>3, <2>6, <2>12, <3>2
        <4>2. QED
          BY <2>7, <4>1
      <3>3. QED
        BY <3>1, <3>2
    <2>14. BuildView(r, h, h[c]) = BuildView(s, i, h[c])
      <3>1. /\ RecordsThroughHorizon(r, h[c]) = RecordsThroughHorizon(s, h[c])
            /\ D = DOMAIN RecordsThroughHorizon(r, h[c])
        BY <2>11 DEF RecordsThroughHorizon, D, e
      <3>2. QED
        BY <2>13, <3>1, ViewDependsOnPrefix
    <2>15. BuildView(r, h, HorizonNamed(h, n)) = BuildView(s, i, HorizonNamed(i, n))
      BY <2>8, <2>9, <2>14
    <2>16. QED
      BY <2>15 DEF r, s, h, i
  <1>3. QED
    BY <1>1, <1>2, OnlyCloseWrites

\* Nothing the owner captures, says, undoes or closes later, and nothing done
\* to the derived files, changes what a dossier as of a closed horizon shows.
THEOREM ViewsOfThePastStand == Spec => AsOfIsolation
  <1>1. WorkbenchInv /\ [Next]_vars =>
          [\A n \in ClosedNames(active.horizons) :
             BuildView(active.records, active.horizons,
                       HorizonNamed(active.horizons, n))
               = BuildView(active'.records, active'.horizons,
                           HorizonNamed(active'.horizons, n))]_active
    BY StepKeepsViews
  <1>2. QED
    BY <1>1, InvariantHolds, PTL DEF Spec, AsOfIsolation

LEMMA CloseRetainsWhatItSaw ==
  ASSUME WorkbenchInv, [Next]_vars, active'.records # active.records,
         NEW n \in DOMAIN Sources(active.draft)
  PROVE  closing.seen[n] =
           [ identity |-> Sources(active.draft)[n].identity,
             content  |-> active.captured[Sources(active.draft)[n].id] ]
  <1>1. /\ closing.on
        /\ Len(closing.seen) = Len(Sources(active.draft))
        /\ active.draft # NoDraft
    BY OnlyCloseWrites DEF PublishClose
  <1>2. IsSequence(active.draft.actions)
    BY <1>1 DEF WorkbenchInv, Sound, SoundDraft
  <1>3. n \in 1 .. Len(closing.seen)
    BY <1>1, <1>2, SourcesIsSequence, SequenceFacts
  <1>4. QED
    BY <1>1, <1>3 DEF WorkbenchInv, ClosingSeesDraft

\* Every source of a published horizon was read from the host by the close
\* that published it, with the identity and the bytes that it retains.
THEOREM RetainedWasSeen == Spec => RetainedIsValidated
  <1>1. WorkbenchInv /\ [Next]_vars =>
          [active'.records # active.records =>
             \A n \in DOMAIN Sources(active.draft) :
                LET source == Sources(active.draft)[n]
                IN  closing.seen[n] = [ identity |-> source.identity,
                                        content  |-> active.captured[source.id] ]]_active
    BY CloseRetainsWhatItSaw
  <1>2. QED
    BY <1>1, InvariantHolds, PTL DEF Spec, RetainedIsValidated

LEMMA ClosedHasDossiers ==
  ASSUME NEW g, Sound(g), g.draft # NoDraft
  PROVE  /\ ProjectionStatus(Closed(g)) = "current"
         /\ DOMAIN Closed(g).derived = { Current } \cup g.requestedAsOf
  <1> DEFINE c == Closed(g)
  <1>1. /\ c.derived = ExpectedProjections(c)
        /\ c.requestedAsOf = g.requestedAsOf
        /\ c.horizons = Append(g.horizons, HorizonItem(c.records, Len(c.records)))
    BY ClosedExtendsJournal
  <1>2. IsSequence(g.horizons)
    BY DEF Sound
  <1> HIDE DEF c
  <1>3. c.horizons # <<>>
    <2>1. Len(c.horizons) = Len(g.horizons) + 1 /\ Len(g.horizons) \in Nat
      BY <1>1, <1>2, AppendIsSequence, SequenceFacts
    <2>2. Len(<<>>) = 0
      BY EmptySeq
    <2>3. QED
      BY <2>1, <2>2
  <1>4. DOMAIN c.derived = { Current } \cup g.requestedAsOf
    BY <1>1, <1>3 DEF ExpectedProjections, ProjectionPaths
  <1>5. DOMAIN c.derived # {}
    BY <1>4
  <1>6. ProjectionStatus(c) = "current"
    BY <1>1, <1>5 DEF ProjectionStatus
  <1>7. QED
    BY <1>4, <1>6 DEF c

LEMMA CloseLeavesDossiers ==
  ASSUME WorkbenchInv, [Next]_vars, active'.records # active.records
  PROVE  /\ ProjectionStatus(active') = "current"
         /\ DOMAIN active'.derived = { Current } \cup active.requestedAsOf
  <1>1. active.draft # NoDraft /\ active' = Closed(active)
    BY OnlyCloseWrites
  <1>2. QED
    BY <1>1, ClosedHasDossiers DEF WorkbenchInv

\* However many horizons there are and whatever the owner did to the derived
\* files, a published close leaves every promised dossier exact.
THEOREM DossiersAreRegenerated == Spec => CloseRegeneratesDossiers
  <1>1. WorkbenchInv /\ [Next]_vars =>
          [active'.records # active.records =>
             /\ ProjectionStatus(active') = "current"
             /\ DOMAIN active'.derived = { Current } \cup active.requestedAsOf]_active
    BY CloseLeavesDossiers
  <1>2. QED
    BY <1>1, InvariantHolds, PTL DEF Spec, CloseRegeneratesDossiers

-----------------------------------------------------------------------------
(***************************************************************************)
(* Undo and abort are never refused.  Both publish a generation smaller    *)
(* than the selected one, but that alone is not enough: the owner may have *)
(* added derived files since the last publication, and what is staged is   *)
(* counted and verified as a whole.  The argument is that a command runs   *)
(* only on absent or exact dossiers, and that the generation has room for  *)
(* the exact ones whenever a single undamaged one is there (Roomy): only a *)
(* publication writes an undamaged dossier, and it has counted them all.   *)
(***************************************************************************)

\* The files of a generation without its dossiers.
BareCount(g) ==
  4 + Cardinality(g.snapshots)
    + (IF g.draft = NoDraft THEN 0 ELSE 1 + Cardinality(DOMAIN g.captured))

Roomy(g) ==
  /\ BareCount(g) <= MaxFiles
  /\ (\E p \in DOMAIN g.derived : g.derived[p] # Damaged) =>
       BareCount(g) + 2 * Cardinality(ProjectionPaths(g)) <= MaxFiles

EscapeInv ==
  /\ WorkbenchInv
  /\ Roomy(active)
  /\ EscapeIsOpen

-----------------------------------------------------------------------------
(***************************************************************************)
(* Everything that is counted is finite.                                   *)
(***************************************************************************)

\* The image of a finite set under a function is finite.
LEMMA ImageIsFinite ==
  ASSUME NEW S, IsFiniteSet(S), NEW f, NEW T,
         T = { f[x] : x \in S }
  PROVE  IsFiniteSet(T)
  <1> DEFINE h == [ x \in S |-> f[x] ]
  <1>1. h \in Surjection(S, T)
    BY DEF Surjection
  <1>2. QED
    BY <1>1, FS_Surjection

LEMMA SnapshotsAreFinite ==
  ASSUME NEW g, Sound(g), Verified(g)
  PROVE  IsFiniteSet(g.snapshots)
  <1> DEFINE P == Positions(g.records, "SourceSnapshot")
             f == [ i \in P |-> g.records[i].content ]
  <1>1. IsFiniteSet(P)
    BY PositionsAreFinite DEF Sound, Positions
  <1>2. g.snapshots = { f[i] : i \in P }
    BY DEF Verified, VerifyCanonical, RetainedContents
  <1> HIDE DEF P, f
  <1>3. QED
    BY <1>1, <1>2, ImageIsFinite

LEMMA CapturedIsFinite ==
  ASSUME NEW g, Sound(g), Verified(g), g.draft # NoDraft
  PROVE  IsFiniteSet(DOMAIN g.captured)
  <1> DEFINE actions == g.draft.actions
             P == { i \in DOMAIN actions : actions[i].kind = "source" }
             f == [ i \in P |-> actions[i].id ]
  <1>1. IsFiniteSet(P)
    BY PositionsAreFinite DEF Sound, SoundDraft
  <1>2. DOMAIN g.captured = { a.id : a \in SourceSet(g.draft) }
    BY DEF Verified, ValidDraft
  <1>3. SourceSet(g.draft) = { actions[i] : i \in P }
    BY DEF SourceSet, ToSet
  <1>4. { a.id : a \in SourceSet(g.draft) } = { f[i] : i \in P }
    BY <1>3, ZenonT(40)
  <1>5. DOMAIN g.captured = { f[i] : i \in P }
    BY <1>2, <1>4
  <1> HIDE DEF P, f
  <1>6. QED
    BY <1>1, <1>5, ImageIsFinite

LEMMA PathsAreFinite ==
  ASSUME NEW g, Sound(g), Verified(g)
  PROVE  IsFiniteSet(ProjectionPaths(g))
  <1> DEFINE f == [ k \in DOMAIN g.horizons |-> g.horizons[k].name ]
  <1>1. IsFiniteSet(DOMAIN g.horizons)
    BY PositionsAreFinite DEF Sound
  <1>2. ClosedNames(g.horizons) = { f[k] : k \in DOMAIN g.horizons }
    BY DEF ClosedNames
  <1> HIDE DEF f
  <1>3. IsFiniteSet(ClosedNames(g.horizons))
    BY <1>1, <1>2, ImageIsFinite
  <1>4. IsFiniteSet(g.requestedAsOf)
    BY <1>3, FS_Subset DEF Verified, ValidMetadata
  <1>5. IsFiniteSet({ Current }) /\ IsFiniteSet({})
    BY FS_Singleton, FS_EmptySet
  <1>6. IsFiniteSet({ Current } \cup g.requestedAsOf)
    BY <1>4, <1>5, FS_Union
  <1>7. QED
    BY <1>5, <1>6 DEF ProjectionPaths

LEMMA CountsAreNumbers ==
  ASSUME NEW g, Sound(g), Verified(g)
  PROVE  /\ BareCount(g) \in Nat
         /\ Cardinality(ProjectionPaths(g)) \in Nat
         /\ FileCount(g) = BareCount(g) + 2 * Cardinality(DOMAIN g.derived)
  <1>1. Cardinality(g.snapshots) \in Nat
    BY SnapshotsAreFinite, FS_CardinalityType
  <1>2. g.draft # NoDraft => Cardinality(DOMAIN g.captured) \in Nat
    BY CapturedIsFinite, FS_CardinalityType
  <1>3. Cardinality(ProjectionPaths(g)) \in Nat
    BY PathsAreFinite, FS_CardinalityType
  <1>4. BareCount(g) \in Nat
    BY <1>1, <1>2 DEF BareCount
  <1>5. FileCount(g) = BareCount(g) + 2 * Cardinality(DOMAIN g.derived)
    BY DEF FileCount, BareCount
  <1>6. QED
    BY <1>3, <1>4, <1>5

-----------------------------------------------------------------------------
(***************************************************************************)
(* Room for the exact dossiers.                                            *)
(***************************************************************************)

\* A view is never a damaged pair.
LEMMA ViewsAreWhole ==
  ASSUME NEW r, NEW h, NEW horizon
  PROVE  BuildView(r, h, horizon) # Damaged
  <1>1. "asOf" \in DOMAIN BuildView(r, h, horizon)
    BY DEF BuildView
  <1>2. "asOf" \notin DOMAIN Damaged
    BY DEF Damaged
  <1>3. QED
    BY <1>1, <1>2

\* Usable dossiers are absent or exact.
LEMMA UsableIsAbsentOrExact ==
  ASSUME NEW g, UsableProjections(g)
  PROVE  \/ DOMAIN g.derived = {}
         \/ DOMAIN g.derived # {} /\ g.derived = ExpectedProjections(g)
  BY DEF UsableProjections, ProjectionStatus

LEMMA PublishedIsRoomy ==
  ASSUME NEW g, Sound(g), Verified(g), UsableProjections(g), Fits(g)
  PROVE  Roomy(g)
  <1>1. /\ BareCount(g) \in Nat
        /\ Cardinality(ProjectionPaths(g)) \in Nat
        /\ FileCount(g) = BareCount(g) + 2 * Cardinality(DOMAIN g.derived)
        /\ FileCount(g) <= MaxFiles
    BY CountsAreNumbers DEF Fits
  <1>2. CASE DOMAIN g.derived = {}
    <2>1. Cardinality(DOMAIN g.derived) = 0
      BY <1>2, FS_EmptySet
    <2>2. QED
      BY <1>1, <1>2, <2>1, MaxFilesAssumption DEF Roomy
  <1>3. CASE g.derived = ExpectedProjections(g)
    <2>1. DOMAIN g.derived = ProjectionPaths(g)
      BY <1>3 DEF ExpectedProjections
    <2>2. QED
      BY <1>1, <2>1, MaxFilesAssumption DEF Roomy
  <1>4. QED
    BY <1>2, <1>3, UsableIsAbsentOrExact

LEMMA PublicationIsRoomy ==
  ASSUME Sound(active), Verified(active), Roomy(active),
         NEW command, NEW g, Publish(command, g), Sound(g)
  PROVE  Roomy(active')
  <1>1. PublicationCode(g) = "OK" => ValidateStagedState(g) /\ Fits(g)
    BY DEF PublicationCode
  <1>2. PublicationCode(g) = "OK" => Roomy(g)
    BY <1>1, PublishedIsRoomy DEF ValidateStagedState, Verified
  <1>3. active' = IF PublicationCode(g) = "OK" THEN g ELSE active
    BY DEF Publish
  <1>4. CASE PublicationCode(g) = "OK"
    BY <1>2, <1>3, <1>4
  <1>5. CASE PublicationCode(g) # "OK"
    BY <1>3, <1>5
  <1>6. QED
    BY <1>4, <1>5

\* The owner never makes an undamaged dossier where there was none.
LEMMA OwnerLeavesRoom ==
  ASSUME Sound(active), Roomy(active), OwnerOnDerived
  PROVE  Roomy(active')
  <1>1. ASSUME NEW derived, OwnerEditsDerived(derived),
               (\E p \in DOMAIN derived : derived[p] # Damaged) =>
                 \E p \in DOMAIN active.derived : active.derived[p] # Damaged
        PROVE  Roomy(active')
    <2>1. active' = [ active EXCEPT !.derived = derived ]
      BY <1>1 DEF OwnerEditsDerived
    <2>2. /\ active'.derived = derived
          /\ active'.snapshots = active.snapshots
          /\ active'.draft = active.draft
          /\ active'.captured = active.captured
          /\ active'.horizons = active.horizons
          /\ active'.requestedAsOf = active.requestedAsOf
      BY <2>1 DEF Sound, Members
    <2>3. /\ BareCount(active') = BareCount(active)
          /\ ProjectionPaths(active') = ProjectionPaths(active)
      BY <2>2 DEF BareCount, ProjectionPaths
    <2>4. QED
      BY <1>1, <2>2, <2>3 DEF Roomy
  <1>2. CASE OwnerDeletesDerived
    <2>1. <<>> \in Seq({}) /\ Len(<<>>) = 0
      BY EmptySeq
    <2>2. DOMAIN <<>> = 1 .. 0
      BY <2>1, LenProperties
    <2>3. QED
      BY <1>1, <1>2, <2>2 DEF OwnerDeletesDerived
  <1>3. ASSUME NEW p, OwnerEditsDerived(With(active.derived, p, Damaged))
        PROVE  Roomy(active')
    <2> DEFINE d == With(active.derived, p, Damaged)
    <2>1. \A q \in DOMAIN d : d[q] # Damaged =>
             q \in DOMAIN active.derived /\ active.derived[q] # Damaged
      BY DEF With
    <2> HIDE DEF d
    <2>2. OwnerEditsDerived(d)
      BY <1>3 DEF d
    <2>3. QED
      BY <1>1, <2>1, <2>2
  <1>4. ASSUME NEW n, OwnerRestoresOlder(n)
        PROVE  Roomy(active')
    <2> DEFINE d == [ active.derived EXCEPT ![Current] = active.derived[n] ]
    <2>1. { n, Current } \subseteq DOMAIN active.derived /\ OwnerEditsDerived(d)
      BY <1>4 DEF OwnerRestoresOlder
    <2>2. \A q \in DOMAIN d : q \in DOMAIN active.derived /\
             (d[q] = active.derived[q] \/ d[q] = active.derived[n])
      BY <2>1
    <2> HIDE DEF d
    <2>3. QED
      BY <1>1, <2>1, <2>2
  <1>5. QED
    BY <1>2, <1>3, <1>4 DEF OwnerOnDerived, OwnerAddsUnexpected, OwnerDamagesDossier

-----------------------------------------------------------------------------
(***************************************************************************)
(* The draft without its last action, and no draft, are valid.             *)
(***************************************************************************)

\* Whether an action is valid depends on the actions up to it only.
LEMMA ValidActionOfFront ==
  ASSUME NEW records, NEW a, IsSequence(a), a # <<>>,
         NEW i \in 1 .. Len(a) - 1, ValidAction(records, a, i)
  PROVE  ValidAction(records, Front(a), i)
  <1>1. /\ IsSequence(Front(a))
        /\ Len(Front(a)) = Len(a) - 1
        /\ Len(a) \in Nat \ { 0 }
        /\ \A j \in 1 .. Len(a) - 1 : Front(a)[j] = a[j]
    BY FrontIsSequence
  <1>2. Front(a)[i] = a[i]
    BY <1>1
  <1>3. SubSeq(Front(a), 1, i - 1) = SubSeq(a, 1, i - 1)
    <2>1. /\ Len(Front(a)) <= Len(a)
          /\ i - 1 \in 0 .. Len(Front(a))
          /\ \A j \in 1 .. Len(Front(a)) : a[j] = Front(a)[j]
      BY <1>1
    <2>2. QED
      BY <1>1, <2>1, SubSeqOfExtension
  <1>4. QED
    BY <1>2, <1>3 DEF ValidAction

\* The identifier of a captured source is not one of an earlier action.
LEMMA LastIsFresh ==
  ASSUME NEW records, NEW a, IsSequence(a), a # <<>>,
         ValidAction(records, a, Len(a)), a[Len(a)].kind = "source",
         NEW i \in 1 .. Len(a) - 1
  PROVE  a[i].id # a[Len(a)].id
  <1>1. /\ IsSequence(Front(a))
        /\ Len(Front(a)) = Len(a) - 1
        /\ Front(a)[i] = a[i]
        /\ Front(a) = SubSeq(a, 1, Len(a) - 1)
    BY FrontIsSequence DEF Front
  <1>2. DOMAIN Front(a) = 1 .. Len(a) - 1
    BY <1>1, SequenceFacts
  <1>3. a[i] \in ToSet(SubSeq(a, 1, Len(a) - 1))
    BY <1>1, <1>2 DEF ToSet
  <1>4. a[i].id \in ActionIds(a[i])
    BY DEF ActionIds
  <1>5. a[Len(a)].id \notin UNION { ActionIds(b) : b \in ToSet(SubSeq(a, 1, Len(a) - 1)) }
    BY DEF ValidAction
  <1>6. QED
    BY <1>3, <1>4, <1>5

LEMMA UndoneIsVerified ==
  ASSUME Sound(active), Verified(active),
         active.draft # NoDraft, active.draft.actions # <<>>
  PROVE  /\ Verified(Undone(active))
         /\ DOMAIN Undone(active).captured \subseteq DOMAIN active.captured
         /\ Undone(active).snapshots = active.snapshots
         /\ Undone(active).requestedAsOf = active.requestedAsOf
         /\ Undone(active).derived = active.derived
  <1> DEFINE g == Undone(active)
             a == active.draft.actions
             last == a[Len(a)]
             c == active.captured
  <1>1. /\ g.records = active.records
        /\ g.horizons = active.horizons
        /\ g.snapshots = active.snapshots
        /\ g.requestedAsOf = active.requestedAsOf
        /\ g.derived = active.derived
        /\ g.draft.name = active.draft.name
        /\ g.draft.id = active.draft.id
        /\ g.draft.actions = Front(a)
        /\ g.captured = IF last.kind = "source"
                        THEN Restrict(c, DOMAIN c \ { last.id }) ELSE c
    BY DEF Undone, Last, Sound, SoundDraft, Members
  <1>2. IsSequence(a)
    BY DEF Sound, SoundDraft
  <1>3. /\ active.draft.name \notin ClosedNames(active.horizons)
        /\ \A k \in DOMAIN active.horizons : active.horizons[k].id # active.draft.id
        /\ \A i \in DOMAIN a : ValidAction(active.records, a, i)
        /\ DOMAIN c = { x.id : x \in SourceSet(active.draft) }
        /\ \A x \in SourceSet(active.draft) : c[x.id] = x.content
    BY DEF Verified, ValidDraft
  <1>4. SourceSet(active.draft) = { x \in { a[i] : i \in DOMAIN a } : x.kind = "source" }
    BY DEF SourceSet, ToSet
  <1>5. SourceSet(g.draft) =
          { x \in { Front(a)[i] : i \in DOMAIN Front(a) } : x.kind = "source" }
    BY <1>1 DEF SourceSet, ToSet
  <1> DEFINE n == Len(a)
  <1> HIDE DEF g, a, last, c
  <1>6. /\ n \in Nat \ { 0 }
        /\ DOMAIN a = 1 .. n
        /\ DOMAIN Front(a) = 1 .. n - 1
        /\ \A i \in 1 .. n - 1 : Front(a)[i] = a[i]
    <2>1. a # <<>>
      BY DEF a
    <2>2. QED
      BY <1>2, <2>1, FrontIsSequence, SequenceFacts
  <1> HIDE DEF n
  <1>7. last = a[n]
    BY DEF last, n
  <1>8. \A i \in DOMAIN Front(a) : ValidAction(active.records, Front(a), i)
    <2>1. a # <<>>
      BY DEF a
    <2>2. QED
      BY <1>2, <1>3, <1>6, <2>1, ValidActionOfFront DEF n
  <1>9. ASSUME last.kind = "source", NEW i \in 1 .. n - 1
        PROVE  a[i].id # last.id
    <2>1. a # <<>> /\ ValidAction(active.records, a, n)
      BY <1>3, <1>6 DEF a
    <2>2. QED
      BY <1>2, <1>7, <1>9, <2>1, LastIsFresh DEF n
  <1>10. SourceSet(g.draft) \subseteq SourceSet(active.draft)
    BY <1>4, <1>5, <1>6
  <1>11. ASSUME NEW x \in SourceSet(g.draft)
         PROVE  x.id \in DOMAIN g.captured /\ g.captured[x.id] = x.content
    <2>1. PICK i \in 1 .. n - 1 : x = a[i]
      BY <1>5, <1>6
    <2>2. x.id \in DOMAIN c /\ c[x.id] = x.content
      BY <1>3, <1>10
    <2>3. last.kind = "source" => x.id # last.id
      BY <1>9, <2>1
    <2>4. QED
      BY <1>1, <2>2, <2>3 DEF Restrict
  <1>12. ASSUME NEW y \in DOMAIN g.captured
         PROVE  /\ y \in DOMAIN c
                /\ \E x \in SourceSet(g.draft) : y = x.id
    <2>1. y \in DOMAIN c /\ (last.kind = "source" => y # last.id)
      BY <1>1 DEF Restrict
    <2>2. PICK x \in SourceSet(active.draft) : y = x.id
      BY <1>3, <2>1
    <2>3. PICK i \in 1 .. n : x = a[i] /\ x.kind = "source"
      BY <1>4, <1>6
    <2>4. i # n
      BY <1>7, <2>1, <2>2, <2>3
    <2>5. i \in 1 .. n - 1
      BY <1>6, <2>4
    <2>6. x \in SourceSet(g.draft)
      BY <1>5, <1>6, <2>3, <2>5
    <2>7. QED
      BY <2>1, <2>2, <2>6
  <1>13. DOMAIN g.captured = { x.id : x \in SourceSet(g.draft) }
    BY <1>11, <1>12
  <1>14. g.draft # NoDraft
    BY <1>1, NamesAssumption DEF NoDraft, Sound, SoundDraft
  <1>15. ValidDraft(g)
    BY <1>1, <1>3, <1>8, <1>11, <1>13, <1>14 DEF ValidDraft
  <1>16. Verified(g)
    BY <1>1, <1>15 DEF Verified, ValidMetadata
  <1>17. DOMAIN g.captured \subseteq DOMAIN c
    BY <1>12
  <1>18. QED
    BY <1>1, <1>16, <1>17 DEF g, c

LEMMA WithoutDraftIsVerified ==
  ASSUME Sound(active), Verified(active)
  PROVE  /\ Verified(WithoutDraft(active))
         /\ WithoutDraft(active).draft = NoDraft
         /\ WithoutDraft(active).snapshots = active.snapshots
         /\ WithoutDraft(active).horizons = active.horizons
         /\ WithoutDraft(active).requestedAsOf = active.requestedAsOf
         /\ WithoutDraft(active).derived = active.derived
  <1> DEFINE g == WithoutDraft(active)
  <1>1. /\ g.records = active.records
        /\ g.horizons = active.horizons
        /\ g.snapshots = active.snapshots
        /\ g.requestedAsOf = active.requestedAsOf
        /\ g.derived = active.derived
        /\ g.draft = NoDraft
        /\ g.captured = <<>>
    BY DEF WithoutDraft, Sound, Members
  <1> HIDE DEF g
  <1>2. <<>> \in Seq({}) /\ Len(<<>>) = 0
    BY EmptySeq
  <1>3. DOMAIN <<>> = 1 .. 0
    BY <1>2, LenProperties
  <1>4. ValidDraft(g)
    BY <1>1, <1>3 DEF ValidDraft
  <1>5. Verified(g)
    BY <1>1, <1>4 DEF Verified, ValidMetadata
  <1>6. QED
    BY <1>1, <1>5 DEF g

-----------------------------------------------------------------------------
(***************************************************************************)
(* Undo and abort succeed.                                                 *)
(***************************************************************************)

\* A generation with no more draft files than the selected one, and the same
\* journal and dossiers, passes the gate when the dossiers are usable.
LEMMA SmallerIsPublished ==
  ASSUME Sound(active), Verified(active), Roomy(active), UsableProjections(active),
         NEW g, Sound(g), Verified(g), BareCount(g) <= BareCount(active),
         g.records = active.records, g.horizons = active.horizons,
         g.requestedAsOf = active.requestedAsOf, g.derived = active.derived
  PROVE  PublicationCode(g) = "OK"
  <1>1. /\ BareCount(g) \in Nat
        /\ BareCount(active) \in Nat
        /\ Cardinality(ProjectionPaths(active)) \in Nat
        /\ FileCount(g) = BareCount(g) + 2 * Cardinality(DOMAIN g.derived)
    BY CountsAreNumbers
  <1>2. ExpectedProjections(g) = ExpectedProjections(active)
        /\ ProjectionPaths(g) = ProjectionPaths(active)
    BY DEF ExpectedProjections, ProjectionPaths
  <1>3. UsableProjections(g)
    <2>1. CASE DOMAIN active.derived = {}
      BY <2>1 DEF UsableProjections, ProjectionStatus
    <2>2. CASE DOMAIN active.derived # {} /\ active.derived = ExpectedProjections(active)
      BY <1>2, <2>2 DEF UsableProjections, ProjectionStatus
    <2>3. QED
      BY <2>1, <2>2, UsableIsAbsentOrExact
  <1>4. Fits(g)
    <2>1. CASE DOMAIN active.derived = {}
      <3>1. Cardinality(DOMAIN g.derived) = 0
        BY <2>1, FS_EmptySet
      <3>2. QED
        BY <1>1, <3>1, MaxFilesAssumption DEF Fits, Roomy
    <2>2. CASE DOMAIN active.derived # {} /\ active.derived = ExpectedProjections(active)
      <3>1. DOMAIN active.derived = ProjectionPaths(active)
        BY <2>2 DEF ExpectedProjections
      <3>2. PICK p \in DOMAIN active.derived : TRUE
        BY <2>2
      <3>3. active.derived[p] # Damaged
        BY <2>2, <3>1, <3>2, ViewsAreWhole DEF ExpectedProjections
      <3>4. BareCount(active) + 2 * Cardinality(ProjectionPaths(active)) <= MaxFiles
        BY <3>2, <3>3 DEF Roomy
      <3>5. QED
        BY <1>1, <3>1, <3>4, MaxFilesAssumption DEF Fits
    <2>3. QED
      BY <2>1, <2>2, UsableIsAbsentOrExact
  <1>5. ValidateStagedState(g)
    BY <1>3 DEF ValidateStagedState, Verified
  <1>6. QED
    BY <1>4, <1>5 DEF PublicationCode

LEMMA UndoSucceeds ==
  ASSUME WorkbenchInv, Roomy(active), UndoDraft
  PROVE  outcome' = Accepted
  <1> DEFINE g == Undone(active)
  <1>1. /\ active.draft # NoDraft
        /\ active.draft.actions # <<>>
        /\ UsableProjections(active)
        /\ Publish("undo", g)
    BY DEF UndoDraft, MayExtendDraft
  <1>2. Sound(active) /\ Verified(active)
    BY DEF WorkbenchInv
  <1>3. Sound(g) /\ g.records = active.records /\ g.horizons = active.horizons
    BY <1>1, <1>2, UndoneKeepsJournal DEF KeepsJournal
  <1>4. /\ Verified(g)
        /\ DOMAIN g.captured \subseteq DOMAIN active.captured
        /\ g.snapshots = active.snapshots
        /\ g.requestedAsOf = active.requestedAsOf
        /\ g.derived = active.derived
    BY <1>1, <1>2, UndoneIsVerified
  <1> HIDE DEF g
  <1>5. BareCount(g) <= BareCount(active)
    <2>1. IsFiniteSet(DOMAIN active.captured)
      BY <1>1, <1>2, CapturedIsFinite
    <2>2. /\ IsFiniteSet(DOMAIN g.captured)
          /\ Cardinality(DOMAIN g.captured) <= Cardinality(DOMAIN active.captured)
      BY <1>4, <2>1, FS_Subset
    <2>3. /\ Cardinality(DOMAIN g.captured) \in Nat
          /\ Cardinality(DOMAIN active.captured) \in Nat
          /\ Cardinality(active.snapshots) \in Nat
      BY <1>2, <2>1, <2>2, SnapshotsAreFinite, FS_CardinalityType
    <2>4. QED
      BY <1>1, <1>4, <2>2, <2>3 DEF BareCount
  <1>6. PublicationCode(g) = "OK"
    BY <1>1, <1>2, <1>3, <1>4, <1>5, SmallerIsPublished
  <1>7. QED
    BY <1>1, <1>6 DEF Publish, Ended

LEMMA AbortSucceeds ==
  ASSUME WorkbenchInv, Roomy(active), AbortHorizon
  PROVE  outcome' = Accepted
  <1> DEFINE g == WithoutDraft(active)
  <1>1. /\ active.draft # NoDraft
        /\ UsableProjections(active)
        /\ Publish("abort", g)
    BY DEF AbortHorizon, MayExtendDraft
  <1>2. Sound(active) /\ Verified(active)
    BY DEF WorkbenchInv
  <1>3. Sound(g) /\ g.records = active.records
    BY <1>2, RegeneratedKeepsJournal DEF KeepsJournal
  <1>4. /\ Verified(g)
        /\ g.draft = NoDraft
        /\ g.snapshots = active.snapshots
        /\ g.horizons = active.horizons
        /\ g.requestedAsOf = active.requestedAsOf
        /\ g.derived = active.derived
    BY <1>2, WithoutDraftIsVerified
  <1> HIDE DEF g
  <1>5. BareCount(g) <= BareCount(active)
    <2>1. /\ Cardinality(DOMAIN active.captured) \in Nat
          /\ Cardinality(active.snapshots) \in Nat
      BY <1>1, <1>2, CapturedIsFinite, SnapshotsAreFinite, FS_CardinalityType
    <2>2. QED
      BY <1>1, <1>4, <2>1 DEF BareCount
  <1>6. PublicationCode(g) = "OK"
    BY <1>1, <1>2, <1>3, <1>4, <1>5, SmallerIsPublished
  <1>7. QED
    BY <1>1, <1>6 DEF Publish, Ended

-----------------------------------------------------------------------------
(***************************************************************************)
(* The invariant and the theorem.                                          *)
(***************************************************************************)
LEMMA StepLeavesRoom ==
  ASSUME WorkbenchInv, Roomy(active), [Next]_vars
  PROVE  Roomy(active')
  <1>1. Sound(active) /\ Verified(active)
    BY DEF WorkbenchInv
  <1>2. CASE UNCHANGED vars
    BY <1>2 DEF vars
  <1>3. CASE DraftCommand
    BY <1>1, <1>3, DraftCommandsKeepJournal, PublicationIsRoomy DEF KeepsJournal
  <1>4. CASE PublishClose
    <2>1. active.draft # NoDraft
      BY <1>4, CloseStep
    <2>2. Sound(Closed(active))
      BY <1>1, <2>1, ClosedIsSound
    <2>3. active' = active \/ Publish("close", Closed(active))
      BY <1>4 DEF PublishClose
    <2>4. QED
      BY <1>1, <2>2, <2>3, PublicationIsRoomy
  <1>5. CASE OwnerOnDerived
    BY <1>1, <1>5, OwnerLeavesRoom
  <1>6. CASE Next /\ ~ DraftCommand /\ ~ OwnerOnDerived /\ ~ PublishClose
    BY <1>6, OtherSteps
  <1>7. QED
    BY <1>2, <1>3, <1>4, <1>5, <1>6

LEMMA OutcomeOf ==
  ASSUME NEW command, NEW code, Ended(command, code),
         command \notin { "undo", "abort" }
  PROVE  EscapeIsOpen'
  <1>1. CASE code = "OK"
    BY <1>1 DEF Ended, EscapeIsOpen, Accepted
  <1>2. CASE code # "OK"
    BY <1>2 DEF Ended, EscapeIsOpen
  <1>3. QED
    BY <1>1, <1>2

LEMMA StepLeavesEscape ==
  ASSUME EscapeInv, [Next]_vars
  PROVE  EscapeIsOpen'
  <1>1. WorkbenchInv /\ Roomy(active) /\ EscapeIsOpen
    BY DEF EscapeInv
  <1>2. CASE UNCHANGED outcome
    BY <1>1, <1>2 DEF EscapeIsOpen
  <1>3. CASE UndoDraft \/ AbortHorizon
    <2>1. outcome' = Accepted
      BY <1>1, <1>3, UndoSucceeds, AbortSucceeds
    <2>2. QED
      BY <2>1 DEF EscapeIsOpen, Accepted
  <1>4. CASE DraftCommand /\ ~ (UndoDraft \/ AbortHorizon)
    <2>1. CASE \E n \in Names : OpenHorizon(n)
      <3>1. \E g : Publish("open", g)
        BY <2>1 DEF OpenHorizon
      <3>2. QED
        BY <3>1, OutcomeOf DEF Publish
    <2>2. CASE \E n \in Names : PublishDossier(n)
      <3>1. \E g : Publish("dossier", g)
        BY <2>2 DEF PublishDossier
      <3>2. QED
        BY <3>1, OutcomeOf DEF Publish
    <2>3. CASE \E s \in SourceAliases, p \in Paths : AddSource(s, p)
      <3>1. \E g : Publish("source", g)
        BY <2>3 DEF AddSource
      <3>2. QED
        BY <3>1, OutcomeOf DEF Publish
    <2>4. CASE \E a \in AssertionAliases, s \in SourceAliases : AddAssertion(a, s)
      <3>1. \E g : Publish("assertion", g)
        BY <2>4 DEF AddAssertion
      <3>2. QED
        BY <3>1, OutcomeOf DEF Publish
    <2>5. CASE \E a \in AssertionAliases, s \in SourceAliases : ReviseAssertion(a, s)
      <3>1. \E g : Publish("revise", g)
        BY <2>5 DEF ReviseAssertion
      <3>2. QED
        BY <3>1, OutcomeOf DEF Publish
    <2>6. CASE \E q \in QuestionAliases, s \in SourceAliases \cup { None } :
                 AddQuestion(q, s)
      <3>1. \E g : Publish("question", g)
        BY <2>6 DEF AddQuestion
      <3>2. QED
        BY <3>1, OutcomeOf DEF Publish
    <2>7. CASE RebuildProjections
      <3>1. \E g : Publish("rebuild", g)
        BY <2>7 DEF RebuildProjections
      <3>2. QED
        BY <3>1, OutcomeOf DEF Publish
    <2>8. QED
      BY <1>4, <2>1, <2>2, <2>3, <2>4, <2>5, <2>6, <2>7 DEF DraftCommand
  <1>5. CASE RevalidateSource
    BY <1>2, <1>5, OutcomeOf DEF RevalidateSource
  <1>6. CASE PublishClose
    BY <1>6, OutcomeOf DEF PublishClose, Publish
  <1>7. CASE BeginClose \/ OwnerOnHost \/ OwnerOnDerived \/ UNCHANGED vars
    BY <1>2, <1>7 DEF BeginClose, OwnerOnHost, OwnerWritesFile, OwnerRemovesFile,
         OwnerOnDerived, OwnerDeletesDerived, OwnerAddsUnexpected,
         OwnerDamagesDossier, OwnerRestoresOlder, OwnerEditsDerived, vars
  <1>8. QED
    BY <1>3, <1>4, <1>5, <1>6, <1>7, OtherSteps

LEMMA InitIsRoomy ==
  ASSUME Init
  PROVE  Roomy(active) /\ EscapeIsOpen
  <1>1. /\ active.snapshots = {}
        /\ active.draft = NoDraft
        /\ active.derived = <<>>
        /\ outcome = Accepted
    BY DEF Init
  <1>2. <<>> \in Seq({}) /\ Len(<<>>) = 0
    BY EmptySeq
  <1>3. DOMAIN active.derived = 1 .. 0
    BY <1>1, <1>2, LenProperties
  <1>4. BareCount(active) = 4
    BY <1>1, FS_EmptySet DEF BareCount
  <1>5. Roomy(active)
    BY <1>3, <1>4, MaxFilesAssumption DEF Roomy
  <1>6. QED
    BY <1>1, <1>5 DEF EscapeIsOpen, Accepted

\* For every limit on files, whatever the owner did to the derived files: a
\* draft that cannot be closed can always be shortened or discarded.
THEOREM EscapeIsAlwaysOpen == Spec => []EscapeIsOpen
  <1>1. Init => EscapeInv
    BY InitEstablishesInvariant, InitIsRoomy DEF EscapeInv
  <1>2. EscapeInv /\ [Next]_vars => EscapeInv'
    BY NextKeepsInvariant, StepLeavesRoom, StepLeavesEscape DEF EscapeInv
  <1>3. EscapeInv => EscapeIsOpen
    BY DEF EscapeInv
  <1>4. QED
    BY <1>1, <1>2, <1>3, PTL DEF Spec
=============================================================================
