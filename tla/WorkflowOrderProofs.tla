-------------------------- MODULE WorkflowOrderProofs --------------------------
(***************************************************************************)
(* BuildExecutionOrder is right for every workflow: theorems about Waves.  *)
(*                                                                         *)
(* The provers cannot use the library's induction theorems, whose formula  *)
(* is an operator parameter.  SetInduction takes a set instead, and with   *)
(* it a recursive function can be unfolded and reasoned about.             *)
(***************************************************************************)
EXTENDS WorkflowOrder, FiniteSetTheorems, TLAPS

\* The order of the numbers, as a relation.
NatLess == {ss \in Nat \X Nat : ss[1] < ss[2]}

(***************************************************************************)
(* A set of numbers that is not empty has a least element.                 *)
(***************************************************************************)
LEMMA LeastOfSet ==
  ASSUME NEW T \in SUBSET Nat, T # {}
  PROVE  \E x \in T : \A y \in T : x <= y
  <1>1. IsWellFoundedOn(NatLess, Nat)
    BY NatLessThanWellFounded, Zenon DEF OpToRel, NatLess
  <1>2. PICK x \in T : \A y \in T : ~(<<y, x>> \in NatLess)
    BY <1>1, WFMin
  <1>3. ASSUME NEW y \in Nat, y < x PROVE <<y, x>> \in NatLess
    BY <1>3 DEF NatLess
  <1>4. ASSUME NEW y \in T PROVE x <= y
    <2>1. ~(y < x)
      BY <1>2, <1>3, Zenon
    <2> QED
      BY <2>1
  <1> QED
    BY <1>4

(***************************************************************************)
(* A set of numbers that holds 0 and with each number the next one.        *)
(***************************************************************************)
LEMMA SetInduction ==
  ASSUME NEW S \in SUBSET Nat, 0 \in S, \A n \in S : n + 1 \in S
  PROVE  \A n \in Nat : n \in S
  <1> SUFFICES ASSUME Nat \ S # {} PROVE FALSE
    OBVIOUS
  <1>1. PICK x \in Nat \ S : \A y \in Nat \ S : x <= y
    BY LeastOfSet
  <1>2. x - 1 \in Nat
    BY <1>1
  <1>3. x - 1 \in S
    BY <1>1, <1>2
  <1> QED
    BY <1>3

-------------------------------------------------------------------------------
(***************************************************************************)
(* The loop of BuildExecutionOrder, round by round: inDegree starts as the *)
(* number of needs and loses a wave per round (workflow.go:178-208).       *)
(***************************************************************************)
LEMMA DegreesUnfold ==
  ASSUME NEW g, IsFiniteSet(DOMAIN g)
  PROVE  /\ Degrees(g)[0] = InitialDegree(g)
         /\ \A n \in 1..Cardinality(DOMAIN g) : Degrees(g)[n] = AfterWave(g, Degrees(g)[n - 1])
  <1> DEFINE Rounds(f, N) ==
        f = [n \in 0..N |-> IF n = 0 THEN InitialDegree(g) ELSE AfterWave(g, f[n - 1])]
             S == {N \in Nat : \E f : Rounds(f, N)}
  <1>1. 0 \in S
    <2>1. Rounds([n \in 0..0 |-> InitialDegree(g)], 0)
      OBVIOUS
    <2> QED
      BY <2>1
  <1>2. ASSUME NEW N \in S PROVE N + 1 \in S
    <2>1. PICK f : Rounds(f, N)
      OBVIOUS
    <2> DEFINE h == [n \in 0..(N + 1) |-> IF n = N + 1 THEN AfterWave(g, f[N]) ELSE f[n]]
    <2>2. Rounds(h, N + 1)
      <3>1. ASSUME NEW n \in 0..(N + 1)
            PROVE  h[n] = IF n = 0 THEN InitialDegree(g) ELSE AfterWave(g, h[n - 1])
        <4>1. CASE n = N + 1
          BY <4>1
        <4>2. CASE n # N + 1 /\ n # 0
          <5>1. n \in 0..N /\ n - 1 \in 0..(N + 1) /\ n - 1 # N + 1
            BY <4>2
          <5>2. h[n] = f[n] /\ h[n - 1] = f[n - 1]
            BY <5>1
          <5>3. f[n] = AfterWave(g, f[n - 1])
            BY <2>1, <4>2, <5>1
          <5> QED
            BY <4>2, <5>2, <5>3
        <4>3. CASE n = 0
          BY <2>1, <4>3
        <4> QED
          BY <4>1, <4>2, <4>3
      <3> HIDE DEF h
      <3>2. h = [n \in 0..(N + 1) |-> h[n]]
        BY DEF h
      <3> QED
        BY <3>1, <3>2
    <2> HIDE DEF h, Rounds
    <2> QED
      BY <2>2
  <1>3. Cardinality(DOMAIN g) \in Nat
    BY FS_CardinalityType
  <1>4. PICK f : Rounds(f, Cardinality(DOMAIN g))
    <2> HIDE DEF Rounds
    <2>1. \A N \in Nat : N \in S
      <3> HIDE DEF S
      <3>1. S \in SUBSET Nat
        BY DEF S
      <3> QED
        BY <1>1, <1>2, <3>1, SetInduction
    <2> QED
      BY <1>3, <2>1
  <1>5. Rounds(Degrees(g), Cardinality(DOMAIN g))
    BY <1>4 DEF Degrees
  <1> QED
    BY <1>3, <1>5

-------------------------------------------------------------------------------
\* The jobs still in inDegree after n rounds.
Remaining(g, n) == DOMAIN Degrees(g)[n]

\* A workflow: finitely many jobs, none of which needs an unknown one.
IsWorkflow(g) == IsFiniteSet(DOMAIN g) /\ ~NeedsUnknown(g)

(***************************************************************************)
(* inDegree counts, for every job not yet in a wave, its needs that are    *)
(* not yet in a wave either.                                               *)
(***************************************************************************)
DegreeIsOpenNeeds(g, n) ==
  /\ Remaining(g, n) \subseteq DOMAIN g
  /\ Degrees(g)[n] = [id \in Remaining(g, n) |-> Cardinality(g[id] \cap Remaining(g, n))]

(***************************************************************************)
(* One round keeps the count right.                                        *)
(***************************************************************************)
LEMMA RoundKeepsCount ==
  ASSUME NEW g, IsWorkflow(g), NEW n \in 0..(Cardinality(DOMAIN g) - 1),
         DegreeIsOpenNeeds(g, n)
  PROVE  /\ DegreeIsOpenNeeds(g, n + 1)
         /\ Remaining(g, n + 1) = Remaining(g, n) \ Wave(Degrees(g)[n])
  <1> DEFINE D == Degrees(g)[n]
             R == Remaining(g, n)
             W == Wave(D)
  <1>1. Cardinality(DOMAIN g) \in Nat
    BY FS_CardinalityType DEF IsWorkflow
  <1>2. Degrees(g)[n + 1] = AfterWave(g, D)
    <2>1. n + 1 \in 1..Cardinality(DOMAIN g) /\ (n + 1) - 1 = n
      BY <1>1
    <2> QED
      BY <2>1, DegreesUnfold DEF IsWorkflow
  <1>3. DOMAIN D = R
    BY DEF Remaining
  <1>4. Remaining(g, n + 1) = R \ W
    BY <1>2, <1>3 DEF Remaining, AfterWave
  <1>5. ASSUME NEW id \in R \ W
        PROVE  D[id] - Cardinality(g[id] \cap W) = Cardinality(g[id] \cap (R \ W))
    <2>1. IsFiniteSet(g[id] \cap R)
      <3>1. IsFiniteSet(R)
        BY FS_Subset DEF DegreeIsOpenNeeds, IsWorkflow
      <3> QED
        BY <3>1, FS_Intersection
    <2>2. (g[id] \cap R) \cap W = g[id] \cap W /\ (g[id] \cap R) \ W = g[id] \cap (R \ W)
      BY <1>3 DEF Wave
    <2>3. Cardinality((g[id] \cap R) \ W)
            = Cardinality(g[id] \cap R) - Cardinality((g[id] \cap R) \cap W)
      BY <2>1, FS_Difference
    <2>4. D[id] = Cardinality(g[id] \cap R)
      BY DEF DegreeIsOpenNeeds
    <2> QED
      BY <2>2, <2>3, <2>4
  <1>6. AfterWave(g, D) = [id \in R \ W |-> Cardinality(g[id] \cap (R \ W))]
    BY <1>3, <1>5 DEF AfterWave
  <1> QED
    BY <1>2, <1>4, <1>6 DEF DegreeIsOpenNeeds

(***************************************************************************)
(* After no round all jobs are left, with all their needs open; by         *)
(* induction, every round keeps the count and takes out exactly its wave.  *)
(***************************************************************************)
LEMMA DegreeMeaning ==
  ASSUME NEW g, IsWorkflow(g)
  PROVE  /\ Remaining(g, 0) = DOMAIN g
         /\ \A n \in 0..Cardinality(DOMAIN g) : DegreeIsOpenNeeds(g, n)
         /\ \A n \in 0..(Cardinality(DOMAIN g) - 1) :
              Remaining(g, n + 1) = Remaining(g, n) \ Wave(Degrees(g)[n])
  <1> DEFINE N == Cardinality(DOMAIN g)
             S == {n \in Nat : n <= N => DegreeIsOpenNeeds(g, n)}
  <1>1. N \in Nat
    BY FS_CardinalityType DEF IsWorkflow
  <1>2. Remaining(g, 0) = DOMAIN g
    BY DegreesUnfold DEF Remaining, InitialDegree, IsWorkflow
  <1>3. DegreeIsOpenNeeds(g, 0)
    <2>1. \A id \in DOMAIN g : g[id] \cap DOMAIN g = g[id]
      BY DEF IsWorkflow, NeedsUnknown
    <2>2. Degrees(g)[0] = [id \in DOMAIN g |-> Cardinality(g[id])]
      BY DegreesUnfold DEF InitialDegree, IsWorkflow
    <2> QED
      BY <1>2, <2>1, <2>2 DEF DegreeIsOpenNeeds
  <1>4. ASSUME NEW n \in S PROVE n + 1 \in S
    <2>1. CASE n + 1 <= N
      <3>1. n \in 0..(N - 1) /\ DegreeIsOpenNeeds(g, n)
        BY <1>1, <2>1
      <3> QED
        BY <3>1, RoundKeepsCount
    <2>2. CASE ~(n + 1 <= N)
      BY <2>2
    <2> QED
      BY <2>1, <2>2
  <1>5. \A n \in Nat : n \in S
    <2>1. 0 \in S /\ S \in SUBSET Nat
      BY <1>3
    <2> HIDE DEF S
    <2> QED
      BY <1>4, <2>1, SetInduction
  <1>6. \A n \in 0..N : DegreeIsOpenNeeds(g, n)
    BY <1>1, <1>5
  <1>7. ASSUME NEW n \in 0..(N - 1)
        PROVE  Remaining(g, n + 1) = Remaining(g, n) \ Wave(Degrees(g)[n])
    <2>1. n \in 0..N
      BY <1>1
    <2> QED
      BY <1>6, <2>1, RoundKeepsCount
  <1> QED
    BY <1>2, <1>6, <1>7

(***************************************************************************)
(* A wave is made of the jobs none of whose needs are open.                *)
(***************************************************************************)
LEMMA WaveMeaning ==
  ASSUME NEW g, IsWorkflow(g), NEW n \in 0..Cardinality(DOMAIN g)
  PROVE  Wave(Degrees(g)[n]) = {id \in Remaining(g, n) : g[id] \cap Remaining(g, n) = {}}
  <1>1. DegreeIsOpenNeeds(g, n)
    BY DegreeMeaning
  <1>2. ASSUME NEW id \in Remaining(g, n)
        PROVE  Degrees(g)[n][id] = 0 <=> g[id] \cap Remaining(g, n) = {}
    <2>1. IsFiniteSet(g[id] \cap Remaining(g, n))
      <3>1. IsFiniteSet(Remaining(g, n))
        BY <1>1, FS_Subset DEF DegreeIsOpenNeeds, IsWorkflow
      <3> QED
        BY <3>1, FS_Intersection
    <2>2. Degrees(g)[n][id] = Cardinality(g[id] \cap Remaining(g, n))
      BY <1>1 DEF DegreeIsOpenNeeds
    <2> QED
      BY <2>1, <2>2, FS_EmptySet
  <1> QED
    BY <1>2 DEF Wave, Remaining

(***************************************************************************)
(* A job that is out of inDegree stays out.                                *)
(***************************************************************************)
LEMMA RemainingShrinks ==
  ASSUME NEW g, IsWorkflow(g), NEW m \in 0..Cardinality(DOMAIN g), NEW n \in 0..m
  PROVE  Remaining(g, m) \subseteq Remaining(g, n)
  <1> DEFINE N == Cardinality(DOMAIN g)
             S == {k \in Nat : n + k <= N => Remaining(g, n + k) \subseteq Remaining(g, n)}
  <1>1. N \in Nat
    BY FS_CardinalityType DEF IsWorkflow
  <1>2. 0 \in S
    BY <1>1
  <1>3. ASSUME NEW k \in S PROVE k + 1 \in S
    <2>1. CASE n + (k + 1) <= N
      <3>1. n + k \in 0..(N - 1) /\ n + (k + 1) = (n + k) + 1 /\ n + k <= N
        BY <1>1, <2>1
      <3>2. Remaining(g, n + (k + 1)) \subseteq Remaining(g, n + k)
        BY <3>1, DegreeMeaning
      <3> QED
        BY <3>1, <3>2
    <2>2. CASE ~(n + (k + 1) <= N)
      BY <1>1, <2>2
    <2> QED
      BY <2>1, <2>2
  <1>4. \A k \in Nat : k \in S
    <2>1. S \in SUBSET Nat
      OBVIOUS
    <2> HIDE DEF S
    <2> QED
      BY <1>2, <1>3, <2>1, SetInduction
  <1>5. m - n \in Nat /\ n + (m - n) = m /\ m <= N
    BY <1>1
  <1>6. m - n \in S
    BY <1>4, <1>5
  <1> QED
    BY <1>5, <1>6

-------------------------------------------------------------------------------
(***************************************************************************)
(* The waves are numbered from 1 without a gap, none is empty, and they    *)
(* end after |jobs| rounds or at the first empty wave (workflow.go:188).   *)
(***************************************************************************)
LEMMA WavesShape ==
  ASSUME NEW g, IsFiniteSet(DOMAIN g)
  PROVE  \E L \in 0..Cardinality(DOMAIN g) :
           /\ DOMAIN Waves(g) = 1..L
           /\ \A n \in 1..L : Waves(g)[n] = Wave(Degrees(g)[n - 1]) /\ Waves(g)[n] # {}
           /\ L < Cardinality(DOMAIN g) => Wave(Degrees(g)[L]) = {}
  <1> DEFINE N == Cardinality(DOMAIN g)
             rounds == {n \in 1..N : \A k \in 1..n : Wave(Degrees(g)[k - 1]) # {}}
             T == {n \in Nat : n + 1 \notin rounds}
  <1>1. N \in Nat
    BY FS_CardinalityType
  <1>2. Waves(g) = [n \in rounds |-> Wave(Degrees(g)[n - 1])]
    BY DEF Waves
  <1>3. N \in T
    BY <1>1
  <1>4. PICK L \in T : \A y \in T : L <= y
    BY <1>3, LeastOfSet
  <1>5. L \in 0..N
    BY <1>1, <1>3, <1>4
  <1>6. ASSUME NEW n \in 1..L PROVE n \in rounds
    <2>1. n - 1 \in Nat /\ ~(L <= n - 1) /\ (n - 1) + 1 = n
      BY <1>4
    <2> QED
      BY <1>4, <2>1
  <1>7. ASSUME NEW n \in rounds PROVE n \in 1..L
    <2> SUFFICES ASSUME n > L PROVE FALSE
      BY <1>1, <1>5
    <2>1. L + 1 \in 1..N /\ 1..(L + 1) \subseteq 1..n
      BY <1>1, <1>5
    <2>2. L + 1 \in rounds
      BY <2>1
    <2> QED
      BY <1>4, <2>2
  <1>8. rounds = 1..L
    BY <1>6, <1>7
  <1>9. \A n \in rounds : Wave(Degrees(g)[n - 1]) # {}
    BY <1>1
  <1>10. ASSUME L < N PROVE Wave(Degrees(g)[L]) = {}
    <2>1. L + 1 \in 1..N /\ L + 1 \notin rounds
      BY <1>1, <1>4, <1>5, <1>10
    <2>2. PICK k \in 1..(L + 1) : Wave(Degrees(g)[k - 1]) = {}
      BY <2>1
    <2>3. k \notin 1..L
      BY <1>8, <1>9, <2>2
    <2>4. k - 1 = L
      BY <1>5, <2>3
    <2> QED
      BY <2>2, <2>4
  <1> HIDE DEF rounds
  <1>11. /\ DOMAIN Waves(g) = 1..L
         /\ \A n \in 1..L : Waves(g)[n] = Wave(Degrees(g)[n - 1]) /\ Waves(g)[n] # {}
    BY <1>2, <1>8, <1>9
  <1> QED
    BY <1>5, <1>10, <1>11

(***************************************************************************)
(* The waves are a sequence of sets of jobs, at most as many as jobs.      *)
(***************************************************************************)
LEMMA WavesType ==
  ASSUME NEW g, IsWorkflow(g)
  PROVE  /\ Waves(g) \in Seq(SUBSET DOMAIN g)
         /\ DOMAIN Waves(g) = 1..Len(Waves(g))
         /\ \A n \in 1..Len(Waves(g)) : Waves(g)[n] = Wave(Degrees(g)[n - 1])
         /\ Len(Waves(g)) < Cardinality(DOMAIN g) => Wave(Degrees(g)[Len(Waves(g))]) = {}
         /\ Len(Waves(g)) \in 0..Cardinality(DOMAIN g)
         /\ \A n \in 1..Len(Waves(g)) : Waves(g)[n] # {}
  <1> DEFINE N == Cardinality(DOMAIN g)
  <1>1. N \in Nat
    BY FS_CardinalityType DEF IsWorkflow
  <1>2. PICK L \in 0..N :
           /\ DOMAIN Waves(g) = 1..L
           /\ \A n \in 1..L : Waves(g)[n] = Wave(Degrees(g)[n - 1]) /\ Waves(g)[n] # {}
           /\ L < N => Wave(Degrees(g)[L]) = {}
    BY WavesShape DEF IsWorkflow
  <1>3. ASSUME NEW n \in 1..L PROVE Waves(g)[n] \subseteq DOMAIN g
    <2>1. n - 1 \in 0..N
      BY <1>1
    <2>2. DegreeIsOpenNeeds(g, n - 1)
      BY <2>1, DegreeMeaning
    <2> QED
      BY <1>2, <2>1, <2>2 DEF DegreeIsOpenNeeds, Remaining, Wave
  <1>4. Waves(g) = [n \in 1..L |-> Waves(g)[n]]
    BY <1>2 DEF Waves
  <1>5. Waves(g) \in Seq(SUBSET DOMAIN g) /\ Len(Waves(g)) = L
    <2>1. Waves(g) \in [1..L -> SUBSET DOMAIN g]
      BY <1>3, <1>4
    <2>2. L \in Nat
      BY <1>1
    <2> QED
      BY <2>1, <2>2
  <1> QED
    BY <1>2, <1>5

(***************************************************************************)
(* There are at most as many waves as jobs.                                *)
(***************************************************************************)
LEMMA WaveCount ==
  ASSUME NEW g, IsWorkflow(g)
  PROVE  /\ Cardinality(DOMAIN g) \in Nat
         /\ Len(Waves(g)) \in Nat
         /\ Len(Waves(g)) <= Cardinality(DOMAIN g)
  <1>1. Cardinality(DOMAIN g) \in Nat
    BY FS_CardinalityType DEF IsWorkflow
  <1>2. Len(Waves(g)) \in 0..Cardinality(DOMAIN g)
    BY WavesType
  <1> QED
    BY <1>1, <1>2

(***************************************************************************)
(* Wave n holds the jobs left after n - 1 rounds none of whose needs are   *)
(* left, and round n takes exactly these out.                              *)
(***************************************************************************)
LEMMA WaveAt ==
  ASSUME NEW g, IsWorkflow(g), NEW n \in 1..Len(Waves(g))
  PROVE  /\ Waves(g)[n] \subseteq DOMAIN g
         /\ Waves(g)[n] # {}
         /\ Waves(g)[n] = {id \in Remaining(g, n - 1) : g[id] \cap Remaining(g, n - 1) = {}}
         /\ Remaining(g, n) = Remaining(g, n - 1) \ Waves(g)[n]
  <1>1. n - 1 \in 0..Cardinality(DOMAIN g) /\ n - 1 \in 0..(Cardinality(DOMAIN g) - 1)
        /\ (n - 1) + 1 = n
    BY WaveCount
  <1>2. Waves(g)[n] = Wave(Degrees(g)[n - 1]) /\ Waves(g)[n] # {}
    BY WavesType
  <1>3. Wave(Degrees(g)[n - 1])
          = {id \in Remaining(g, n - 1) : g[id] \cap Remaining(g, n - 1) = {}}
    BY <1>1, WaveMeaning
  <1>4. Remaining(g, (n - 1) + 1) = Remaining(g, n - 1) \ Wave(Degrees(g)[n - 1])
    BY <1>1, DegreeMeaning
  <1>5. Remaining(g, n - 1) \subseteq DOMAIN g
    BY <1>1, DegreeMeaning DEF DegreeIsOpenNeeds
  <1> QED
    BY <1>1, <1>2, <1>3, <1>4, <1>5

(***************************************************************************)
(* No job is in two waves.                                                 *)
(***************************************************************************)
LEMMA WavesDisjoint ==
  ASSUME NEW g, IsWorkflow(g), NEW k \in 1..Len(Waves(g)), NEW n \in 1..Len(Waves(g)),
         k < n
  PROVE  Waves(g)[k] \cap Waves(g)[n] = {}
  <1>1. n - 1 \in 0..Cardinality(DOMAIN g) /\ k \in 0..(n - 1)
    BY WaveCount
  <1>2. Remaining(g, k) \cap Waves(g)[k] = {}
    BY WaveAt
  <1>3. Remaining(g, n - 1) \subseteq Remaining(g, k)
    BY <1>1, RemainingShrinks
  <1>4. Waves(g)[n] \subseteq Remaining(g, n - 1)
    BY WaveAt
  <1> QED
    BY <1>2, <1>3, <1>4

(***************************************************************************)
(* What is out of inDegree after n rounds is in one of the first n waves.  *)
(***************************************************************************)
LEMMA ProcessedIsInWaves ==
  ASSUME NEW g, IsWorkflow(g), NEW n \in 0..Len(Waves(g)), NEW id \in DOMAIN g
  PROVE  id \notin Remaining(g, n) <=> \E k \in 1..n : id \in Waves(g)[k]
  <1> DEFINE L == Len(Waves(g))
             S == {m \in Nat : m <= L =>
                     (id \notin Remaining(g, m) <=> \E k \in 1..m : id \in Waves(g)[k])}
  <1>1. L \in Nat
    BY WaveCount
  <1>2. 0 \in S
    BY DegreeMeaning
  <1>3. ASSUME NEW m \in S PROVE m + 1 \in S
    <2>1. CASE m + 1 <= L
      <3>1. m + 1 \in 1..L /\ m <= L /\ (m + 1) - 1 = m
        BY <1>1, <2>1
      <3>2. Remaining(g, m + 1) = Remaining(g, m) \ Waves(g)[m + 1]
        BY <3>1, WaveAt
      <3>3. 1..(m + 1) = 1..m \cup {m + 1}
        OBVIOUS
      <3> QED
        BY <3>1, <3>2, <3>3
    <2>2. CASE ~(m + 1 <= L)
      BY <2>2
    <2> QED
      BY <2>1, <2>2
  <1>4. \A m \in Nat : m \in S
    <2>1. S \in SUBSET Nat
      OBVIOUS
    <2> HIDE DEF S
    <2> QED
      BY <1>2, <1>3, <2>1, SetInduction
  <1>5. n \in S /\ n <= L
    BY <1>1, <1>4
  <1> QED
    BY <1>5

(***************************************************************************)
(* A job comes after all its needs ...                                     *)
(***************************************************************************)
LEMMA NeedsAreEarlier ==
  ASSUME NEW g, IsWorkflow(g), NEW n \in 1..Len(Waves(g)), NEW id \in Waves(g)[n],
         NEW d \in g[id]
  PROVE  \E k \in 1..(n - 1) : d \in Waves(g)[k]
  <1>1. n - 1 \in 0..Len(Waves(g))
    BY WaveCount
  <1>2. id \in DOMAIN g /\ d \notin Remaining(g, n - 1)
    BY WaveAt
  <1>3. d \in DOMAIN g
    BY <1>2 DEF IsWorkflow, NeedsUnknown
  <1> QED
    BY <1>1, <1>2, <1>3, ProcessedIsInWaves

(***************************************************************************)
(* ... and directly after one of them.                                     *)
(***************************************************************************)
LEMMA SomeNeedIsJustBefore ==
  ASSUME NEW g, IsWorkflow(g), NEW n \in 2..Len(Waves(g)), NEW id \in Waves(g)[n]
  PROVE  \E d \in g[id] : d \in Waves(g)[n - 1]
  <1>1. n \in 1..Len(Waves(g)) /\ n - 1 \in 1..Len(Waves(g)) /\ (n - 1) - 1 = n - 2
    BY WaveCount
  <1>2. Remaining(g, n - 1) = Remaining(g, n - 2) \ Waves(g)[n - 1]
    BY <1>1, WaveAt
  <1>3. id \in Remaining(g, n - 1) /\ g[id] \cap Remaining(g, n - 1) = {}
    BY <1>1, WaveAt
  <1>4. Waves(g)[n - 1] = {x \in Remaining(g, n - 2) : g[x] \cap Remaining(g, n - 2) = {}}
    BY <1>1, WaveAt
  <1>5. PICK d \in g[id] : d \in Remaining(g, n - 2)
    BY <1>2, <1>3, <1>4
  <1> QED
    BY <1>2, <1>3, <1>5

-------------------------------------------------------------------------------
\* The jobs of the first n waves, and those of wave n (none for n = 0).
Taken(g, n) == UNION {Waves(g)[k] : k \in 1..n}

\* The jobs of wave n, of which there are none before the first.
InWave(g, n) == {id \in DOMAIN g : n # 0 /\ id \in Waves(g)[n]}

(***************************************************************************)
(* The next wave brings new jobs only.                                     *)
(***************************************************************************)
LEMMA TakenStep ==
  ASSUME NEW g, IsWorkflow(g), NEW n \in Nat, n < Len(Waves(g))
  PROVE  /\ Taken(g, n + 1) = Taken(g, n) \cup Waves(g)[n + 1]
         /\ Taken(g, n) \cap Waves(g)[n + 1] = {}
         /\ Waves(g)[n + 1] = InWave(g, n + 1)
  <1>1. 1..(n + 1) = 1..n \cup {n + 1} /\ n + 1 \in 1..Len(Waves(g)) /\ n + 1 # 0
    BY WaveCount
  <1>2. Taken(g, n + 1) = Taken(g, n) \cup Waves(g)[n + 1]
    BY <1>1 DEF Taken
  <1>3. ASSUME NEW k \in 1..n PROVE Waves(g)[k] \cap Waves(g)[n + 1] = {}
    <2>1. k \in 1..Len(Waves(g)) /\ k < n + 1
      BY WaveCount
    <2> QED
      BY <1>1, <2>1, WavesDisjoint
  <1>4. Waves(g)[n + 1] \subseteq DOMAIN g
    BY <1>1, WaveAt
  <1> QED
    BY <1>1, <1>2, <1>3, <1>4 DEF Taken, InWave

(***************************************************************************)
(* The needs of a job are in earlier waves and not in its own.             *)
(***************************************************************************)
LEMMA NeedsAreTaken ==
  ASSUME NEW g, IsWorkflow(g), NEW n \in 0..Len(Waves(g)), NEW id \in InWave(g, n)
  PROVE  g[id] \subseteq Taken(g, n) /\ g[id] \cap InWave(g, n) = {}
  <1>1. n \in 1..Len(Waves(g)) /\ id \in Waves(g)[n]
    BY WaveCount DEF InWave
  <1>2. ASSUME NEW d \in g[id] PROVE d \in Taken(g, n) /\ d \notin InWave(g, n)
    <2>1. PICK k \in 1..(n - 1) : d \in Waves(g)[k]
      BY <1>1, NeedsAreEarlier
    <2>2. k \in 1..Len(Waves(g)) /\ k < n /\ k \in 1..n
      BY <1>1, WaveCount
    <2>3. Waves(g)[k] \cap Waves(g)[n] = {}
      BY <1>1, <2>2, WavesDisjoint
    <2> QED
      BY <2>1, <2>2, <2>3 DEF Taken, InWave
  <1> QED
    BY <1>2

(***************************************************************************)
(* Without a cycle the waves hold all jobs.                                *)
(***************************************************************************)
LEMMA AllAreTaken ==
  ASSUME NEW g, IsWorkflow(g), ~HasCycle(g)
  PROVE  Taken(g, Len(Waves(g))) = DOMAIN g
  <1>1. DOMAIN Waves(g) = 1..Len(Waves(g))
    BY WavesType
  <1> QED
    BY <1>1 DEF Taken, HasCycle

-------------------------------------------------------------------------------
\* Jobs that need each other in a circle.
IsCircle(g, S) == S \in SUBSET DOMAIN g /\ S # {} /\ \A id \in S : g[id] \cap S # {}

(***************************************************************************)
(* While rounds find a wave, each takes out a job at least.                *)
(***************************************************************************)
LEMMA RemainingCount ==
  ASSUME NEW g, IsWorkflow(g), NEW n \in 0..Len(Waves(g))
  PROVE  Cardinality(Remaining(g, n)) <= Cardinality(DOMAIN g) - n
  <1> DEFINE L == Len(Waves(g))
             N == Cardinality(DOMAIN g)
             S == {m \in Nat : m <= L => Cardinality(Remaining(g, m)) <= N - m}
  <1>1. L \in Nat /\ N \in Nat /\ L <= N
    BY WaveCount
  <1>2. 0 \in S
    BY <1>1, DegreeMeaning
  <1>3. ASSUME NEW m \in S PROVE m + 1 \in S
    <2>1. CASE m + 1 <= L
      <3>1. m + 1 \in 1..L /\ m <= L /\ (m + 1) - 1 = m /\ m \in 0..N
        BY <1>1, <2>1
      <3>2. IsFiniteSet(Remaining(g, m))
        <4>1. Remaining(g, m) \subseteq DOMAIN g
          BY <3>1, DegreeMeaning DEF DegreeIsOpenNeeds
        <4> QED
          BY <4>1, FS_Subset DEF IsWorkflow
      <3>3. PICK id : id \in Waves(g)[m + 1]
        BY <3>1, WaveAt
      <3>4. id \in Remaining(g, m) /\ Remaining(g, m + 1) \subseteq Remaining(g, m) \ {id}
        BY <3>1, <3>3, WaveAt
      <3>5. /\ IsFiniteSet(Remaining(g, m) \ {id})
            /\ Cardinality(Remaining(g, m) \ {id}) = Cardinality(Remaining(g, m)) - 1
        BY <3>2, <3>4, FS_RemoveElement
      <3>6. Cardinality(Remaining(g, m + 1)) <= Cardinality(Remaining(g, m) \ {id})
            /\ IsFiniteSet(Remaining(g, m + 1))
        BY <3>4, <3>5, FS_Subset
      <3>7. Cardinality(Remaining(g, m + 1)) \in Nat /\ Cardinality(Remaining(g, m)) \in Nat
        BY <3>2, <3>6, FS_CardinalityType
      <3>8. Cardinality(Remaining(g, m)) <= N - m
        BY <3>1
      <3> HIDE DEF L, N
      <3>9. Cardinality(Remaining(g, m + 1)) <= N - (m + 1)
        BY <1>1, <3>5, <3>6, <3>7, <3>8
      <3> QED
        BY <3>9
    <2>2. CASE ~(m + 1 <= L)
      BY <2>2
    <2> QED
      BY <2>1, <2>2
  <1>4. \A m \in Nat : m \in S
    <2>1. S \in SUBSET Nat
      OBVIOUS
    <2> HIDE DEF S
    <2> QED
      BY <1>2, <1>3, <2>1, SetInduction
  <1>5. n \in S /\ n <= L
    BY <1>1, <1>4
  <1> QED
    BY <1>5

(***************************************************************************)
(* What no wave takes is a circle, ...                                     *)
(***************************************************************************)
LEMMA RestIsCircle ==
  ASSUME NEW g, IsWorkflow(g), Remaining(g, Len(Waves(g))) # {}
  PROVE  IsCircle(g, Remaining(g, Len(Waves(g))))
  <1> DEFINE L == Len(Waves(g))
             N == Cardinality(DOMAIN g)
  <1>1. L \in Nat /\ N \in Nat /\ L <= N /\ L \in 0..L /\ L \in 0..N
    BY WaveCount
  <1>2. Remaining(g, L) \subseteq DOMAIN g
    BY <1>1, DegreeMeaning DEF DegreeIsOpenNeeds
  <1>3. L # N
    <2> SUFFICES ASSUME L = N PROVE FALSE
      OBVIOUS
    <2>1. IsFiniteSet(Remaining(g, L))
      BY <1>2, FS_Subset DEF IsWorkflow
    <2>2. Cardinality(Remaining(g, L)) <= 0
      <3>1. Cardinality(Remaining(g, L)) <= N - L
        BY <1>1, RemainingCount
      <3> QED
        BY <1>1, <3>1
    <2>3. Cardinality(Remaining(g, L)) = 0
      BY <2>1, <2>2, FS_CardinalityType
    <2> QED
      BY <2>1, <2>3, FS_EmptySet
  <1>4. Wave(Degrees(g)[L]) = {}
    <2>1. L < N
      BY <1>1, <1>3
    <2> QED
      BY <2>1, WavesType
  <1>5. {id \in Remaining(g, L) : g[id] \cap Remaining(g, L) = {}} = {}
    BY <1>1, <1>4, WaveMeaning
  <1> QED
    BY <1>2, <1>5 DEF IsCircle

(***************************************************************************)
(* ... and no job of a circle is ever taken.                               *)
(***************************************************************************)
LEMMA CircleStays ==
  ASSUME NEW g, IsWorkflow(g), NEW C, IsCircle(g, C), NEW n \in 0..Len(Waves(g))
  PROVE  C \subseteq Remaining(g, n)
  <1> DEFINE L == Len(Waves(g))
             S == {m \in Nat : m <= L => C \subseteq Remaining(g, m)}
  <1>1. L \in Nat
    BY WaveCount
  <1>2. 0 \in S
    BY DegreeMeaning DEF IsCircle
  <1>3. ASSUME NEW m \in S PROVE m + 1 \in S
    <2>1. CASE m + 1 <= L
      <3>1. m + 1 \in 1..L /\ m <= L /\ (m + 1) - 1 = m
        BY <1>1, <2>1
      <3>2. /\ Waves(g)[m + 1] = {id \in Remaining(g, m) : g[id] \cap Remaining(g, m) = {}}
            /\ Remaining(g, m + 1) = Remaining(g, m) \ Waves(g)[m + 1]
        BY <3>1, WaveAt
      <3>3. C \cap Waves(g)[m + 1] = {}
        BY <3>1, <3>2 DEF IsCircle
      <3> QED
        BY <3>1, <3>2, <3>3
    <2>2. CASE ~(m + 1 <= L)
      BY <2>2
    <2> QED
      BY <2>1, <2>2
  <1>4. \A m \in Nat : m \in S
    <2>1. S \in SUBSET Nat
      OBVIOUS
    <2> HIDE DEF S
    <2> QED
      BY <1>2, <1>3, <2>1, SetInduction
  <1>5. n \in S /\ n <= L
    BY <1>1, <1>4
  <1> QED
    BY <1>5

(***************************************************************************)
(* BuildExecutionOrder reports a cycle exactly when there is one           *)
(* (workflow.go:210-212, processed != len(jobs)).                          *)
(***************************************************************************)
THEOREM CycleDetection ==
  ASSUME NEW g, IsWorkflow(g)
  PROVE  HasCycle(g) <=> \E C \in SUBSET DOMAIN g : IsCircle(g, C)
  <1> DEFINE L == Len(Waves(g))
  <1>1. L \in 0..L /\ DOMAIN Waves(g) = 1..L
    BY WaveCount, WavesType
  <1>2. UNION {Waves(g)[n] : n \in DOMAIN Waves(g)} = DOMAIN g \ Remaining(g, L)
    <2>1. ASSUME NEW id \in DOMAIN g
          PROVE  id \notin Remaining(g, L) <=> \E k \in 1..L : id \in Waves(g)[k]
      BY <1>1, ProcessedIsInWaves
    <2>2. \A k \in 1..L : Waves(g)[k] \subseteq DOMAIN g
      BY WaveAt
    <2> QED
      BY <1>1, <2>1, <2>2
  <1>3. Remaining(g, L) \subseteq DOMAIN g
    <2>1. L \in 0..Cardinality(DOMAIN g)
      BY WaveCount
    <2> QED
      BY <2>1, DegreeMeaning DEF DegreeIsOpenNeeds
  <1>4. HasCycle(g) <=> Remaining(g, L) # {}
    BY <1>2, <1>3 DEF HasCycle
  <1>5. ASSUME Remaining(g, L) # {} PROVE \E C \in SUBSET DOMAIN g : IsCircle(g, C)
    BY <1>3, <1>5, RestIsCircle
  <1>6. ASSUME NEW C \in SUBSET DOMAIN g, IsCircle(g, C) PROVE Remaining(g, L) # {}
    <2>1. C \subseteq Remaining(g, L)
      BY <1>1, <1>6, CircleStays
    <2> QED
      BY <1>6, <2>1 DEF IsCircle
  <1> QED
    BY <1>4, <1>5, <1>6
===============================================================================
