---------------------------- MODULE QueueOpsProofs ----------------------------
(***************************************************************************)
(* What the queue operations do to the set of jobs in a queue.             *)
(***************************************************************************)
EXTENDS QueueOps, SequenceTheorems, WellFoundedInduction, TLAPS

(***************************************************************************)
(* Appending a job that is not in the queue (a send into the channel,      *)
(* queue.go:32).                                                           *)
(***************************************************************************)
LEMMA AppendElems ==
  ASSUME NEW S, NEW q \in Seq(S), NEW x \in S
  PROVE  /\ Append(q, x) \in Seq(S)
         /\ Len(Append(q, x)) = Len(q) + 1
         /\ Elems(Append(q, x)) = Elems(q) \cup {x}
         /\ Distinct(q) /\ x \notin Elems(q) => Distinct(Append(q, x))
<1>1. Append(q, x) \in Seq(S) /\ Len(Append(q, x)) = Len(q) + 1
  OBVIOUS
<1>2. /\ DOMAIN Append(q, x) = 1..(Len(q) + 1)
      /\ DOMAIN q = 1..Len(q) /\ Len(q) \in Nat
  OBVIOUS
<1>3. /\ \A i \in 1..Len(q) : Append(q, x)[i] = q[i]
      /\ Append(q, x)[Len(q) + 1] = x
  OBVIOUS
<1>4. Elems(Append(q, x)) = Elems(q) \cup {x}
  BY <1>2, <1>3 DEF Elems
<1>5. Distinct(q) /\ x \notin Elems(q) => Distinct(Append(q, x))
  BY <1>2, <1>3 DEF Elems, Distinct
<1> QED  BY <1>1, <1>4, <1>5

(***************************************************************************)
(* Taking the head (a receive from the channel, Dequeue's pop).            *)
(***************************************************************************)
LEMMA TailElems ==
  ASSUME NEW S, NEW q \in Seq(S), q # <<>>
  PROVE  /\ Head(q) \in S
         /\ Head(q) \in Elems(q)
         /\ Tail(q) \in Seq(S)
         /\ Len(Tail(q)) = Len(q) - 1
         /\ Elems(Tail(q)) \subseteq Elems(q)
         /\ Distinct(q) => Distinct(Tail(q)) /\ Head(q) \notin Elems(Tail(q))
<1>1. /\ Len(q) \in Nat /\ Len(q) > 0 /\ DOMAIN q = 1..Len(q)
      /\ Head(q) = q[1] /\ Head(q) \in S
  OBVIOUS
<1>2. /\ Tail(q) \in Seq(S) /\ Len(Tail(q)) = Len(q) - 1
      /\ DOMAIN Tail(q) = 1..(Len(q) - 1)
      /\ \A i \in 1..(Len(q) - 1) : Tail(q)[i] = q[i + 1]
  OBVIOUS
<1>3. Head(q) \in Elems(q)
  BY <1>1 DEF Elems
<1>4. Elems(Tail(q)) \subseteq Elems(q)
  <2> SUFFICES ASSUME NEW i \in 1..(Len(q) - 1)  PROVE Tail(q)[i] \in Elems(q)
    BY <1>2 DEF Elems
  <2>1. i + 1 \in DOMAIN q
    BY <1>1
  <2> QED  BY <2>1, <1>2 DEF Elems
<1>5. ASSUME Distinct(q)
      PROVE  Distinct(Tail(q)) /\ Head(q) \notin Elems(Tail(q))
  <2>1. \A i \in 1..(Len(q) - 1) : i + 1 \in 1..Len(q) /\ i + 1 # 1
    BY <1>1
  <2>2. Head(q) \notin Elems(Tail(q))
    BY <1>1, <1>2, <1>5, <2>1 DEF Elems, Distinct
  <2>3. Distinct(Tail(q))
    <3> SUFFICES ASSUME NEW i \in 1..(Len(q) - 1), NEW k \in 1..(Len(q) - 1),
                        Tail(q)[i] = Tail(q)[k]
                 PROVE  i = k
      BY <1>2 DEF Distinct
    <3>1. q[i + 1] = q[k + 1]
      BY <1>2
    <3>2. i + 1 = k + 1
      BY <3>1, <2>1, <1>1, <1>5 DEF Distinct
    <3> QED  BY <3>2
  <2> QED  BY <2>2, <2>3
<1> QED  BY <1>1, <1>2, <1>3, <1>4, <1>5

(***************************************************************************)
(* Overwriting one position (queue.go:39-42).                              *)
(***************************************************************************)
LEMMA ExceptElems ==
  ASSUME NEW S, NEW q \in Seq(S), NEW x \in S, NEW p
  PROVE  /\ [q EXCEPT ![p] = x] \in Seq(S)
         /\ Len([q EXCEPT ![p] = x]) = Len(q)
         /\ Elems([q EXCEPT ![p] = x]) \subseteq Elems(q) \cup {x}
         /\ Distinct(q) /\ x \notin Elems(q) => Distinct([q EXCEPT ![p] = x])
<1> DEFINE s == [q EXCEPT ![p] = x]
<1>1. /\ DOMAIN s = DOMAIN q
      /\ \A i \in DOMAIN q : s[i] = IF i = p THEN x ELSE q[i]
      /\ DOMAIN q = 1..Len(q) /\ Len(q) \in Nat /\ \A i \in DOMAIN q : q[i] \in S
  OBVIOUS
<1>2. s \in Seq(S) /\ Len(s) = Len(q)
  <2>1. CASE p \in 1..Len(q)
    BY <2>1, ExceptSeq
  <2>2. CASE p \notin 1..Len(q)
    <3>1. s = q
      BY <2>2, <1>1
    <3> QED  BY <3>1
  <2> QED  BY <2>1, <2>2
<1>3. Elems(s) \subseteq Elems(q) \cup {x}
  BY <1>1 DEF Elems
<1>4. Distinct(q) /\ x \notin Elems(q) => Distinct(s)
  BY <1>1 DEF Elems, Distinct
<1> QED  BY <1>2, <1>3, <1>4

(***************************************************************************)
(* Enqueue keeps the queue within its capacity, adds no job but the new    *)
(* one and never duplicates a job.                                         *)
(***************************************************************************)
THEOREM EnqueuedFacts ==
  ASSUME NEW S, NEW q \in Seq(S), NEW j \in S, NEW watchOf,
         NEW cap \in Nat \ {0}, Len(q) <= cap
  PROVE  /\ Enqueued(q, j, watchOf, cap) \in Seq(S)
         /\ Len(Enqueued(q, j, watchOf, cap)) <= cap
         /\ Elems(Enqueued(q, j, watchOf, cap)) \subseteq Elems(q) \cup {j}
         /\ Distinct(q) /\ j \notin Elems(q) => Distinct(Enqueued(q, j, watchOf, cap))
<1> DEFINE r == Enqueued(q, j, watchOf, cap)
<1>1. Len(q) \in Nat
  OBVIOUS
<1>2. CASE Len(q) < cap
  <2>1. r = Append(q, j)
    BY <1>2 DEF Enqueued
  <2> QED  BY <2>1, <1>1, <1>2, AppendElems
<1>3. CASE ~(Len(q) < cap) /\ SameWatch(q, j, watchOf) # {}
  <2> DEFINE m == Min(SameWatch(q, j, watchOf))
  <2>1. r = [q EXCEPT ![m] = j]
    BY <1>3 DEF Enqueued
  <2> HIDE DEF m
  <2>2. /\ [q EXCEPT ![m] = j] \in Seq(S)
        /\ Len([q EXCEPT ![m] = j]) = Len(q)
        /\ Elems([q EXCEPT ![m] = j]) \subseteq Elems(q) \cup {j}
        /\ Distinct(q) /\ j \notin Elems(q) => Distinct([q EXCEPT ![m] = j])
    BY ExceptElems
  <2> QED  BY <2>1, <2>2
<1>4. CASE ~(Len(q) < cap) /\ SameWatch(q, j, watchOf) = {}
  <2>1. r = Append(Tail(q), j)
    BY <1>4 DEF Enqueued
  <2>2. q # <<>>
    BY <1>4, <1>1
  <2>3. /\ Tail(q) \in Seq(S) /\ Len(Tail(q)) = Len(q) - 1
        /\ Elems(Tail(q)) \subseteq Elems(q)
        /\ Distinct(q) => Distinct(Tail(q))
    BY <2>2, TailElems
  <2>4. /\ Append(Tail(q), j) \in Seq(S)
        /\ Len(Append(Tail(q), j)) = Len(Tail(q)) + 1
        /\ Elems(Append(Tail(q), j)) = Elems(Tail(q)) \cup {j}
        /\ Distinct(Tail(q)) /\ j \notin Elems(Tail(q)) => Distinct(Append(Tail(q), j))
    BY <2>3, AppendElems
  <2>5. Len(Append(Tail(q), j)) <= cap
    BY <2>3, <2>4, <1>1
  <2> QED  BY <2>1, <2>3, <2>4, <2>5
<1> QED  BY <1>2, <1>3, <1>4

(***************************************************************************)
(* The loop of Enqueue stops at a queued job of the watch if there is one  *)
(* (queue.go:37-42).                                                       *)
(***************************************************************************)
LEMMA FirstSameWatch ==
  ASSUME NEW S, NEW q \in Seq(S), NEW j, NEW watchOf, SameWatch(q, j, watchOf) # {}
  PROVE  Min(SameWatch(q, j, watchOf)) \in SameWatch(q, j, watchOf)
<1> DEFINE P == SameWatch(q, j, watchOf)
           less == {ss \in Nat \X Nat : ss[1] < ss[2]}
<1>1. P \in SUBSET Nat /\ P # {}
  BY DEF SameWatch
<1> HIDE DEF P
<1>2. IsWellFoundedOn(less, Nat)
  BY NatLessThanWellFounded, Zenon DEF OpToRel
<1>3. PICK x \in P : \A y \in P : ~(<<y, x>> \in less)
  BY <1>1, <1>2, WFMin
<1>4. ASSUME NEW y \in P  PROVE x <= y
  <2>1. y < x => <<y, x>> \in less
    BY <1>1
  <2>2. ~(y < x)
    BY <1>3, <2>1, Zenon
  <2> QED  BY <1>1, <2>2
<1>5. Min(P) \in P
  BY <1>3, <1>4 DEF Min
<1> QED  BY <1>5 DEF P

(***************************************************************************)
(* What Enqueue drops: nothing while there is room; in a full queue the    *)
(* job it overwrites, of the newcomer's watch, or, without one, the oldest *)
(* (queue.go:31-46).                                                       *)
(***************************************************************************)
THEOREM EnqueuedLoses ==
  ASSUME NEW S, NEW q \in Seq(S), NEW j \in S, NEW watchOf,
         NEW cap \in Nat \ {0}, Len(q) <= cap, j \notin Elems(q), NEW x \in Elems(q)
  PROVE  \/ x \in Elems(Enqueued(q, j, watchOf, cap))
         \/ /\ Len(q) = cap
            /\ j \in Elems(Enqueued(q, j, watchOf, cap))
            /\ \/ watchOf[j] = watchOf[x]
               \/ x = Head(q) /\ SameWatch(q, j, watchOf) = {}
<1> DEFINE r == Enqueued(q, j, watchOf, cap)
<1> DEFINE n == Len(q)
<1>1. n \in Nat /\ n <= cap /\ cap \in Nat /\ DOMAIN q = 1..n /\ (n > 0 => q # <<>> /\ Head(q) = q[1])
  OBVIOUS
<1>2. ~(n < cap) => n = cap
  <2> HIDE DEF n
  <2> QED  BY <1>1
<1>3. PICK i \in DOMAIN q : x = q[i]
  BY DEF Elems
<1>4. CASE Len(q) < cap
  <2>1. r = Append(q, j)
    BY <1>4 DEF Enqueued
  <2> QED  BY <2>1, AppendElems
<1>5. CASE ~(Len(q) < cap) /\ SameWatch(q, j, watchOf) # {}
  <2> DEFINE m == Min(SameWatch(q, j, watchOf))
  <2>1. r = [q EXCEPT ![m] = j]
    BY <1>5 DEF Enqueued
  <2>2. m \in SameWatch(q, j, watchOf)
    BY <1>5, FirstSameWatch
  <2> HIDE DEF m, r
  <2>3. m \in DOMAIN q /\ watchOf[q[m]] = watchOf[j]
    BY <2>2 DEF SameWatch
  <2>4. DOMAIN r = DOMAIN q /\ r[m] = j /\ (i # m => r[i] = x)
    BY <1>3, <2>1, <2>3
  <2>5. j \in Elems(r) /\ (i # m => x \in Elems(r))
    BY <1>3, <2>3, <2>4 DEF Elems
  <2>6. Len(q) = cap
    BY <1>2, <1>5
  <2>7. CASE i # m
    BY <2>5, <2>7 DEF r
  <2>8. CASE i = m
    BY <1>3, <2>5, <2>3, <2>6, <2>8 DEF r
  <2> QED  BY <2>7, <2>8
<1>6. CASE ~(Len(q) < cap) /\ SameWatch(q, j, watchOf) = {}
  <2>1. r = Append(Tail(q), j) /\ q # <<>>
    BY <1>1, <1>6 DEF Enqueued
  <2>2. Tail(q) \in Seq(S)
    BY <2>1
  <2>3. Elems(r) = Elems(Tail(q)) \cup {j}
    BY <2>1, <2>2, AppendElems
  <2>4. CASE i = 1
    <3>1. n > 0
      BY <1>1, <1>3, <2>4
    <3>2. x = Head(q) /\ Len(q) = cap
      BY <1>1, <1>3, <1>6, <1>2, <2>4, <3>1
    <3> QED  BY <1>6, <2>3, <3>2
  <2>5. CASE i # 1
    <3>1. i - 1 \in 1..(Len(q) - 1) /\ (i - 1) + 1 = i
      BY <1>1, <2>5
    <3>2. i - 1 \in DOMAIN Tail(q) /\ Tail(q)[i - 1] = x
      BY <1>1, <1>3, <2>1, <3>1
    <3> QED  BY <2>3, <3>2 DEF Elems
  <2> QED  BY <2>4, <2>5
<1> QED  BY <1>4, <1>5, <1>6
===============================================================================
