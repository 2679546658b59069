--------------------------- MODULE OperatorLemmas --------------------------
(***************************************************************************)
(* Lemmas about the operators the models are built from: those of the turn *)
(* clock, and those on sequences the loop and the queues are written with. *)
(***************************************************************************)
EXTENDS TurnOps, Subsequences, SequencesExt, TLAPS, FiniteSetTheorems,
        SequenceTheorems, WellFoundedInduction

\* A nonempty set of naturals has a least element.
LEMMA LeastNat ==
  ASSUME NEW S \in SUBSET Nat, S # {}
  PROVE  \E m \in S : \A k \in S : m <= k
<1>1. PICK m \in S : \A k \in S : ~ (<<k, m>> \in OpToRel(<, Nat))
  BY NatLessThanWellFounded, WFMin
<1>2. ASSUME NEW k \in S PROVE m <= k
  <2>1. k \in Nat /\ m \in Nat
    BY <1>1
  <2>2. ~ (k < m)
    BY <1>1, <2>1 DEF OpToRel
  <2> QED BY <2>1, <2>2
<1> QED BY <1>1, <1>2

\* The loop of advanceTurnClock stops at the first id that is not cancelled.
LEMMA FirstNotCancelledProps ==
  ASSUME NEW n \in Nat, NEW C \in SUBSET Nat, IsFiniteSet(C)
  PROVE  LET m == FirstNotCancelled(n, C) IN
         /\ m \in Nat /\ m >= n /\ m \notin C
         /\ \A k \in n .. (m - 1) : k \in C
<1> DEFINE R == n .. (n + Cardinality(C))
           m == FirstNotCancelled(n, C)
<1>1. Cardinality(C) \in Nat
  BY FS_CardinalityType
<1>2. IsFiniteSet(R) /\ Cardinality(R) = Cardinality(C) + 1
  BY <1>1, FS_Interval, SMTT(30)
<1>3. R \ C # {}
  <2> SUFFICES ASSUME R \subseteq C PROVE FALSE
    OBVIOUS
  <2>1. Cardinality(R) <= Cardinality(C)
    BY FS_Subset
  <2> QED BY <1>1, <1>2, <2>1
<1>4. R \ C \in SUBSET Nat
  BY <1>1
<1>5. PICK l \in R \ C : \A k \in R \ C : l <= k
  BY <1>3, <1>4, LeastNat
<1>6. m \in R \ C /\ \A k \in R \ C : m <= k
  BY <1>5 DEF FirstNotCancelled, Min
<1>7. m \in Nat /\ m >= n /\ m \notin C
  BY <1>1, <1>6
<1>8. ASSUME NEW k \in n .. (m - 1) PROVE k \in C
  BY <1>1, <1>6, <1>7
<1> QED BY <1>7, <1>8

\* Nothing else can be that id.
LEMMA FirstNotCancelledUnique ==
  ASSUME NEW n \in Nat, NEW C \in SUBSET Nat, IsFiniteSet(C),
         NEW m \in Nat, m >= n, m \notin C, \A k \in n .. (m - 1) : k \in C
  PROVE  FirstNotCancelled(n, C) = m
<1> DEFINE f == FirstNotCancelled(n, C)
<1>1. /\ f \in Nat /\ f >= n /\ f \notin C
      /\ \A k \in n .. (f - 1) : k \in C
  BY FirstNotCancelledProps
<1>2. ~ (f < m)
  <2> SUFFICES ASSUME f < m PROVE FALSE
    OBVIOUS
  <2>1. f \in n .. (m - 1)
    BY <1>1
  <2> QED BY <1>1, <2>1
<1>3. ~ (m < f)
  <2> SUFFICES ASSUME m < f PROVE FALSE
    OBVIOUS
  <2>1. m \in n .. (f - 1)
    BY <1>1
  <2> QED BY <1>1, <2>1
<1> HIDE DEF f
<1>4. f = m
  BY <1>1, <1>2, <1>3
<1> QED BY <1>4 DEF f

\* advanceTurnClock moves to an id that is not cancelled, over ids that all
\* are, and keeps exactly the cancellations ahead of it.
LEMMA AdvanceTurnClockProps ==
  ASSUME NEW n \in Nat, NEW C \in SUBSET Nat, IsFiniteSet(C)
  PROVE  LET c == AdvanceTurnClock(n, C) IN
         /\ c \in TurnClockState
         /\ IsFiniteSet(c.cancelled)
         /\ c.next >= n
         /\ c.next \notin C
         /\ \A k \in n .. (c.next - 1) : k \in C
         /\ c.cancelled = {id \in C : id > c.next}
<1> DEFINE A == {id \in C : id >= n}
           f == FirstNotCancelled(n, A)
           K == {id \in A : id > f}
<1>1. A \in SUBSET Nat /\ IsFiniteSet(A)
  BY FS_Subset
<1>2. /\ f \in Nat /\ f >= n /\ f \notin A
      /\ \A k \in n .. (f - 1) : k \in A
  BY <1>1, FirstNotCancelledProps
<1>3. K \in SUBSET Nat /\ IsFiniteSet(K)
  BY <1>1, FS_Subset
<1>4. AdvanceTurnClock(n, C) = [next |-> f, cancelled |-> K]
  BY DEF AdvanceTurnClock
<1> HIDE DEF f
<1>5. K = {id \in C : id > f}
  <2>1. ASSUME NEW id \in C, id > f PROVE id >= n
    BY <1>2, <2>1
  <2> QED BY <2>1
<1>6. f \notin C
  BY <1>2
<1> HIDE DEF K
<1> QED BY <1>2, <1>3, <1>4, <1>5, <1>6 DEF TurnClockState, A

-----------------------------------------------------------------------------

\* Taking one element out of a list keeps the others, in their order.
LEMMA RemoveAtProps ==
  ASSUME NEW T, NEW s \in Seq(T), NEW k \in 1 .. Len(s)
  PROVE  LET r == RemoveAt(s, k) IN
         /\ r \in Seq(T)
         /\ Len(r) = Len(s) - 1
         /\ \A i \in 1 .. (k - 1) : r[i] = s[i]
         /\ \A i \in k .. (Len(s) - 1) : r[i] = s[i + 1]
<1> DEFINE a == SubSeq(s, 1, k - 1)
           b == SubSeq(s, k + 1, Len(s))
<1>1. Len(s) \in Nat /\ k \in Nat /\ 1 <= k /\ k <= Len(s)
  OBVIOUS
<1>2. /\ a \in Seq(T) /\ Len(a) = k - 1
      /\ \A i \in 1 .. (k - 1) : a[i] = s[i]
  BY <1>1
<1>3. /\ b \in Seq(T) /\ Len(b) = Len(s) - k
      /\ \A i \in 1 .. (Len(s) - k) : b[i] = s[i + k]
  BY <1>1
<1> HIDE DEF a, b
<1>4. /\ a \o b \in Seq(T) /\ Len(a \o b) = Len(s) - 1
      /\ \A i \in 1 .. (k - 1) : (a \o b)[i] = a[i]
      /\ \A i \in k .. (Len(s) - 1) : (a \o b)[i] = b[i - (k - 1)]
  <2>1. /\ a \o b \in Seq(T) /\ Len(a \o b) = Len(a) + Len(b)
        /\ \A i \in 1 .. (Len(a) + Len(b)) :
             (a \o b)[i] = IF i <= Len(a) THEN a[i] ELSE b[i - Len(a)]
    BY <1>2, <1>3, ConcatProperties
  <2>2. Len(a) + Len(b) = Len(s) - 1
    BY <1>1, <1>2, <1>3
  <2>3. ASSUME NEW i \in 1 .. (k - 1) PROVE (a \o b)[i] = a[i]
    BY <1>1, <1>2, <2>1, <2>2
  <2>4. ASSUME NEW i \in k .. (Len(s) - 1) PROVE (a \o b)[i] = b[i - (k - 1)]
    BY <1>1, <1>2, <2>1, <2>2
  <2> QED BY <2>1, <2>2, <2>3, <2>4
<1>5. \A i \in k .. (Len(s) - 1) : b[i - (k - 1)] = s[i + 1]
  <2> TAKE i \in k .. (Len(s) - 1)
  <2>1. i - (k - 1) \in 1 .. (Len(s) - k) /\ (i - (k - 1)) + k = i + 1
    BY <1>1
  <2> QED BY <1>3, <2>1
<1>6. RemoveAt(s, k) = a \o b
  BY DEF RemoveAt, a, b
<1> QED BY <1>2, <1>4, <1>5, <1>6

\* The clock stays a clock, whatever is prompted or cancelled.
LEMMA PromptTurnType ==
  ASSUME NEW c \in TurnClockState, IsFiniteSet(c.cancelled)
  PROVE  PromptTurn(c) \in TurnClockState /\ IsFiniteSet(PromptTurn(c).cancelled)
<1>1. c.next + 1 \in Nat /\ c.cancelled \in SUBSET Nat
  BY DEF TurnClockState
<1> QED BY <1>1, AdvanceTurnClockProps DEF PromptTurn

LEMMA CancelQueuedTurnsType ==
  ASSUME NEW c \in TurnClockState, IsFiniteSet(c.cancelled),
         NEW S \in SUBSET Nat, IsFiniteSet(S)
  PROVE  /\ CancelQueuedTurns(c, S) \in TurnClockState
         /\ IsFiniteSet(CancelQueuedTurns(c, S).cancelled)
<1> DEFINE ids == {id \in S : id >= c.next}
<1>1. c.next \in Nat /\ c.cancelled \in SUBSET Nat
  BY DEF TurnClockState
<1>2. ids \subseteq S
  OBVIOUS
<1>3. IsFiniteSet(ids)
  BY <1>2, FS_Subset
<1>4. c.cancelled \cup ids \in SUBSET Nat /\ IsFiniteSet(c.cancelled \cup ids)
  BY <1>1, <1>2, <1>3, FS_Union
<1>5. CancelQueuedTurns(c, S) = AdvanceTurnClock(c.next, c.cancelled \cup ids)
  BY DEF CancelQueuedTurns
<1> HIDE DEF ids
<1> QED BY <1>1, <1>4, <1>5, AdvanceTurnClockProps

\* The larger of two numbers.
LEMMA MaxOfTwo ==
  ASSUME NEW a \in Nat, NEW b \in Nat
  PROVE  Max({a, b}) = IF a >= b THEN a ELSE b
<1> DEFINE S == {a, b}
           v == IF a >= b THEN a ELSE b
<1>1. v \in S /\ \A y \in S : v >= y
  OBVIOUS
<1>2. ASSUME NEW x \in S, \A y \in S : x >= y PROVE x = v
  BY <1>1, <1>2
<1>3. Max(S) = CHOOSE x \in S : \A y \in S : x >= y
  BY DEF Max
<1> HIDE DEF S, v
<1>4. Max(S) = v
  BY <1>1, <1>2, <1>3
<1> QED
  BY <1>4 DEF S, v

-----------------------------------------------------------------------------
\* What a filter keeps of a list.

\* Counting from the left numbers a finite set of positions from 1 up.
LEMMA NthProps ==
  ASSUME NEW n \in Nat, NEW K \in SUBSET (1 .. n)
  PROVE  /\ Cardinality(K) \in Nat
         /\ \A j \in 1 .. Cardinality(K) : Nth(K, j) \in K
         /\ \A i, j \in 1 .. Cardinality(K) : i < j => Nth(K, i) < Nth(K, j)
         /\ \A k \in K : \E j \in 1 .. Cardinality(K) : Nth(K, j) = k
<1> DEFINE c == Cardinality(K)
           upTo(i) == {k \in K : k <= i}
           rank == [i \in K |-> Cardinality(upTo(i))]
<1>1. IsFiniteSet(K) /\ c \in Nat
  <2>1. IsFiniteSet(1 .. n)
    BY FS_Interval
  <2>2. IsFiniteSet(K)
    BY <2>1, FS_Subset
  <2> QED BY <2>2, FS_CardinalityType
<1>2. ASSUME NEW i \in K
      PROVE  IsFiniteSet(upTo(i)) /\ rank[i] \in 1 .. c
  <2>1. IsFiniteSet(upTo(i)) /\ Cardinality(upTo(i)) <= c
    BY <1>1, FS_Subset
  <2>2. upTo(i) # {} /\ Cardinality(upTo(i)) \in Nat
    BY <2>1, FS_CardinalityType
  <2>3. Cardinality(upTo(i)) # 0
    BY <2>1, <2>2, FS_EmptySet
  <2> QED BY <1>1, <2>1, <2>2, <2>3
<1>3. ASSUME NEW i \in K, NEW k \in K, i < k
      PROVE  rank[i] < rank[k]
  <2>1. upTo(i) \subseteq upTo(k) /\ k \in upTo(k) /\ k \notin upTo(i)
    <3>1. i \in Int /\ k \in Int /\ \A l \in K : l \in Int
      OBVIOUS
    <3>2. ASSUME NEW l \in upTo(i) PROVE l \in upTo(k)
      BY <1>3, <3>1
    <3>3. k \in upTo(k) /\ k \notin upTo(i)
      BY <1>3, <3>1
    <3> QED BY <3>2, <3>3
  <2>2. Cardinality(upTo(i)) <= Cardinality(upTo(k))
    BY <1>2, <2>1, FS_Subset
  <2>3. Cardinality(upTo(i)) # Cardinality(upTo(k))
    BY <1>2, <2>1, FS_Subset
  <2>4. rank[i] \in Int /\ rank[k] \in Int
    BY <1>2
  <2> QED BY <2>2, <2>3, <2>4
<1>4. rank \in Injection(K, 1 .. c)
  <2>1. rank \in [K -> 1 .. c]
    BY <1>2
  <2>2. ASSUME NEW i \in K, NEW k \in K, rank[i] = rank[k] PROVE i = k
    <3>1. ~ (i < k) /\ ~ (k < i)
      BY <1>2, <1>3, <2>2
    <3> QED BY <3>1
  <2> HIDE DEF rank
  <2> QED BY <2>1, <2>2 DEF Injection, IsInjective
<1>5. IsFiniteSet(1 .. c) /\ Cardinality(1 .. c) = c
  BY <1>1, FS_Interval
<1>6. rank \in Surjection(K, 1 .. c)
  <2> HIDE DEF rank
  <2> QED BY <1>4, <1>5, FS_Injection
<1>7. ASSUME NEW j \in 1 .. c
      PROVE  Nth(K, j) \in K /\ rank[Nth(K, j)] = j
  <2>1. \E i \in K : rank[i] = j
    BY <1>6 DEF Surjection
  <2>2. \E i \in K : Cardinality({k \in K : k <= i}) = j
    BY <2>1
  <2>3. Nth(K, j) \in K /\ Cardinality({k \in K : k <= Nth(K, j)}) = j
    BY <2>2 DEF Nth
  <2> QED BY <2>3
<1>8. ASSUME NEW k \in K PROVE Nth(K, rank[k]) = k /\ rank[k] \in 1 .. c
  <2>1. rank[k] \in 1 .. c
    BY <1>2
  <2>2. Nth(K, rank[k]) \in K /\ rank[Nth(K, rank[k])] = rank[k]
    BY <1>7, <2>1
  <2>3. DOMAIN rank = K
    OBVIOUS
  <2> HIDE DEF rank
  <2>4. \A i, l \in K : rank[i] = rank[l] => i = l
    BY <1>4, <2>3 DEF Injection, IsInjective
  <2>5. Nth(K, rank[k]) = k
    BY <2>2, <2>4
  <2> QED BY <2>1, <2>5
<1>9. ASSUME NEW i \in 1 .. c, NEW j \in 1 .. c, i < j
      PROVE  Nth(K, i) < Nth(K, j)
  <2>1. /\ Nth(K, i) \in K /\ rank[Nth(K, i)] = i
        /\ Nth(K, j) \in K /\ rank[Nth(K, j)] = j
    BY <1>7
  <2>2. ~ (Nth(K, j) < Nth(K, i)) /\ Nth(K, i) # Nth(K, j)
    <3>1. \A k, l \in K : k < l => rank[k] < rank[l]
      BY <1>3
    <3> HIDE DEF rank
    <3> DEFINE a == Nth(K, i)
               b == Nth(K, j)
    <3>2. a \in K /\ rank[a] = i /\ b \in K /\ rank[b] = j
      BY <2>1
    <3> HIDE DEF a, b
    <3>3. ~ (b < a) /\ a # b
      BY <1>9, <3>1, <3>2
    <3> QED BY <3>3 DEF a, b
  <2>3. \A k \in K : k \in Int
    OBVIOUS
  <2>4. Nth(K, i) \in Int /\ Nth(K, j) \in Int
    <3> HIDE DEF rank
    <3> QED BY <2>1, <2>3
  <2> QED BY <2>2, <2>4
<1> HIDE DEF rank
<1> QED BY <1>1, <1>7, <1>8, <1>9

\* A subsequence has the elements at the chosen positions, in their order.
LEMMA SubsequenceProps ==
  ASSUME NEW T, NEW s \in Seq(T), NEW K \in SUBSET (DOMAIN s)
  PROVE  LET r == Subsequence(s, K) IN
         /\ r \in Seq(T) /\ Len(r) = Cardinality(K) /\ DOMAIN r = 1 .. Cardinality(K)
         /\ Cardinality(K) \in Nat
         /\ \A j \in DOMAIN r : Nth(K, j) \in K /\ r[j] = s[Nth(K, j)]
         /\ \A i, j \in DOMAIN r : i < j => Nth(K, i) < Nth(K, j)
         /\ ToSet(r) = {s[k] : k \in K}
<1> DEFINE r == Subsequence(s, K)
           c == Cardinality(K)
<1>1. Len(s) \in Nat /\ DOMAIN s = 1 .. Len(s)
  OBVIOUS
<1>2. /\ c \in Nat
      /\ \A j \in 1 .. c : Nth(K, j) \in K
      /\ \A i, j \in 1 .. c : i < j => Nth(K, i) < Nth(K, j)
      /\ \A k \in K : \E j \in 1 .. c : Nth(K, j) = k
  BY <1>1, NthProps
<1>3. r = [j \in 1 .. c |-> s[Nth(K, j)]]
  BY DEF Subsequence
<1> HIDE DEF r, c
<1>4. \A j \in 1 .. c : s[Nth(K, j)] \in T
  BY <1>2
<1>5. r \in Seq(T) /\ Len(r) = c /\ DOMAIN r = 1 .. c
  BY <1>2, <1>3, <1>4
<1>6. ToSet(r) = {s[k] : k \in K}
  <2>1. ASSUME NEW j \in 1 .. c PROVE r[j] \in {s[k] : k \in K}
    BY <1>2, <1>3
  <2>2. ASSUME NEW k \in K PROVE \E j \in 1 .. c : r[j] = s[k]
    BY <1>2, <1>3
  <2> QED BY <1>5, <2>1, <2>2 DEF ToSet
<1> QED BY <1>2, <1>3, <1>5, <1>6 DEF r, c

\* What a filter leaves: the other members, none twice that was not.
LEMMA WithoutProps ==
  ASSUME NEW T, NEW s \in Seq(T), NEW S
  PROVE  LET r == Without(s, S) IN
         /\ r \in Seq(T)
         /\ ToSet(r) = ToSet(s) \ S
         /\ IsInjective(s) => IsInjective(r)
<1> DEFINE K == {i \in DOMAIN s : s[i] \notin S}
           r == Without(s, S)
<1>1. r = Subsequence(s, K)
  BY DEF Without
<1>2. /\ r \in Seq(T) /\ DOMAIN r = 1 .. Cardinality(K)
      /\ Cardinality(K) \in Nat
      /\ \A j \in DOMAIN r : Nth(K, j) \in K /\ r[j] = s[Nth(K, j)]
      /\ \A i, j \in DOMAIN r : i < j => Nth(K, i) < Nth(K, j)
      /\ ToSet(r) = {s[k] : k \in K}
  <2>1. K \in SUBSET (DOMAIN s)
    OBVIOUS
  <2> HIDE DEF r, K
  <2> QED BY <1>1, <2>1, SubsequenceProps
<1> HIDE DEF r
<1>3. ToSet(r) = ToSet(s) \ S
  BY <1>2 DEF ToSet
<1>4. ASSUME IsInjective(s) PROVE IsInjective(r)
  <2> SUFFICES ASSUME NEW i \in DOMAIN r, NEW j \in DOMAIN r, r[i] = r[j]
               PROVE  i = j
    BY DEF IsInjective
  <2>1. Nth(K, i) = Nth(K, j)
    BY <1>2, <1>4 DEF IsInjective
  <2>2. Nth(K, i) \in Int /\ Nth(K, j) \in Int
    BY <1>2
  <2>3. ~ (i < j) /\ ~ (j < i)
    <3> HIDE DEF K
    <3> QED BY <1>2, <2>1, <2>2
  <2>4. i \in Int /\ j \in Int
    BY <1>2
  <2> QED BY <2>3, <2>4
<1> QED BY <1>2, <1>3, <1>4 DEF r

-----------------------------------------------------------------------------
\* Lists in which nothing occurs twice.

LEMMA EmptyListProps ==
  ASSUME NEW T
  PROVE  << >> \in Seq(T) /\ ToSet(<< >>) = {} /\ IsInjective(<< >>)
  BY DEF ToSet, IsInjective

LEMMA AppendProps ==
  ASSUME NEW T, NEW s \in Seq(T), NEW e \in T
  PROVE  LET r == Append(s, e) IN
         /\ r \in Seq(T) /\ r # << >>
         /\ ToSet(r) = ToSet(s) \cup {e}
         /\ IsInjective(s) /\ e \notin ToSet(s) => IsInjective(r)
         /\ Head(r) = IF s = << >> THEN e ELSE s[1]
<1> DEFINE r == Append(s, e)
           n == Len(s)
<1>1. n \in Nat /\ DOMAIN s = 1 .. n
  OBVIOUS
<1>2. r \in Seq(T) /\ DOMAIN r = 1 .. (n + 1) /\ r # << >>
  BY <1>1
<1>3. \A i \in 1 .. n : r[i] = s[i]
  BY <1>1
<1>4. r[n + 1] = e
  BY <1>1
<1>5. Head(r) = r[1]
  BY <1>2
<1>6. s = << >> <=> n = 0
  BY <1>1
<1>7. \A i \in 1 .. n : i + 1 # 1 /\ i # n + 1 /\ i \in 1 .. (n + 1)
  BY <1>1
<1>8. \A i \in 1 .. (n + 1) : i \in 1 .. n \/ i = n + 1
  BY <1>1
<1>9. n + 1 \in 1 .. (n + 1) /\ (n # 0 => 1 \in 1 .. n)
  BY <1>1
<1> HIDE DEF r, n
<1>10. ToSet(r) = ToSet(s) \cup {e}
  BY <1>1, <1>2, <1>3, <1>4, <1>7, <1>8, <1>9 DEF ToSet
<1>11. ASSUME IsInjective(s), e \notin ToSet(s) PROVE IsInjective(r)
  <2>1. \A i, j \in 1 .. n : s[i] = s[j] => i = j
    BY <1>1, <1>11 DEF IsInjective
  <2>2. \A i \in 1 .. n : s[i] # e
    BY <1>1, <1>11 DEF ToSet
  <2> SUFFICES ASSUME NEW i \in 1 .. (n + 1), NEW j \in 1 .. (n + 1), r[i] = r[j]
               PROVE  i = j
    BY <1>2 DEF IsInjective
  <2> QED BY <1>3, <1>4, <1>8, <2>1, <2>2
<1>12. Head(r) = IF s = << >> THEN e ELSE s[1]
  <2>1. CASE n = 0
    BY <1>4, <1>5, <1>6, <2>1
  <2>2. CASE n # 0
    BY <1>3, <1>5, <1>6, <1>9, <2>2
  <2> QED BY <2>1, <2>2
<1> QED BY <1>2, <1>10, <1>11, <1>12 DEF r

LEMMA HeadTailProps ==
  ASSUME NEW T, NEW s \in Seq(T), s # << >>
  PROVE  /\ Head(s) \in T /\ Head(s) \in ToSet(s) /\ Head(s) = s[1]
         /\ Tail(s) \in Seq(T)
         /\ ToSet(s) = {Head(s)} \cup ToSet(Tail(s))
         /\ IsInjective(s) => IsInjective(Tail(s)) /\ Head(s) \notin ToSet(Tail(s))
<1> DEFINE r == Tail(s)
           n == Len(s)
<1>1. n \in Nat /\ n >= 1 /\ DOMAIN s = 1 .. n
  OBVIOUS
<1>2. r \in Seq(T) /\ DOMAIN r = 1 .. (n - 1)
  BY <1>1
<1>3. \A i \in 1 .. (n - 1) : r[i] = s[i + 1]
  BY <1>1
<1>4. Head(s) = s[1] /\ s[1] \in T
  BY <1>1
<1>5. \A i \in 1 .. (n - 1) : i + 1 \in 1 .. n /\ i + 1 # 1
  BY <1>1
<1>6. \A i \in 1 .. n : i = 1 \/ (i - 1 \in 1 .. (n - 1) /\ (i - 1) + 1 = i)
  BY <1>1
<1>7. 1 \in 1 .. n /\ \A i, j \in 1 .. (n - 1) : i + 1 = j + 1 => i = j
  BY <1>1
<1> HIDE DEF r, n
<1>8. ToSet(s) = {s[1]} \cup ToSet(r)
  <2>1. ASSUME NEW x \in ToSet(s) PROVE x = s[1] \/ x \in ToSet(r)
    <3>1. PICK i \in 1 .. n : x = s[i]
      BY <1>1 DEF ToSet
    <3>2. CASE i = 1
      BY <3>1, <3>2
    <3>3. CASE i - 1 \in 1 .. (n - 1) /\ (i - 1) + 1 = i
      <4>1. r[i - 1] = s[i]
        BY <1>3, <3>3
      <4> QED BY <1>2, <3>1, <3>3, <4>1 DEF ToSet
    <3> QED BY <1>6, <3>2, <3>3
  <2>2. s[1] \in ToSet(s)
    BY <1>1, <1>7 DEF ToSet
  <2>3. ASSUME NEW x \in ToSet(r) PROVE x \in ToSet(s)
    BY <1>1, <1>2, <1>3, <1>5 DEF ToSet
  <2> QED BY <2>1, <2>2, <2>3
<1>9. ASSUME IsInjective(s) PROVE IsInjective(r) /\ s[1] \notin ToSet(r)
  <2>1. \A i, j \in 1 .. n : s[i] = s[j] => i = j
    BY <1>1, <1>9 DEF IsInjective
  <2>2. \A i, j \in 1 .. (n - 1) : r[i] = r[j] => i = j
    BY <1>3, <1>5, <1>7, <2>1
  <2>3. \A i \in 1 .. (n - 1) : r[i] # s[1]
    BY <1>3, <1>5, <1>7, <2>1
  <2> QED BY <1>2, <2>2, <2>3 DEF IsInjective, ToSet
<1> QED BY <1>2, <1>4, <1>7, <1>8, <1>9 DEF r

LEMMA ConcatProps ==
  ASSUME NEW T, NEW s \in Seq(T), NEW t \in Seq(T)
  PROVE  LET r == s \o t IN
         /\ r \in Seq(T)
         /\ ToSet(r) = ToSet(s) \cup ToSet(t)
         /\ IsInjective(s) /\ IsInjective(t) /\ ToSet(s) \cap ToSet(t) = {}
              => IsInjective(r)
<1> DEFINE r == s \o t
           n == Len(s)
           m == Len(t)
<1>1. /\ n \in Nat /\ m \in Nat
      /\ DOMAIN s = 1 .. n /\ DOMAIN t = 1 .. m
  OBVIOUS
<1>2. /\ r \in Seq(T) /\ Len(r) = n + m
      /\ \A i \in 1 .. (n + m) : r[i] = IF i <= n THEN s[i] ELSE t[i - n]
  BY ConcatProperties
<1>3. DOMAIN r = 1 .. (n + m)
  BY <1>2
<1>4. /\ \A i \in 1 .. n : i \in 1 .. (n + m) /\ r[i] = s[i]
      /\ \A i \in 1 .. m : n + i \in 1 .. (n + m) /\ r[n + i] = t[i]
  <2>1. ASSUME NEW i \in 1 .. n PROVE i \in 1 .. (n + m) /\ i <= n
    BY <1>1
  <2>2. ASSUME NEW i \in 1 .. m
        PROVE  n + i \in 1 .. (n + m) /\ ~ (n + i <= n) /\ (n + i) - n = i
    BY <1>1
  <2> HIDE DEF r, n, m
  <2> QED BY <1>2, <2>1, <2>2
<1>5. \A i \in 1 .. (n + m) : i \in 1 .. n \/ \E j \in 1 .. m : i = n + j
  <2> TAKE i \in 1 .. (n + m)
  <2>1. i \in 1 .. n \/ (i - n \in 1 .. m /\ i = n + (i - n))
    BY <1>1
  <2> QED BY <2>1
<1> HIDE DEF r, n, m
<1>6. ToSet(r) = ToSet(s) \cup ToSet(t)
  <2>1. ASSUME NEW x \in ToSet(r) PROVE x \in ToSet(s) \cup ToSet(t)
    <3>1. PICK i \in 1 .. (n + m) : x = r[i]
      BY <1>3 DEF ToSet
    <3>2. CASE i \in 1 .. n
      BY <1>1, <1>4, <3>1, <3>2 DEF ToSet
    <3>3. CASE \E j \in 1 .. m : i = n + j
      <4>1. PICK j \in 1 .. m : x = t[j]
        BY <1>4, <3>1, <3>3
      <4> QED BY <1>1, <4>1 DEF ToSet
    <3> QED BY <1>5, <3>2, <3>3
  <2>2. ASSUME NEW x \in ToSet(s) PROVE x \in ToSet(r)
    BY <1>1, <1>3, <1>4 DEF ToSet
  <2>3. ASSUME NEW x \in ToSet(t) PROVE x \in ToSet(r)
    BY <1>1, <1>3, <1>4 DEF ToSet
  <2> QED BY <2>1, <2>2, <2>3
<1>7. ASSUME IsInjective(s), IsInjective(t), ToSet(s) \cap ToSet(t) = {}
      PROVE  IsInjective(r)
  <2>1. /\ \A i, j \in 1 .. n : s[i] = s[j] => i = j
        /\ \A i, j \in 1 .. m : t[i] = t[j] => i = j
    BY <1>1, <1>7 DEF IsInjective
  <2>2. \A i \in 1 .. n, j \in 1 .. m : s[i] # t[j]
    BY <1>1, <1>7 DEF ToSet
  <2> SUFFICES ASSUME NEW i \in 1 .. (n + m), NEW j \in 1 .. (n + m), r[i] = r[j]
               PROVE  i = j
    BY <1>3 DEF IsInjective
  <2> QED BY <1>4, <1>5, <2>1, <2>2
<1> QED BY <1>2, <1>6, <1>7 DEF r

LEMMA SubSeqProps ==
  ASSUME NEW T, NEW s \in Seq(T), NEW i \in Nat \ {0}, NEW j \in Nat, j <= Len(s)
  PROVE  /\ SubSeq(s, i, j) \in Seq(T)
         /\ ToSet(SubSeq(s, i, j)) = {s[k] : k \in i .. j}
<1> DEFINE r == SubSeq(s, i, j)
<1>1. CASE i <= j
  <2>1. /\ r \in Seq(T) /\ DOMAIN r = 1 .. (j - i + 1)
        /\ \A k \in 1 .. (j - i + 1) : r[k] = s[k + i - 1]
    BY <1>1
  <2>2. ASSUME NEW x \in ToSet(r) PROVE \E k \in i .. j : x = s[k]
    <3>1. PICK k \in 1 .. (j - i + 1) : x = r[k]
      BY <2>1 DEF ToSet
    <3>2. k + i - 1 \in i .. j
      OBVIOUS
    <3> QED BY <2>1, <3>1, <3>2
  <2>3. ASSUME NEW k \in i .. j PROVE s[k] \in ToSet(r)
    <3>1. k - i + 1 \in 1 .. (j - i + 1) /\ (k - i + 1) + i - 1 = k
      OBVIOUS
    <3>2. r[k - i + 1] = s[k]
      BY <2>1, <3>1
    <3> QED BY <2>1, <3>1, <3>2 DEF ToSet
  <2>4. ToSet(r) = {s[k] : k \in i .. j}
    <3> HIDE DEF r
    <3> QED BY <2>2, <2>3
  <2> QED BY <2>1, <2>4
<1>2. CASE ~ (i <= j)
  <2>1. r \in Seq(T) /\ Len(r) = 0
    BY <1>2
  <2>2. r = << >> /\ i .. j = {}
    BY <1>2, <2>1
  <2>3. ToSet(r) = {s[k] : k \in i .. j}
    <3> HIDE DEF r
    <3>1. ToSet(r) = {}
      BY <2>2, EmptyListProps
    <3> QED BY <2>2, <3>1
  <2> QED BY <2>1, <2>3
<1> QED BY <1>1, <1>2

\* RemoveAt on a list without duplicates: everything else stays, once.
LEMMA RemoveAtInjective ==
  ASSUME NEW T, NEW s \in Seq(T), IsInjective(s), NEW k \in 1 .. Len(s)
  PROVE  LET r == RemoveAt(s, k) IN
         r \in Seq(T) /\ ToSet(r) = ToSet(s) \ {s[k]} /\ IsInjective(r)
<1> DEFINE r == RemoveAt(s, k)
           n == Len(s)
<1>1. n \in Nat /\ DOMAIN s = 1 .. n /\ k \in 1 .. n
  OBVIOUS
<1>2. /\ r \in Seq(T) /\ Len(r) = n - 1
      /\ \A i \in 1 .. (k - 1) : r[i] = s[i]
      /\ \A i \in k .. (n - 1) : r[i] = s[i + 1]
  BY RemoveAtProps
<1>3. DOMAIN r = 1 .. (n - 1)
  BY <1>1, <1>2
<1>4. \A i, j \in 1 .. n : s[i] = s[j] => i = j
  BY <1>1 DEF IsInjective
<1> HIDE DEF r, n
<1> DEFINE at == [i \in 1 .. (n - 1) |-> IF i < k THEN i ELSE i + 1]
<1>5. \A i \in 1 .. (n - 1) : at[i] \in 1 .. n /\ at[i] # k /\ r[i] = s[at[i]]
  BY <1>1, <1>2
<1>6. \A j \in 1 .. n : j # k => \E i \in 1 .. (n - 1) : at[i] = j
  <2> SUFFICES ASSUME NEW j \in 1 .. n, j # k PROVE \E i \in 1 .. (n - 1) : at[i] = j
    OBVIOUS
  <2>1. CASE j < k
    <3>1. j \in 1 .. (n - 1) /\ at[j] = j
      BY <1>1, <2>1
    <3> QED BY <3>1
  <2>2. CASE j > k
    <3>1. j - 1 \in 1 .. (n - 1) /\ ~ (j - 1 < k) /\ (j - 1) + 1 = j
      BY <1>1, <2>2
    <3>2. at[j - 1] = j
      BY <3>1
    <3> QED BY <3>1, <3>2
  <2> QED BY <1>1, <2>1, <2>2
<1>7. \A i, j \in 1 .. (n - 1) : at[i] = at[j] => i = j
  BY <1>1
<1> HIDE DEF at
<1>8. ToSet(r) = ToSet(s) \ {s[k]}
  <2>1. ASSUME NEW x \in ToSet(r) PROVE x \in ToSet(s) /\ x # s[k]
    <3>1. PICK i \in 1 .. (n - 1) : x = r[i]
      BY <1>3, <2>1 DEF ToSet
    <3>2. at[i] \in 1 .. n /\ at[i] # k /\ x = s[at[i]]
      BY <1>5, <3>1
    <3> QED BY <1>1, <1>4, <3>2 DEF ToSet
  <2>2. ASSUME NEW x \in ToSet(s), x # s[k] PROVE x \in ToSet(r)
    <3>1. PICK j \in 1 .. n : x = s[j]
      BY <1>1, <2>2 DEF ToSet
    <3>2. PICK i \in 1 .. (n - 1) : at[i] = j
      BY <1>6, <2>2, <3>1
    <3>3. x = r[i]
      BY <1>5, <3>1, <3>2
    <3> QED BY <1>3, <3>3 DEF ToSet
  <2> QED BY <2>1, <2>2
<1>9. IsInjective(r)
  BY <1>3, <1>4, <1>5, <1>7 DEF IsInjective
<1> QED BY <1>2, <1>8, <1>9 DEF r

\* In such a list, to take out one position is to take out its element.
LEMMA RemoveAtIsWithout ==
  ASSUME NEW T, NEW s \in Seq(T), IsInjective(s), NEW k \in 1 .. Len(s)
  PROVE  RemoveAt(s, k) = Without(s, {s[k]})
<1> DEFINE n == Len(s)
           K == {i \in DOMAIN s : s[i] \notin {s[k]}}
           r == RemoveAt(s, k)
<1>1. n \in Nat /\ DOMAIN s = 1 .. n /\ k \in 1 .. n
  OBVIOUS
<1>2. K = (1 .. n) \ {k}
  BY <1>1 DEF IsInjective
<1>3. /\ r \in Seq(T) /\ DOMAIN r = 1 .. (n - 1)
      /\ \A i \in 1 .. (k - 1) : r[i] = s[i]
      /\ \A i \in k .. (n - 1) : r[i] = s[i + 1]
  BY RemoveAtProps
<1> HIDE DEF n, K, r
<1>4. ASSUME NEW m \in Nat PROVE IsFiniteSet(1 .. m) /\ Cardinality(1 .. m) = m
  BY <1>4, FS_Interval
<1>5. ASSUME NEW m \in Nat, k \in 1 .. m PROVE Cardinality((1 .. m) \ {k}) = m - 1
  BY <1>4, <1>5, FS_RemoveElement
<1>6. ASSUME NEW i \in K
      PROVE  Cardinality({l \in K : l <= i}) = IF i < k THEN i ELSE i - 1
  <2>1. i \in Nat /\ i \in 1 .. n /\ i # k /\ k \in Nat
    BY <1>1, <1>2
  <2>2. CASE i < k
    <3>1. {l \in K : l <= i} = 1 .. i
      BY <1>1, <1>2, <2>1, <2>2
    <3> QED BY <1>4, <2>1, <2>2, <3>1
  <2>3. CASE ~ (i < k)
    <3>1. {l \in K : l <= i} = (1 .. i) \ {k} /\ k \in 1 .. i
      BY <1>1, <1>2, <2>1, <2>3
    <3> QED BY <1>5, <2>1, <2>3, <3>1
  <2> QED BY <2>2, <2>3
<1>7. ASSUME NEW j \in 1 .. (n - 1)
      PROVE  Nth(K, j) = IF j < k THEN j ELSE j + 1
  <2> DEFINE at == IF j < k THEN j ELSE j + 1
  <2>1. at \in K /\ \A i \in K : (IF i < k THEN i ELSE i - 1) = j <=> i = at
    BY <1>1, <1>2
  <2>2. \A i \in K : Cardinality({l \in K : l <= i}) = j <=> i = at
    BY <1>6, <2>1
  <2> HIDE DEF at
  <2>3. (CHOOSE i \in K : Cardinality({l \in K : l <= i}) = j) = at
    BY <2>1, <2>2
  <2>4. Nth(K, j) = at
    BY <2>3 DEF Nth
  <2> QED BY <2>4 DEF at
<1>8. Cardinality(K) = n - 1
  BY <1>1, <1>2, <1>5
<1>9. \A j \in 1 .. (n - 1) : r[j] = s[Nth(K, j)]
  <2> TAKE j \in 1 .. (n - 1)
  <2>1. Nth(K, j) = IF j < k THEN j ELSE j + 1
    BY <1>7
  <2> HIDE DEF K
  <2>2. j < k => j \in 1 .. (k - 1)
    BY <1>1
  <2>3. ~ (j < k) => j \in k .. (n - 1)
    BY <1>1
  <2> QED BY <1>3, <2>1, <2>2, <2>3
<1>10. r = [j \in 1 .. (n - 1) |-> r[j]]
  <2> DEFINE f == [j \in 1 .. (n - 1) |-> r[j]]
  <2>1. f \in Seq(T) /\ Len(f) = n - 1 /\ \A j \in 1 .. (n - 1) : f[j] = r[j]
    BY <1>1, <1>3
  <2>2. Len(r) = n - 1
    BY <1>1, <1>3
  <2> HIDE DEF f
  <2>3. r = f
    BY <1>3, <2>1, <2>2, SeqEqual
  <2> QED BY <2>3 DEF f
<1>11. r = [j \in 1 .. Cardinality(K) |-> s[Nth(K, j)]]
  BY <1>8, <1>9, <1>10
<1>12. Without(s, {s[k]}) = [j \in 1 .. Cardinality(K) |-> s[Nth(K, j)]]
  BY DEF Without, Subsequence, K
<1> QED BY <1>11, <1>12 DEF r

=============================================================================
