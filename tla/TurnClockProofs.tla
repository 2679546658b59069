-------------------------- MODULE TurnClockProofs --------------------------
(***************************************************************************)
(* Proofs about TurnClock: the engine, its TurnModel and the transcript's  *)
(* fold agree on the id of every turn that starts, for any number of turns *)
(* and cancellations, as long as no restart finds a cancelled reservation  *)
(* ahead of the clock.                                                     *)
(***************************************************************************)
EXTENDS TurnClock, OperatorLemmas

LEMMA ReservedTurnIdValue ==
  ASSUME TypeOK
  PROVE  ReservedTurnId = IF clock.next >= nextReserved THEN clock.next
                                                        ELSE nextReserved
<1>1. clock.next \in Nat /\ nextReserved \in Nat
  BY DEF TypeOK, TurnClockState
<1> QED BY <1>1, MaxOfTwo DEF ReservedTurnId

LEMMA InitClockInv == Init => ClockInv
<1> SUFFICES ASSUME Init PROVE ClockInv
  OBVIOUS
<1> USE DEF Init, InitialTurnClock
<1>1. TypeOK
  BY DEF TypeOK, TurnClockState, StartRecord
<1>2. IsFiniteSet({})
  BY FS_EmptySet
<1>3. ReservationsInv
  BY <1>2 DEF ReservationsInv
<1>4. FoldInv
  BY <1>2 DEF FoldInv
<1>5. StartedInv
  BY DEF StartedInv
<1> QED BY <1>1, <1>3, <1>4, <1>5 DEF ClockInv

LEMMA ReserveClockInv ==
  ASSUME ClockInv, Reserve
  PROVE  ClockInv'
<1> USE DEF ClockInv
<1> DEFINE id == ReservedTurnId
<1>1. /\ clock.next \in Nat /\ nextReserved \in Nat /\ id \in Nat
      /\ id >= clock.next /\ id >= nextReserved
      /\ id = clock.next \/ id = nextReserved
  BY ReservedTurnIdValue DEF TypeOK, TurnClockState
<1> HIDE DEF id
<1>2. /\ queued \in Seq(Nat)
      /\ queued' = Append(queued, id) /\ nextReserved' = id + 1
      /\ clock' = clock /\ fold' = fold /\ started' = started
  BY DEF Reserve, TypeOK, id
<1>3. TypeOK'
  BY <1>1, <1>2 DEF Reserve, TypeOK
<1>4. /\ Len(queued') = Len(queued) + 1
      /\ DOMAIN queued = 1 .. Len(queued) /\ Len(queued) \in Nat
      /\ DOMAIN queued' = 1 .. (Len(queued) + 1)
      /\ queued'[Len(queued) + 1] = id
      /\ \A i \in 1 .. Len(queued) : queued'[i] = queued[i] /\ queued[i] \in Nat
  BY <1>1, <1>2
<1>5. ReservationsInv'
  <2>1. \A c \in clock.cancelled : c \in Nat /\ clock.next < c /\ c < nextReserved
    BY DEF ReservationsInv, TypeOK, TurnClockState
  <2>2. \A c \in clock.cancelled : clock.next < c /\ c < id + 1 /\ c # id
    BY <1>1, <2>1
  <2>3. \A i \in DOMAIN queued' : /\ clock.next <= queued'[i]
                                  /\ queued'[i] < id + 1
                                  /\ queued'[i] \notin clock.cancelled
    BY <1>1, <1>4, <2>2 DEF ReservationsInv
  <2>4. \A i, j \in DOMAIN queued' : i < j => queued'[i] < queued'[j]
    BY <1>1, <1>4 DEF ReservationsInv
  <2>5. ASSUME NEW k \in clock.next .. ((id + 1) - 1)
        PROVE  k \in clock.cancelled \/ \E i \in DOMAIN queued' : queued'[i] = k
    <3>1. CASE k = id
      BY <3>1, <1>4
    <3>2. CASE k # id
      <4>1. k \in clock.next .. (nextReserved - 1)
        BY <1>1, <3>2
      <4> QED BY <4>1, <1>4 DEF ReservationsInv
    <3> QED BY <3>1, <3>2
  <2>6. IsFiniteSet(clock.cancelled)
    BY DEF ReservationsInv
  <2> QED BY <1>2, <2>2, <2>3, <2>4, <2>5, <2>6 DEF ReservationsInv
<1>6. FoldInv' /\ StartedInv'
  BY <1>2 DEF FoldInv, StartedInv
<1> QED BY <1>3, <1>5, <1>6

\* While a turn is queued, the head of the list is the id the clock shows.
LEMMA HeadIsNext ==
  ASSUME ClockInv, queued # << >>
  PROVE  Head(queued) = clock.next
<1> USE DEF ClockInv
<1>1. /\ queued \in Seq(Nat) /\ Len(queued) \in Nat /\ Len(queued) >= 1
      /\ DOMAIN queued = 1 .. Len(queued)
      /\ Head(queued) = queued[1] /\ queued[1] \in Nat
      /\ clock.next \in Nat /\ nextReserved \in Nat
  BY DEF TypeOK, TurnClockState
<1>2. clock.next <= queued[1] /\ queued[1] < nextReserved
  BY <1>1 DEF ReservationsInv
<1>3. clock.next \in clock.next .. (nextReserved - 1)
  BY <1>1, <1>2
<1>4. clock.next \notin clock.cancelled
  BY <1>1 DEF ReservationsInv
<1>5. PICK i \in DOMAIN queued : queued[i] = clock.next
  BY <1>3, <1>4 DEF ReservationsInv
<1>6. i = 1 \/ queued[1] < queued[i]
  BY <1>1, <1>5 DEF ReservationsInv
<1> QED BY <1>1, <1>2, <1>5, <1>6

\* The fold, behind or not, assigns the id the clock shows.
LEMMA FoldIdIsNext ==
  ASSUME ClockInv
  PROVE  FoldPromptId(fold) = clock.next
<1> USE DEF ClockInv
<1>1. /\ fold.next \in Nat /\ fold.cancelled \in SUBSET Nat
      /\ clock.next \in Nat /\ clock.cancelled \in SUBSET Nat
  BY DEF TypeOK, TurnClockState
<1>2. clock.next \notin clock.cancelled
  BY <1>1 DEF ReservationsInv
<1>3. clock.next \notin fold.cancelled
  BY <1>1, <1>2 DEF FoldInv
<1> QED BY <1>1, <1>3, FirstNotCancelledUnique DEF FoldInv, FoldPromptId

LEMMA StartClockInv ==
  ASSUME ClockInv, Start
  PROVE  ClockInv'
<1> USE DEF ClockInv
<1> DEFINE n == clock.next
           C == clock.cancelled
           c == AdvanceTurnClock(n + 1, C)
           q == Len(queued)
<1>1. /\ n \in Nat /\ C \in SUBSET Nat /\ IsFiniteSet(C)
      /\ fold.next \in Nat /\ fold.cancelled \in SUBSET Nat
      /\ nextReserved \in Nat /\ queued \in Seq(Nat)
  BY DEF TypeOK, TurnClockState, ReservationsInv
<1>2. /\ c \in TurnClockState
      /\ IsFiniteSet(c.cancelled)
      /\ c.next >= n + 1
      /\ c.next \notin C
      /\ \A k \in (n + 1) .. (c.next - 1) : k \in C
      /\ c.cancelled = {id \in C : id > c.next}
  <2>1. n + 1 \in Nat
    BY <1>1
  <2> QED BY <1>1, <2>1, AdvanceTurnClockProps
<1>3. /\ queued # << >> /\ queued' = Tail(queued)
      /\ clock' = c /\ nextReserved' = nextReserved
      /\ fold' = [next |-> n + 1, cancelled |-> fold.cancelled \ (fold.next .. n)]
      /\ started' = started \cup {[live |-> n, replayed |-> n, folded |-> n]}
      /\ phase' = "running"
  BY HeadIsNext, FoldIdIsNext DEF Start, PromptTurn, FoldPrompt
<1> HIDE DEF c
<1>4. c.next \in Nat /\ c.cancelled \in SUBSET Nat
  BY <1>2 DEF TurnClockState
<1>5. TypeOK'
  <2>1. queued' \in Seq(Nat)
    BY <1>1, <1>3
  <2>2. fold' \in TurnClockState
    BY <1>1, <1>3 DEF TurnClockState
  <2>3. started' \subseteq StartRecord
    BY <1>1, <1>3 DEF TypeOK, StartRecord
  <2> QED BY <1>1, <1>2, <1>3, <2>1, <2>2, <2>3 DEF TypeOK
<1>6. /\ q \in Nat /\ q >= 1
      /\ DOMAIN queued = 1 .. q
      /\ DOMAIN queued' = 1 .. (q - 1)
      /\ \A i \in 1 .. (q - 1) : queued'[i] = queued[i + 1]
      /\ \A i \in 1 .. q : queued[i] \in Nat
      /\ queued[1] = n
  BY <1>1, <1>3, HeadIsNext
<1>7. ReservationsInv'
  <2>1. \A id \in c.cancelled : c.next < id /\ id < nextReserved
    BY <1>2 DEF ReservationsInv
  <2>2. ASSUME NEW i \in 1 .. (q - 1)
        PROVE  /\ c.next <= queued'[i]
               /\ queued'[i] < nextReserved
               /\ queued'[i] \notin c.cancelled
    <3>1. i + 1 \in 1 .. q /\ 1 \in 1 .. q /\ 1 < i + 1
      BY <1>6
    <3>2. /\ queued[i + 1] < nextReserved /\ queued[i + 1] \notin C
          /\ queued[i + 1] > n /\ queued[i + 1] \in Nat
      BY <1>6, <3>1 DEF ReservationsInv
    <3>3. ~ (queued[i + 1] < c.next)
      <4> SUFFICES ASSUME queued[i + 1] < c.next PROVE FALSE
        OBVIOUS
      <4>1. queued[i + 1] \in (n + 1) .. (c.next - 1)
        BY <1>1, <1>4, <3>2
      <4> QED BY <1>2, <3>2, <4>1
    <3> QED BY <1>2, <1>4, <1>6, <3>2, <3>3
  <2>3. \A i, j \in 1 .. (q - 1) : i < j => queued'[i] < queued'[j]
    BY <1>6, SMTT(30) DEF ReservationsInv
  <2>4. ASSUME NEW id \in c.next .. (nextReserved - 1)
        PROVE  id \in c.cancelled \/ \E i \in 1 .. (q - 1) : queued'[i] = id
    <3>1. id \in n .. (nextReserved - 1) /\ id > n /\ id >= c.next
      BY <1>1, <1>2, <1>4
    <3>2. CASE id \in C
      BY <1>2, <1>4, <3>1, <3>2
    <3>3. CASE \E i \in 1 .. q : queued[i] = id
      <4>1. PICK i \in 1 .. q : queued[i] = id
        BY <3>3
      <4>2. i # 1 /\ i - 1 \in 1 .. (q - 1)
        BY <1>6, <3>1, <4>1
      <4>3. queued'[i - 1] = id
        BY <1>6, <4>1, <4>2
      <4> QED BY <4>2, <4>3
    <3> QED BY <1>6, <3>1, <3>2, <3>3 DEF ReservationsInv
  <2> QED BY <1>2, <1>3, <1>6, <2>1, <2>2, <2>3, <2>4 DEF ReservationsInv
<1>8. FoldInv'
  <2>1. IsFiniteSet(fold.cancelled \ (fold.next .. n))
    BY FS_Difference DEF FoldInv
  <2>2. fold'.next = n + 1 /\ fold'.cancelled = fold.cancelled \ (fold.next .. n)
    BY <1>3
  <2>3. \A id \in Nat : id > n => (id \in C <=> id \in fold.cancelled)
    BY <1>1 DEF FoldInv
  <2>4. \A id \in (n + 1) .. (c.next - 1) : id \in fold'.cancelled
    BY <1>1, <1>2, <1>4, <2>2, <2>3
  <2>5. ASSUME NEW id \in fold'.cancelled \cup c.cancelled, id >= c.next
        PROVE  id \in fold'.cancelled /\ id \in c.cancelled
    <3>1. id \in Nat /\ id > n
      BY <1>1, <1>2, <1>4, <2>2, <2>5
    <3>2. id \in C /\ id \in fold.cancelled /\ id # c.next
      BY <1>2, <2>2, <2>3, <2>5, <3>1
    <3> QED BY <1>1, <1>2, <1>4, <2>2, <2>5, <3>1, <3>2
  <2> QED BY <1>2, <1>3, <2>1, <2>2, <2>4, <2>5 DEF FoldInv
<1>9. StartedInv'
  <2>1. ASSUME NEW t \in started'
        PROVE  t.live < c.next /\ t.live = t.replayed /\ t.live = t.folded
    <3>1. CASE t \in started
      <4>1. t.live \in Nat
        BY <3>1 DEF TypeOK, StartRecord
      <4> QED BY <1>1, <1>2, <1>4, <3>1, <4>1 DEF StartedInv
    <3>2. CASE t = [live |-> n, replayed |-> n, folded |-> n]
      BY <1>1, <1>2, <1>4, <3>2
    <3> QED BY <1>3, <3>1, <3>2
  <2> QED BY <1>3, <2>1 DEF StartedInv
<1> QED BY <1>5, <1>7, <1>8, <1>9

\* Cancelling a set of queued turns: the list keeps some of its ids, in their
\* order, the rest are cancelled.
LEMMA CancelClockInv ==
  ASSUME ClockInv,
         NEW S \in SUBSET Nat, IsFiniteSet(S),
         \A id \in S : clock.next <= id /\ id < nextReserved,
         queued' \in Seq(Nat),
         \A i \in DOMAIN queued' : \E k \in DOMAIN queued :
           queued[k] = queued'[i] /\ queued[k] \notin S,
         \A k \in DOMAIN queued : queued[k] \notin S =>
           \E i \in DOMAIN queued' : queued'[i] = queued[k],
         \A i, j \in DOMAIN queued' : i < j => queued'[i] < queued'[j],
         clock' = CancelQueuedTurns(clock, S),
         fold' = FoldCancelQueued(fold, S),
         nextReserved' = nextReserved, started' = started, phase' = phase
  PROVE  ClockInv'
<1> USE DEF ClockInv
<1> DEFINE n == clock.next
           C == clock.cancelled \cup S
           c == AdvanceTurnClock(n, C)
           F == fold.cancelled \cup S
<1>1. /\ n \in Nat /\ clock.cancelled \in SUBSET Nat
      /\ IsFiniteSet(clock.cancelled) /\ IsFiniteSet(fold.cancelled)
      /\ fold.next \in Nat /\ fold.cancelled \in SUBSET Nat
      /\ nextReserved \in Nat /\ queued \in Seq(Nat)
      /\ fold.next <= n
      /\ DOMAIN queued = 1 .. Len(queued)
      /\ \A k \in DOMAIN queued : queued[k] \in Nat
  BY DEF TypeOK, TurnClockState, ReservationsInv, FoldInv
<1>2. /\ C \in SUBSET Nat /\ IsFiniteSet(C)
      /\ F \in SUBSET Nat /\ IsFiniteSet(F)
  BY <1>1, FS_Union
<1>3. {id \in S : id >= n} = S /\ {id \in S : id >= fold.next} = S
  <2>1. ASSUME NEW id \in S PROVE id >= n /\ id >= fold.next
    <3>1. id \in Nat /\ n <= id
      OBVIOUS
    <3> QED BY <1>1, <3>1
  <2> QED BY <2>1
<1>4. /\ c \in TurnClockState
      /\ IsFiniteSet(c.cancelled)
      /\ c.next >= n
      /\ c.next \notin C
      /\ \A k \in n .. (c.next - 1) : k \in C
      /\ c.cancelled = {id \in C : id > c.next}
  <2>1. n \in Nat
    BY <1>1
  <2> HIDE DEF C, n
  <2> QED BY <1>2, <2>1, AdvanceTurnClockProps
<1>5. clock' = c
  BY <1>3 DEF CancelQueuedTurns
<1> HIDE DEF c
<1>6. c.next \in Nat /\ c.cancelled \in SUBSET Nat
  BY <1>4 DEF TurnClockState
<1>7. \A id \in Nat : id >= n => (id \in C <=> id \in F)
  BY <1>1 DEF FoldInv
<1>8. FirstNotCancelled(fold.next, F) = c.next
  <2>1. c.next \notin F
    BY <1>1, <1>4, <1>6, <1>7
  <2>2. ASSUME NEW k \in fold.next .. (c.next - 1) PROVE k \in F
    <3>1. CASE k < n
      <4>1. k \in fold.next .. (n - 1)
        BY <1>1, <1>6, <3>1
      <4> QED BY <4>1 DEF FoldInv
    <3>2. CASE k >= n
      <4>1. k \in n .. (c.next - 1) /\ k \in Nat
        BY <1>1, <1>6, <3>2
      <4> QED BY <1>4, <1>7, <3>2, <4>1
    <3> QED BY <1>1, <1>6, <3>1, <3>2
  <2>3. c.next >= fold.next
    BY <1>1, <1>4, <1>6
  <2> QED BY <1>1, <1>2, <1>6, <2>1, <2>2, <2>3, FirstNotCancelledUnique
<1>9. fold' = [next |-> c.next, cancelled |-> F \ (fold.next .. c.next)]
  BY <1>3, <1>8 DEF FoldCancelQueued
<1>10. TypeOK'
  <2>1. fold' \in TurnClockState
    BY <1>2, <1>6, <1>9 DEF TurnClockState
  <2> QED BY <1>4, <1>5, <2>1 DEF TypeOK
<1>11. ReservationsInv'
  <2>1. ASSUME NEW id \in c.cancelled
        PROVE  c.next < id /\ id < nextReserved
    <3>1. id \in C /\ id > c.next
      BY <1>4
    <3> QED BY <1>6, <3>1 DEF ReservationsInv
  <2>2. ASSUME NEW i \in DOMAIN queued'
        PROVE  /\ c.next <= queued'[i]
               /\ queued'[i] < nextReserved
               /\ queued'[i] \notin c.cancelled
    <3>1. PICK k \in DOMAIN queued : queued[k] = queued'[i] /\ queued[k] \notin S
      OBVIOUS
    <3>2. /\ n <= queued[k] /\ queued[k] < nextReserved
          /\ queued[k] \notin C /\ queued[k] \in Nat
      BY <1>1, <3>1 DEF ReservationsInv
    <3>3. queued[k] < c.next => queued[k] \in n .. (c.next - 1)
      <4> HIDE DEF n
      <4> QED BY ONLY <1>1, <1>6, <3>2
    <3>4. ~ (queued[k] < c.next)
      BY <1>4, <3>2, <3>3
    <3> QED BY <1>4, <1>6, <3>1, <3>2, <3>4
  <2>3. ASSUME NEW id \in c.next .. (nextReserved - 1)
        PROVE  id \in c.cancelled \/ \E i \in DOMAIN queued' : queued'[i] = id
    <3>1. id \in n .. (nextReserved - 1) /\ id >= c.next
      BY <1>1, <1>4, <1>6
    <3>2. CASE id \in C
      BY <1>4, <1>6, <3>1, <3>2
    <3>3. CASE id \notin C
      <4>1. PICK k \in DOMAIN queued : queued[k] = id
        BY <3>1, <3>3 DEF ReservationsInv
      <4> QED BY <3>3, <4>1
    <3> QED BY <3>2, <3>3
  <2> QED BY <1>4, <1>5, <2>1, <2>2, <2>3 DEF ReservationsInv
<1>12. FoldInv'
  <2>1. IsFiniteSet(F \ (fold.next .. c.next))
    BY <1>2, FS_Difference
  <2>2. fold'.next = c.next /\ fold'.cancelled = F \ (fold.next .. c.next)
    BY <1>9
  <2>3. ASSUME NEW id \in fold'.cancelled \cup c.cancelled, id >= c.next
        PROVE  id \in fold'.cancelled /\ id \in c.cancelled
    <3>1. id \in Nat /\ id >= n
      BY <1>1, <1>2, <1>4, <1>6, <2>2, <2>3
    <3>2. id \in C /\ id \in F /\ id # c.next
      BY <1>1, <1>4, <1>6, <1>7, <2>2, <2>3, <3>1
    <3> QED BY <1>1, <1>4, <1>6, <2>2, <2>3, <3>1, <3>2
  <2> QED BY <1>5, <1>6, <2>1, <2>2, <2>3 DEF FoldInv
<1>13. StartedInv'
  <2>1. ASSUME NEW t \in started
        PROVE  t.live < c.next /\ t.live = t.replayed /\ t.live = t.folded
    <3>1. t.live \in Nat
      BY DEF TypeOK, StartRecord
    <3> QED BY <1>1, <1>4, <1>6, <3>1 DEF StartedInv
  <2> QED BY <1>5, <2>1 DEF StartedInv
<1> QED BY <1>10, <1>11, <1>12, <1>13

LEMMA CancelQueuedClockInv ==
  ASSUME ClockInv, CancelQueued
  PROVE  ClockInv'
<1> PICK k \in DOMAIN queued :
      /\ queued' = RemoveAt(queued, k)
      /\ clock' = CancelQueuedTurns(clock, {queued[k]})
      /\ fold' = FoldCancelQueued(fold, {queued[k]})
  BY DEF CancelQueued
<1> DEFINE n == Len(queued)
           S == {queued[k]}
<1>1. /\ queued \in Seq(Nat) /\ n \in Nat /\ DOMAIN queued = 1 .. n
      /\ \A i \in 1 .. n : queued[i] \in Nat
  BY DEF ClockInv, TypeOK
<1>2. /\ queued' \in Seq(Nat) /\ Len(queued') = n - 1
      /\ DOMAIN queued' = 1 .. (n - 1)
      /\ \A i \in 1 .. (k - 1) : queued'[i] = queued[i]
      /\ \A i \in k .. (n - 1) : queued'[i] = queued[i + 1]
  <2>1. /\ queued' \in Seq(Nat) /\ Len(queued') = n - 1
        /\ \A i \in 1 .. (k - 1) : queued'[i] = queued[i]
        /\ \A i \in k .. (n - 1) : queued'[i] = queued[i + 1]
    <3> DEFINE r == RemoveAt(queued, k)
    <3>1. k \in 1 .. Len(queued)
      BY <1>1
    <3>2. /\ r \in Seq(Nat)
          /\ Len(r) = n - 1
          /\ \A i \in 1 .. (k - 1) : r[i] = queued[i]
          /\ \A i \in k .. (n - 1) : r[i] = queued[i + 1]
      BY <1>1, <3>1, RemoveAtProps
    <3> QED BY <3>2
  <2> QED BY <1>1, <2>1
<1>3. \A i, j \in 1 .. n : i < j => queued[i] < queued[j]
  BY <1>1 DEF ClockInv, ReservationsInv
<1>4. \A i \in 1 .. n : i # k => queued[i] # queued[k]
  BY <1>1, <1>3
<1>5. S \in SUBSET Nat /\ IsFiniteSet(S)
      /\ \A id \in S : clock.next <= id /\ id < nextReserved
  <2>1. clock.next <= queued[k] /\ queued[k] < nextReserved
    BY DEF ClockInv, ReservationsInv
  <2> QED BY <1>1, <2>1, FS_Singleton
<1>6. ASSUME NEW i \in DOMAIN queued'
      PROVE  \E m \in DOMAIN queued : queued[m] = queued'[i] /\ queued[m] \notin S
  <2>1. CASE i < k
    <3>1. i \in 1 .. (k - 1) /\ i \in 1 .. n /\ i # k
      BY <1>1, <1>2, <2>1, SMTT(30)
    <3> QED BY <1>1, <1>2, <1>4, <3>1
  <2>2. CASE i >= k
    <3>1. i \in k .. (n - 1) /\ i + 1 \in 1 .. n /\ i + 1 # k
      BY <1>1, <1>2, <2>2, SMTT(30)
    <3> QED BY <1>1, <1>2, <1>4, <3>1
  <2> QED BY <1>1, <1>2, <2>1, <2>2
<1>7. ASSUME NEW m \in DOMAIN queued, queued[m] \notin S
      PROVE  \E i \in DOMAIN queued' : queued'[i] = queued[m]
  <2>1. CASE m < k
    <3>1. m \in 1 .. (k - 1) /\ m \in 1 .. (n - 1)
      BY <1>1, <2>1
    <3> QED BY <1>2, <3>1
  <2>2. CASE m > k
    <3>1. m - 1 \in k .. (n - 1) /\ m - 1 \in 1 .. (n - 1) /\ (m - 1) + 1 = m
      BY <1>1, <2>2
    <3> QED BY <1>2, <3>1
  <2> QED BY <1>1, <1>7, <2>1, <2>2
<1>8. ASSUME NEW i \in DOMAIN queued', NEW j \in DOMAIN queued', i < j
      PROVE  queued'[i] < queued'[j]
  <2> DEFINE at(x) == IF x < k THEN x ELSE x + 1
  <2>1. /\ n \in Nat /\ k \in Nat /\ 1 <= k /\ k <= n
        /\ \A x \in DOMAIN queued' : x \in Nat /\ 1 <= x /\ x <= n - 1
    <3>1. k \in 1 .. n
      BY <1>1
    <3>2. n \in Nat /\ DOMAIN queued' = 1 .. (n - 1)
      BY <1>1, <1>2
    <3> HIDE DEF n, S
    <3>3. \A x \in 1 .. (n - 1) : x \in Nat /\ 1 <= x /\ x <= n - 1
      BY <3>2
    <3>4. k \in Nat /\ 1 <= k /\ k <= n
      BY <3>1, <3>2
    <3> QED BY <3>2, <3>3, <3>4
  <2>2. ASSUME NEW x \in DOMAIN queued'
        PROVE  at(x) \in 1 .. n /\ queued'[x] = queued[at(x)]
    <3>1. x \in Nat /\ 1 <= x /\ x <= n - 1
      BY <2>1
    <3> HIDE DEF n, S
    <3>2. CASE x < k
      <4>1. x \in 1 .. (k - 1) /\ x \in 1 .. n
        BY <2>1, <3>1, <3>2
      <4>2. queued'[x] = queued[x]
        BY <1>2, <4>1
      <4> QED BY <3>2, <4>1, <4>2
    <3>3. CASE ~ (x < k)
      <4>1. x \in k .. (n - 1) /\ x + 1 \in 1 .. n
        BY <2>1, <3>1, <3>3
      <4>2. queued'[x] = queued[x + 1]
        BY <1>2, <4>1
      <4> QED BY <3>3, <4>1, <4>2
    <3> QED BY <3>2, <3>3
  <2>3. at(i) < at(j)
    <3> HIDE DEF n, S
    <3>1. i \in Nat /\ j \in Nat /\ i < j
      BY <1>8, <2>1
    <3> QED BY <2>1, <3>1
  <2>4. queued'[i] = queued[at(i)] /\ queued'[j] = queued[at(j)]
        /\ at(i) \in 1 .. n /\ at(j) \in 1 .. n
    BY <2>2
  <2> HIDE DEF n, S, at
  <2> QED BY <1>3, <2>3, <2>4
<1>9. nextReserved' = nextReserved /\ started' = started /\ phase' = phase
  BY DEF CancelQueued
<1> HIDE DEF S
<1>10. clock' = CancelQueuedTurns(clock, S) /\ fold' = FoldCancelQueued(fold, S)
  BY DEF S
<1> QED BY <1>2, <1>5, <1>6, <1>7, <1>8, <1>9, <1>10, CancelClockInv

LEMMA CancelAllQueuedClockInv ==
  ASSUME ClockInv, CancelAllQueued
  PROVE  ClockInv'
<1> DEFINE S == ToSet(queued)
<1>1. /\ queued \in Seq(Nat) /\ queued' = << >>
      /\ DOMAIN queued = 1 .. Len(queued) /\ Len(queued) \in Nat
      /\ S = {queued[i] : i \in DOMAIN queued}
  BY DEF ClockInv, TypeOK, CancelAllQueued, ToSet
<1>2. S \in SUBSET Nat
  BY <1>1
<1>3. \A id \in S : clock.next <= id /\ id < nextReserved
  BY <1>1 DEF ClockInv, ReservationsInv
<1>4. IsFiniteSet(S)
  <2>1. clock.next \in Nat /\ nextReserved \in Nat
    BY DEF ClockInv, TypeOK, TurnClockState
  <2>2. S \subseteq clock.next .. (nextReserved - 1)
    BY <1>2, <1>3, <2>1
  <2>3. IsFiniteSet(clock.next .. (nextReserved - 1))
    BY <2>1, FS_Interval
  <2> QED BY <2>2, <2>3, FS_Subset
<1>5. \A k \in DOMAIN queued : queued[k] \in S
  BY <1>1
<1>6. queued' \in Seq(Nat) /\ DOMAIN queued' = {}
  BY <1>1
<1>7. /\ nextReserved' = nextReserved /\ started' = started /\ phase' = phase
      /\ clock' = CancelQueuedTurns(clock, S) /\ fold' = FoldCancelQueued(fold, S)
  BY DEF CancelAllQueued
<1> HIDE DEF S
<1> QED BY <1>2, <1>3, <1>4, <1>5, <1>6, <1>7, CancelClockInv

LEMMA RestartClockInv ==
  ASSUME ClockInv, clock.cancelled = {}, Restart
  PROVE  ClockInv'
<1> USE DEF ClockInv
<1>1. /\ queued' = << >> /\ nextReserved' = 0 /\ phase' = "idle"
      /\ clock' = clock /\ fold' = fold /\ started' = started
  BY DEF Restart
<1>2. clock.next \in Nat
  BY DEF TypeOK, TurnClockState
<1>3. TypeOK'
  BY <1>1 DEF TypeOK
<1>4. ReservationsInv'
  <2>1. DOMAIN queued' = {} /\ clock.next .. (0 - 1) = {}
    BY <1>1, <1>2
  <2>2. IsFiniteSet(clock'.cancelled) /\ clock'.cancelled = {}
    BY <1>1 DEF ReservationsInv
  <2> QED BY <1>1, <2>1, <2>2 DEF ReservationsInv
<1>5. FoldInv' /\ StartedInv'
  BY <1>1 DEF FoldInv, StartedInv
<1> QED BY <1>3, <1>4, <1>5

-----------------------------------------------------------------------------

\* ClockInv is inductive: every operation of the engine on the clock, the
\* reservations and the journal keeps it.
THEOREM ClockInvariant == Spec => []ClockInv
<1>1. Init => ClockInv
  BY InitClockInv
<1>2. ClockInv /\ [Next]_vars => ClockInv'
  <2> SUFFICES ASSUME ClockInv, [Next]_vars PROVE ClockInv'
    OBVIOUS
  <2>1. CASE Reserve
    BY <2>1, ReserveClockInv
  <2>2. CASE Start
    BY <2>2, StartClockInv
  <2>3. CASE CancelQueued
    BY <2>3, CancelQueuedClockInv
  <2>4. CASE CancelAllQueued
    BY <2>4, CancelAllQueuedClockInv
  <2>5. CASE clock.cancelled = {} /\ Restart
    BY <2>5, RestartClockInv
  <2>6. ASSUME UNCHANGED <<queued, nextReserved, clock, fold, started>>,
               phase' \in {"idle", "pump", "running", "ending"}
        PROVE  ClockInv'
    BY <2>6 DEF ClockInv, TypeOK, ReservationsInv, FoldInv, StartedInv
  <2>7. CASE PumpEmpty \/ End \/ Pump
    BY <2>6, <2>7 DEF PumpEmpty, End, Pump
  <2>8. CASE UNCHANGED vars
    BY <2>6, <2>8 DEF vars, ClockInv, TypeOK
  <2> QED BY <2>1, <2>2, <2>3, <2>4, <2>5, <2>7, <2>8 DEF Next, Step
<1> QED BY <1>1, <1>2, PTL DEF Spec

\* Every turn is replayed, and folded into the transcript, under the id it
\* ran with.
THEOREM ReplayedIdentityHolds == Spec => []ReplayedIdentity
<1>1. ClockInv => ReplayedIdentity
  BY DEF ClockInv, StartedInv, ReplayedIdentity
<1> QED BY <1>1, ClockInvariant, PTL

\* The type invariant of the clock.
THEOREM TurnClockTypeOK == Spec => []TypeOK
<1>1. ClockInv => TypeOK
  BY DEF ClockInv
<1> QED BY <1>1, ClockInvariant, PTL

\* Turns start in the order of their ids.
THEOREM StartsAscendHolds == Spec => StartsAscend
<1> DEFINE Ascend == \A t \in started' \ started, u \in started : u.live < t.live
<1>1. ClockInv /\ [Next]_vars => [Ascend]_vars
  <2> SUFFICES ASSUME ClockInv, [Next]_vars PROVE Ascend
    OBVIOUS
  <2>1. CASE Start
    <3>1. \A t \in started' \ started : t.live = Head(queued)
      BY <2>1 DEF Start
    <3>2. Head(queued) = clock.next
      BY <2>1, HeadIsNext DEF Start
    <3> QED BY <3>1, <3>2 DEF ClockInv, StartedInv
  <2>2. CASE started' = started
    BY <2>2
  <2> QED
    BY <2>1, <2>2 DEF Next, Step, Reserve, PumpEmpty, End, Pump, CancelQueued,
                      CancelAllQueued, Restart, vars
<1> QED BY <1>1, ClockInvariant, PTL DEF Spec, StartsAscend

-----------------------------------------------------------------------------
\* The two readers of the journal, when the process may end at any time.

\* A turn.prompt record: both readers take the same id and stay in step.
LEMMA StartMirrorInv ==
  ASSUME MirrorInv, Start
  PROVE  MirrorInv'
<1> DEFINE n == clock.next
           C == clock.cancelled
           c == AdvanceTurnClock(n + 1, C)
           F == fold.cancelled \ (fold.next .. n)
<1>1. /\ n \in Nat /\ C \in SUBSET Nat /\ IsFiniteSet(C)
      /\ fold.next \in Nat /\ fold.cancelled \in SUBSET Nat
      /\ fold.next <= n /\ IsFiniteSet(fold.cancelled)
      /\ n \notin fold.cancelled
      /\ \A id \in fold.next .. (n - 1) : id \in fold.cancelled
      /\ \A id \in Nat : id >= n => (id \in C <=> id \in fold.cancelled)
  <2>1. clock \in TurnClockState /\ fold \in TurnClockState
    BY DEF MirrorInv, TypeOK
  <2>2. /\ n \in Nat /\ C \in SUBSET Nat /\ IsFiniteSet(C)
        /\ fold.next \in Nat /\ fold.cancelled \in SUBSET Nat
    BY <2>1 DEF MirrorInv, TurnClockState
  <2>3. n \notin C
    BY <2>2 DEF MirrorInv
  <2> QED BY <2>2, <2>3 DEF MirrorInv, FoldInv
<1>2. FoldPromptId(fold) = n
  <2> HIDE DEF n, C
  <2> QED BY <1>1, FirstNotCancelledUnique DEF FoldPromptId
<1>3. /\ c \in TurnClockState
      /\ IsFiniteSet(c.cancelled)
      /\ c.next >= n + 1
      /\ \A k \in (n + 1) .. (c.next - 1) : k \in C
      /\ c.cancelled = {id \in C : id > c.next}
      /\ c.next \notin C
  <2>1. n + 1 \in Nat
    BY <1>1
  <2> HIDE DEF n, C
  <2> QED BY <1>1, <2>1, AdvanceTurnClockProps
<1>4. /\ queued # << >> /\ queued' = Tail(queued)
      /\ clock' = c /\ fold' = [next |-> n + 1, cancelled |-> F]
      /\ started' = started \cup {[live |-> Head(queued), replayed |-> n, folded |-> n]}
      /\ nextReserved' = nextReserved /\ phase' = "running"
  BY <1>2 DEF Start, PromptTurn, FoldPrompt
<1>5. c.next \in Nat /\ c.cancelled \in SUBSET Nat
  BY <1>3 DEF TurnClockState
<1>6. F \in SUBSET Nat /\ IsFiniteSet(F)
  BY <1>1, FS_Difference
<1>7. queued \in Seq(Nat) /\ Head(queued) \in Nat /\ queued' \in Seq(Nat)
  BY <1>4 DEF MirrorInv, TypeOK
<1> HIDE DEF c, n, C
<1>8. TypeOK'
  <2>1. fold' \in TurnClockState
    BY <1>1, <1>4, <1>6 DEF TurnClockState
  <2>2. started' \subseteq StartRecord
    BY <1>1, <1>4, <1>7 DEF MirrorInv, TypeOK, StartRecord
  <2> QED BY <1>3, <1>4, <1>7, <2>1, <2>2 DEF MirrorInv, TypeOK
<1>9. FoldInv'
  <2>1. fold'.next = n + 1 /\ fold'.cancelled = F
    BY <1>4
  <2>2. \A id \in Nat : id > n => (id \in C <=> id \in F)
    BY <1>1
  <2>3. \A id \in (n + 1) .. (c.next - 1) : id \in F
    <3> SUFFICES ASSUME NEW id \in (n + 1) .. (c.next - 1) PROVE id \in F
      OBVIOUS
    <3>1. id \in Nat /\ id > n
      BY <1>1, <1>5
    <3> HIDE DEF F
    <3> QED BY <1>3, <2>2, <3>1
  <2>4. ASSUME NEW id \in F \cup c.cancelled, id >= c.next
        PROVE  id \in F /\ id \in c.cancelled
    <3>1. id \in Nat
      BY <1>5, <1>6
    <3> HIDE DEF F
    <3>2. id > n
      BY <1>1, <1>3, <1>5, <2>4, <3>1
    <3>3. id \in C /\ id \in F
      BY <1>3, <2>2, <2>4, <3>1, <3>2
    <3> QED BY <1>3, <1>5, <2>4, <3>1, <3>3
  <2> QED BY <1>3, <1>4, <1>6, <2>1, <2>3, <2>4 DEF FoldInv
<1>10. FoldMirrorsTurnModel'
  BY <1>4 DEF MirrorInv, FoldMirrorsTurnModel
<1>11. IsFiniteSet(clock'.cancelled) /\ \A id \in clock'.cancelled : clock'.next < id
  BY <1>3, <1>4, <1>5
<1> QED BY <1>8, <1>9, <1>10, <1>11 DEF MirrorInv

\* turn.cancel records of queued turns, whatever ids they carry.
LEMMA CancelMirrorInv ==
  ASSUME MirrorInv,
         NEW S \in SUBSET Nat, IsFiniteSet(S),
         queued' \in Seq(Nat),
         clock' = CancelQueuedTurns(clock, S),
         fold' = FoldCancelQueued(fold, S),
         nextReserved' = nextReserved, started' = started, phase' = phase
  PROVE  MirrorInv'
<1> DEFINE n == clock.next
           C == clock.cancelled \cup {id \in S : id >= n}
           c == AdvanceTurnClock(n, C)
           F == fold.cancelled \cup {id \in S : id >= fold.next}
<1>1. /\ n \in Nat /\ clock.cancelled \in SUBSET Nat
      /\ IsFiniteSet(clock.cancelled) /\ IsFiniteSet(fold.cancelled)
      /\ fold.next \in Nat /\ fold.cancelled \in SUBSET Nat
      /\ fold.next <= n
      /\ \A id \in fold.next .. (n - 1) : id \in fold.cancelled
      /\ \A id \in Nat : id >= n =>
           (id \in clock.cancelled <=> id \in fold.cancelled)
  <2>1. clock \in TurnClockState /\ fold \in TurnClockState
    BY DEF MirrorInv, TypeOK
  <2> QED BY <2>1 DEF MirrorInv, FoldInv, TurnClockState
<1>2. /\ C \in SUBSET Nat /\ IsFiniteSet(C)
      /\ F \in SUBSET Nat /\ IsFiniteSet(F)
  <2>1. IsFiniteSet({id \in S : id >= n}) /\ IsFiniteSet({id \in S : id >= fold.next})
    BY FS_Subset
  <2> QED BY <1>1, <2>1, FS_Union
<1>3. \A id \in Nat : id >= n => (id \in C <=> id \in F)
  BY <1>1
<1>4. /\ c \in TurnClockState
      /\ IsFiniteSet(c.cancelled)
      /\ c.next >= n
      /\ c.next \notin C
      /\ \A k \in n .. (c.next - 1) : k \in C
      /\ c.cancelled = {id \in C : id > c.next}
  <2> HIDE DEF C, n
  <2> QED BY <1>1, <1>2, AdvanceTurnClockProps
<1>5. clock' = c
  BY DEF CancelQueuedTurns
<1>6. c.next \in Nat /\ c.cancelled \in SUBSET Nat
  BY <1>4 DEF TurnClockState
<1>7. \A id \in fold.next .. (n - 1) : id \in F
  BY <1>1
<1>8. fold' = [next |-> FirstNotCancelled(fold.next, F),
               cancelled |-> F \ (fold.next .. FirstNotCancelled(fold.next, F))]
  BY DEF FoldCancelQueued
<1> HIDE DEF c, C, F, n
<1>9. FirstNotCancelled(fold.next, F) = c.next
  <2>1. c.next \notin F
    BY <1>3, <1>4, <1>6
  <2>2. ASSUME NEW k \in fold.next .. (c.next - 1) PROVE k \in F
    <3>1. k \in Nat /\ fold.next <= k /\ k <= c.next - 1
      BY <1>1, <1>6
    <3>2. CASE k < n
      BY <1>1, <1>7, <3>1, <3>2
    <3>3. CASE ~ (k < n)
      <4>1. k \in n .. (c.next - 1) /\ k >= n
        BY <1>1, <1>6, <3>1, <3>3
      <4> QED BY <1>3, <1>4, <3>1, <4>1
    <3> QED BY <3>2, <3>3
  <2>3. c.next >= fold.next
    BY <1>1, <1>4, <1>6
  <2> QED BY <1>1, <1>2, <1>6, <2>1, <2>2, <2>3, FirstNotCancelledUnique
<1>10. fold'.next = c.next /\ fold'.cancelled = F \ (fold.next .. c.next)
       /\ fold' \in TurnClockState
  <2>1. fold' = [next |-> c.next, cancelled |-> F \ (fold.next .. c.next)]
    BY <1>8, <1>9
  <2>2. F \ (fold.next .. c.next) \in SUBSET Nat
    BY <1>2
  <2> QED BY ONLY <1>6, <2>1, <2>2 DEF TurnClockState
<1>11. FoldInv'
  <2>1. IsFiniteSet(fold'.cancelled)
    BY <1>2, <1>10, FS_Difference
  <2>2. ASSUME NEW id \in fold'.cancelled \cup c.cancelled, id >= c.next
        PROVE  id \in fold'.cancelled /\ id \in c.cancelled
    <3>1. id \in Nat
      BY <1>2, <1>6, <1>10
    <3>2. id >= n
      BY <1>1, <1>4, <1>6, <2>2, <3>1
    <3>3. id \in C /\ id \in F /\ id # c.next
      BY <1>3, <1>4, <1>10, <2>2, <3>1, <3>2
    <3>4. id > c.next
      BY <1>6, <2>2, <3>1, <3>3
    <3> QED BY <1>4, <1>1, <1>6, <1>10, <3>1, <3>3, <3>4
  <2> QED BY <1>5, <1>6, <1>10, <2>1, <2>2 DEF FoldInv
<1>12. TypeOK'
  BY <1>4, <1>5, <1>10 DEF MirrorInv, TypeOK
<1>13. FoldMirrorsTurnModel'
  BY DEF MirrorInv, FoldMirrorsTurnModel
<1>14. \A id \in clock'.cancelled : clock'.next < id
  BY <1>4, <1>5, <1>6
<1> QED BY <1>4, <1>5, <1>11, <1>12, <1>13, <1>14 DEF MirrorInv

\* However the process ends, with cancelled reservations ahead or not: the
\* transcript's fold gives a turn the id the engine's own replay gives it.
THEOREM FoldMirrorsTurnModelHolds == SpecCrash => []FoldMirrorsTurnModel
<1>1. Init => MirrorInv
  <2> SUFFICES ASSUME Init PROVE MirrorInv
    OBVIOUS
  <2>1. ClockInv
    BY InitClockInv
  <2> QED BY <2>1 DEF ClockInv, ReservationsInv, StartedInv, MirrorInv,
                      FoldMirrorsTurnModel, Init
<1>2. MirrorInv /\ [NextCrash]_vars => MirrorInv'
  <2> SUFFICES ASSUME MirrorInv, [NextCrash]_vars PROVE MirrorInv'
    OBVIOUS
  <2>1. ASSUME UNCHANGED <<clock, fold, started>>, TypeOK' PROVE MirrorInv'
    BY <2>1 DEF MirrorInv, FoldInv, FoldMirrorsTurnModel
  <2>2. CASE Reserve
    <3>1. ReservedTurnId \in Nat
      BY ReservedTurnIdValue DEF MirrorInv, TypeOK, TurnClockState
    <3>2. queued' \in Seq(Nat) /\ nextReserved' \in Nat
      BY <2>2, <3>1 DEF Reserve, MirrorInv, TypeOK
    <3> QED BY <2>1, <2>2, <3>2 DEF Reserve, MirrorInv, TypeOK
  <2>3. CASE Start
    BY <2>3, StartMirrorInv
  <2>4. CASE CancelQueued
    <3>1. PICK k \in DOMAIN queued :
            /\ queued' = RemoveAt(queued, k)
            /\ clock' = CancelQueuedTurns(clock, {queued[k]})
            /\ fold' = FoldCancelQueued(fold, {queued[k]})
      BY <2>4 DEF CancelQueued
    <3>2. queued \in Seq(Nat) /\ k \in 1 .. Len(queued) /\ queued[k] \in Nat
      BY <3>1 DEF MirrorInv, TypeOK
    <3>3. queued' \in Seq(Nat)
      BY <3>1, <3>2, RemoveAtProps
    <3>4. {queued[k]} \in SUBSET Nat /\ IsFiniteSet({queued[k]})
      BY <3>2, FS_Singleton
    <3> QED BY <2>4, <3>1, <3>3, <3>4, CancelMirrorInv DEF CancelQueued
  <2>5. CASE CancelAllQueued
    <3>1. queued \in Seq(Nat)
      BY DEF MirrorInv, TypeOK
    <3>2. ToSet(queued) \in SUBSET Nat /\ IsFiniteSet(ToSet(queued))
      <4>1. ToSet(queued) = {queued[i] : i \in 1 .. Len(queued)}
        BY <3>1 DEF ToSet
      <4>2. IsFiniteSet(1 .. Len(queued))
        BY <3>1, FS_Interval
      <4>3. queued \in Surjection(1 .. Len(queued), ToSet(queued))
        BY <3>1, <4>1 DEF Surjection
      <4>4. IsFiniteSet(ToSet(queued))
        BY <4>2, <4>3, FS_Surjection
      <4>5. ToSet(queued) \in SUBSET Nat
        BY <3>1, <4>1
      <4> QED BY <4>4, <4>5
    <3>3. /\ clock' = CancelQueuedTurns(clock, ToSet(queued))
          /\ fold' = FoldCancelQueued(fold, ToSet(queued))
          /\ nextReserved' = nextReserved /\ started' = started /\ phase' = phase
          /\ queued' \in Seq(Nat)
      BY <2>5 DEF CancelAllQueued
    <3> QED BY <3>2, <3>3, CancelMirrorInv
  <2>6. CASE Restart
    <3>1. queued' = << >> /\ << >> \in Seq(Nat)
      BY <2>6 DEF Restart
    <3>2. TypeOK'
      BY <2>6, <3>1 DEF Restart, MirrorInv, TypeOK
    <3> QED BY <2>1, <2>6, <3>2 DEF Restart
  <2>7. CASE PumpEmpty \/ End \/ Pump
    BY <2>1, <2>7 DEF PumpEmpty, End, Pump, MirrorInv, TypeOK
  <2>8. CASE UNCHANGED vars
    BY <2>1, <2>8 DEF vars, MirrorInv, TypeOK
  <2> QED BY <2>2, <2>3, <2>4, <2>5, <2>6, <2>7, <2>8 DEF NextCrash, Step
<1>3. MirrorInv => FoldMirrorsTurnModel
  BY DEF MirrorInv
<1> QED BY <1>1, <1>2, <1>3, PTL DEF SpecCrash
=============================================================================
