------------------------ MODULE AgentLoopClockProofs ------------------------
(***************************************************************************)
(* The turn loop implements the turn clock, for any set of requests: its   *)
(* queue of turns, its reservations and its persisted TurnModel only ever  *)
(* take the steps of TurnClock, and what is proved of TurnClock holds of   *)
(* the turns the loop starts.                                              *)
(***************************************************************************)
EXTENDS AgentLoopClock, AgentLoopProofs

USE DEF requestVars, queueVars, gateVars, turnVars, stepVars, signalVars,
        runVars, retryVars, vars

\* The operators of the turn clock are those the loop is written with.
LEMMA SameClock ==
  ASSUME NEW c, NEW ids
  PROVE  /\ Clock!PromptTurn(c) = PromptTurn(c)
         /\ Clock!CancelQueuedTurns(c, ids) = CancelQueuedTurns(c, ids)
         /\ Clock!InitialTurnClock = InitialTurnClock
  BY DEF PromptTurn, CancelQueuedTurns, AdvanceTurnClock, FirstNotCancelled, InitialTurnClock,
    Clock!PromptTurn, Clock!CancelQueuedTurns, Clock!AdvanceTurnClock, Clock!FirstNotCancelled,
    Clock!InitialTurnClock, Min, Clock!Min, Cardinality, Clock!Cardinality

\* So are those on its queue of turns.
LEMMA SameLists ==
  ASSUME NEW s, NEW k
  PROVE  /\ Clock!RemoveAt(s, k) = RemoveAt(s, k)
         /\ Clock!ToSet(s) = ToSet(s)
         /\ Clock!ReservedTurnId = ReservedTurnId
  BY DEF RemoveAt, ToSet, Clock!RemoveAt, Clock!ToSet, ReservedTurnId, Clock!ReservedTurnId,
    Max, Clock!Max

\* The turns that were ever opened.
Created == {t \in Requests : turnState[t] # "none"}

\* Between the clock and the next reservation are the ids of the turns that
\* wait and of those that were cancelled, and nothing of either is behind the
\* clock; no more ids were handed out than requests opened a turn.
IdsInv ==
  /\ clock.next <= nextReserved
  /\ nextReserved <= Cardinality(Created)
  /\ \A id \in clock.cancelled : clock.next < id /\ id < nextReserved
  /\ \A i \in DOMAIN pendingTurns :
       /\ clock.next <= turnId[pendingTurns[i]]
       /\ turnId[pendingTurns[i]] \notin clock.cancelled

\* A step of the turn clock, or none.
ClockStep == [Clock!Next]_(Clock!vars)

\* The ids of the turns that wait.
LEMMA QueuedIdsProps ==
  ASSUME TypeInv
  PROVE  /\ QueuedIds \in Seq(Nat) /\ Len(QueuedIds) = Len(pendingTurns)
         /\ DOMAIN pendingTurns = 1 .. Len(pendingTurns) /\ Len(pendingTurns) \in Nat
         /\ DOMAIN QueuedIds = 1 .. Len(pendingTurns)
         /\ \A i \in 1 .. Len(pendingTurns) :
              pendingTurns[i] \in Requests /\ QueuedIds[i] = turnId[pendingTurns[i]]
<1>1. /\ pendingTurns \in Seq(Requests) /\ turnId \in [Requests -> Nat]
      /\ DOMAIN pendingTurns = 1 .. Len(pendingTurns) /\ Len(pendingTurns) \in Nat
  BY DEF TypeInv, TypeOK, TurnTypeOK
<1>2. QueuedIds = [i \in 1 .. Len(pendingTurns) |-> turnId[pendingTurns[i]]]
  BY <1>1 DEF QueuedIds
<1>3. \A i \in 1 .. Len(pendingTurns) : pendingTurns[i] \in Requests /\ turnId[pendingTurns[i]] \in Nat
  BY <1>1
<1> QED BY <1>1, <1>2, <1>3

\* The type invariant, for what the clock reads.
LEMMA ClockTypes ==
  ASSUME TypeInv
  PROVE  /\ clock \in TurnClockState /\ IsFiniteSet(clock.cancelled)
         /\ clock.next \in Nat /\ clock.cancelled \in SUBSET Nat
         /\ nextReserved \in Nat
         /\ pendingTurns \in Seq(Requests) /\ turnId \in [Requests -> Nat]
         /\ turnState \in [Requests -> {"none", "queued", "running"} \cup Ended]
         /\ IsFiniteSet(Created) /\ Cardinality(Created) \in Nat
<1>1. clock \in TurnClockState /\ IsFiniteSet(clock.cancelled)
  BY DEF TypeInv, TypeOK, TurnTypeOK
<1>2. clock.next \in Nat /\ clock.cancelled \in SUBSET Nat
  BY <1>1 DEF TurnClockState
<1>3. Created \subseteq Requests
  BY DEF Created
<1>4. IsFiniteSet(Created) /\ Cardinality(Created) \in Nat
  BY <1>3, FiniteAssumption, FS_Subset, FS_CardinalityType
<1> QED BY <1>1, <1>2, <1>4 DEF TypeInv, TypeOK, TurnTypeOK

\* A step that moves only the phase.
LEMMA PhaseStep ==
  ASSUME LoopInv, IdsInv, Records,
         UNCHANGED <<pendingTurns, turnId, nextReserved, clock>>,
         \A t \in Requests : turnState[t] \in {"none", "queued"} => turnState'[t] = turnState[t],
         \A t \in Requests : turnState'[t] = "none" => turnState[t] = "none",
         \/ ClockPhase' = ClockPhase
         \/ ClockPhase \in {"idle", "ending"} /\ ClockPhase' = "pump"
         \/ ClockPhase = "running" /\ ClockPhase' = "ending"
         \/ ClockPhase = "pump" /\ ClockPhase' = "idle" /\ pendingTurns = << >>
  PROVE  IdsInv' /\ ClockStep
<1>1. Starting = {} /\ Dropping = {}
  BY DEF Starting, Dropping
<1>2. started' = started /\ fold' = fold
  BY <1>1 DEF Records
<1>3. Created' = Created
  BY DEF Created
<1>4. IdsInv'
  BY <1>3 DEF IdsInv
<1>5. QueuedIds' = QueuedIds
  BY DEF QueuedIds
<1>6. pendingTurns = << >> => QueuedIds = << >>
  <2>1. TypeInv
    BY DEF LoopInv
  <2> QED BY <2>1, QueuedIdsProps
<1>7. CASE ClockPhase' = ClockPhase
  BY <1>2, <1>4, <1>5, <1>7 DEF ClockStep, Clock!vars
<1>8. CASE ClockPhase \in {"idle", "ending"} /\ ClockPhase' = "pump"
  BY <1>2, <1>4, <1>5, <1>8 DEF ClockStep, Clock!Next, Clock!Step, Clock!Pump
<1>9. CASE ClockPhase = "running" /\ ClockPhase' = "ending"
  BY <1>2, <1>4, <1>5, <1>9 DEF ClockStep, Clock!Next, Clock!Step, Clock!End
<1>10. CASE ClockPhase = "pump" /\ ClockPhase' = "idle" /\ pendingTurns = << >>
  BY <1>2, <1>4, <1>5, <1>6, <1>10 DEF ClockStep, Clock!Next, Clock!Step, Clock!PumpEmpty
<1> QED BY <1>4, <1>7, <1>8, <1>9, <1>10

\* createAndQueueTurn reserves: a turn is appended with the next id.
LEMMA CreateTurnClock ==
  ASSUME LoopInv, IdsInv, Records, NEW r \in Requests, CreateTurn(r), turnState[r] = "none",
         active' = active, pc # "pump"
  PROVE  IdsInv' /\ ClockStep
<1> DEFINE n == Len(pendingTurns)
           N == nextReserved
<1>0. TypeInv /\ TurnsInv
  BY DEF LoopInv
<1>1. ReservedTurnId = N
  <2>1. clock.next \in Nat /\ N \in Nat /\ clock.next <= N
    BY <1>0, ClockTypes DEF IdsInv
  <2> QED BY <2>1, MaxOfTwo DEF ReservedTurnId
<1>2. /\ turnId' = [turnId EXCEPT ![r] = N] /\ nextReserved' = N + 1
      /\ turnState' = [turnState EXCEPT ![r] = "queued"]
      /\ pendingTurns' = Append(pendingTurns, r) /\ clock' = clock
      /\ pc' = IF active = NoTurn THEN "pump" ELSE pc
  BY <1>1 DEF CreateTurn, CallPump
<1>3. \A i \in 1 .. n : pendingTurns[i] \in Requests /\ pendingTurns[i] # r
  BY <1>0, QueuedIdsProps DEF TurnsInv, ToSet
<1>4. /\ n \in Nat /\ N \in Nat /\ DOMAIN pendingTurns = 1 .. n /\ DOMAIN pendingTurns' = 1 .. (n + 1)
      /\ pendingTurns'[n + 1] = r /\ \A i \in 1 .. n : pendingTurns'[i] = pendingTurns[i]
  BY <1>0, <1>2, ClockTypes
<1>5. turnId'[r] = N /\ \A i \in 1 .. n : turnId'[pendingTurns[i]] = turnId[pendingTurns[i]]
  BY <1>0, <1>2, <1>3, ClockTypes
<1>6. started' = started /\ fold' = fold
  <2>1. Starting = {} /\ Dropping = {}
    BY <1>0, <1>2, ClockTypes DEF Starting, Dropping
  <2> QED BY <2>1 DEF Records
<1>7. /\ Created' = Created \cup {r} /\ r \notin Created
  BY <1>0, <1>2, ClockTypes DEF Created
<1>8. /\ Cardinality(Created \cup {r}) = Cardinality(Created) + 1
      /\ Cardinality(Created) + 1 <= Cardinality(Requests)
      /\ Cardinality(Requests) \in Nat
  <2>1. Created \cup {r} \subseteq Requests
    BY DEF Created
  <2>2. Cardinality(Created \cup {r}) = Cardinality(Created) + 1
    BY <1>0, <1>7, ClockTypes, FS_AddElement
  <2>3. Cardinality(Created \cup {r}) <= Cardinality(Requests)
    BY <2>1, FiniteAssumption, FS_Subset
  <2> QED BY <2>2, <2>3, FiniteAssumption, FS_CardinalityType
<1>9. N < Cardinality(Requests)
  BY <1>0, <1>8, ClockTypes DEF IdsInv
<1>10. QueuedIds' = Append(QueuedIds, N)
  <2>1. QueuedIds' = [i \in 1 .. (n + 1) |-> turnId'[pendingTurns'[i]]]
    BY <1>4 DEF QueuedIds
  <2>2. /\ QueuedIds \in Seq(Nat) /\ Len(QueuedIds) = n
        /\ \A i \in 1 .. n : QueuedIds[i] = turnId[pendingTurns[i]] /\ QueuedIds[i] \in Nat
    BY <1>0, QueuedIdsProps
  <2> DEFINE q == QueuedIds
             p == QueuedIds'
             a == Append(q, N)
  <2>3. /\ a \in Seq(Nat) /\ Len(a) = n + 1
        /\ a[n + 1] = N /\ \A i \in 1 .. n : a[i] = q[i]
    BY <1>4, <2>2
  <2>4. \A i \in 1 .. (n + 1) : i = n + 1 \/ i \in 1 .. n
    BY <1>4
  <2>5. \A i \in 1 .. (n + 1) : p[i] = IF i = n + 1 THEN N ELSE q[i]
    BY <1>4, <1>5, <2>1, <2>2, <2>4
  <2>6. \A i \in 1 .. (n + 1) : p[i] = a[i] /\ p[i] \in Nat
    BY <1>4, <2>2, <2>3, <2>4, <2>5
  <2>7. p \in Seq(Nat) /\ Len(p) = n + 1
    BY <1>4, <2>1, <2>6
  <2> HIDE DEF p, a
  <2>8. p = a
    BY <2>3, <2>6, <2>7, SeqEqual
  <2> QED BY <2>8 DEF p, a
<1>11. IdsInv'
  <2>1. N + 1 <= Cardinality(Created')
    BY <1>0, <1>7, <1>8, ClockTypes DEF IdsInv
  <2>2. clock'.next <= N + 1 /\ \A id \in clock'.cancelled : clock'.next < id /\ id < N + 1
    BY <1>0, <1>2, ClockTypes DEF IdsInv
  <2>3. ASSUME NEW i \in DOMAIN pendingTurns'
        PROVE  /\ clock'.next <= turnId'[pendingTurns'[i]]
               /\ turnId'[pendingTurns'[i]] \notin clock'.cancelled
    <3>1. CASE i \in 1 .. n
      BY <1>2, <1>4, <1>5, <3>1 DEF IdsInv
    <3>2. CASE i = n + 1
      BY <1>0, <1>2, <1>4, <1>5, <3>2, ClockTypes DEF IdsInv
    <3> QED BY <1>4, <2>3, <3>1, <3>2
  <2> QED BY <1>2, <2>1, <2>2, <2>3 DEF IdsInv
<1>12. /\ ClockPhase # "pump"
       /\ ClockPhase' = IF ClockPhase = "running" THEN "running" ELSE "pump"
  BY <1>0, <1>2 DEF ClockPhase, TurnsInv
<1>13. Clock!Reserve
  BY <1>1, <1>2, <1>6, <1>9, <1>10, <1>12, SameLists DEF Clock!Reserve
<1> QED BY <1>11, <1>13 DEF ClockStep, Clock!Next, Clock!Step

\* turn.prompt moves the clock behind the turn that starts.
LEMMA StartTurnClock ==
  ASSUME LoopInv, IdsInv, Records, StartTurn
  PROVE  IdsInv' /\ ClockStep
<1> DEFINE n == Len(pendingTurns)
           h == Head(pendingTurns)
           m == clock.next
           C == clock.cancelled
           c == AdvanceTurnClock(m + 1, C)
<1>0. TypeInv /\ TurnsInv
  BY DEF LoopInv
<1>1. /\ pc = "pump" /\ pendingTurns # << >>
      /\ pendingTurns' = Tail(pendingTurns) /\ pc' = "starting"
      /\ turnState' = [turnState EXCEPT ![h] = "running"]
      /\ clock' = PromptTurn(clock) /\ clock' = c
      /\ UNCHANGED <<turnId, nextReserved>>
  BY DEF StartTurn, PromptTurn
<1>2. /\ pendingTurns \in Seq(Requests) /\ n \in Nat /\ n > 0 /\ DOMAIN pendingTurns = 1 .. n
      /\ h = pendingTurns[1] /\ 1 \in 1 .. n
      /\ DOMAIN pendingTurns' = 1 .. (n - 1)
      /\ \A i \in 1 .. (n - 1) : i + 1 \in 1 .. n /\ pendingTurns'[i] = pendingTurns[i + 1]
  BY <1>0, <1>1, ClockTypes
<1>3. h \in Requests /\ turnState[h] = "queued"
  BY <1>0, <1>2 DEF TurnsInv, ToSet
<1>4. /\ m \in Nat /\ C \in SUBSET Nat /\ IsFiniteSet(C) /\ nextReserved \in Nat
      /\ turnId[h] \in Nat /\ m <= turnId[h] /\ turnId[h] < nextReserved
      /\ \A i \in 1 .. n : turnId[pendingTurns[i]] \in Nat
  BY <1>0, <1>2, <1>3, ClockTypes, SMTT(30) DEF IdsInv, TurnsInv
<1>5. /\ c.next \in Nat /\ c.next >= m + 1 /\ c.next \notin C
      /\ \A k \in (m + 1) .. (c.next - 1) : k \in C
      /\ c.cancelled = {id \in C : id > c.next}
  <2>1. m + 1 \in Nat
    BY <1>4
  <2> HIDE DEF m, C
  <2> QED BY <1>4, <2>1, AdvanceTurnClockProps DEF TurnClockState
<1> HIDE DEF c
<1>6. Starting = {h} /\ Dropping = {}
  BY <1>0, <1>1, <1>3, ClockTypes DEF Starting, Dropping
<1>7. /\ started' = started \cup {[live |-> turnId[h], replayed |-> clock.next,
                                   folded |-> Clock!FoldPromptId(fold)]}
      /\ fold' = Clock!FoldPrompt(fold)
  BY <1>6 DEF Records
<1>8. Created' = Created
  BY <1>0, <1>1, <1>3, ClockTypes DEF Created
<1>9. IdsInv'
  <2>1. c.next <= nextReserved
    <3>1. CASE c.next = m + 1
      BY <1>4, <3>1
    <3>2. CASE c.next # m + 1
      <4>1. c.next - 1 \in (m + 1) .. (c.next - 1)
        <5> DEFINE f == c.next
        <5>1. m \in Nat /\ f \in Nat /\ f >= m + 1 /\ f # m + 1
          BY <1>4, <1>5, <3>2
        <5> HIDE DEF m, f
        <5>2. f - 1 \in (m + 1) .. (f - 1)
          BY <5>1
        <5> QED BY <5>2 DEF f
      <4>2. c.next - 1 < nextReserved
        BY <1>5, <4>1 DEF IdsInv
      <4> QED BY <1>4, <1>5, <4>2
    <3> QED BY <3>1, <3>2
  <2>2. ASSUME NEW i \in 1 .. (n - 1)
        PROVE  c.next <= turnId[pendingTurns'[i]] /\ turnId[pendingTurns'[i]] \notin c.cancelled
    <3> DEFINE x == turnId[pendingTurns[i + 1]]
    <3>1. /\ pendingTurns'[i] = pendingTurns[i + 1] /\ i + 1 \in 1 .. n /\ 1 < i + 1
          /\ x \in Nat /\ x \notin C /\ turnId[h] < x
      <4>1. pendingTurns'[i] = pendingTurns[i + 1] /\ i + 1 \in 1 .. n
        BY <1>2, <2>2
      <4>2. 1 < i + 1
        BY <2>2
      <4>3. x \in Nat
        BY <1>4, <4>1
      <4>4. x \notin C
        BY <1>2, <4>1 DEF IdsInv
      <4>5. turnId[h] < x
        BY <1>0, <1>2, <4>1, <4>2 DEF TurnsInv
      <4> QED BY <4>1, <4>2, <4>3, <4>4, <4>5
    <3> HIDE DEF x
    <3>2. ~ (x < c.next)
      <4>1. ASSUME x < c.next PROVE FALSE
        <5>1. x \in (m + 1) .. (c.next - 1)
          BY <1>4, <1>5, <3>1, <4>1
        <5> QED BY <1>5, <3>1, <5>1
      <4> QED BY <4>1
    <3>3. c.next <= x /\ x \notin c.cancelled
      BY <1>5, <3>1, <3>2
    <3> QED BY <3>1, <3>3 DEF x
  <2>3. \A id \in c.cancelled : c.next < id /\ id < nextReserved
    BY <1>5 DEF IdsInv
  <2>4. nextReserved <= Cardinality(Created)
    BY DEF IdsInv
  <2> QED BY <1>1, <1>2, <1>8, <2>1, <2>2, <2>3, <2>4 DEF IdsInv
<1>10. /\ QueuedIds # << >> /\ Head(QueuedIds) = turnId[h] /\ QueuedIds' = Tail(QueuedIds)
  <2> DEFINE q == QueuedIds
             p == QueuedIds'
             t == Tail(q)
  <2>1. /\ q \in Seq(Nat) /\ Len(q) = n
        /\ \A i \in 1 .. n : q[i] = turnId[pendingTurns[i]] /\ q[i] \in Nat
    BY <1>0, <1>4, QueuedIdsProps
  <2>2. /\ q # << >> /\ Head(q) = q[1] /\ t \in Seq(Nat) /\ Len(t) = n - 1
        /\ \A i \in 1 .. (n - 1) : t[i] = q[i + 1]
    BY <1>2, <2>1
  <2>3. p = [i \in 1 .. (n - 1) |-> turnId[pendingTurns'[i]]]
    BY <1>1, <1>2 DEF QueuedIds
  <2>4. \A i \in 1 .. (n - 1) : p[i] = t[i] /\ p[i] \in Nat
    BY <1>2, <2>1, <2>2, <2>3
  <2>5. p \in Seq(Nat) /\ Len(p) = n - 1
    <3>1. n - 1 \in Nat
      BY <1>2
    <3> QED BY <2>3, <2>4, <3>1
  <2> HIDE DEF p, t, q
  <2>6. p = t
    BY <2>2, <2>4, <2>5, SeqEqual
  <2>7. Head(q) = turnId[h]
    BY <1>2, <2>1, <2>2
  <2> QED BY <2>2, <2>6, <2>7 DEF p, t, q
<1>11. ClockPhase = "pump" /\ ClockPhase' = "running"
  BY <1>1 DEF ClockPhase
<1>12. Clock!Start
  BY <1>1, <1>7, <1>10, <1>11, SameClock DEF Clock!Start
<1> QED BY <1>9, <1>12 DEF ClockStep, Clock!Next, Clock!Step

\* turn.cancel records of queued turns move the clock over their ids, never
\* over that of a turn that still waits.
LEMMA CancelIds ==
  ASSUME TypeInv, IdsInv, NEW S \in SUBSET Nat, IsFiniteSet(S),
         \A id \in S : id < nextReserved,
         clock' = CancelQueuedTurns(clock, S), nextReserved' = nextReserved,
         turnId' = turnId, Cardinality(Created') = Cardinality(Created),
         \A i \in DOMAIN pendingTurns' : \E j \in DOMAIN pendingTurns :
           pendingTurns'[i] = pendingTurns[j] /\ turnId[pendingTurns[j]] \notin S
  PROVE  IdsInv'
<1> DEFINE m == clock.next
           C == clock.cancelled
           ids == {id \in S : id >= clock.next}
           D == C \cup ids
           c == AdvanceTurnClock(m, D)
<1>1. /\ m \in Nat /\ C \in SUBSET Nat /\ IsFiniteSet(C) /\ nextReserved \in Nat
      /\ m <= nextReserved
      /\ \A j \in DOMAIN pendingTurns : /\ turnId[pendingTurns[j]] \in Nat
                                        /\ m <= turnId[pendingTurns[j]]
                                        /\ turnId[pendingTurns[j]] \notin C
  BY ClockTypes, QueuedIdsProps DEF IdsInv
<1>2. clock' = c
  BY DEF CancelQueuedTurns
<1>3. D \in SUBSET Nat /\ IsFiniteSet(D) /\ \A id \in D : id < nextReserved
  <2>1. ids \subseteq S
    OBVIOUS
  <2>2. IsFiniteSet(ids)
    BY <2>1, FS_Subset
  <2>3. IsFiniteSet(D)
    BY <1>1, <2>2, FS_Union
  <2> QED BY <1>1, <2>1, <2>3 DEF IdsInv
<1> HIDE DEF D, ids
<1>4. /\ c.next \in Nat /\ c.next >= m /\ c.next \notin D
      /\ \A k \in m .. (c.next - 1) : k \in D
      /\ c.cancelled = {id \in D : id > c.next}
  <2> HIDE DEF m
  <2> QED BY <1>1, <1>3, AdvanceTurnClockProps DEF TurnClockState
<1> DEFINE f == c.next
<1>5. /\ f \in Nat /\ f >= m /\ \A k \in m .. (f - 1) : k \in D
      /\ clock'.next = f /\ clock'.cancelled = {id \in D : id > f}
  BY <1>2, <1>4
<1> HIDE DEF c, f, m, C
<1>6. f <= nextReserved
  <2>1. CASE f = m
    BY <1>1, <2>1
  <2>2. CASE f # m
    <3>1. f - 1 \in m .. (f - 1)
      BY <1>1, <1>5, <2>2
    <3>2. f - 1 < nextReserved
      BY <1>3, <1>5, <3>1
    <3> QED BY <1>1, <1>5, <3>2
  <2> QED BY <2>1, <2>2
<1>7. ASSUME NEW i \in DOMAIN pendingTurns'
      PROVE  /\ clock'.next <= turnId[pendingTurns'[i]]
             /\ turnId[pendingTurns'[i]] \notin clock'.cancelled
  <2>1. PICK j \in DOMAIN pendingTurns :
          pendingTurns'[i] = pendingTurns[j] /\ turnId[pendingTurns[j]] \notin S
    BY <1>7
  <2> DEFINE x == turnId[pendingTurns[j]]
  <2>2. x \in Nat /\ m <= x /\ x \notin D
    BY <1>1, <2>1 DEF D, ids
  <2> HIDE DEF x
  <2>3. ~ (x < f)
    <3>1. ASSUME x < f PROVE FALSE
      <4>1. x \in m .. (f - 1)
        BY <1>1, <1>5, <2>2, <3>1
      <4> QED BY <1>5, <2>2, <4>1
    <3> QED BY <3>1
  <2>4. f <= x /\ x \notin clock'.cancelled
    BY <1>5, <2>2, <2>3
  <2> QED BY <1>5, <2>1, <2>4 DEF x
<1>8. \A id \in clock'.cancelled : clock'.next < id /\ id < nextReserved
  BY <1>3, <1>5
<1>9. nextReserved <= Cardinality(Created')
  BY DEF IdsInv
<1> QED BY <1>5, <1>6, <1>7, <1>8, <1>9 DEF IdsInv

\* Cancelling one queued turn is CancelQueued of the clock.
LEMMA CancelQueuedTurnClock ==
  ASSUME LoopInv, IdsInv, Records, NEW k \in DOMAIN pendingTurns, CancelQueuedTurn(k)
  PROVE  IdsInv' /\ ClockStep
<1> DEFINE n == Len(pendingTurns)
           t == pendingTurns[k]
           S == {turnId[t]}
<1>0. TypeInv /\ TurnsInv /\ SettleInv
  BY DEF LoopInv
<1>1. /\ External /\ pendingTurns' = RemoveAt(pendingTurns, k)
      /\ clock' = CancelQueuedTurns(clock, S)
      /\ turnState' = [turnState EXCEPT ![t] = "cancelled"]
      /\ UNCHANGED <<turnId, nextReserved, active, pc>>
  BY DEF CancelQueuedTurn, Dequeue
<1>2. /\ pendingTurns \in Seq(Requests) /\ n \in Nat /\ DOMAIN pendingTurns = 1 .. n
      /\ k \in 1 .. n /\ t \in Requests /\ turnState[t] = "queued"
      /\ \A i \in 1 .. n : pendingTurns[i] \in Requests /\ turnId[pendingTurns[i]] \in Nat
  BY <1>0, ClockTypes DEF TurnsInv, ToSet
<1>3. /\ DOMAIN pendingTurns' = 1 .. (n - 1)
      /\ \A i \in 1 .. (k - 1) : pendingTurns'[i] = pendingTurns[i]
      /\ \A i \in k .. (n - 1) : pendingTurns'[i] = pendingTurns[i + 1]
  <2>1. /\ pendingTurns' \in Seq(Requests) /\ Len(pendingTurns') = n - 1
        /\ \A i \in 1 .. (k - 1) : pendingTurns'[i] = pendingTurns[i]
        /\ \A i \in k .. (n - 1) : pendingTurns'[i] = pendingTurns[i + 1]
    BY <1>1, <1>2, RemoveAtProps
  <2> QED BY <2>1
<1>4. \A i \in 1 .. (n - 1) :
        \/ i \in 1 .. (k - 1) /\ i \in 1 .. n /\ i < k
        \/ i \in k .. (n - 1) /\ i + 1 \in 1 .. n /\ k < i + 1
  BY <1>2
<1>5. Starting = {} /\ Dropping = {t}
  BY <1>0, <1>1, <1>2, ClockTypes DEF Starting, Dropping
<1>6. started' = started /\ fold' = Clock!FoldCancelQueued(fold, S)
  <2>1. {turnId[x] : x \in {t}} = S
    OBVIOUS
  <2> QED BY <1>5, <2>1 DEF Records
<1>7. Created' = Created
  BY <1>0, <1>1, <1>2, ClockTypes DEF Created
<1>8. IdsInv'
  <2>1. S \in SUBSET Nat /\ IsFiniteSet(S) /\ \A id \in S : id < nextReserved
    BY <1>0, <1>2, FS_Singleton DEF TurnsInv
  <2>2. ASSUME NEW i \in DOMAIN pendingTurns'
        PROVE  \E j \in DOMAIN pendingTurns :
                 pendingTurns'[i] = pendingTurns[j] /\ turnId[pendingTurns[j]] \notin S
    <3>1. PICK j \in 1 .. n : j # k /\ pendingTurns'[i] = pendingTurns[j]
      <4>1. CASE i \in 1 .. (k - 1) /\ i \in 1 .. n /\ i < k
        BY <1>2, <1>3, <4>1
      <4>2. CASE i \in k .. (n - 1) /\ i + 1 \in 1 .. n /\ k < i + 1
        BY <1>2, <1>3, <4>2
      <4> QED BY <1>3, <1>4, <2>2, <4>1, <4>2
    <3>2. turnId[pendingTurns[j]] < turnId[t] \/ turnId[t] < turnId[pendingTurns[j]]
      <4>1. j < k \/ k < j
        BY <1>2, <3>1
      <4> QED BY <1>0, <1>2, <4>1 DEF TurnsInv
    <3>3. turnId[pendingTurns[j]] # turnId[t]
      BY <1>2, <3>2
    <3> QED BY <1>2, <3>1, <3>3
  <2> HIDE DEF S
  <2> QED BY <1>0, <1>1, <1>7, <2>1, <2>2, CancelIds
<1>9. /\ k \in DOMAIN QueuedIds /\ QueuedIds[k] = turnId[t]
      /\ QueuedIds' = RemoveAt(QueuedIds, k)
  <2> DEFINE q == QueuedIds
             p == QueuedIds'
             a == RemoveAt(q, k)
  <2>1. /\ q \in Seq(Nat) /\ Len(q) = n /\ DOMAIN q = 1 .. n
        /\ \A i \in 1 .. n : q[i] = turnId[pendingTurns[i]] /\ q[i] \in Nat
    BY <1>0, <1>2, QueuedIdsProps
  <2>2. /\ a \in Seq(Nat) /\ Len(a) = n - 1
        /\ \A i \in 1 .. (k - 1) : a[i] = q[i]
        /\ \A i \in k .. (n - 1) : a[i] = q[i + 1]
    <3>1. q \in Seq(Nat) /\ k \in 1 .. Len(q)
      BY <1>2, <2>1
    <3> HIDE DEF q
    <3>2. /\ a \in Seq(Nat) /\ Len(a) = Len(q) - 1
          /\ \A i \in 1 .. (k - 1) : a[i] = q[i]
          /\ \A i \in k .. (Len(q) - 1) : a[i] = q[i + 1]
      BY <3>1, RemoveAtProps
    <3> QED BY <2>1, <3>2
  <2>3. p = [i \in 1 .. (n - 1) |-> turnId[pendingTurns'[i]]]
    BY <1>1, <1>3 DEF QueuedIds
  <2> HIDE DEF p, a, q
  <2>4. \A i \in 1 .. (n - 1) : p[i] = a[i] /\ p[i] \in Nat
    <3> SUFFICES ASSUME NEW i \in 1 .. (n - 1) PROVE p[i] = a[i] /\ p[i] \in Nat
      OBVIOUS
    <3>1. CASE i \in 1 .. (k - 1) /\ i \in 1 .. n /\ i < k
      BY <1>3, <2>1, <2>2, <2>3, <3>1
    <3>2. CASE i \in k .. (n - 1) /\ i + 1 \in 1 .. n /\ k < i + 1
      BY <1>3, <2>1, <2>2, <2>3, <3>2, SMTT(30)
    <3> QED BY <1>4, <3>1, <3>2
  <2>5. p \in Seq(Nat) /\ Len(p) = n - 1
    <3>1. n - 1 \in Nat
      BY <1>2
    <3> QED BY <2>3, <2>4, <3>1
  <2>6. p = a
    BY <2>2, <2>4, <2>5, SeqEqual
  <2> QED BY <1>2, <2>1, <2>6 DEF p, a, q
<1>10. ClockPhase \in {"running", "ending"} /\ ClockPhase' = ClockPhase
  <2>1. pc # "idle"
    <3>1. pendingTurns # << >>
      BY <1>2
    <3> QED BY <1>0, <3>1 DEF SettleInv
  <2> QED BY <1>1, <2>1 DEF External, Free, AwaitPhases, ClockPhase
<1>11. Clock!CancelQueued
  <2>1. /\ clock' = Clock!CancelQueuedTurns(clock, {QueuedIds[k]})
        /\ fold' = Clock!FoldCancelQueued(fold, {QueuedIds[k]})
    BY <1>1, <1>6, <1>9, SameClock
  <2>2. QueuedIds' = Clock!RemoveAt(QueuedIds, k)
    BY <1>9, SameLists
  <2> QED BY <1>1, <1>6, <1>9, <1>10, <2>1, <2>2 DEF Clock!CancelQueued
<1> QED BY <1>8, <1>11 DEF ClockStep, Clock!Next, Clock!Step

\* dispose() is CancelAllQueued, or nothing when no turn waits.
LEMMA DisposeClock ==
  ASSUME LoopInv, IdsInv, Records, Dispose
  PROVE  IdsInv' /\ ClockStep
<1> DEFINE n == Len(pendingTurns)
           T == ToSet(pendingTurns)
           S == {turnId[t] : t \in T}
<1>0. TypeInv /\ TurnsInv
  BY DEF LoopInv
<1>1. /\ Free /\ pendingTurns' = << >> /\ clock' = CancelQueuedTurns(clock, S)
      /\ turnState' = [r \in Requests |-> IF r \in T THEN "cancelled" ELSE turnState[r]]
      /\ UNCHANGED <<turnId, nextReserved, active, pc>>
  BY DEF Dispose, CancelEverything
<1>2. /\ pendingTurns \in Seq(Requests) /\ n \in Nat /\ DOMAIN pendingTurns = 1 .. n
      /\ T \subseteq Requests /\ \A t \in Requests : turnState[t] = "queued" <=> t \in T
      /\ turnId \in [Requests -> Nat]
  BY <1>0, ClockTypes, ElementsType DEF TurnsInv
<1>3. Starting = {} /\ Dropping = T
  BY <1>0, <1>1, <1>2, ClockTypes DEF Starting, Dropping
<1>4. started' = started /\ fold' = IF T # {} THEN Clock!FoldCancelQueued(fold, S) ELSE fold
  BY <1>3 DEF Records
<1>5. Created' = Created
  BY <1>0, <1>1, <1>2, ClockTypes DEF Created
<1>6. S \in SUBSET Nat /\ IsFiniteSet(S) /\ \A id \in S : id < nextReserved
  <2>1. nextReserved \in Nat /\ \A t \in T : turnId[t] \in Nat /\ turnId[t] < nextReserved
    BY <1>0, <1>2, ClockTypes DEF TurnsInv
  <2>2. S \subseteq 0 .. (nextReserved - 1)
    <3> HIDE DEF T
    <3> QED BY <2>1
  <2>3. IsFiniteSet(0 .. (nextReserved - 1))
    BY <2>1, FS_Interval
  <2>4. IsFiniteSet(S)
    BY <2>2, <2>3, FS_Subset
  <2> HIDE DEF T
  <2> QED BY <2>1, <2>4
<1>7. IdsInv'
  <2>1. DOMAIN pendingTurns' = {}
    BY <1>1
  <2> HIDE DEF S
  <2> QED BY <1>0, <1>1, <1>5, <1>6, <2>1, CancelIds
<1>8. QueuedIds' = << >> /\ ClockPhase' = ClockPhase /\ ClockPhase # "pump"
  BY <1>1 DEF QueuedIds, ClockPhase, Free, AwaitPhases
<1>9. ToSet(QueuedIds) = S
  <2>1. DOMAIN QueuedIds = 1 .. n /\ \A i \in 1 .. n : QueuedIds[i] = turnId[pendingTurns[i]]
    BY <1>0, QueuedIdsProps
  <2> QED BY <1>2, <2>1 DEF ToSet
<1>10. CASE pendingTurns # << >>
  <2>1. QueuedIds # << >> /\ T # {}
    <3>1. n # 0
      BY <1>2, <1>10
    <3>2. 1 \in DOMAIN pendingTurns
      BY <1>2, <3>1
    <3>3. Len(QueuedIds) = n
      BY <1>0, QueuedIdsProps
    <3> QED BY <3>1, <3>2, <3>3 DEF ToSet
  <2>2. Clock!CancelAllQueued
    BY <1>1, <1>4, <1>8, <1>9, <2>1, SameClock, SameLists DEF Clock!CancelAllQueued
  <2> QED BY <1>7, <2>2 DEF ClockStep, Clock!Next, Clock!Step
<1>11. CASE pendingTurns = << >>
  <2>1. T = {} /\ S = {}
    BY <1>11, EmptyListProps
  <2>2. QueuedIds = << >>
    BY <1>11 DEF QueuedIds
  <2>3. clock' = clock
    <3> DEFINE m == clock.next
               C == clock.cancelled
               c == AdvanceTurnClock(m, C)
    <3>1. /\ m \in Nat /\ C \in SUBSET Nat /\ IsFiniteSet(C) /\ clock \in TurnClockState
          /\ \A id \in C : m < id
      BY <1>0, ClockTypes DEF IdsInv
    <3>2. clock' = c
      <4>1. C \cup {id \in S : id >= m} = C
        BY <2>1
      <4> QED BY <1>1, <4>1 DEF CancelQueuedTurns
    <3>3. /\ c \in TurnClockState /\ c.next \in Nat /\ c.next >= m /\ c.next \notin C
          /\ \A k \in m .. (c.next - 1) : k \in C
          /\ c.cancelled = {id \in C : id > c.next}
      <4> HIDE DEF m, C
      <4> QED BY <3>1, AdvanceTurnClockProps DEF TurnClockState
    <3> DEFINE f == c.next
    <3>4. f \in Nat /\ f >= m /\ \A k \in m .. (f - 1) : k \in C
      BY <3>3
    <3>5. clock = [next |-> m, cancelled |-> C] /\ c = [next |-> f, cancelled |-> c.cancelled]
      BY <3>1, <3>3 DEF TurnClockState
    <3> HIDE DEF c, f, m, C
    <3>6. f = m
      <4>1. m \notin C
        BY <3>1
      <4>2. ASSUME f > m PROVE FALSE
        <5>1. m \in m .. (f - 1)
          BY <3>1, <3>4, <4>2
        <5> QED BY <3>4, <4>1, <5>1
      <4> QED BY <3>1, <3>4, <4>2
    <3>7. c.cancelled = C
      BY <3>1, <3>3, <3>6 DEF f
    <3> QED BY <3>2, <3>5, <3>6, <3>7
  <2> QED BY <1>1, <1>4, <1>7, <1>8, <2>1, <2>2, <2>3 DEF ClockStep, Clock!vars
<1> QED BY <1>10, <1>11

\* An idle loop is an idle clock.
LEMMA InitClock == InitRecorded => IdsInv /\ Clock!Init
<1> SUFFICES ASSUME InitRecorded PROVE IdsInv /\ Clock!Init
  OBVIOUS
<1>1. TypeInv
  BY InitType DEF InitRecorded
<1>2. /\ nextReserved = 0 /\ clock = [next |-> 0, cancelled |-> {}] /\ pendingTurns = << >>
      /\ pc = "idle"
  BY DEF InitRecorded, Init, InitialTurnClock
<1>3. QueuedIds = << >> /\ ClockPhase = "idle" /\ DOMAIN pendingTurns = {}
  BY <1>2 DEF QueuedIds, ClockPhase
<1>4. IdsInv
  BY <1>1, <1>2, <1>3, ClockTypes DEF IdsInv
<1>5. Clock!Init
  BY <1>2, <1>3, SameClock DEF Clock!Init, InitRecorded, Init
<1> QED BY <1>4, <1>5

\* Every action of the loop is one step of the clock or none.
LEMMA NextClock ==
  ASSUME LoopInv, IdsInv, NextRecorded
  PROVE  IdsInv' /\ ClockStep
<1>0. /\ TypeInv /\ LeaseInv /\ TurnsInv /\ PlacesInv /\ SettleInv /\ Records /\ Next
      /\ turnState \in [Requests -> {"none", "queued", "running"} \cup Ended]
  BY StepsType DEF LoopInv, NextRecorded
<1> DEFINE Quiescent == /\ UNCHANGED <<pendingTurns, turnId, nextReserved, clock, turnState>>
                        /\ pc' = pc \/ {pc, pc'} \cap {"idle", "pump", "ending"} = {}
\* steps that the clock does not see
<1>1. ASSUME Quiescent PROVE IdsInv' /\ ClockStep
  BY <1>0, <1>1, PhaseStep DEF ClockPhase
<1>2. CASE PrepareTurn \/ Continue \/ StepFinished
  BY <1>1, <1>2 DEF PrepareTurn, Continue, StepFinished
<1>3. CASE BeginNothing \/ BeginStep \/ StepFailed
  BY <1>1, <1>3 DEF BeginNothing, BeginStep, StepFailed, Return
<1>4. CASE StepInterrupted \/ StepFailedRetryable
  BY <1>1, <1>4 DEF StepInterrupted, StepFailedRetryable, Return
<1>5. CASE Recover \/ AfterStep \/ CompleteStep
  BY <1>1, <1>5 DEF Recover, AfterStep, CompleteStep, Return
<1>6. CASE TakeHeld \/ CancelActiveTurn \/ AcquireQuiescence \/ \E w \in Waiters : Settled(w)
  BY <1>1, <1>6 DEF TakeHeld, CancelActiveTurn, AcquireQuiescence, Settled
<1>7. CASE \/ \E r \in Requests : CancelStep(r) \/ AbortStandalone(r)
           \/ \E k \in DOMAIN held : AbortHeld(k)
  BY <1>1, <1>7 DEF CancelStep, AbortStandalone, AbortHeld
\* steps that move its phase
<1>8. CASE Ending
  <2>1. /\ pc = "ending" /\ pc' = "pump"
        /\ UNCHANGED <<pendingTurns, turnId, nextReserved, clock, turnState>>
    BY <1>0, <1>8 DEF Ending, CallPump, TurnsInv
  <2> QED BY <1>0, <2>1, PhaseStep DEF ClockPhase
<1>9. CASE Released \/ ReleaseQuiescence
  <2>1. /\ UNCHANGED <<pendingTurns, turnId, nextReserved, clock, turnState>>
        /\ pc' = pc \/ (active = NoTurn /\ pc' = "pump")
        /\ pc # "pump"
    BY <1>9 DEF Released, ReleaseQuiescence, CallPump, Free, SyncPhases, AwaitPhases
  <2>2. CASE pc' = pc
    BY <1>1, <2>1, <2>2
  <2>3. CASE active = NoTurn /\ pc' = "pump"
    <3>1. pc \in {"idle", "ending"}
      BY <1>0, <2>1, <2>3 DEF TurnsInv
    <3> QED BY <1>0, <2>1, <2>3, <3>1, PhaseStep DEF ClockPhase
  <2> QED BY <2>1, <2>2, <2>3
<1>10. CASE PumpTurns
  <2>1. /\ pc = "pump" /\ pc' = "idle" /\ pendingTurns = << >>
        /\ UNCHANGED <<pendingTurns, turnId, nextReserved, clock, turnState>>
    BY <1>0, <1>10 DEF PumpTurns, SettleInv, SyncPhases, TypeInv, TypeOK, GateTypeOK
  <2> QED BY <1>0, <2>1, PhaseStep DEF ClockPhase
<1>11. CASE EndTurn
  <2>1. /\ pc \in {"return", "release"} /\ pc' = "ending"
        /\ UNCHANGED <<pendingTurns, turnId, nextReserved, clock>>
        /\ turnState' = [turnState EXCEPT ![active] = result]
        /\ active \in Requests /\ turnState[active] = "running"
        /\ result \notin {"none", "queued"}
    BY <1>0, <1>11 DEF EndTurn, TurnsInv, TypeInv, TypeOK, TurnTypeOK, RunTypeOK, Owners, Ended
  <2>2. /\ \A t \in Requests : turnState[t] \in {"none", "queued"} => turnState'[t] = turnState[t]
        /\ \A t \in Requests : turnState'[t] = "none" => turnState[t] = "none"
    BY <1>0, <2>1
  <2>3. ClockPhase = "running" /\ ClockPhase' = "ending"
    BY <2>1 DEF ClockPhase
  <2> QED BY <1>0, <2>1, <2>2, <2>3, PhaseStep
\* requests that are let in
<1>12. ASSUME NEW r \in Requests, Admit(r), turnState[r] = "none", active' = active, pc # "pump"
       PROVE  IdsInv' /\ ClockStep
  BY <1>0, <1>1, <1>12, CreateTurnClock DEF Admit
<1>13. ASSUME NEW r \in Requests, Enqueue(r) PROVE IdsInv' /\ ClockStep
  <2>1. turnState[r] = "none" /\ active' = active /\ pc # "pump"
    BY <1>0, <1>13 DEF Enqueue, TurnsInv, External, Free, AwaitPhases
  <2>2. Admit(r) \/ UNCHANGED <<turnVars, pc>>
    BY <1>13 DEF Enqueue
  <2> QED BY <1>1, <1>12, <2>1, <2>2
<1>14. CASE AdmitHeld
  <2> DEFINE r == Head(admitting)
  <2>1. r \in Requests /\ r \in Gate
    BY <1>0, <1>14, GateType, HeadTailProps DEF AdmitHeld, Gate
  <2>2. turnState[r] = "none" /\ active' = active /\ pc # "pump"
    BY <1>0, <1>14, <2>1 DEF TurnsInv, AdmitHeld, SyncPhases
  <2>3. Admit(r) \/ UNCHANGED <<turnVars, pc>>
    BY <1>14 DEF AdmitHeld
  <2> HIDE DEF r
  <2> QED BY <1>1, <1>12, <2>1, <2>2, <2>3
<1> QED
  BY <1>0, <1>2, <1>3, <1>4, <1>5, <1>6, <1>7, <1>8, <1>9, <1>10, <1>11, <1>13, <1>14,
     StartTurnClock, CancelQueuedTurnClock, DisposeClock
  DEF Next, Loop, Call

\* A stuttering loop is a stuttering clock.
LEMMA StutterClock ==
  ASSUME LoopInv, IdsInv, UNCHANGED <<vars, fold, started>>
  PROVE  IdsInv' /\ ClockStep
  BY DEF IdsInv, Created, ClockStep, Clock!vars, QueuedIds, ClockPhase

\* The loop implements the turn clock: created, started, ended and cancelled
\* by whatever interleaving of senders, leases and failures, its turns take
\* the steps of TurnClock and no others.
THEOREM LoopImplementsClock == SpecRecorded => TurnClockSpec
<1> DEFINE Inv == LoopInv /\ IdsInv
<1>1. InitRecorded => Inv /\ Clock!Init
  BY InitClock, InitLoop DEF InitRecorded
<1>2. Inv /\ [NextRecorded]_<<vars, fold, started>> => Inv' /\ [Clock!Next]_(Clock!vars)
  <2> SUFFICES ASSUME Inv, [NextRecorded]_<<vars, fold, started>>
               PROVE  Inv' /\ [Clock!Next]_(Clock!vars)
    OBVIOUS
  <2>1. LoopInv'
    BY NextLoop DEF NextRecorded
  <2>2. IdsInv' /\ ClockStep
    BY NextClock, StutterClock
  <2> QED BY <2>1, <2>2 DEF ClockStep
<1> QED BY <1>1, <1>2, PTL DEF SpecRecorded, TurnClockSpec, Clock!Spec

\* What is proved of TurnClock, read with the state of the loop.
Replay == INSTANCE TurnClockProofs WITH
            queued <- QueuedIds, phase <- ClockPhase,
            MaxTurns <- Cardinality(Requests)

\* Both instances of TurnClock have the same actions.
LEMMA SameInstance ==
  /\ Clock!Init <=> Replay!Init
  /\ Clock!Next <=> Replay!Next
  /\ Clock!vars = Replay!vars
<1>1. Clock!Init <=> Replay!Init
  BY DEF Clock!Init, Replay!Init, Clock!InitialTurnClock, Replay!InitialTurnClock
<1>2. Clock!vars = Replay!vars
  BY DEF Clock!vars, Replay!vars
<1>3. Clock!Reserve <=> Replay!Reserve
  BY DEF Clock!Reserve, Replay!Reserve, Clock!ReservedTurnId, Replay!ReservedTurnId,
    Clock!Max, Replay!Max
<1>4. \A n, ids : Clock!FirstNotCancelled(n, ids) = Replay!FirstNotCancelled(n, ids)
  BY DEF Clock!FirstNotCancelled, Replay!FirstNotCancelled, Clock!Min, Replay!Min,
    Clock!Cardinality, Replay!Cardinality
<1>5. \A c : /\ Clock!PromptTurn(c) = Replay!PromptTurn(c)
             /\ Clock!FoldPrompt(c) = Replay!FoldPrompt(c)
             /\ Clock!FoldPromptId(c) = Replay!FoldPromptId(c)
  BY <1>4 DEF Clock!PromptTurn, Replay!PromptTurn, Clock!AdvanceTurnClock, Replay!AdvanceTurnClock,
    Clock!FoldPrompt, Replay!FoldPrompt, Clock!FoldPromptId, Replay!FoldPromptId
<1>6. \A c, ids : /\ Clock!CancelQueuedTurns(c, ids) = Replay!CancelQueuedTurns(c, ids)
                  /\ Clock!FoldCancelQueued(c, ids) = Replay!FoldCancelQueued(c, ids)
  BY <1>4 DEF Clock!CancelQueuedTurns, Replay!CancelQueuedTurns,
    Clock!AdvanceTurnClock, Replay!AdvanceTurnClock,
    Clock!FoldCancelQueued, Replay!FoldCancelQueued
<1>7. Clock!Start <=> Replay!Start
  BY <1>5 DEF Clock!Start, Replay!Start
<1>8. /\ Clock!PumpEmpty <=> Replay!PumpEmpty
      /\ Clock!End <=> Replay!End
      /\ Clock!Pump <=> Replay!Pump
      /\ Clock!Restart <=> Replay!Restart
  BY DEF Clock!PumpEmpty, Replay!PumpEmpty, Clock!End, Replay!End, Clock!Pump, Replay!Pump,
    Clock!Restart, Replay!Restart
<1>9. Clock!CancelQueued <=> Replay!CancelQueued
  BY <1>6 DEF Clock!CancelQueued, Replay!CancelQueued, Clock!RemoveAt, Replay!RemoveAt
<1>10. Clock!CancelAllQueued <=> Replay!CancelAllQueued
  BY <1>6 DEF Clock!CancelAllQueued, Replay!CancelAllQueued, Clock!ToSet, Replay!ToSet
<1>11. Clock!Next <=> Replay!Next
  BY <1>3, <1>7, <1>8, <1>9, <1>10 DEF Clock!Next, Replay!Next, Clock!Step, Replay!Step
<1> QED BY <1>1, <1>2, <1>11

\* And so the same behaviours.
LEMMA SameSpec == Clock!Spec => Replay!Spec
<1>1. Clock!Init => Replay!Init
  BY SameInstance
<1>2. [Clock!Next]_(Clock!vars) => [Replay!Next]_(Replay!vars)
  BY SameInstance DEF Clock!vars, Replay!vars
<1> QED BY <1>1, <1>2, PTL DEF Clock!Spec, Replay!Spec

\* Every turn the loop starts is replayed under the id it ran with, by the
\* TurnModel on resume and by the transcript's fold, whatever was enqueued,
\* leased, cancelled or failed in between.
THEOREM LoopReplaysIdentity == SpecRecorded => []Clock!ReplayedIdentity
<1>1. Cardinality(Requests) \in Nat
  BY FiniteAssumption, FS_CardinalityType
<1>2. Replay!ReplayedIdentity <=> Clock!ReplayedIdentity
  BY DEF Replay!ReplayedIdentity, Clock!ReplayedIdentity
<1>3. SpecRecorded => Clock!Spec
  BY LoopImplementsClock DEF TurnClockSpec
<1> QED BY <1>1, <1>2, <1>3, SameSpec, Replay!ReplayedIdentityHolds, PTL

\* The turns of the loop start with ascending ids, however the queued ones
\* were cancelled in between.
THEOREM LoopStartsAscend == SpecRecorded => Clock!StartsAscend
<1>1. Cardinality(Requests) \in Nat
  BY FiniteAssumption, FS_CardinalityType
<1>2. SpecRecorded => Clock!Spec
  BY LoopImplementsClock DEF TurnClockSpec
<1>3. Replay!StartsAscend => Clock!StartsAscend
  BY PTL DEF Replay!StartsAscend, Clock!StartsAscend, Clock!vars, Replay!vars
<1> QED BY <1>1, <1>2, <1>3, SameSpec, Replay!StartsAscendHolds, PTL
=============================================================================
