-------------------------- MODULE AgentLoopProofs --------------------------
(***************************************************************************)
(* Proofs about AgentLoop, for any set of requests, queues of any length   *)
(* and any bounds, and that it implements the turn queue.                  *)
(***************************************************************************)
EXTENDS AgentLoopTurns, OperatorLemmas

USE DEF requestVars, queueVars, gateVars, turnVars, stepVars, signalVars,
        runVars, retryVars, vars

\* TypeOK is inductive with two more facts: the cancelled ids are finitely many
\* (or the clock might find no next id), and a step under way has a driver (or
\* a retry might put back no request at all).
TypeInv ==
  /\ TypeOK
  /\ IsFiniteSet(clock.cancelled)
  /\ pc \in {"exec", "after", "complete", "recover"} => driver \in Requests

-----------------------------------------------------------------------------
\* What the helpers return.

LEMMA AbortAllType ==
  ASSUME RequestTypeOK, NEW R
  PROVE  AbortAll(R) \in [Requests -> {"new", "pending", "materialized", "aborted"}]
  BY DEF AbortAll, RequestTypeOK

\* The front live element of a queue is one of its elements.
LEMMA LiveMin ==
  ASSUME NEW q \in Seq(Requests), Live(q) # {}
  PROVE  Min(Live(q)) \in 1 .. Len(q) /\ reqState[q[Min(Live(q))]] # "aborted"
<1>1. DOMAIN q = 1 .. Len(q) /\ Len(q) \in Nat
  OBVIOUS
<1>2. Live(q) \in SUBSET Nat /\ Live(q) \subseteq 1 .. Len(q)
  BY <1>1 DEF Live
<1>3. PICK m \in Live(q) : \A k \in Live(q) : m <= k
  BY <1>2, LeastNat
<1>4. Min(Live(q)) \in Live(q)
  BY <1>3 DEF Min
<1> QED BY <1>2, <1>4 DEF Live

LEMMA BatchType ==
  ASSUME QueueTypeOK, NEW t \in Owners, HasPending(t)
  PROVE  /\ BatchDriver(t) \in Requests
         /\ WorkLeft(t) \in Seq(Requests)
<1>1. work[t] \in Seq(Requests) /\ notes[t] \in Seq(Requests)
  BY DEF QueueTypeOK
<1>2. CASE Live(work[t]) # {}
  <2> DEFINE m == Min(Live(work[t]))
  <2>1. m \in 1 .. Len(work[t])
    BY <1>1, <1>2, LiveMin
  <2> HIDE DEF m
  <2>2. work[t][m] \in Requests /\ SubSeq(work[t], m + 1, Len(work[t])) \in Seq(Requests)
    BY <1>1, <2>1
  <2> QED BY <1>2, <2>2 DEF BatchDriver, WorkLeft, m
<1>3. CASE Live(work[t]) = {}
  <2>1. Live(notes[t]) # {}
    BY <1>3 DEF HasPending
  <2> DEFINE m == Min(Live(notes[t]))
  <2>2. m \in 1 .. Len(notes[t])
    BY <1>1, <2>1, LiveMin
  <2> HIDE DEF m
  <2>3. notes[t][m] \in Requests
    BY <1>1, <2>2
  <2> QED BY <1>3, <2>3 DEF BatchDriver, WorkLeft, m
<1> QED BY <1>2, <1>3

LEMMA PutTailType ==
  ASSUME QueueTypeOK, NEW t \in Owners, NEW r \in Requests, PutTail(t, r)
  PROVE  QueueTypeOK'
<1>1. Append(work[t], r) \in Seq(Requests) /\ Append(notes[t], r) \in Seq(Requests)
  BY DEF QueueTypeOK
<1>2. CASE r \in Mergeable
  BY <1>1, <1>2 DEF PutTail, QueueTypeOK
<1>3. CASE r \notin Mergeable
  BY <1>1, <1>3 DEF PutTail, QueueTypeOK
<1> QED BY <1>2, <1>3

LEMMA PutHeadType ==
  ASSUME QueueTypeOK, NEW t \in Owners, NEW r \in Requests, PutHead(t, r)
  PROVE  QueueTypeOK'
<1>1. <<r>> \o work[t] \in Seq(Requests) /\ <<r>> \o notes[t] \in Seq(Requests)
  BY DEF QueueTypeOK
<1>2. CASE r \in Mergeable
  BY <1>1, <1>2 DEF PutHead, QueueTypeOK
<1>3. CASE r \notin Mergeable
  BY <1>1, <1>3 DEF PutHead, QueueTypeOK
<1> QED BY <1>2, <1>3

LEMMA AssignStepType ==
  ASSUME RequestTypeOK, QueueTypeOK,
         NEW t \in Owners, NEW r \in Requests, AssignStep(t, r)
  PROVE  /\ QueueTypeOK'
         /\ home' \in [Requests -> Owners]
         /\ stepState' \in [Requests -> {"none", "queued", "running", "completed", "cancelled"}]
         /\ asg' \in [Requests -> {"none", "open", "assigned", "rejected"}]
<1>1. QueueTypeOK'
  BY PutTailType DEF AssignStep
<1> QED BY <1>1 DEF AssignStep, RequestTypeOK

LEMMA ElementsType ==
  ASSUME NEW s \in Seq(Requests)
  PROVE  ToSet(s) \subseteq Requests /\ IsFiniteSet(ToSet(s))
<1>1. ToSet(s) = {s[i] : i \in 1 .. Len(s)} /\ Len(s) \in Nat
  BY DEF ToSet
<1>2. IsFiniteSet(1 .. Len(s))
  BY <1>1, FS_Interval
<1>3. s \in Surjection(1 .. Len(s), ToSet(s))
  BY <1>1 DEF Surjection
<1>4. IsFiniteSet(ToSet(s))
  BY <1>2, <1>3, FS_Surjection DEF ExistsSurjection
<1> QED BY <1>1, <1>4

-----------------------------------------------------------------------------
\* Creation of a turn.

LEMMA ReservedTurnIdType ==
  ASSUME TurnTypeOK
  PROVE  ReservedTurnId \in Nat /\ ReservedTurnId >= clock.next
                              /\ ReservedTurnId >= nextReserved
<1>1. clock.next \in Nat /\ nextReserved \in Nat
  BY DEF TurnTypeOK, TurnClockState
<1> QED BY <1>1, MaxOfTwo DEF ReservedTurnId

LEMMA StandaloneType ==
  ASSUME QueueTypeOK
  PROVE  StandaloneLive \subseteq Requests
<1>1. work[NoTurn] \in Seq(Requests) /\ notes[NoTurn] \in Seq(Requests)
  BY DEF QueueTypeOK, Owners
<1>2. /\ \A i \in Live(work[NoTurn]) : work[NoTurn][i] \in Requests
      /\ \A i \in Live(notes[NoTurn]) : notes[NoTurn][i] \in Requests
  BY <1>1 DEF Live
<1> QED BY <1>2 DEF StandaloneLive

LEMMA CreateTurnType ==
  ASSUME TypeInv, NEW r \in Requests, CreateTurn(r)
  PROVE  /\ QueueTypeOK' 
         /\ home' \in [Requests -> Owners]
         /\ stepState' \in [Requests -> {"none", "queued", "running", "completed", "cancelled"}]
         /\ asg' \in [Requests -> {"none", "open", "assigned", "rejected"}]
         /\ pendingTurns' \in Seq(Requests)
         /\ turnState' \in [Requests -> {"none", "queued", "running"} \cup Ended]
         /\ turnId' \in [Requests -> Nat]
         /\ nextReserved' \in Nat
         /\ clock' = clock
         /\ pc' \in {pc, "pump"}
<1> USE DEF TypeInv, TypeOK
<1>1. QueueTypeOK'
  <2>1. /\ work[NoTurn] \in Seq(Requests) /\ notes[NoTurn] \in Seq(Requests)
        /\ << >> \in Seq(Requests) /\ <<r>> \in Seq(Requests)
    BY DEF QueueTypeOK, Owners
  <2>2. PICK a, b \in Seq(Requests) :
          /\ work' = [work EXCEPT ![r] = a \o work[NoTurn], ![NoTurn] = << >>]
          /\ notes' = [notes EXCEPT ![r] = b \o notes[NoTurn], ![NoTurn] = << >>]
    <3>1. CASE r \in Mergeable
      BY <2>1, <3>1 DEF CreateTurn
    <3>2. CASE r \notin Mergeable
      BY <2>1, <3>2 DEF CreateTurn
    <3> QED BY <3>1, <3>2
  <2>3. a \o work[NoTurn] \in Seq(Requests) /\ b \o notes[NoTurn] \in Seq(Requests)
    BY <2>1
  <2> QED BY <2>1, <2>2, <2>3 DEF QueueTypeOK
<1>2. ReservedTurnId \in Nat
  BY ReservedTurnIdType
<1>3. /\ home' \in [Requests -> Owners]
      /\ stepState' \in [Requests -> {"none", "queued", "running", "completed", "cancelled"}]
      /\ asg' \in [Requests -> {"none", "open", "assigned", "rejected"}]
  BY DEF CreateTurn, RequestTypeOK, Owners
<1>4. /\ pendingTurns' \in Seq(Requests)
      /\ turnState' \in [Requests -> {"none", "queued", "running"} \cup Ended]
      /\ turnId' \in [Requests -> Nat]
      /\ nextReserved' \in Nat
      /\ clock' = clock
  BY <1>2 DEF CreateTurn, TurnTypeOK
<1>5. pc' \in {pc, "pump"}
  BY DEF CreateTurn, CallPump
<1> QED BY <1>1, <1>3, <1>4, <1>5

LEMMA AdmitType ==
  ASSUME TypeInv, NEW r \in Requests, Admit(r)
  PROVE  /\ QueueTypeOK'
         /\ home' \in [Requests -> Owners]
         /\ stepState' \in [Requests -> {"none", "queued", "running", "completed", "cancelled"}]
         /\ asg' \in [Requests -> {"none", "open", "assigned", "rejected"}]
         /\ pendingTurns' \in Seq(Requests)
         /\ turnState' \in [Requests -> {"none", "queued", "running"} \cup Ended]
         /\ turnId' \in [Requests -> Nat]
         /\ nextReserved' \in Nat
         /\ clock' = clock
         /\ pc' \in {pc, "pump"}
<1>1. CASE CreateTurn(r)
  BY <1>1, CreateTurnType
<1>2. CASE /\ active # NoTurn
           /\ AssignStep(active, r)
           /\ UNCHANGED <<turnVars, pc>>
  <2>1. RequestTypeOK /\ QueueTypeOK /\ active \in Owners
    BY DEF TypeInv, TypeOK, TurnTypeOK
  <2>2. /\ QueueTypeOK'
        /\ home' \in [Requests -> Owners]
        /\ stepState' \in [Requests -> {"none", "queued", "running", "completed", "cancelled"}]
        /\ asg' \in [Requests -> {"none", "open", "assigned", "rejected"}]
    BY <1>2, <2>1, AssignStepType
  <2> QED BY <1>2, <2>2 DEF TypeInv, TypeOK, TurnTypeOK, RunTypeOK
<1>3. CASE /\ PutTail(NoTurn, r)
           /\ asg' = [asg EXCEPT ![r] = "open"]
           /\ UNCHANGED <<stepVars, turnVars, pc>>
  <2>1. QueueTypeOK'
    BY <1>3, PutTailType DEF TypeInv, TypeOK, Owners
  <2> QED BY <1>3, <2>1 DEF TypeInv, TypeOK, TurnTypeOK, RunTypeOK, RequestTypeOK
<1> QED BY <1>1, <1>2, <1>3 DEF Admit

-----------------------------------------------------------------------------
\* Every action keeps the types.

LEMMA EnqueueType ==
  ASSUME TypeInv, NEW r \in Requests, Enqueue(r)
  PROVE  TypeInv'
<1> USE DEF TypeInv, TypeOK
<1>1. /\ UNCHANGED <<appended, quiescence, releasing, admitting, active, runVars,
                     retryVars, signalVars, waiter, disposing>>
      /\ reqState' = [reqState EXCEPT ![r] = "pending"]
  BY DEF Enqueue
<1>2. CASE /\ held' = Append(held, r)
           /\ asg' = [asg EXCEPT ![r] = "open"]
           /\ UNCHANGED <<queueVars, turnVars, stepVars, pc>>
  <2>1. Append(held, r) \in Seq(Requests)
    BY DEF GateTypeOK
  <2>2. RequestTypeOK' /\ QueueTypeOK'
    BY <1>1, <1>2 DEF RequestTypeOK, QueueTypeOK
  <2>3. TurnTypeOK' /\ RunTypeOK' /\ ServiceTypeOK'
    BY <1>1, <1>2 DEF TurnTypeOK, RunTypeOK, ServiceTypeOK
  <2> QED BY <1>1, <1>2, <2>1, <2>2, <2>3 DEF GateTypeOK
<1>3. CASE Admit(r) /\ UNCHANGED held
  BY <1>1, <1>3, AdmitType DEF RequestTypeOK, GateTypeOK, TurnTypeOK, RunTypeOK,
                               ServiceTypeOK, SyncPhases
<1>4. CASE /\ asg' = [asg EXCEPT ![r] = "rejected"]
           /\ UNCHANGED <<held, queueVars, turnVars, stepVars, pc>>
  BY <1>1, <1>4 DEF RequestTypeOK, QueueTypeOK, GateTypeOK, TurnTypeOK, RunTypeOK,
                    ServiceTypeOK
<1> QED BY <1>2, <1>3, <1>4 DEF Enqueue

LEMMA AdmitHeldType == ASSUME TypeInv, AdmitHeld PROVE TypeInv'
<1> USE DEF TypeInv, TypeOK
<1> DEFINE r == Head(admitting)
<1>1. /\ UNCHANGED <<appended, held, quiescence, releasing, active, runVars,
                     retryVars, signalVars, waiter, disposing>>
      /\ admitting # << >> /\ admitting' = Tail(admitting)
  BY DEF AdmitHeld
<1>2. r \in Requests /\ Tail(admitting) \in Seq(Requests)
  BY <1>1 DEF GateTypeOK
<1>3. AbortAll({r}) \in [Requests -> {"new", "pending", "materialized", "aborted"}]
  BY AbortAllType
<1> HIDE DEF r
<1>4. CASE UNCHANGED <<reqState, asg, queueVars, turnVars, stepVars, pc>>
  BY <1>1, <1>2, <1>4 DEF RequestTypeOK, QueueTypeOK, GateTypeOK, TurnTypeOK,
                          RunTypeOK, ServiceTypeOK
<1>5. CASE Admit(r) /\ UNCHANGED reqState
  BY <1>1, <1>2, <1>5, AdmitType DEF RequestTypeOK, GateTypeOK, TurnTypeOK,
                                     RunTypeOK, ServiceTypeOK, SyncPhases
<1>6. CASE /\ reqState' = AbortAll({r})
           /\ asg' = [asg EXCEPT ![r] = "rejected"]
           /\ UNCHANGED <<queueVars, turnVars, stepVars, pc>>
  BY <1>1, <1>2, <1>3, <1>6 DEF RequestTypeOK, QueueTypeOK, GateTypeOK, TurnTypeOK,
                                RunTypeOK, ServiceTypeOK
<1> QED BY <1>4, <1>5, <1>6 DEF AdmitHeld, r

LEMMA CancelQueuedTurnType ==
  ASSUME TypeInv, NEW i \in DOMAIN pendingTurns, CancelQueuedTurn(i)
  PROVE  TypeInv'
<1> USE DEF TypeInv, TypeOK
<1> DEFINE t == pendingTurns[i]
<1>1. i \in 1 .. Len(pendingTurns) /\ t \in Requests
  BY DEF TurnTypeOK
<1>2. pendingTurns' \in Seq(Requests)
  BY <1>1, RemoveAtProps DEF CancelQueuedTurn, Dequeue, TurnTypeOK
<1>3. clock' \in TurnClockState /\ IsFiniteSet(clock'.cancelled)
  <2>1. turnId[t] \in Nat
    BY <1>1 DEF TurnTypeOK
  <2>2. {turnId[t]} \in SUBSET Nat
    BY <2>1
  <2>3. IsFiniteSet({turnId[t]})
    BY FS_Singleton
  <2>4. clock' = CancelQueuedTurns(clock, {turnId[t]})
    BY DEF CancelQueuedTurn
  <2> QED BY <2>2, <2>3, <2>4, CancelQueuedTurnsType DEF TurnTypeOK
<1> HIDE DEF t
<1>4. RequestTypeOK' /\ RunTypeOK'
  BY DEF CancelQueuedTurn, CancelSteps, AbortAll, RequestTypeOK, RunTypeOK
<1>5. QueueTypeOK'
  <2>1. << >> \in Seq(Requests)
    OBVIOUS
  <2> QED BY <2>1 DEF CancelQueuedTurn, QueueTypeOK
<1>6. TurnTypeOK'
  BY <1>1, <1>2, <1>3 DEF CancelQueuedTurn, TurnTypeOK, Ended
<1>7. GateTypeOK' /\ ServiceTypeOK'
  BY DEF CancelQueuedTurn, GateTypeOK, ServiceTypeOK, SettleIf
<1> QED BY <1>3, <1>4, <1>5, <1>6, <1>7 DEF CancelQueuedTurn

-----------------------------------------------------------------------------
\* Actions that change a few variables, each by a constant.

LEMMA SettledType == ASSUME TypeInv, NEW w \in Waiters, Settled(w) PROVE TypeInv'
  BY DEF Settled, TypeInv, TypeOK, RequestTypeOK, QueueTypeOK, GateTypeOK,
         TurnTypeOK, RunTypeOK, ServiceTypeOK

LEMMA AcquireQuiescenceType == ASSUME TypeInv, AcquireQuiescence PROVE TypeInv'
<1>1. quiescence' \in Nat
  BY DEF AcquireQuiescence, TypeInv, TypeOK, GateTypeOK
<1>2. UNCHANGED <<requestVars, queueVars, held, releasing, admitting, turnVars, active,
                  stepVars, pc, runVars, retryVars, signalVars, waiter, disposing>>
  BY DEF AcquireQuiescence
<1> QED BY <1>1, <1>2
        DEF TypeInv, TypeOK, RequestTypeOK, QueueTypeOK, GateTypeOK, TurnTypeOK,
            RunTypeOK, ServiceTypeOK

LEMMA ReleaseQuiescenceType == ASSUME TypeInv, ReleaseQuiescence PROVE TypeInv'
<1>1. quiescence - 1 \in Nat
  BY DEF ReleaseQuiescence, TypeInv, TypeOK, GateTypeOK
<1>2. pc' \in {pc, "pump"} /\ releasing' \in {releasing, "pumped"}
  BY DEF ReleaseQuiescence, CallPump
<1> QED BY <1>1, <1>2
        DEF ReleaseQuiescence, TypeInv, TypeOK, RequestTypeOK, QueueTypeOK, GateTypeOK,
            TurnTypeOK, RunTypeOK, ServiceTypeOK, SyncPhases

LEMMA TakeHeldType == ASSUME TypeInv, TakeHeld PROVE TypeInv'
  BY DEF TakeHeld, TypeInv, TypeOK, RequestTypeOK, QueueTypeOK, GateTypeOK,
         TurnTypeOK, RunTypeOK, ServiceTypeOK

LEMMA ReleasedType == ASSUME TypeInv, Released PROVE TypeInv'
  BY DEF Released, TypeInv, TypeOK, RequestTypeOK, QueueTypeOK, GateTypeOK,
         TurnTypeOK, RunTypeOK, ServiceTypeOK, CallPump, SyncPhases

LEMMA CancelStepType == ASSUME TypeInv, NEW r \in Requests, CancelStep(r) PROVE TypeInv'
  BY DEF CancelStep, TypeInv, TypeOK, RequestTypeOK, QueueTypeOK, GateTypeOK,
         TurnTypeOK, RunTypeOK, ServiceTypeOK, CancelSteps, AbortAll

LEMMA CancelActiveTurnType == ASSUME TypeInv, CancelActiveTurn PROVE TypeInv'
  BY DEF CancelActiveTurn, TypeInv, TypeOK, RequestTypeOK, QueueTypeOK, GateTypeOK,
         TurnTypeOK, RunTypeOK, ServiceTypeOK

LEMMA AbortStandaloneType == ASSUME TypeInv, NEW r \in Requests, AbortStandalone(r) PROVE TypeInv'
  BY DEF AbortStandalone, TypeInv, TypeOK, RequestTypeOK, QueueTypeOK, GateTypeOK,
         TurnTypeOK, RunTypeOK, ServiceTypeOK, AbortAll

LEMMA PumpTurnsType == ASSUME TypeInv, PumpTurns PROVE TypeInv'
  BY DEF PumpTurns, TypeInv, TypeOK, RequestTypeOK, QueueTypeOK, GateTypeOK,
         TurnTypeOK, RunTypeOK, ServiceTypeOK, SettleIf, AwaitPhases

LEMMA PrepareTurnType == ASSUME TypeInv, PrepareTurn PROVE TypeInv'
  BY DEF PrepareTurn, TypeInv, TypeOK, RequestTypeOK, QueueTypeOK, GateTypeOK,
         TurnTypeOK, RunTypeOK, ServiceTypeOK, SyncPhases, Ended

LEMMA EndingType == ASSUME TypeInv, Ending PROVE TypeInv'
  BY DEF Ending, TypeInv, TypeOK, RequestTypeOK, QueueTypeOK, GateTypeOK,
         TurnTypeOK, RunTypeOK, ServiceTypeOK, CallPump, SyncPhases, AwaitPhases

LEMMA StepFinishedType == ASSUME TypeInv, StepFinished PROVE TypeInv'
  BY DEF StepFinished, TypeInv, TypeOK, RequestTypeOK, QueueTypeOK, GateTypeOK,
         TurnTypeOK, RunTypeOK, ServiceTypeOK, AwaitPhases, Owners

LEMMA ContinueType == ASSUME TypeInv, Continue PROVE TypeInv'
  BY DEF Continue, TypeInv, TypeOK, RequestTypeOK, QueueTypeOK, GateTypeOK,
         TurnTypeOK, RunTypeOK, ServiceTypeOK, SyncPhases

-----------------------------------------------------------------------------
\* Actions that end a step, or the run.

LEMMA ReturnType ==
  ASSUME TypeInv, NEW res \in Ended, Return(res)
  PROVE  /\ reqState' \in [Requests -> {"new", "pending", "materialized", "aborted"}]
         /\ pc' = "return"
         /\ result' \in Ended
         /\ driver' \in Owners
         /\ stepAborted' \in BOOLEAN
<1>1. RequestTypeOK
  BY DEF TypeInv, TypeOK
<1> QED BY <1>1, AbortAllType DEF Return, ClearStep, AwaitPhases, Owners

\* What the actions of a run leave alone keeps its type.
LEMMA FrameType ==
  ASSUME TypeInv,
         UNCHANGED <<asg, appended, gateVars, turnVars, active, home, turnAborted,
                     waiter, disposing>>,
         reqState' \in [Requests -> {"new", "pending", "materialized", "aborted"}],
         stepState' \in [Requests -> {"none", "queued", "running", "completed", "cancelled"}],
         QueueTypeOK',
         pc' \in SyncPhases \cup AwaitPhases,
         driver' \in Owners, steps' \in Nat, finish' \in FinishReasons,
         hookStop' \in BOOLEAN, result' \in Ended, stepAborted' \in BOOLEAN,
         failedDriver' \in Owners, failedAttempts' \in Nat,
         pc' \in {"exec", "after", "complete", "recover"} => driver' \in Requests
  PROVE  TypeInv'
  BY DEF TypeInv, TypeOK, RequestTypeOK, GateTypeOK, TurnTypeOK, RunTypeOK,
         ServiceTypeOK

LEMMA BeginNothingType == ASSUME TypeInv, BeginNothing PROVE TypeInv'
<1>1. PICK res \in Ended : Return(res)
  BY DEF BeginNothing, Ended
<1> QED BY <1>1, ReturnType, FrameType
        DEF BeginNothing, TypeInv, TypeOK, RequestTypeOK, QueueTypeOK, RunTypeOK, AwaitPhases

LEMMA StepFailedType == ASSUME TypeInv, StepFailed PROVE TypeInv'
<1>1. PICK res \in Ended : Return(res)
  BY DEF StepFailed, Ended
<1> QED BY <1>1, ReturnType, FrameType
        DEF StepFailed, TypeInv, TypeOK, RequestTypeOK, QueueTypeOK, RunTypeOK, AwaitPhases

LEMMA StepInterruptedType == ASSUME TypeInv, StepInterrupted PROVE TypeInv'
<1>1. CASE pc' = "requeued" /\ ClearStep /\ UNCHANGED <<reqState, result>>
  BY <1>1 DEF StepInterrupted, TypeInv, TypeOK, RequestTypeOK, QueueTypeOK, GateTypeOK,
              TurnTypeOK, RunTypeOK, ServiceTypeOK, ClearStep, AwaitPhases, Owners
<1>2. CASE Return("cancelled")
  <2>1. "cancelled" \in Ended
    BY DEF Ended
  <2> QED BY <1>2, <2>1, ReturnType, FrameType
          DEF StepInterrupted, TypeInv, TypeOK, RequestTypeOK, QueueTypeOK, RunTypeOK, AwaitPhases
<1> QED BY <1>1, <1>2 DEF StepInterrupted

LEMMA StepFailedRetryableType == ASSUME TypeInv, StepFailedRetryable PROVE TypeInv'
<1> DEFINE attempts == IF failedDriver = driver THEN failedAttempts + 1 ELSE 1
<1>1. attempts \in Nat
  BY DEF TypeInv, TypeOK, RunTypeOK
<1>2. CASE attempts >= MaxAttempts
  <2>1. "failed" \in Ended
    BY DEF Ended
  <2>2. Return("failed") /\ failedDriver' = NoTurn /\ failedAttempts' = 0
    BY <1>2 DEF StepFailedRetryable
  <2> QED BY <2>1, <2>2, ReturnType, FrameType
          DEF StepFailedRetryable, TypeInv, TypeOK, RequestTypeOK, QueueTypeOK,
              RunTypeOK, AwaitPhases, Owners
<1>3. CASE ~ (attempts >= MaxAttempts)
  <2>1. /\ failedDriver' = driver /\ failedAttempts' = attempts
        /\ pc' = "recover"
        /\ UNCHANGED <<reqState, driver, stepAborted, result>>
    BY <1>3 DEF StepFailedRetryable
  <2> HIDE DEF attempts
  <2> QED BY <1>1, <2>1, FrameType
          DEF StepFailedRetryable, TypeInv, TypeOK, RequestTypeOK, QueueTypeOK,
              RunTypeOK, AwaitPhases
<1> QED BY <1>2, <1>3

LEMMA RecoverType == ASSUME TypeInv, Recover PROVE TypeInv'
<1>1. ASSUME NEW res \in Ended, Return(res), UNCHANGED <<queueVars, stepState>>
      PROVE  TypeInv'
  BY <1>1, ReturnType, FrameType
  DEF Recover, TypeInv, TypeOK, RequestTypeOK, QueueTypeOK, RunTypeOK, AwaitPhases
<1>2. CASE /\ PutHead(active, driver)
           /\ stepState' = [stepState EXCEPT ![driver] = "queued"]
           /\ pc' = "requeued" /\ ClearStep
           /\ UNCHANGED <<reqState, result>>
  <2>1. active \in Owners /\ driver \in Requests
    BY DEF Recover, TypeInv, TypeOK, TurnTypeOK
  <2>2. QueueTypeOK'
    BY <1>2, <2>1, PutHeadType DEF TypeInv, TypeOK
  <2> QED BY <1>2, <2>2, FrameType
          DEF Recover, TypeInv, TypeOK, RequestTypeOK, RunTypeOK, ClearStep,
              AwaitPhases, Owners
<1> QED BY <1>1, <1>2 DEF Recover, Ended

LEMMA AfterStepType == ASSUME TypeInv, AfterStep PROVE TypeInv'
<1>1. PICK f \in FinishReasons, stop \in BOOLEAN :
        /\ finish' = f /\ hookStop' = stop
        /\ \/ \E r \in Continuations :
                /\ reqState' = [reqState EXCEPT ![r] = "pending"]
                /\ AssignStep(active, r)
           \/ UNCHANGED <<reqState, asg, queueVars, stepVars>>
  BY DEF AfterStep
<1>2. CASE \E r \in Continuations :
             /\ reqState' = [reqState EXCEPT ![r] = "pending"]
             /\ AssignStep(active, r)
  <2>1. PICK r \in Continuations :
          /\ reqState' = [reqState EXCEPT ![r] = "pending"]
          /\ AssignStep(active, r)
    BY <1>2
  <2>2. r \in Requests /\ active \in Owners /\ RequestTypeOK /\ QueueTypeOK
    BY ScopeAssumption DEF Requests, TypeInv, TypeOK, TurnTypeOK
  <2>3. /\ QueueTypeOK'
        /\ home' \in [Requests -> Owners]
        /\ stepState' \in [Requests -> {"none", "queued", "running", "completed", "cancelled"}]
        /\ asg' \in [Requests -> {"none", "open", "assigned", "rejected"}]
    BY <2>1, <2>2, AssignStepType
  <2> QED BY <1>1, <2>1, <2>2, <2>3
          DEF AfterStep, TypeInv, TypeOK, RequestTypeOK, GateTypeOK, TurnTypeOK,
              RunTypeOK, ServiceTypeOK, AwaitPhases
<1>3. CASE UNCHANGED <<reqState, asg, queueVars, stepVars>>
  BY <1>1, <1>3 DEF AfterStep, TypeInv, TypeOK, RequestTypeOK, QueueTypeOK, GateTypeOK,
                    TurnTypeOK, RunTypeOK, ServiceTypeOK, AwaitPhases
<1> QED BY <1>1, <1>2, <1>3

LEMMA CompleteStepType == ASSUME TypeInv, CompleteStep PROVE TypeInv'
<1>1. /\ stepState' \in [Requests -> {"none", "queued", "running", "completed", "cancelled"}]
      /\ finish' \in FinishReasons /\ hookStop' \in BOOLEAN
  BY DEF CompleteStep, TypeInv, TypeOK, RequestTypeOK, FinishReasons
<1>2. CASE \E res \in Ended : Return(res)
  <2>1. PICK res \in Ended : Return(res)
    BY <1>2
  <2> QED BY <1>1, <2>1, ReturnType, FrameType
          DEF CompleteStep, TypeInv, TypeOK, RequestTypeOK, QueueTypeOK, RunTypeOK,
              AwaitPhases
<1>3. CASE pc' = "begin" /\ ClearStep /\ UNCHANGED <<reqState, result>>
  BY <1>1, <1>3, FrameType
  DEF CompleteStep, TypeInv, TypeOK, RequestTypeOK, QueueTypeOK, RunTypeOK, ClearStep,
      SyncPhases, Owners
<1>4. \/ \E res \in Ended : Return(res)
      \/ pc' = "begin" /\ ClearStep /\ UNCHANGED <<reqState, result>>
  BY DEF CompleteStep, Ended
<1> QED BY <1>2, <1>3, <1>4

LEMMA BeginStepType == ASSUME TypeInv, BeginStep PROVE TypeInv'
<1> DEFINE d == BatchDriver(active)
<1>1. active \in Owners /\ QueueTypeOK /\ HasPending(active)
  BY DEF BeginStep, TypeInv, TypeOK, TurnTypeOK
<1>2. d \in Requests /\ WorkLeft(active) \in Seq(Requests)
  BY <1>1, BatchType
<1>3. QueueTypeOK'
  <2>1. << >> \in Seq(Requests)
    OBVIOUS
  <2> QED BY <1>1, <1>2, <2>1 DEF BeginStep, QueueTypeOK
<1> DEFINE fresh == Fresh(BatchOf(active))
<1>4. /\ driver' = d /\ stepAborted' = FALSE /\ pc' = "exec" /\ steps' = steps + 1
      /\ stepState' = [stepState EXCEPT ![d] = "running"]
      /\ reqState' = [r \in Requests |-> IF r \in fresh THEN "materialized"
                                                       ELSE reqState[r]]
      /\ appended' = [r \in Requests |-> IF r \in fresh THEN appended[r] + 1
                                                       ELSE appended[r]]
      /\ UNCHANGED <<asg, gateVars, turnVars, active, home, finish, hookStop, result,
                     retryVars, turnAborted, waiter, disposing>>
  BY DEF BeginStep
<1> HIDE DEF d, fresh
<1>5. RequestTypeOK'
  <2>1. RequestTypeOK
    BY DEF TypeInv, TypeOK
  <2>2. reqState' \in [Requests -> {"new", "pending", "materialized", "aborted"}]
    BY <1>4, <2>1 DEF RequestTypeOK
  <2>3. appended' \in [Requests -> Nat]
    BY <1>4, <2>1 DEF RequestTypeOK
  <2>4. stepState' \in [Requests -> {"none", "queued", "running", "completed", "cancelled"}]
    BY <1>4, <2>1 DEF RequestTypeOK
  <2> QED BY <1>4, <2>1, <2>2, <2>3, <2>4 DEF RequestTypeOK
<1>6. RunTypeOK'
  <2>1. RunTypeOK
    BY DEF TypeInv, TypeOK
  <2>2. driver' \in Owners
    BY <1>2, <1>4 DEF Owners
  <2>3. steps' \in Nat
    BY <1>4, <2>1 DEF RunTypeOK
  <2>4. pc' \in AwaitPhases
    BY <1>4 DEF AwaitPhases
  <2> QED BY <1>4, <2>1, <2>2, <2>3, <2>4 DEF RunTypeOK
<1> QED BY <1>2, <1>3, <1>4, <1>5, <1>6
        DEF TypeInv, TypeOK, GateTypeOK, TurnTypeOK, ServiceTypeOK

-----------------------------------------------------------------------------
\* Actions on turns.

LEMMA StartTurnType == ASSUME TypeInv, StartTurn PROVE TypeInv'
<1>1. /\ Head(pendingTurns) \in Requests
      /\ Tail(pendingTurns) \in Seq(Requests)
  BY DEF StartTurn, TypeInv, TypeOK, TurnTypeOK
<1>2. clock' \in TurnClockState /\ IsFiniteSet(clock'.cancelled)
  BY PromptTurnType DEF StartTurn, TypeInv, TypeOK, TurnTypeOK
<1>3. TurnTypeOK'
  BY <1>1, <1>2 DEF StartTurn, TypeInv, TypeOK, TurnTypeOK, Owners
<1>4. RunTypeOK'
  BY DEF StartTurn, TypeInv, TypeOK, RunTypeOK, SyncPhases, Owners
<1> QED BY <1>2, <1>3, <1>4
        DEF StartTurn, TypeInv, TypeOK, RequestTypeOK, QueueTypeOK, GateTypeOK,
            ServiceTypeOK

LEMMA EndTurnType == ASSUME TypeInv, EndTurn PROVE TypeInv'
<1>1. RequestTypeOK'
  BY DEF EndTurn, CancelSteps, AbortAll, TypeInv, TypeOK, RequestTypeOK
<1>2. QueueTypeOK'
  <2>1. << >> \in Seq(Requests)
    OBVIOUS
  <2> QED BY <2>1 DEF EndTurn, TypeInv, TypeOK, QueueTypeOK
<1>3. TurnTypeOK'
  BY DEF EndTurn, TypeInv, TypeOK, TurnTypeOK, RunTypeOK, Owners
<1>4. RunTypeOK'
  BY DEF EndTurn, CancelSteps, TypeInv, TypeOK, RunTypeOK, SyncPhases, Owners,
         FinishReasons, Ended
<1>5. GateTypeOK' /\ ServiceTypeOK'
  BY DEF EndTurn, SettleIf, TypeInv, TypeOK, GateTypeOK, ServiceTypeOK
<1> QED BY <1>1, <1>2, <1>3, <1>4, <1>5 DEF EndTurn, TypeInv, TypeOK

LEMMA AbortHeldType ==
  ASSUME TypeInv, NEW i \in DOMAIN held, AbortHeld(i)
  PROVE  TypeInv'
<1>1. held \in Seq(Requests) /\ i \in 1 .. Len(held)
  BY DEF TypeInv, TypeOK, GateTypeOK
<1>2. held' \in Seq(Requests)
  BY <1>1, RemoveAtProps DEF AbortHeld
<1>3. RequestTypeOK'
  BY DEF AbortHeld, AbortAll, TypeInv, TypeOK, RequestTypeOK
<1> QED BY <1>2, <1>3
        DEF AbortHeld, SettleIf, TypeInv, TypeOK, QueueTypeOK, GateTypeOK, TurnTypeOK,
            RunTypeOK, ServiceTypeOK

LEMMA DisposeType == ASSUME TypeInv, Dispose PROVE TypeInv'
<1> DEFINE queued == ToSet(pendingTurns)
<1>1. RequestTypeOK'
  BY DEF Dispose, CancelEverything, AbortAll, TypeInv, TypeOK, RequestTypeOK
<1>2. QueueTypeOK'
  <2>1. << >> \in Seq(Requests)
    OBVIOUS
  <2> QED BY <2>1 DEF Dispose, CancelEverything, TypeInv, TypeOK, QueueTypeOK
<1>3. clock' \in TurnClockState /\ IsFiniteSet(clock'.cancelled)
  <2> DEFINE ids == {turnId[t] : t \in queued}
  <2>1. queued \subseteq Requests /\ IsFiniteSet(queued)
    BY ElementsType DEF TypeInv, TypeOK, TurnTypeOK
  <2> HIDE DEF queued
  <2>2. ids \in SUBSET Nat
    BY <2>1 DEF TypeInv, TypeOK, TurnTypeOK
  <2>3. [t \in queued |-> turnId[t]] \in Surjection(queued, ids)
    BY DEF Surjection
  <2>4. IsFiniteSet(ids)
    BY <2>1, <2>3, FS_Surjection
  <2>5. clock' = CancelQueuedTurns(clock, ids)
    BY DEF Dispose, CancelEverything, queued
  <2> HIDE DEF ids
  <2> QED BY <2>2, <2>4, <2>5, CancelQueuedTurnsType DEF TypeInv, TypeOK, TurnTypeOK
<1>4. TurnTypeOK'
  <2>1. << >> \in Seq(Requests)
    OBVIOUS
  <2> QED BY <1>3, <2>1 DEF Dispose, CancelEverything, TypeInv, TypeOK, TurnTypeOK, Ended
<1>5. GateTypeOK'
  <2>1. << >> \in Seq(Requests)
    OBVIOUS
  <2> QED BY <2>1 DEF Dispose, CancelEverything, TypeInv, TypeOK, GateTypeOK
<1>6. RunTypeOK' /\ ServiceTypeOK'
  BY DEF Dispose, CancelEverything, SettleIf, TypeInv, TypeOK, RunTypeOK, ServiceTypeOK
<1> QED BY <1>1, <1>2, <1>3, <1>4, <1>5, <1>6 DEF Dispose, CancelEverything, TypeInv, TypeOK

-----------------------------------------------------------------------------

LEMMA InitType == Init => TypeInv
<1> SUFFICES ASSUME Init PROVE TypeInv
  OBVIOUS
<1>1. << >> \in Seq(Requests)
  OBVIOUS
<1>2. IsFiniteSet({})
  BY FS_EmptySet
<1> QED BY <1>1, <1>2
        DEF Init, TypeInv, TypeOK, RequestTypeOK, QueueTypeOK, GateTypeOK, TurnTypeOK,
            RunTypeOK, ServiceTypeOK, Owners, InitialTurnClock, TurnClockState,
            AwaitPhases, FinishReasons, Ended

LEMMA NextType == TypeInv /\ [Next]_vars => TypeInv'
<1> SUFFICES ASSUME TypeInv, [Next]_vars PROVE TypeInv'
  OBVIOUS
<1>1. CASE Loop
  BY <1>1, PumpTurnsType, StartTurnType, PrepareTurnType, EndTurnType, EndingType,
     BeginNothingType, BeginStepType, StepFinishedType, StepInterruptedType,
     StepFailedType, StepFailedRetryableType, RecoverType, AfterStepType,
     CompleteStepType, ContinueType, TakeHeldType, AdmitHeldType, ReleasedType
  DEF Loop
<1>2. CASE Call
  BY <1>2, EnqueueType, CancelStepType, AbortStandaloneType, CancelQueuedTurnType,
     AbortHeldType, CancelActiveTurnType, AcquireQuiescenceType, SettledType,
     DisposeType
  DEF Call
<1>3. CASE ReleaseQuiescence
  BY <1>3, ReleaseQuiescenceType
<1>4. CASE UNCHANGED vars
  BY <1>4 DEF TypeInv, TypeOK, RequestTypeOK, QueueTypeOK, GateTypeOK, TurnTypeOK,
              RunTypeOK, ServiceTypeOK
<1> QED BY <1>1, <1>2, <1>3, <1>4 DEF Next

\* Every variable of the loop keeps its type, for any requests and bounds.
THEOREM TypeCorrect == Spec => []TypeOK
<1>1. Spec => []TypeInv
  BY InitType, NextType, PTL DEF Spec
<1>2. TypeInv => TypeOK
  BY DEF TypeInv
<1> QED BY <1>1, <1>2, PTL

-----------------------------------------------------------------------------
\* Quiescence.

\* The last lease is given back before anything held is admitted.
LeaseInv ==
  /\ LeaseIsQuiet
  /\ releasing # "no" => quiescence = 0

LEMMA NextLease == TypeInv /\ LeaseInv /\ [Next]_vars => LeaseInv'
<1> SUFFICES ASSUME TypeInv, LeaseInv, [Next]_vars PROVE LeaseInv'
  OBVIOUS
<1> USE DEF LeaseInv, LeaseIsQuiet
<1>0. /\ quiescence \in Nat /\ pendingTurns \in Seq(Requests) /\ held \in Seq(Requests)
      /\ admitting \in Seq(Requests)
  BY DEF TypeInv, TypeOK, GateTypeOK, TurnTypeOK
\* a lease is taken only when the loop is idle, and none is taken meanwhile
<1>1. CASE AcquireQuiescence
  BY <1>0, <1>1 DEF AcquireQuiescence, Busy, HasPendingRequests, Free
<1>2. CASE ReleaseQuiescence
  BY <1>0, <1>2 DEF ReleaseQuiescence, Free
<1>3. CASE TakeHeld \/ Released
  BY <1>3 DEF TakeHeld, Released
\* a request that may open a turn is admitted only without a lease
<1>4. ASSUME NEW r \in Requests, Enqueue(r) PROVE LeaseInv'
  <2>1. CASE quiescence > 0
    BY <1>4, <2>1 DEF Enqueue
  <2>2. CASE quiescence = 0
    BY <1>4, <2>2 DEF Enqueue
  <2> QED BY <1>0, <2>1, <2>2
<1>5. CASE AdmitHeld
  BY <1>5 DEF AdmitHeld
\* a turn starts only without a lease
<1>6. CASE StartTurn
  BY <1>0, <1>6 DEF StartTurn
\* what ends or cancels turns leaves fewer of them
<1>7. CASE EndTurn
  BY <1>7 DEF EndTurn
<1>8. ASSUME NEW i \in DOMAIN pendingTurns, CancelQueuedTurn(i) PROVE LeaseInv'
  BY <1>0, <1>8 DEF CancelQueuedTurn, Dequeue
<1>9. CASE Dispose
  BY <1>9 DEF Dispose, CancelEverything
<1>10. CASE UNCHANGED <<quiescence, releasing, active, pendingTurns>>
  BY <1>10
<1>11. CASE PumpTurns \/ PrepareTurn \/ Ending \/ Continue \/ StepFinished \/ UNCHANGED vars
  BY <1>10, <1>11 DEF PumpTurns, PrepareTurn, Ending, Continue, StepFinished
<1>12. CASE BeginNothing \/ BeginStep \/ StepInterrupted \/ StepFailed
            \/ StepFailedRetryable
  BY <1>10, <1>12
  DEF BeginNothing, BeginStep, StepInterrupted, StepFailed, StepFailedRetryable
<1>13. CASE Recover \/ AfterStep \/ CompleteStep
  BY <1>10, <1>13 DEF Recover, AfterStep, CompleteStep
<1>14. ASSUME NEW r \in Requests, CancelStep(r) \/ AbortStandalone(r)
       PROVE  LeaseInv'
  BY <1>10, <1>14 DEF CancelStep, AbortStandalone
<1>15. ASSUME NEW i \in DOMAIN held, AbortHeld(i) PROVE LeaseInv'
  BY <1>10, <1>15 DEF AbortHeld
<1>16. CASE CancelActiveTurn \/ \E w \in Waiters : Settled(w)
  BY <1>10, <1>16 DEF CancelActiveTurn, Settled
<1> QED
  BY <1>1, <1>2, <1>3, <1>4, <1>5, <1>6, <1>7, <1>8, <1>9, <1>11, <1>12, <1>13, <1>14,
     <1>15, <1>16
  DEF Next, Loop, Call

\* Whoever holds a quiescence lease has the loop to itself.
THEOREM LeaseIsQuietHolds == Spec => []LeaseIsQuiet
<1>1. Init => LeaseInv
  BY DEF Init, LeaseInv, LeaseIsQuiet
<1>2. LeaseInv => LeaseIsQuiet
  BY DEF LeaseInv
<1> QED BY <1>1, <1>2, InitType, NextType, NextLease, PTL DEF Spec

-----------------------------------------------------------------------------
\* Materialization.

\* Aborting touches what is pending, and nothing that is in the context.
LEMMA AbortKeepsMaterialized ==
  ASSUME TypeInv, MaterializedOnce, NEW R, reqState' = AbortAll(R), UNCHANGED appended
  PROVE  MaterializedOnce'
  BY DEF TypeInv, TypeOK, RequestTypeOK, AbortAll, MaterializedOnce

LEMMA NextMaterialized ==
  TypeInv /\ MaterializedOnce /\ [Next]_vars => MaterializedOnce'
<1> SUFFICES ASSUME TypeInv, MaterializedOnce, [Next]_vars PROVE MaterializedOnce'
  OBVIOUS
<1>0. /\ reqState \in [Requests -> {"new", "pending", "materialized", "aborted"}]
      /\ appended \in [Requests -> Nat]
  BY DEF TypeInv, TypeOK, RequestTypeOK
<1>1. CASE UNCHANGED <<reqState, appended>>
  BY <1>1 DEF MaterializedOnce
<1>2. CASE (\E R : reqState' = AbortAll(R)) /\ UNCHANGED appended
  BY <1>2, AbortKeepsMaterialized
<1>3. ASSUME NEW r \in Requests, reqState[r] = "new",
             reqState' = [reqState EXCEPT ![r] = "pending"], UNCHANGED appended
      PROVE  MaterializedOnce'
  BY <1>0, <1>3 DEF MaterializedOnce
<1>4. CASE BeginStep
  <2> DEFINE fresh == Fresh(BatchOf(active))
  <2>1. /\ reqState' = [r \in Requests |-> IF r \in fresh THEN "materialized"
                                                         ELSE reqState[r]]
        /\ appended' = [r \in Requests |-> IF r \in fresh THEN appended[r] + 1
                                                         ELSE appended[r]]
    BY <1>4 DEF BeginStep
  <2>2. \A r \in fresh : reqState[r] = "pending"
    BY DEF Fresh
  <2> HIDE DEF fresh
  <2> QED BY <1>0, <2>1, <2>2 DEF MaterializedOnce
<1>5. ASSUME NEW r \in Requests, Enqueue(r) PROVE MaterializedOnce'
  BY <1>3, <1>5 DEF Enqueue
<1>6. CASE AfterStep
  <2>1. CASE UNCHANGED reqState
    BY <1>1, <1>6, <2>1 DEF AfterStep
  <2>2. CASE \E r \in Continuations :
               reqState[r] = "new" /\ reqState' = [reqState EXCEPT ![r] = "pending"]
    BY <1>3, <1>6, <2>2, ScopeAssumption DEF AfterStep, Requests
  <2> QED BY <1>6, <2>1, <2>2 DEF AfterStep
<1>7. CASE PumpTurns \/ StartTurn \/ PrepareTurn \/ Ending \/ Continue \/ StepFinished
           \/ TakeHeld \/ Released \/ UNCHANGED vars
  BY <1>1, <1>7 DEF PumpTurns, StartTurn, PrepareTurn, Ending, Continue, StepFinished,
                    TakeHeld, Released
<1>8. CASE EndTurn
  BY <1>2, <1>8 DEF EndTurn, CancelSteps
<1>9. CASE BeginNothing \/ StepFailed
  BY <1>2, <1>9 DEF BeginNothing, StepFailed, Return
<1>10. CASE StepInterrupted \/ StepFailedRetryable
  BY <1>1, <1>2, <1>10 DEF StepInterrupted, StepFailedRetryable, Return
<1>11. CASE Recover \/ CompleteStep
  BY <1>1, <1>2, <1>11 DEF Recover, CompleteStep, Return
<1>12. CASE AdmitHeld
  BY <1>1, <1>2, <1>12 DEF AdmitHeld
<1>13. ASSUME NEW r \in Requests, CancelStep(r) \/ AbortStandalone(r)
       PROVE  MaterializedOnce'
  BY <1>2, <1>13 DEF CancelStep, CancelSteps, AbortStandalone
<1>14. ASSUME NEW i \in DOMAIN pendingTurns, CancelQueuedTurn(i)
       PROVE  MaterializedOnce'
  BY <1>2, <1>14 DEF CancelQueuedTurn, CancelSteps
<1>15. ASSUME NEW i \in DOMAIN held, AbortHeld(i) PROVE MaterializedOnce'
  BY <1>2, <1>15 DEF AbortHeld
<1>16. CASE Dispose
  BY <1>2, <1>16 DEF Dispose, CancelEverything
<1>17. CASE CancelActiveTurn \/ AcquireQuiescence \/ ReleaseQuiescence
            \/ \E w \in Waiters : Settled(w)
  BY <1>1, <1>17 DEF CancelActiveTurn, AcquireQuiescence, ReleaseQuiescence, Settled
<1> QED
  BY <1>4, <1>5, <1>6, <1>7, <1>8, <1>9, <1>10, <1>11, <1>12, <1>13, <1>14, <1>15,
     <1>16, <1>17
  DEF Next, Loop, Call

\* The messages of a request enter the context once, and only if it was never
\* aborted, whatever is retried, cancelled or merged.
THEOREM MaterializedOnceHolds == Spec => []MaterializedOnce
<1>1. Init => MaterializedOnce
  BY DEF Init, MaterializedOnce
<1> QED BY <1>1, InitType, NextType, NextMaterialized, PTL DEF Spec

-----------------------------------------------------------------------------
\* The invariant of turns, requests and steps.

InQueue(t) == ToSet(work[t]) \cup ToSet(notes[t])

\* What waits for a lease to end.
Gate == ToSet(held) \cup ToSet(admitting)

\* A turn is active exactly in the phases that run one; what is active runs,
\* what waits is queued, in the order of its ids and behind what runs; and a
\* request that was not admitted opened none.
TurnsInv ==
  /\ active = NoTurn <=> pc \in {"idle", "pump", "ending"}
  /\ \A t \in Requests : turnState[t] = "running" <=> t = active
  /\ \A t \in Requests : turnState[t] = "queued" <=> t \in ToSet(pendingTurns)
  /\ \A t \in Requests : turnState[t] # "none" => turnId[t] < nextReserved
  /\ \A i, j \in DOMAIN pendingTurns :
       i < j => turnId[pendingTurns[i]] < turnId[pendingTurns[j]]
  /\ \A t \in Requests, i \in DOMAIN pendingTurns :
       t = active => turnId[t] < turnId[pendingTurns[i]]
  /\ \A r \in Requests : reqState[r] = "new" \/ r \in Gate => turnState[r] = "none"

\* A request is in one place: nowhere while it is new, then behind a lease, in
\* the standalone queue, or in the queue of the turn that took it.
PlacesInv ==
  /\ IsInjective(held) /\ IsInjective(admitting)
  /\ held = << >> \/ admitting = << >>
  /\ \A r \in Requests : reqState[r] = "new" =>
       home[r] = NoTurn /\ r \notin Gate /\ \A t \in Owners : r \notin InQueue(t)
  /\ \A r \in Gate :
       reqState[r] = "pending" /\ home[r] = NoTurn /\ \A t \in Owners : r \notin InQueue(t)
  /\ \A r \in InQueue(NoTurn) : reqState[r] \in {"pending", "aborted"} /\ home[r] = NoTurn
  /\ \A t \in Requests : \A r \in InQueue(t) : home[r] = t \/ reqState[r] = "aborted"

\* An open promise belongs to a request that still waits for a turn.
OpenInv ==
  \A r \in Requests : asg[r] = "open" =>
    reqState[r] = "pending" /\ r \in Gate \cup InQueue(NoTurn)

\* A request in a turn has a step, a step that is over has no request waiting,
\* and the step under way is one of the active turn.
StepsInv ==
  /\ \A r \in Requests : home[r] = NoTurn <=> stepState[r] = "none"
  /\ \A r \in Requests : stepState[r] \in {"completed", "cancelled"} => reqState[r] # "pending"
  /\ pc \in {"exec", "after", "complete", "recover"} =>
       reqState[driver] = "materialized" /\ home[driver] = active
  /\ EndedTurnIsSettled

\* While a call runs on nobody holds a lease; a loop that is disposed of holds
\* nothing back; and whoever waits for a quiet loop waits for a turn, for what
\* a lease held back, or for the pump that will find the loop quiet.
SettleInv ==
  /\ pc \in SyncPhases => quiescence = 0
  /\ pc = "idle" => pendingTurns = << >>
  /\ quiescence = 0 /\ releasing # "pumped" => held = << >>
  /\ releasing # "admitting" => admitting = << >>
  /\ disposing => releasing = "no" /\ pendingTurns = << >> /\ held = << >>
  /\ \A w \in Waiters : waiter[w] = "waiting" =>
       \/ ~ Quiet(pendingTurns, active, held)
       \/ ~ disposing /\ (releasing = "admitting" \/ pc = "pump")

-----------------------------------------------------------------------------
\* Where the requests are.

\* The standalone queue belongs to no request.
LEMMA NoTurnProps == NoTurn \in Owners /\ NoTurn \notin Requests /\ Requests \subseteq Owners
  BY NoTurnAssumption DEF Owners

\* Where nothing is queued.
LEMMA EmptyQueueProps ==
  ASSUME NEW t, work[t] = << >>, notes[t] = << >>
  PROVE  InQueue(t) = {}
  BY DEF InQueue, ToSet

\* A queue holds requests.
LEMMA InQueueType ==
  ASSUME QueueTypeOK, NEW t \in Owners
  PROVE  InQueue(t) \subseteq Requests
<1>1. work[t] \in Seq(Requests) /\ notes[t] \in Seq(Requests)
  BY DEF QueueTypeOK
<1> QED BY <1>1, ElementsType DEF InQueue

\* The live positions of a queue hold what is not aborted in it.
LEMMA LiveElements ==
  ASSUME NEW q \in Seq(Requests)
  PROVE  {q[i] : i \in Live(q)} = {r \in ToSet(q) : reqState[r] # "aborted"}
  BY DEF Live, ToSet

\* What CreateTurn takes over and dispose rejects.
LEMMA StandaloneProps ==
  ASSUME QueueTypeOK
  PROVE  StandaloneLive = {r \in InQueue(NoTurn) : reqState[r] # "aborted"}
<1>1. work[NoTurn] \in Seq(Requests) /\ notes[NoTurn] \in Seq(Requests)
  BY NoTurnProps DEF QueueTypeOK
<1> QED BY <1>1, LiveElements DEF StandaloneLive, InQueue

\* enqueue adds one request to one queue ...
LEMMA PutTailProps ==
  ASSUME QueueTypeOK, NEW t \in Owners, NEW r \in Requests, PutTail(t, r)
  PROVE  \A u \in Owners : InQueue(u)' = IF u = t THEN InQueue(u) \cup {r} ELSE InQueue(u)
<1> SUFFICES ASSUME NEW u \in Owners
             PROVE  InQueue(u)' = IF u = t THEN InQueue(u) \cup {r} ELSE InQueue(u)
  OBVIOUS
<1>1. /\ work[t] \in Seq(Requests) /\ notes[t] \in Seq(Requests)
      /\ DOMAIN work = Owners /\ DOMAIN notes = Owners
  BY DEF QueueTypeOK
<1>2. /\ ToSet(Append(work[t], r)) = ToSet(work[t]) \cup {r}
      /\ ToSet(Append(notes[t], r)) = ToSet(notes[t]) \cup {r}
  BY <1>1, AppendProps
<1>3. CASE r \in Mergeable
  <2>1. work'[u] = work[u] /\ notes'[u] = IF u = t THEN Append(notes[t], r) ELSE notes[u]
    BY <1>1, <1>3 DEF PutTail
  <2> QED BY <1>2, <2>1 DEF InQueue
<1>4. CASE r \notin Mergeable
  <2>1. notes'[u] = notes[u] /\ work'[u] = IF u = t THEN Append(work[t], r) ELSE work[u]
    BY <1>1, <1>4 DEF PutTail
  <2> QED BY <1>2, <2>1 DEF InQueue
<1> QED BY <1>3, <1>4

\* ... and so does enqueue at the head.
LEMMA PutHeadProps ==
  ASSUME QueueTypeOK, NEW t \in Owners, NEW r \in Requests, PutHead(t, r)
  PROVE  \A u \in Owners : InQueue(u)' = IF u = t THEN InQueue(u) \cup {r} ELSE InQueue(u)
<1> SUFFICES ASSUME NEW u \in Owners
             PROVE  InQueue(u)' = IF u = t THEN InQueue(u) \cup {r} ELSE InQueue(u)
  OBVIOUS
<1>1. /\ work[t] \in Seq(Requests) /\ notes[t] \in Seq(Requests) /\ <<r>> \in Seq(Requests)
      /\ DOMAIN work = Owners /\ DOMAIN notes = Owners
  BY DEF QueueTypeOK
<1>2. ToSet(<<r>>) = {r}
  BY DEF ToSet
<1>3. \A q \in Seq(Requests) : ToSet(<<r>> \o q) = ToSet(q) \cup {r}
  <2> DEFINE s == <<r>>
  <2>1. s \in Seq(Requests) /\ ToSet(s) = {r}
    BY <1>1, <1>2
  <2> HIDE DEF s
  <2>2. \A q \in Seq(Requests) : ToSet(s \o q) = ToSet(q) \cup {r}
    BY <2>1, ConcatProps
  <2> QED BY <2>2 DEF s
<1>4. CASE r \in Mergeable
  <2>1. work'[u] = work[u] /\ notes'[u] = IF u = t THEN <<r>> \o notes[t] ELSE notes[u]
    BY <1>1, <1>4 DEF PutHead
  <2> QED BY <1>1, <1>3, <2>1 DEF InQueue
<1>5. CASE r \notin Mergeable
  <2>1. notes'[u] = notes[u] /\ work'[u] = IF u = t THEN <<r>> \o work[t] ELSE work[u]
    BY <1>1, <1>5 DEF PutHead
  <2> QED BY <1>1, <1>3, <2>1 DEF InQueue
<1> QED BY <1>4, <1>5

\* takeNextBatch takes from the queue of the turn, and only takes.
LEMMA BatchProps ==
  ASSUME QueueTypeOK, NEW t \in Owners, HasPending(t)
  PROVE  /\ BatchDriver(t) \in InQueue(t) /\ reqState[BatchDriver(t)] # "aborted"
         /\ BatchOf(t) \subseteq InQueue(t)
         /\ ToSet(WorkLeft(t)) \subseteq InQueue(t)
<1>1. work[t] \in Seq(Requests) /\ notes[t] \in Seq(Requests)
  BY DEF QueueTypeOK
<1>2. {notes[t][i] : i \in Live(notes[t])} \subseteq ToSet(notes[t])
  BY <1>1, LiveElements
<1>3. CASE Live(work[t]) # {}
  <2> DEFINE m == Min(Live(work[t]))
  <2>1. m \in 1 .. Len(work[t]) /\ reqState[work[t][m]] # "aborted"
    BY <1>1, <1>3, LiveMin
  <2> HIDE DEF m
  <2>2. work[t][m] \in ToSet(work[t])
    BY <1>1, <2>1 DEF ToSet
  <2>3. ToSet(SubSeq(work[t], m + 1, Len(work[t]))) \subseteq ToSet(work[t])
    <3>1. m + 1 \in Nat \ {0} /\ Len(work[t]) \in Nat /\ Len(work[t]) <= Len(work[t])
      BY <1>1, <2>1
    <3>2. ToSet(SubSeq(work[t], m + 1, Len(work[t]))) = {work[t][k] : k \in m + 1 .. Len(work[t])}
      BY <1>1, <3>1, SubSeqProps
    <3>3. m + 1 .. Len(work[t]) \subseteq DOMAIN work[t]
      BY <1>1, <2>1
    <3> QED BY <3>2, <3>3 DEF ToSet
  <2> QED BY <1>2, <1>3, <2>1, <2>2, <2>3 DEF BatchDriver, BatchOf, WorkLeft, InQueue, m
<1>4. CASE Live(work[t]) = {}
  <2> DEFINE m == Min(Live(notes[t]))
  <2>1. m \in 1 .. Len(notes[t]) /\ reqState[notes[t][m]] # "aborted"
    BY <1>1, <1>4, LiveMin DEF HasPending
  <2> HIDE DEF m
  <2>2. notes[t][m] \in ToSet(notes[t])
    BY <1>1, <2>1 DEF ToSet
  <2> QED BY <1>2, <1>4, <2>1, <2>2, EmptyListProps DEF BatchDriver, BatchOf, WorkLeft, InQueue, m
<1> QED BY <1>3, <1>4

\* The turn that is created takes the standalone queue.
LEMMA CreateTurnQueues ==
  ASSUME QueueTypeOK, NEW r \in Requests, CreateTurn(r)
  PROVE  \A u \in Owners :
           InQueue(u)' = IF u = NoTurn THEN {}
                         ELSE IF u = r THEN InQueue(NoTurn) \cup {r} ELSE InQueue(u)
<1> SUFFICES ASSUME NEW u \in Owners
             PROVE  InQueue(u)' = IF u = NoTurn THEN {}
                                  ELSE IF u = r THEN InQueue(NoTurn) \cup {r} ELSE InQueue(u)
  OBVIOUS
<1>1. /\ work[NoTurn] \in Seq(Requests) /\ notes[NoTurn] \in Seq(Requests)
      /\ <<r>> \in Seq(Requests) /\ << >> \in Seq(Requests)
      /\ DOMAIN work = Owners /\ DOMAIN notes = Owners
      /\ r \in Owners /\ NoTurn \in Owners /\ r # NoTurn
  BY NoTurnProps DEF QueueTypeOK
<1>2. ToSet(<<r>>) = {r} /\ ToSet(<< >>) = {}
  BY DEF ToSet
<1>3. PICK a \in Seq(Requests), b \in Seq(Requests) :
        /\ work' = [work EXCEPT ![r] = a \o work[NoTurn], ![NoTurn] = << >>]
        /\ notes' = [notes EXCEPT ![r] = b \o notes[NoTurn], ![NoTurn] = << >>]
        /\ ToSet(a) \cup ToSet(b) = {r}
  <2>1. CASE r \in Mergeable
    <3>1. /\ work' = [work EXCEPT ![r] = << >> \o work[NoTurn], ![NoTurn] = << >>]
          /\ notes' = [notes EXCEPT ![r] = <<r>> \o notes[NoTurn], ![NoTurn] = << >>]
      BY <2>1 DEF CreateTurn
    <3>2. ToSet(<< >>) \cup ToSet(<<r>>) = {r}
      BY <1>2
    <3> QED BY <1>1, <3>1, <3>2
  <2>2. CASE r \notin Mergeable
    <3>1. /\ work' = [work EXCEPT ![r] = <<r>> \o work[NoTurn], ![NoTurn] = << >>]
          /\ notes' = [notes EXCEPT ![r] = << >> \o notes[NoTurn], ![NoTurn] = << >>]
      <4> DEFINE first == [q \in BOOLEAN |-> IF q = (r \in Mergeable) THEN <<r>> ELSE << >>]
      <4>1. /\ work' = [work EXCEPT ![r] = first[FALSE] \o work[NoTurn], ![NoTurn] = << >>]
            /\ notes' = [notes EXCEPT ![r] = first[TRUE] \o notes[NoTurn], ![NoTurn] = << >>]
        BY DEF CreateTurn
      <4>2. (r \in Mergeable) = FALSE
        BY <2>2
      <4>3. first[FALSE] = <<r>> /\ first[TRUE] = << >>
        BY <4>2
      <4> HIDE DEF first
      <4> QED BY <4>1, <4>3
    <3>2. ToSet(<<r>>) \cup ToSet(<< >>) = {r}
      BY <1>2
    <3> QED BY <1>1, <3>1, <3>2
  <2> QED BY <2>1, <2>2
<1>4. /\ ToSet(a \o work[NoTurn]) = ToSet(a) \cup ToSet(work[NoTurn])
      /\ ToSet(b \o notes[NoTurn]) = ToSet(b) \cup ToSet(notes[NoTurn])
  BY <1>1, <1>3, ConcatProps
<1>5. /\ work'[u] = IF u = NoTurn THEN << >> ELSE IF u = r THEN a \o work[NoTurn] ELSE work[u]
      /\ notes'[u] = IF u = NoTurn THEN << >> ELSE IF u = r THEN b \o notes[NoTurn] ELSE notes[u]
  BY <1>1, <1>3
<1> QED BY <1>1, <1>2, <1>3, <1>4, <1>5 DEF InQueue

-----------------------------------------------------------------------------
\* Turns.

\* Steps that leave the turns alone.
LEMMA TurnsFrame ==
  ASSUME TurnsInv, UNCHANGED <<pendingTurns, active, turnState, turnId, nextReserved>>,
         pc' \in {"idle", "pump", "ending"} <=> pc \in {"idle", "pump", "ending"},
         \A r \in Requests : reqState'[r] = "new" => reqState[r] = "new",
         \A r \in Requests : r \in Gate' => r \in Gate \/ reqState[r] = "new"
  PROVE  TurnsInv'
  BY DEF TurnsInv

\* A list in the order of the ids keeps it when one turn leaves.
LEMMA RemoveTurn ==
  ASSUME TypeInv, TurnsInv, NEW k \in DOMAIN pendingTurns,
         pendingTurns' = RemoveAt(pendingTurns, k), turnId' = turnId
  PROVE  /\ ToSet(pendingTurns') = ToSet(pendingTurns) \ {pendingTurns[k]}
         /\ \A i, j \in DOMAIN pendingTurns' :
              i < j => turnId[pendingTurns'[i]] < turnId[pendingTurns'[j]]
         /\ \A i \in DOMAIN pendingTurns' : \E j \in DOMAIN pendingTurns :
              pendingTurns'[i] = pendingTurns[j]
<1> DEFINE s == pendingTurns
           r == pendingTurns'
           n == Len(s)
<1>1. s \in Seq(Requests) /\ n \in Nat /\ DOMAIN s = 1 .. n /\ k \in 1 .. n
  BY DEF TypeInv, TypeOK, TurnTypeOK
<1>2. /\ r \in Seq(Requests) /\ Len(r) = n - 1
      /\ \A i \in 1 .. (k - 1) : r[i] = s[i]
      /\ \A i \in k .. (n - 1) : r[i] = s[i + 1]
  BY <1>1, RemoveAtProps
<1>3. DOMAIN r = 1 .. (n - 1)
  BY <1>2
<1>4. \A i, j \in 1 .. n : i < j => turnId[s[i]] < turnId[s[j]]
  BY <1>1 DEF TurnsInv
<1>5. turnId \in [Requests -> Nat] /\ \A i \in 1 .. n : s[i] \in Requests
  BY <1>1 DEF TypeInv, TypeOK, TurnTypeOK
<1> HIDE DEF s, r, n
<1>6. \A i \in 1 .. n : i # k => s[i] # s[k]
  <2> SUFFICES ASSUME NEW i \in 1 .. n, i # k, s[i] = s[k] PROVE FALSE
    OBVIOUS
  <2>1. turnId[s[i]] < turnId[s[k]] \/ turnId[s[k]] < turnId[s[i]]
    BY <1>1, <1>4
  <2>2. turnId[s[k]] \in Nat
    BY <1>1, <1>5
  <2> QED BY <2>1, <2>2
<1>7. \A i \in 1 .. (n - 1) : /\ i \in 1 .. n /\ i + 1 \in 1 .. n
                              /\ r[i] = IF i < k THEN s[i] ELSE s[i + 1]
  BY <1>1, <1>2
<1>8. ToSet(r) = ToSet(s) \ {s[k]}
  <2>1. ToSet(r) \subseteq ToSet(s) \ {s[k]}
    <3> SUFFICES ASSUME NEW i \in 1 .. (n - 1) PROVE r[i] \in ToSet(s) \ {s[k]}
      BY <1>3 DEF ToSet
    <3>1. PICK j \in 1 .. n : j # k /\ r[i] = s[j]
      <4>1. CASE i < k
        BY <1>1, <1>7, <4>1
      <4>2. CASE ~ (i < k)
        <5>1. i + 1 # k /\ i + 1 \in 1 .. n /\ r[i] = s[i + 1]
          BY <1>1, <1>7, <4>2
        <5> QED BY <5>1
      <4> QED BY <4>1, <4>2
    <3> QED BY <1>1, <1>6, <3>1 DEF ToSet
  <2>2. ToSet(s) \ {s[k]} \subseteq ToSet(r)
    <3> SUFFICES ASSUME NEW j \in 1 .. n, s[j] # s[k] PROVE s[j] \in ToSet(r)
      BY <1>1 DEF ToSet
    <3>1. CASE j < k
      <4>1. j \in 1 .. (n - 1) /\ r[j] = s[j]
        BY <1>1, <1>2, <3>1
      <4> QED BY <1>3, <4>1 DEF ToSet
    <3>2. CASE j > k
      <4>1. j - 1 \in 1 .. (n - 1) /\ j - 1 \in k .. (n - 1) /\ (j - 1) + 1 = j
        BY <1>1, <3>2
      <4>2. r[j - 1] = s[j]
        BY <1>2, <4>1
      <4> QED BY <1>3, <4>1, <4>2 DEF ToSet
    <3> QED BY <1>1, <3>1, <3>2
  <2> QED BY <2>1, <2>2
<1>9. \A i, j \in 1 .. (n - 1) : i < j => turnId[r[i]] < turnId[r[j]]
  <2> SUFFICES ASSUME NEW i \in 1 .. (n - 1), NEW j \in 1 .. (n - 1), i < j
               PROVE  turnId[r[i]] < turnId[r[j]]
    OBVIOUS
  <2> DEFINE a == IF i < k THEN i ELSE i + 1
             b == IF j < k THEN j ELSE j + 1
  <2>1. a \in 1 .. n /\ b \in 1 .. n /\ a < b
    BY <1>1
  <2>2. r[i] = s[a] /\ r[j] = s[b]
    BY <1>7
  <2> HIDE DEF a, b
  <2> QED BY <1>4, <2>1, <2>2
<1>10. \A i \in 1 .. (n - 1) : \E j \in 1 .. n : r[i] = s[j]
  BY <1>7
<1>11. DOMAIN s = 1 .. n
  BY <1>1
<1> QED BY <1>3, <1>8, <1>9, <1>10, <1>11 DEF s, r

\* A new turn takes an id above every id that was promised, and goes to the end.
LEMMA CreateTurnTurns ==
  ASSUME TypeInv, TurnsInv, NEW r \in Requests, CreateTurn(r), active' = active,
         turnState[r] = "none", reqState'[r] # "new", r \notin Gate',
         \A x \in Requests : reqState'[x] = "new" => reqState[x] = "new",
         Gate' \subseteq Gate
  PROVE  TurnsInv'
<1> DEFINE id == ReservedTurnId
           n == Len(pendingTurns)
<1>1. /\ id \in Nat /\ id >= nextReserved /\ nextReserved \in Nat
      /\ pendingTurns \in Seq(Requests) /\ n \in Nat /\ DOMAIN pendingTurns = 1 .. n
      /\ \A i \in 1 .. n : pendingTurns[i] \in Requests
      /\ turnId \in [Requests -> Nat]
      /\ turnState \in [Requests -> {"none", "queued", "running"} \cup Ended]
  BY ReservedTurnIdType DEF TypeInv, TypeOK, TurnTypeOK
<1>2. /\ turnId' = [turnId EXCEPT ![r] = id] /\ nextReserved' = id + 1
      /\ turnState' = [turnState EXCEPT ![r] = "queued"]
      /\ pendingTurns' = Append(pendingTurns, r)
      /\ pc' = IF active = NoTurn THEN "pump" ELSE pc
  BY DEF CreateTurn, CallPump
<1> HIDE DEF id
<1>3. /\ DOMAIN pendingTurns' = 1 .. (n + 1)
      /\ pendingTurns'[n + 1] = r
      /\ \A i \in 1 .. n : pendingTurns'[i] = pendingTurns[i]
  BY <1>1, <1>2
<1>4. ToSet(pendingTurns') = ToSet(pendingTurns) \cup {r}
  BY <1>1, <1>2, AppendProps
<1>5. \A i \in 1 .. n : pendingTurns[i] # r /\ pendingTurns[i] # active
  <2> SUFFICES ASSUME NEW i \in 1 .. n PROVE pendingTurns[i] # r /\ pendingTurns[i] # active
    OBVIOUS
  <2>1. pendingTurns[i] \in ToSet(pendingTurns) /\ pendingTurns[i] \in Requests
    BY <1>1 DEF ToSet
  <2>2. turnState[pendingTurns[i]] = "queued"
    BY <2>1 DEF TurnsInv
  <2> QED BY <2>1, <2>2 DEF TurnsInv
<1>6. \A t \in Requests : turnState[t] # "none" => t # r /\ turnId[t] < id
  BY <1>1 DEF TurnsInv
<1>7. active # r
  BY DEF TurnsInv
<1>8. \A t \in Requests : turnState'[t] # "none" => turnId'[t] < nextReserved'
  BY <1>1, <1>2, <1>6
<1>9. \A i, j \in DOMAIN pendingTurns' :
        i < j => turnId'[pendingTurns'[i]] < turnId'[pendingTurns'[j]]
  <2> SUFFICES ASSUME NEW i \in 1 .. (n + 1), NEW j \in 1 .. (n + 1), i < j
               PROVE  turnId'[pendingTurns'[i]] < turnId'[pendingTurns'[j]]
    BY <1>3
  <2>1. i \in 1 .. n
    BY <1>1
  <2>2. /\ pendingTurns'[i] = pendingTurns[i] /\ pendingTurns[i] \in Requests
        /\ pendingTurns[i] # r /\ pendingTurns[i] \in ToSet(pendingTurns)
    BY <1>1, <1>3, <1>5, <2>1 DEF ToSet
  <2>3. CASE j = n + 1
    <3>1. turnState[pendingTurns[i]] = "queued"
      BY <2>2 DEF TurnsInv
    <3> QED BY <1>2, <1>3, <1>6, <1>1, <2>2, <2>3, <3>1
  <2>4. CASE j # n + 1
    <3>1. j \in 1 .. n
      BY <1>1, <2>4
    <3>2. pendingTurns'[j] = pendingTurns[j] /\ pendingTurns[j] # r
      BY <1>3, <1>5, <3>1
    <3> QED BY <1>1, <1>2, <2>1, <2>2, <3>1, <3>2 DEF TurnsInv
  <2> QED BY <2>3, <2>4
<1>10. \A t \in Requests, i \in DOMAIN pendingTurns' :
         t = active => turnId'[t] < turnId'[pendingTurns'[i]]
  <2> SUFFICES ASSUME active \in Requests, NEW i \in 1 .. (n + 1)
               PROVE  turnId'[active] < turnId'[pendingTurns'[i]]
    BY <1>3
  <2>1. turnState[active] = "running" /\ turnId'[active] = turnId[active]
    BY <1>1, <1>2, <1>7 DEF TurnsInv
  <2>2. CASE i = n + 1
    BY <1>1, <1>2, <1>3, <1>6, <2>1, <2>2
  <2>3. CASE i # n + 1
    <3>1. i \in 1 .. n
      BY <1>1, <2>3
    <3>2. pendingTurns'[i] = pendingTurns[i] /\ pendingTurns[i] # r
      BY <1>3, <1>5, <3>1
    <3> QED BY <1>1, <1>2, <2>1, <3>1, <3>2 DEF TurnsInv
  <2> QED BY <2>2, <2>3
<1>11. /\ active' = NoTurn <=> pc' \in {"idle", "pump", "ending"}
       /\ \A t \in Requests : turnState'[t] = "running" <=> t = active'
       /\ \A t \in Requests : turnState'[t] = "queued" <=> t \in ToSet(pendingTurns')
       /\ \A x \in Requests : reqState'[x] = "new" \/ x \in Gate' => turnState'[x] = "none"
  BY <1>1, <1>2, <1>4, <1>7 DEF TurnsInv
<1>12. ToSet(pendingTurns') = ToSet(pendingTurns)'
  OBVIOUS
<1> QED BY <1>8, <1>9, <1>10, <1>11 DEF TurnsInv

\* The head of the list has the least id of what waits.
LEMMA StartTurnTurns ==
  ASSUME TypeInv, TurnsInv, StartTurn
  PROVE  TurnsInv'
<1> DEFINE h == Head(pendingTurns)
           n == Len(pendingTurns)
<1>1. /\ pendingTurns \in Seq(Requests) /\ n \in Nat /\ n > 0 /\ DOMAIN pendingTurns = 1 .. n
      /\ \A i \in 1 .. n : pendingTurns[i] \in Requests
      /\ turnId \in [Requests -> Nat]
      /\ turnState \in [Requests -> {"none", "queued", "running"} \cup Ended]
  BY DEF StartTurn, TypeInv, TypeOK, TurnTypeOK
<1>2. /\ pendingTurns' = Tail(pendingTurns) /\ active' = h
      /\ turnState' = [turnState EXCEPT ![h] = "running"]
      /\ UNCHANGED <<turnId, nextReserved, reqState, held, admitting>>
      /\ pc = "pump" /\ pc' = "starting"
  BY DEF StartTurn
<1>3. /\ h = pendingTurns[1] /\ h \in ToSet(pendingTurns)
      /\ ToSet(pendingTurns) = {h} \cup ToSet(pendingTurns')
  BY <1>1, <1>2, HeadTailProps
<1>4. /\ DOMAIN pendingTurns' = 1 .. (n - 1)
      /\ \A i \in 1 .. (n - 1) : /\ pendingTurns'[i] = pendingTurns[i + 1]
                                 /\ i + 1 \in 1 .. n
  BY <1>1, <1>2
<1>5. h \in Requests /\ 1 \in 1 .. n
  BY <1>1, <1>3
<1> HIDE DEF h, n
<1>6. \A i \in 1 .. (n - 1) : turnId[h] < turnId[pendingTurns'[i]]
  <2> SUFFICES ASSUME NEW i \in 1 .. (n - 1) PROVE turnId[h] < turnId[pendingTurns'[i]]
    OBVIOUS
  <2>1. 1 < i + 1 /\ i + 1 \in 1 .. n
    BY <1>1
  <2>2. turnId[pendingTurns[1]] < turnId[pendingTurns[i + 1]]
    BY <1>1, <1>5, <2>1 DEF TurnsInv
  <2> QED BY <1>3, <1>4, <2>2
<1>7. h \notin ToSet(pendingTurns')
  <2> SUFFICES ASSUME NEW i \in 1 .. (n - 1), h = pendingTurns'[i] PROVE FALSE
    BY <1>4 DEF ToSet
  <2>1. turnId[h] < turnId[h] /\ turnId[h] \in Nat
    BY <1>1, <1>5, <1>6
  <2> QED BY <2>1
<1>8. active = NoTurn /\ turnState[h] = "queued"
  BY <1>2, <1>3, <1>5 DEF TurnsInv
<1>9. \A i, j \in 1 .. (n - 1) :
        i < j => turnId[pendingTurns'[i]] < turnId[pendingTurns'[j]]
  <2> SUFFICES ASSUME NEW i \in 1 .. (n - 1), NEW j \in 1 .. (n - 1), i < j
               PROVE  turnId[pendingTurns'[i]] < turnId[pendingTurns'[j]]
    OBVIOUS
  <2>1. i + 1 < j + 1 /\ i + 1 \in 1 .. n /\ j + 1 \in 1 .. n
    BY <1>1
  <2>2. turnId[pendingTurns[i + 1]] < turnId[pendingTurns[j + 1]]
    BY <1>1, <2>1 DEF TurnsInv
  <2> QED BY <1>4, <2>2
<1>10. /\ \A t \in Requests : turnState'[t] = "running" <=> t = active'
       /\ \A t \in Requests : turnState'[t] = "queued" <=> t \in ToSet(pendingTurns')
  BY <1>1, <1>2, <1>3, <1>5, <1>7, <1>8, NoTurnProps DEF TurnsInv
<1>11. active' # NoTurn /\ pc' \notin {"idle", "pump", "ending"}
  BY <1>2, <1>5, NoTurnProps
<1>12. \A t \in Requests : turnState'[t] # "none" => turnId'[t] < nextReserved'
  BY <1>1, <1>2, <1>5, <1>8 DEF TurnsInv
<1>13. \A r \in Requests : reqState'[r] = "new" \/ r \in Gate' => turnState'[r] = "none"
  BY <1>1, <1>2, <1>5, <1>8 DEF TurnsInv, Gate
<1> QED BY <1>2, <1>4, <1>6, <1>9, <1>10, <1>11, <1>12, <1>13 DEF TurnsInv

\* The active turn ends.
LEMMA EndTurnTurns ==
  ASSUME TypeInv, TurnsInv, EndTurn
  PROVE  TurnsInv'
<1>1. /\ active # NoTurn /\ active \in Requests /\ result \in Ended
      /\ turnState \in [Requests -> {"none", "queued", "running"} \cup Ended]
  BY DEF EndTurn, TurnsInv, TypeInv, TypeOK, TurnTypeOK, RunTypeOK, Owners
<1>2. /\ turnState' = [turnState EXCEPT ![active] = result]
      /\ active' = NoTurn /\ pc' = "ending"
      /\ UNCHANGED <<pendingTurns, turnId, nextReserved, held, admitting>>
      /\ \E R : reqState' = AbortAll(R)
  BY DEF EndTurn, CancelSteps
<1>3. \A r \in Requests : reqState'[r] = "new" => reqState[r] = "new"
  BY <1>2 DEF AbortAll
<1>4. turnState[active] = "running" /\ Gate' = Gate
  BY <1>1, <1>2 DEF TurnsInv, Gate
<1>5. result \notin {"none", "queued", "running"}
  BY <1>1 DEF Ended
<1> QED BY <1>1, <1>2, <1>3, <1>4, <1>5, NoTurnProps DEF TurnsInv

\* A queued turn is cancelled.
LEMMA CancelQueuedTurnTurns ==
  ASSUME TypeInv, TurnsInv, NEW k \in DOMAIN pendingTurns, CancelQueuedTurn(k)
  PROVE  TurnsInv'
<1> DEFINE t == pendingTurns[k]
<1>1. /\ t \in Requests /\ t \in ToSet(pendingTurns)
      /\ turnState \in [Requests -> {"none", "queued", "running"} \cup Ended]
  BY DEF TypeInv, TypeOK, TurnTypeOK, ToSet
<1>2. /\ turnState' = [turnState EXCEPT ![t] = "cancelled"]
      /\ pendingTurns' = RemoveAt(pendingTurns, k)
      /\ UNCHANGED <<turnId, nextReserved, active, pc, held, admitting>>
      /\ \E R : reqState' = AbortAll(R)
  BY DEF CancelQueuedTurn, CancelSteps, Dequeue
<1>3. \A r \in Requests : reqState'[r] = "new" => reqState[r] = "new"
  BY <1>2 DEF AbortAll
<1>4. turnState[t] = "queued" /\ Gate' = Gate
  BY <1>1, <1>2 DEF TurnsInv, Gate
<1>5. /\ ToSet(pendingTurns') = ToSet(pendingTurns) \ {t}
      /\ \A i, j \in DOMAIN pendingTurns' :
              i < j => turnId[pendingTurns'[i]] < turnId[pendingTurns'[j]]
      /\ \A i \in DOMAIN pendingTurns' : \E j \in DOMAIN pendingTurns :
              pendingTurns'[i] = pendingTurns[j]
  BY <1>2, RemoveTurn
<1> HIDE DEF t
<1> QED BY <1>1, <1>2, <1>3, <1>4, <1>5 DEF TurnsInv

\* Every queued turn is cancelled at once.
LEMMA DisposeTurns ==
  ASSUME TypeInv, TurnsInv, Dispose
  PROVE  TurnsInv'
<1>1. turnState \in [Requests -> {"none", "queued", "running"} \cup Ended]
  BY DEF TypeInv, TypeOK, TurnTypeOK
<1>2. /\ turnState' = [r \in Requests |-> IF r \in ToSet(pendingTurns) THEN "cancelled"
                                                                    ELSE turnState[r]]
      /\ pendingTurns' = << >> /\ held' = << >>
      /\ UNCHANGED <<turnId, nextReserved, active, pc, admitting>>
      /\ \E R : reqState' = AbortAll(R)
  BY DEF Dispose, CancelEverything
<1>3. \A r \in Requests : reqState'[r] = "new" => reqState[r] = "new"
  BY <1>2 DEF AbortAll
<1>4. ToSet(pendingTurns') = {} /\ ToSet(held') = {} /\ DOMAIN pendingTurns' = {}
  BY <1>2 DEF ToSet
<1> QED BY <1>1, <1>2, <1>3, <1>4 DEF TurnsInv, Gate

-----------------------------------------------------------------------------
\* Places.

\* What a turn took waits nowhere else.
LEMMA TakenProps ==
  ASSUME PlacesInv, OpenInv, NEW r \in Requests, home[r] # NoTurn
  PROVE  r \notin Gate /\ asg[r] # "open" /\ r \notin InQueue(NoTurn)
  BY DEF PlacesInv, OpenInv

\* What a turn has still to do is its own.
LEMMA TurnQueueProps ==
  ASSUME TypeInv, PlacesInv, NEW t \in Requests, NEW r \in InQueue(t), reqState[r] # "aborted"
  PROVE  r \in Requests /\ home[r] = t /\ home[r] # NoTurn
<1>1. r \in Requests
  BY InQueueType, NoTurnProps DEF TypeInv, TypeOK
<1> QED BY <1>1, NoTurnProps DEF PlacesInv

\* Queues lose requests, some that were pending are aborted, or enter the
\* context in a turn that took them.
LEMMA PlacesShrink ==
  ASSUME TypeInv, PlacesInv, OpenInv, home' = home,
         \A r \in Requests :
           \/ reqState'[r] = reqState[r]
           \/ /\ reqState[r] = "pending" /\ r \notin Gate' /\ asg'[r] # "open"
              /\ \/ reqState'[r] = "aborted"
                 \/ reqState'[r] = "materialized" /\ home[r] # NoTurn,
         \A t \in Owners : InQueue(t)' \subseteq InQueue(t),
         IsInjective(held'), IsInjective(admitting'), held' = << >> \/ admitting' = << >>,
         Gate' \subseteq Gate,
         \A r \in Requests : asg'[r] = "open" =>
           /\ asg[r] = "open"
           /\ r \in Gate => r \in Gate'
           /\ r \in InQueue(NoTurn) => r \in InQueue(NoTurn)'
  PROVE  PlacesInv' /\ OpenInv'
<1>1. Gate \subseteq Requests /\ \A t \in Owners : InQueue(t) \subseteq Requests
  <2>1. held \in Seq(Requests) /\ admitting \in Seq(Requests) /\ QueueTypeOK
    BY DEF TypeInv, TypeOK, GateTypeOK
  <2> QED BY <2>1, ElementsType, InQueueType DEF Gate
<1>2. PlacesInv'
  <2>1. \A r \in Requests : reqState'[r] = "new" =>
          home[r] = NoTurn /\ r \notin Gate' /\ \A t \in Owners : r \notin InQueue(t)'
    BY DEF PlacesInv
  <2>2. \A r \in Gate' :
          reqState'[r] = "pending" /\ home[r] = NoTurn /\ \A t \in Owners : r \notin InQueue(t)'
    BY <1>1 DEF PlacesInv
  <2>3. \A r \in InQueue(NoTurn)' : reqState'[r] \in {"pending", "aborted"} /\ home[r] = NoTurn
    BY <1>1, NoTurnProps DEF PlacesInv
  <2>4. \A t \in Requests : \A r \in InQueue(t)' : home[r] = t \/ reqState'[r] = "aborted"
    BY <1>1, NoTurnProps DEF PlacesInv
  <2> QED BY <2>1, <2>2, <2>3, <2>4 DEF PlacesInv
<1>3. OpenInv'
  BY DEF OpenInv
<1> QED BY <1>2, <1>3

\* One request is admitted: it was new or waited behind a lease.
Admitted(r) ==
  /\ home[r] = NoTurn /\ \A t \in Owners : r \notin InQueue(t)
  /\ reqState' = [reqState EXCEPT ![r] = "pending"]
  /\ r \notin Gate' /\ Gate' \subseteq Gate /\ Gate \subseteq Gate' \cup {r}
  /\ IsInjective(held') /\ IsInjective(admitting') /\ (held' = << >> \/ admitting' = << >>)

\* A request joins the active turn.
LEMMA AssignStepPlaces ==
  ASSUME TypeInv, PlacesInv, OpenInv, NEW t \in Requests, NEW r \in Requests,
         AssignStep(t, r), Admitted(r)
  PROVE  PlacesInv' /\ OpenInv'
<1>1. /\ Gate \subseteq Requests /\ \A u \in Owners : InQueue(u) \subseteq Requests
      /\ QueueTypeOK /\ t # NoTurn /\ t \in Owners
  <2>1. held \in Seq(Requests) /\ admitting \in Seq(Requests) /\ QueueTypeOK
    BY DEF TypeInv, TypeOK, GateTypeOK
  <2> QED BY <2>1, ElementsType, InQueueType, NoTurnProps DEF Gate
<1>2. \A u \in Owners : InQueue(u)' = IF u = t THEN InQueue(u) \cup {r} ELSE InQueue(u)
  BY <1>1, PutTailProps DEF AssignStep
<1>3. /\ home \in [Requests -> Owners] /\ asg \in [Requests -> {"none", "open", "assigned", "rejected"}]
      /\ reqState \in [Requests -> {"new", "pending", "materialized", "aborted"}]
  BY DEF TypeInv, TypeOK, RequestTypeOK
<1>4. home' = [home EXCEPT ![r] = t] /\ asg' = [asg EXCEPT ![r] = "assigned"]
  BY DEF AssignStep
<1>5. reqState' = [reqState EXCEPT ![r] = "pending"]
  BY DEF Admitted
<1>6. /\ r \notin Gate' /\ Gate' \subseteq Gate /\ Gate \subseteq Gate' \cup {r}
      /\ \A u \in Owners : r \notin InQueue(u)
  BY DEF Admitted
<1>7. PlacesInv'
  <2>1. \A x \in Requests : reqState'[x] = "new" =>
          home'[x] = NoTurn /\ x \notin Gate' /\ \A u \in Owners : x \notin InQueue(u)'
    BY <1>1, <1>2, <1>3, <1>4, <1>5, <1>6 DEF PlacesInv
  <2>2. \A x \in Gate' :
          reqState'[x] = "pending" /\ home'[x] = NoTurn /\ \A u \in Owners : x \notin InQueue(u)'
    BY <1>1, <1>2, <1>3, <1>4, <1>5, <1>6 DEF PlacesInv
  <2>3. \A x \in InQueue(NoTurn)' : reqState'[x] \in {"pending", "aborted"} /\ home'[x] = NoTurn
    BY <1>1, <1>2, <1>3, <1>4, <1>5, <1>6, NoTurnProps DEF PlacesInv
  <2>4. \A u \in Requests : \A x \in InQueue(u)' : home'[x] = u \/ reqState'[x] = "aborted"
    BY <1>1, <1>2, <1>3, <1>4, <1>5, <1>6, NoTurnProps DEF PlacesInv
  <2> QED BY <2>1, <2>2, <2>3, <2>4 DEF PlacesInv, Admitted
<1>8. OpenInv'
  BY <1>1, <1>2, <1>3, <1>4, <1>5, <1>6, NoTurnProps DEF OpenInv
<1> QED BY <1>7, <1>8

\* A request waits for the next turn.
LEMMA PutStandalonePlaces ==
  ASSUME TypeInv, PlacesInv, OpenInv, NEW r \in Requests,
         PutTail(NoTurn, r), asg' = [asg EXCEPT ![r] = "open"], home' = home, Admitted(r)
  PROVE  PlacesInv' /\ OpenInv'
<1>1. /\ Gate \subseteq Requests /\ \A u \in Owners : InQueue(u) \subseteq Requests
      /\ QueueTypeOK
  <2>1. held \in Seq(Requests) /\ admitting \in Seq(Requests) /\ QueueTypeOK
    BY DEF TypeInv, TypeOK, GateTypeOK
  <2> QED BY <2>1, ElementsType, InQueueType DEF Gate
<1>2. \A u \in Owners : InQueue(u)' = IF u = NoTurn THEN InQueue(u) \cup {r} ELSE InQueue(u)
  BY <1>1, PutTailProps, NoTurnProps
<1>3. /\ asg \in [Requests -> {"none", "open", "assigned", "rejected"}]
      /\ reqState \in [Requests -> {"new", "pending", "materialized", "aborted"}]
  BY DEF TypeInv, TypeOK, RequestTypeOK
<1>4. /\ reqState' = [reqState EXCEPT ![r] = "pending"] /\ home[r] = NoTurn
      /\ r \notin Gate' /\ Gate' \subseteq Gate /\ Gate \subseteq Gate' \cup {r}
      /\ \A u \in Owners : r \notin InQueue(u)
  BY DEF Admitted
<1>5. PlacesInv'
  <2>1. \A x \in Requests : reqState'[x] = "new" =>
          home'[x] = NoTurn /\ x \notin Gate' /\ \A u \in Owners : x \notin InQueue(u)'
    BY <1>1, <1>2, <1>3, <1>4 DEF PlacesInv
  <2>2. \A x \in Gate' :
          reqState'[x] = "pending" /\ home'[x] = NoTurn /\ \A u \in Owners : x \notin InQueue(u)'
    BY <1>1, <1>2, <1>3, <1>4 DEF PlacesInv
  <2>3. \A x \in InQueue(NoTurn)' : reqState'[x] \in {"pending", "aborted"} /\ home'[x] = NoTurn
    BY <1>1, <1>2, <1>3, <1>4, NoTurnProps DEF PlacesInv
  <2>4. \A u \in Requests : \A x \in InQueue(u)' : home'[x] = u \/ reqState'[x] = "aborted"
    BY <1>1, <1>2, <1>3, <1>4, NoTurnProps DEF PlacesInv
  <2> QED BY <2>1, <2>2, <2>3, <2>4 DEF PlacesInv, Admitted
<1>6. OpenInv'
  BY <1>1, <1>2, <1>3, <1>4, NoTurnProps DEF OpenInv
<1> QED BY <1>5, <1>6

\* A request opens a turn, which takes the standalone queue.
LEMMA CreateTurnPlaces ==
  ASSUME TypeInv, PlacesInv, OpenInv, NEW r \in Requests, CreateTurn(r), Admitted(r)
  PROVE  PlacesInv' /\ OpenInv'
<1>1. /\ Gate \subseteq Requests /\ \A u \in Owners : InQueue(u) \subseteq Requests
      /\ QueueTypeOK /\ r # NoTurn /\ r \in Owners /\ NoTurn \in Owners
  <2>1. held \in Seq(Requests) /\ admitting \in Seq(Requests) /\ QueueTypeOK
    BY DEF TypeInv, TypeOK, GateTypeOK
  <2> QED BY <2>1, ElementsType, InQueueType, NoTurnProps DEF Gate
<1> DEFINE moved == {x \in InQueue(NoTurn) : reqState[x] # "aborted"}
<1>2. \A u \in Owners : InQueue(u)' = IF u = NoTurn THEN {}
                         ELSE IF u = r THEN InQueue(NoTurn) \cup {r} ELSE InQueue(u)
  BY <1>1, CreateTurnQueues
<1>3. /\ home \in [Requests -> Owners] /\ asg \in [Requests -> {"none", "open", "assigned", "rejected"}]
      /\ reqState \in [Requests -> {"new", "pending", "materialized", "aborted"}]
  BY DEF TypeInv, TypeOK, RequestTypeOK
<1>4. /\ home' = [x \in Requests |-> IF x \in moved \cup {r} THEN r ELSE home[x]]
      /\ asg' = [x \in Requests |-> IF x \in moved \cup {r} THEN "assigned" ELSE asg[x]]
  BY <1>1, StandaloneProps DEF CreateTurn
<1>5. /\ reqState' = [reqState EXCEPT ![r] = "pending"] /\ home[r] = NoTurn
      /\ r \notin Gate' /\ Gate' \subseteq Gate /\ Gate \subseteq Gate' \cup {r}
      /\ \A u \in Owners : r \notin InQueue(u)
  BY DEF Admitted
<1>6. /\ \A x \in moved : reqState[x] = "pending" /\ x \in InQueue(NoTurn) /\ x # r
      /\ \A x \in InQueue(NoTurn) \ moved : reqState[x] = "aborted" /\ x # r
      /\ \A x \in moved : x \notin Gate /\ \A t \in Requests : x \notin InQueue(t)
  <2>1. \A x \in moved : x \notin Gate
    BY <1>1 DEF PlacesInv
  <2>2. \A x \in moved : \A t \in Requests : x \notin InQueue(t)
    BY <1>1, NoTurnProps DEF PlacesInv
  <2> QED BY <1>1, <1>5, <2>1, <2>2 DEF PlacesInv
<1> HIDE DEF moved
<1>7. PlacesInv'
  <2>1. \A x \in Requests : reqState'[x] = "new" =>
          home'[x] = NoTurn /\ x \notin Gate' /\ \A u \in Owners : x \notin InQueue(u)'
    BY <1>1, <1>2, <1>3, <1>4, <1>5, <1>6 DEF PlacesInv
  <2>2. \A x \in Gate' :
          reqState'[x] = "pending" /\ home'[x] = NoTurn /\ \A u \in Owners : x \notin InQueue(u)'
    BY <1>1, <1>2, <1>3, <1>4, <1>5, <1>6 DEF PlacesInv
  <2>3. InQueue(NoTurn)' = {}
    BY <1>1, <1>2
  <2>4. ASSUME NEW u \in Requests, NEW x \in InQueue(u)'
        PROVE  home'[x] = u \/ reqState'[x] = "aborted"
    <3>1. x \in Requests /\ u # NoTurn /\ u \in Owners
      BY <1>1, <1>2, NoTurnProps
    <3>2. CASE u = r
      BY <1>2, <1>3, <1>4, <1>5, <1>6, <3>1, <3>2
    <3>3. CASE u # r
      <4>1. x \in InQueue(u) /\ x # r /\ x \notin moved
        BY <1>2, <1>5, <1>6, <3>1, <3>3
      <4> QED BY <1>3, <1>4, <1>5, <3>1, <4>1 DEF PlacesInv
    <3> QED BY <3>2, <3>3
  <2> QED BY <2>1, <2>2, <2>3, <2>4 DEF PlacesInv, Admitted
<1>8. OpenInv'
  <2> SUFFICES ASSUME NEW x \in Requests, asg'[x] = "open"
               PROVE  reqState'[x] = "pending" /\ x \in Gate'
    BY DEF OpenInv
  <2>1. x # r /\ x \notin moved /\ asg[x] = "open"
    BY <1>3, <1>4
  <2>2. reqState[x] = "pending" /\ (x \in Gate \/ x \in InQueue(NoTurn))
    BY <2>1 DEF OpenInv
  <2>3. x \in Gate
    BY <1>6, <2>1, <2>2
  <2> QED BY <1>3, <1>5, <2>1, <2>2, <2>3
<1> QED BY <1>7, <1>8

\* Steps that leave the requests and the queues alone.
LEMMA PlacesFrame ==
  ASSUME PlacesInv, OpenInv, UNCHANGED <<reqState, asg, work, notes, held, admitting, home>>
  PROVE  PlacesInv' /\ OpenInv'
  BY DEF PlacesInv, OpenInv, Gate, InQueue

\* The gate holds requests.
LEMMA GateType ==
  ASSUME TypeInv
  PROVE  /\ held \in Seq(Requests) /\ admitting \in Seq(Requests)
         /\ ToSet(held) \subseteq Requests /\ ToSet(admitting) \subseteq Requests
<1>1. held \in Seq(Requests) /\ admitting \in Seq(Requests)
  BY DEF TypeInv, TypeOK, GateTypeOK
<1> QED BY <1>1, ElementsType

\* A sender: the request is held, admitted or thrown back.
LEMMA EnqueuePlaces ==
  ASSUME TypeInv, LeaseInv, PlacesInv, OpenInv, SettleInv, NEW r \in Requests, Enqueue(r)
  PROVE  PlacesInv' /\ OpenInv'
<1>1. /\ reqState[r] = "new" /\ reqState' = [reqState EXCEPT ![r] = "pending"]
      /\ admitting' = admitting
      /\ home[r] = NoTurn /\ r \notin Gate /\ \A t \in Owners : r \notin InQueue(t)
      /\ reqState \in [Requests -> {"new", "pending", "materialized", "aborted"}]
      /\ asg \in [Requests -> {"none", "open", "assigned", "rejected"}]
      /\ quiescence \in Nat
  BY DEF Enqueue, PlacesInv, TypeInv, TypeOK, RequestTypeOK, GateTypeOK
<1>2. /\ Gate \subseteq Requests /\ \A u \in Owners : InQueue(u) \subseteq Requests
  BY GateType, InQueueType DEF Gate, TypeInv, TypeOK
<1>3. CASE held' = Append(held, r) /\ asg' = [asg EXCEPT ![r] = "open"]
           /\ quiescence > 0 /\ UNCHANGED <<queueVars, turnVars, stepVars, pc>>
  <2>1. admitting = << >>
    BY <1>1, <1>3 DEF LeaseInv, SettleInv
  <2>2. ToSet(held') = ToSet(held) \cup {r} /\ IsInjective(held')
    <3>1. IsInjective(held) /\ r \notin ToSet(held)
      BY <1>1 DEF PlacesInv, Gate
    <3> QED BY <1>3, <3>1, GateType, AppendProps
  <2>3. Gate' = Gate \cup {r} /\ \A u \in Owners : InQueue(u)' = InQueue(u)
    BY <1>1, <1>3, <2>2 DEF Gate, InQueue
  <2>4. PlacesInv'
    BY <1>1, <1>2, <1>3, <2>1, <2>2, <2>3, NoTurnProps DEF PlacesInv
  <2>5. OpenInv'
    BY <1>1, <1>3, <2>3, NoTurnProps DEF OpenInv
  <2> QED BY <2>4, <2>5
<1>4. CASE Admit(r) /\ held' = held
  <2>1. Gate' = Gate
    BY <1>1, <1>4 DEF Gate
  <2>2. Admitted(r)
    BY <1>1, <1>4, <2>1 DEF Admitted, PlacesInv
  <2>3. CASE CreateTurn(r)
    BY <2>2, <2>3, CreateTurnPlaces
  <2>4. CASE active # NoTurn /\ AssignStep(active, r)
    <3>1. active \in Requests
      BY <2>4 DEF TypeInv, TypeOK, TurnTypeOK, Owners
    <3> QED BY <2>2, <2>4, <3>1, AssignStepPlaces
  <2>5. CASE PutTail(NoTurn, r) /\ asg' = [asg EXCEPT ![r] = "open"] /\ UNCHANGED stepVars
    BY <2>2, <2>5, PutStandalonePlaces
  <2> QED BY <1>4, <2>3, <2>4, <2>5 DEF Admit
<1>5. CASE asg' = [asg EXCEPT ![r] = "rejected"]
           /\ UNCHANGED <<held, queueVars, turnVars, stepVars, pc>>
  <2>1. Gate' = Gate /\ \A u \in Owners : InQueue(u)' = InQueue(u)
    BY <1>1, <1>5 DEF Gate, InQueue
  <2>2. PlacesInv'
    BY <1>1, <1>2, <1>5, <2>1, NoTurnProps DEF PlacesInv
  <2>3. OpenInv'
    BY <1>1, <1>5, <2>1, NoTurnProps DEF OpenInv
  <2> QED BY <2>2, <2>3
<1> QED BY <1>3, <1>4, <1>5 DEF Enqueue

\* What a lease held back is admitted, unless it was aborted meanwhile.
LEMMA AdmitHeldPlaces ==
  ASSUME TypeInv, PlacesInv, OpenInv, AdmitHeld
  PROVE  PlacesInv' /\ OpenInv'
<1> DEFINE r == Head(admitting)
<1>1. /\ admitting # << >> /\ admitting' = Tail(admitting) /\ held' = held
      /\ admitting \in Seq(Requests)
  BY GateType DEF AdmitHeld
<1>2. /\ r \in Requests /\ r \in ToSet(admitting) /\ ToSet(admitting) = {r} \cup ToSet(admitting')
      /\ r \notin ToSet(admitting') /\ IsInjective(admitting') /\ held = << >>
  BY <1>1, HeadTailProps DEF PlacesInv
<1>3. /\ reqState[r] = "pending" /\ home[r] = NoTurn /\ \A t \in Owners : r \notin InQueue(t)
      /\ reqState \in [Requests -> {"new", "pending", "materialized", "aborted"}]
      /\ asg \in [Requests -> {"none", "open", "assigned", "rejected"}]
  BY <1>2 DEF PlacesInv, Gate, TypeInv, TypeOK, RequestTypeOK
<1>4. ToSet(held) = {} /\ ToSet(held') = {}
  BY <1>1, <1>2, EmptyListProps
<1>5. r \notin Gate' /\ Gate' \subseteq Gate /\ Gate \subseteq Gate' \cup {r}
  BY <1>2, <1>4 DEF Gate
<1> HIDE DEF r
<1>6. CASE Admit(r) /\ UNCHANGED reqState
  <2>1. reqState' = [reqState EXCEPT ![r] = "pending"]
    BY <1>2, <1>3, <1>6
  <2>2. Admitted(r)
    BY <1>1, <1>2, <1>3, <1>5, <2>1 DEF Admitted, PlacesInv
  <2>3. CASE CreateTurn(r)
    BY <1>2, <2>2, <2>3, CreateTurnPlaces
  <2>4. CASE active # NoTurn /\ AssignStep(active, r)
    <3>1. active \in Requests
      BY <2>4 DEF TypeInv, TypeOK, TurnTypeOK, Owners
    <3> QED BY <1>2, <2>2, <2>4, <3>1, AssignStepPlaces
  <2>5. CASE PutTail(NoTurn, r) /\ asg' = [asg EXCEPT ![r] = "open"] /\ UNCHANGED stepVars
    BY <1>2, <2>2, <2>5, PutStandalonePlaces
  <2> QED BY <1>6, <2>3, <2>4, <2>5 DEF Admit
<1>7. CASE /\ reqState' = AbortAll({r}) /\ asg' = [asg EXCEPT ![r] = "rejected"]
           /\ UNCHANGED <<queueVars, turnVars, stepVars, pc>>
  <2>1. \A x \in Requests : reqState'[x] = IF x = r THEN "aborted" ELSE reqState[x]
    BY <1>2, <1>3, <1>7 DEF AbortAll
  <2>2. \A u \in Owners : InQueue(u)' = InQueue(u)
    BY <1>7 DEF InQueue
  <2>3. \A x \in Requests : asg'[x] = IF x = r THEN "rejected" ELSE asg[x]
    BY <1>2, <1>3, <1>7
  <2>4. IsInjective(held') /\ IsInjective(admitting') /\ held' = << >> /\ home' = home
    BY <1>1, <1>2, <1>7 DEF PlacesInv
  <2> QED BY <1>3, <1>5, <2>1, <2>2, <2>3, <2>4, NoTurnProps, PlacesShrink
<1> QED BY <1>3, <1>6, <1>7 DEF AdmitHeld, r

\* What ends or cancels a turn aborts what the turn took, and nothing else.
LEMMA PlacesAbort ==
  ASSUME TypeInv, PlacesInv, OpenInv, UNCHANGED <<home, asg, held, admitting>>, NEW R,
         reqState' = AbortAll(R),
         \A r \in R \cap Requests : reqState[r] = "pending" => home[r] # NoTurn,
         \A t \in Owners : InQueue(t)' \subseteq InQueue(t),
         InQueue(NoTurn)' = InQueue(NoTurn)
  PROVE  PlacesInv' /\ OpenInv'
<1>1. Gate' = Gate
  BY DEF Gate
<1>2. \A r \in Requests :
        \/ reqState'[r] = reqState[r]
        \/ /\ reqState[r] = "pending" /\ r \notin Gate' /\ asg'[r] # "open"
           /\ reqState'[r] = "aborted"
  BY <1>1, TakenProps DEF AbortAll
<1>3. IsInjective(held') /\ IsInjective(admitting') /\ (held' = << >> \/ admitting' = << >>)
  BY DEF PlacesInv
<1> QED BY <1>1, <1>2, <1>3, PlacesShrink

\* The end of a run drops what is scoped to the turn.
LEMMA ReturnPlaces ==
  ASSUME TypeInv, TurnsInv, PlacesInv, OpenInv, NEW res, Return(res),
         UNCHANGED <<home, asg, held, admitting, work, notes>>,
         pc \notin {"idle", "pump", "ending"}
  PROVE  PlacesInv' /\ OpenInv'
<1> DEFINE R == TurnScoped \cap (ToSet(work[active]) \cup ToSet(notes[active]))
<1>1. active \in Requests
  BY DEF TurnsInv, TypeInv, TypeOK, TurnTypeOK, Owners
<1>2. reqState' = AbortAll(R) /\ R \subseteq InQueue(active)
  BY DEF Return, InQueue
<1>3. \A t \in Owners : InQueue(t)' = InQueue(t)
  BY DEF InQueue
<1>4. \A r \in R \cap Requests : reqState[r] = "pending" => home[r] # NoTurn
  BY <1>1, <1>2, TurnQueueProps
<1> HIDE DEF R
<1> QED BY <1>2, <1>3, <1>4, NoTurnProps, PlacesAbort

\* A batch leaves its queue and enters the context.
LEMMA BeginStepPlaces ==
  ASSUME TypeInv, TurnsInv, PlacesInv, OpenInv, BeginStep
  PROVE  PlacesInv' /\ OpenInv'
<1> DEFINE fresh == Fresh(BatchOf(active))
<1>1. /\ active \in Requests /\ active \in Owners /\ active # NoTurn
      /\ QueueTypeOK /\ HasPending(active)
  BY NoTurnProps DEF BeginStep, TurnsInv, TypeInv, TypeOK, TurnTypeOK, Owners
<1>2. /\ reqState' = [r \in Requests |-> IF r \in fresh THEN "materialized" ELSE reqState[r]]
      /\ work' = [work EXCEPT ![active] = WorkLeft(active)]
      /\ notes' = [notes EXCEPT ![active] = << >>]
      /\ UNCHANGED <<asg, home, held, admitting>>
  BY DEF BeginStep
<1>3. \A r \in fresh : reqState[r] = "pending" /\ r \in InQueue(active)
  BY <1>1, BatchProps DEF Fresh
<1>4. \A r \in fresh : r \in Requests /\ home[r] # NoTurn
  BY <1>1, <1>3, TurnQueueProps
<1> HIDE DEF fresh
<1>5. Gate' = Gate
  BY <1>2 DEF Gate
<1>6. \A t \in Owners : InQueue(t)' \subseteq InQueue(t) /\ (t # active => InQueue(t)' = InQueue(t))
  <2> SUFFICES ASSUME NEW t \in Owners
               PROVE  InQueue(t)' \subseteq InQueue(t) /\ (t # active => InQueue(t)' = InQueue(t))
    OBVIOUS
  <2>1. DOMAIN work = Owners /\ DOMAIN notes = Owners
    BY <1>1 DEF QueueTypeOK
  <2>2. /\ work'[t] = IF t = active THEN WorkLeft(active) ELSE work[t]
        /\ notes'[t] = IF t = active THEN << >> ELSE notes[t]
    BY <1>2, <2>1
  <2>3. ToSet(WorkLeft(active)) \subseteq InQueue(active) /\ ToSet(<< >>) = {}
    BY <1>1, BatchProps, EmptyListProps
  <2> QED BY <2>2, <2>3 DEF InQueue
<1>7. \A r \in Requests :
        \/ reqState'[r] = reqState[r]
        \/ /\ reqState[r] = "pending" /\ r \notin Gate' /\ asg'[r] # "open"
           /\ reqState'[r] = "materialized" /\ home[r] # NoTurn
  BY <1>2, <1>3, <1>4, <1>5, TakenProps
<1>8. IsInjective(held') /\ IsInjective(admitting') /\ (held' = << >> \/ admitting' = << >>)
  BY <1>2 DEF PlacesInv
<1> QED BY <1>1, <1>2, <1>5, <1>6, <1>7, <1>8, NoTurnProps, PlacesShrink

\* A retried request goes back to the head of the queue of its turn.
LEMMA RecoverPlaces ==
  ASSUME TypeInv, TurnsInv, PlacesInv, OpenInv, StepsInv, Recover
  PROVE  PlacesInv' /\ OpenInv'
<1>1. CASE \E res : Return(res) /\ UNCHANGED <<queueVars, stepState>>
  <2>1. PICK res : Return(res) /\ UNCHANGED <<queueVars, stepState>>
    BY <1>1
  <2>2. UNCHANGED <<home, asg, held, admitting, work, notes>> /\ pc \notin {"idle", "pump", "ending"}
    BY <2>1 DEF Recover
  <2> QED BY <2>1, <2>2, ReturnPlaces
<1>2. CASE PutHead(active, driver) /\ UNCHANGED <<reqState, result>>
  <2>1. /\ active \in Requests /\ active \in Owners /\ active # NoTurn
        /\ QueueTypeOK /\ driver \in Requests
        /\ reqState[driver] = "materialized" /\ home[driver] = active
    BY NoTurnProps DEF Recover, TurnsInv, TypeInv, TypeOK, TurnTypeOK, Owners, StepsInv
  <2>2. \A u \in Owners : InQueue(u)' = IF u = active THEN InQueue(u) \cup {driver} ELSE InQueue(u)
    BY <1>2, <2>1, PutHeadProps
  <2>3. UNCHANGED <<home, asg, held, admitting, reqState>> /\ Gate' = Gate
    BY <1>2 DEF Recover, Gate
  <2>4. PlacesInv'
    <3>1. \A x \in Requests : reqState[x] = "new" =>
            home[x] = NoTurn /\ x \notin Gate /\ \A u \in Owners : x \notin InQueue(u)'
      BY <2>1, <2>2 DEF PlacesInv
    <3>2. \A x \in Gate :
            reqState[x] = "pending" /\ home[x] = NoTurn /\ \A u \in Owners : x \notin InQueue(u)'
      BY <2>1, <2>2 DEF PlacesInv
    <3>3. \A x \in InQueue(NoTurn)' : reqState[x] \in {"pending", "aborted"} /\ home[x] = NoTurn
      BY <2>1, <2>2, NoTurnProps DEF PlacesInv
    <3>4. \A u \in Requests : \A x \in InQueue(u)' : home[x] = u \/ reqState[x] = "aborted"
      BY <2>1, <2>2, NoTurnProps DEF PlacesInv
    <3> QED BY <2>3, <3>1, <3>2, <3>3, <3>4 DEF PlacesInv
  <2>5. OpenInv'
    BY <2>1, <2>2, <2>3, NoTurnProps DEF OpenInv
  <2> QED BY <2>4, <2>5
<1> QED BY <1>1, <1>2 DEF Recover

\* releaseActiveTurn empties the queue of the turn.
LEMMA EndTurnPlaces ==
  ASSUME TypeInv, TurnsInv, PlacesInv, OpenInv, EndTurn
  PROVE  PlacesInv' /\ OpenInv'
<1> DEFINE alive == {r \in StepsOf({active}) : stepState[r] \in {"queued", "running"}}
<1>1. active \in Requests /\ active \in Owners /\ active # NoTurn /\ QueueTypeOK
  BY NoTurnProps DEF EndTurn, TurnsInv, TypeInv, TypeOK, TurnTypeOK, Owners
<1>2. /\ reqState' = AbortAll(alive)
      /\ work' = [work EXCEPT ![active] = << >>] /\ notes' = [notes EXCEPT ![active] = << >>]
      /\ UNCHANGED <<home, asg, held, admitting>>
  BY DEF EndTurn, CancelSteps
<1>3. \A r \in alive \cap Requests : home[r] # NoTurn
  BY <1>1 DEF StepsOf
<1>4. \A t \in Owners : InQueue(t)' = IF t = active THEN {} ELSE InQueue(t)
  BY <1>1, <1>2, EmptyListProps DEF QueueTypeOK, InQueue
<1> HIDE DEF alive
<1> QED BY <1>1, <1>2, <1>3, <1>4, NoTurnProps, PlacesAbort

\* A turn is cancelled before it started.
LEMMA CancelQueuedTurnPlaces ==
  ASSUME TypeInv, PlacesInv, OpenInv, NEW k \in DOMAIN pendingTurns, CancelQueuedTurn(k)
  PROVE  PlacesInv' /\ OpenInv'
<1> DEFINE t == pendingTurns[k]
           alive == {r \in StepsOf({t}) : stepState[r] \in {"queued", "running"}}
<1>1. t \in Requests /\ t \in Owners /\ t # NoTurn /\ QueueTypeOK
  BY NoTurnProps DEF TypeInv, TypeOK, TurnTypeOK
<1>2. /\ reqState' = AbortAll(alive)
      /\ work' = [work EXCEPT ![t] = << >>] /\ notes' = [notes EXCEPT ![t] = << >>]
      /\ UNCHANGED <<home, asg, held, admitting>>
  BY DEF CancelQueuedTurn, CancelSteps
<1>3. \A r \in alive \cap Requests : home[r] # NoTurn
  BY <1>1 DEF StepsOf
<1> HIDE DEF t, alive
<1>4. \A u \in Owners : InQueue(u)' = IF u = t THEN {} ELSE InQueue(u)
  BY <1>1, <1>2, EmptyListProps DEF QueueTypeOK, InQueue
<1> QED BY <1>1, <1>2, <1>3, <1>4, NoTurnProps, PlacesAbort

\* A step is cancelled, and what is pending of it aborted.
LEMMA CancelStepPlaces ==
  ASSUME TypeInv, PlacesInv, OpenInv, StepsInv, NEW r \in Requests, CancelStep(r)
  PROVE  PlacesInv' /\ OpenInv'
<1>1. /\ UNCHANGED <<home, asg, held, admitting, work, notes>>
      /\ \E R \in SUBSET {r} : reqState' = AbortAll(R)
  BY DEF CancelStep, CancelSteps
<1>2. home[r] # NoTurn
  BY DEF CancelStep, StepsInv
<1>3. \A t \in Owners : InQueue(t)' = InQueue(t)
  BY <1>1 DEF InQueue
<1> QED BY <1>1, <1>2, <1>3, NoTurnProps, PlacesAbort

\* A sender takes back what a lease holds.
LEMMA AbortHeldPlaces ==
  ASSUME TypeInv, PlacesInv, OpenInv, NEW k \in DOMAIN held, AbortHeld(k)
  PROVE  PlacesInv' /\ OpenInv'
<1> DEFINE r == held[k]
<1>1. held \in Seq(Requests) /\ k \in 1 .. Len(held) /\ r \in Requests /\ r \in ToSet(held)
  BY GateType DEF ToSet
<1>2. /\ held' = RemoveAt(held, k) /\ reqState' = AbortAll({r})
      /\ asg' = [asg EXCEPT ![r] = "rejected"]
      /\ UNCHANGED <<home, admitting, work, notes>>
  BY DEF AbortHeld
<1>3. ToSet(held') = ToSet(held) \ {r} /\ IsInjective(held')
  BY <1>1, <1>2, RemoveAtInjective DEF PlacesInv
<1>4. admitting = << >> /\ ToSet(admitting) = {}
  <2>1. held # << >>
    BY <1>1, EmptyListProps
  <2> QED BY <2>1, EmptyListProps DEF PlacesInv
<1>5. /\ reqState \in [Requests -> {"new", "pending", "materialized", "aborted"}]
      /\ asg \in [Requests -> {"none", "open", "assigned", "rejected"}]
  BY DEF TypeInv, TypeOK, RequestTypeOK
<1> HIDE DEF r
<1>6. Gate' = Gate \ {r} /\ \A t \in Owners : InQueue(t)' = InQueue(t)
  BY <1>2, <1>3, <1>4 DEF Gate, InQueue
<1>7. \A x \in Requests : asg'[x] = IF x = r THEN "rejected" ELSE asg[x]
  BY <1>1, <1>2, <1>5
<1>9. \A x \in Requests :
        \/ reqState'[x] = reqState[x]
        \/ /\ reqState[x] = "pending" /\ x \notin Gate' /\ asg'[x] # "open"
           /\ reqState'[x] = "aborted"
  BY <1>2, <1>6, <1>7 DEF AbortAll
<1>8. IsInjective(admitting') /\ admitting' = << >>
  BY <1>2, <1>4, EmptyListProps
<1>10. \A x \in Requests : asg'[x] = "open" =>
           /\ asg[x] = "open"
           /\ x \in Gate => x \in Gate'
           /\ x \in InQueue(NoTurn) => x \in InQueue(NoTurn)'
  BY <1>6, <1>7, NoTurnProps
<1>11. /\ Gate' \subseteq Gate /\ home' = home /\ \A t \in Owners : InQueue(t)' \subseteq InQueue(t)
       /\ IsInjective(held') /\ IsInjective(admitting') /\ (held' = << >> \/ admitting' = << >>)
  BY <1>2, <1>3, <1>6, <1>8
<1> QED BY <1>9, <1>10, <1>11, PlacesShrink

\* A sender takes back what waits for the next turn.
LEMMA AbortStandalonePlaces ==
  ASSUME TypeInv, PlacesInv, OpenInv, NEW r \in Requests, AbortStandalone(r)
  PROVE  PlacesInv' /\ OpenInv'
<1>1. /\ reqState' = AbortAll({r}) /\ asg' = [asg EXCEPT ![r] = "rejected"]
      /\ UNCHANGED <<home, held, admitting, work, notes>>
      /\ r \in InQueue(NoTurn)
  BY StandaloneProps DEF AbortStandalone, TypeInv, TypeOK
<1>2. /\ reqState \in [Requests -> {"new", "pending", "materialized", "aborted"}]
      /\ asg \in [Requests -> {"none", "open", "assigned", "rejected"}]
  BY DEF TypeInv, TypeOK, RequestTypeOK
<1>3. r \notin Gate /\ Gate' = Gate
  BY <1>1, NoTurnProps DEF PlacesInv, Gate
<1>4. \A t \in Owners : InQueue(t)' = InQueue(t)
  BY <1>1 DEF InQueue
<1>5. \A x \in Requests : asg'[x] = IF x = r THEN "rejected" ELSE asg[x]
  BY <1>1, <1>2
<1>6. \A x \in Requests :
        \/ reqState'[x] = reqState[x]
        \/ /\ reqState[x] = "pending" /\ x \notin Gate' /\ asg'[x] # "open"
           /\ reqState'[x] = "aborted"
  BY <1>1, <1>3, <1>5 DEF AbortAll
<1>7. \A x \in Requests : asg'[x] = "open" =>
           /\ asg[x] = "open"
           /\ x \in Gate => x \in Gate'
           /\ x \in InQueue(NoTurn) => x \in InQueue(NoTurn)'
  BY <1>3, <1>4, <1>5, NoTurnProps
<1>8. /\ Gate' \subseteq Gate /\ home' = home /\ \A t \in Owners : InQueue(t)' \subseteq InQueue(t)
      /\ IsInjective(held') /\ IsInjective(admitting') /\ (held' = << >> \/ admitting' = << >>)
  BY <1>1, <1>3, <1>4 DEF PlacesInv
<1> QED BY <1>6, <1>7, <1>8, PlacesShrink

\* All that waits for a turn is rejected.
LEMMA DisposePlaces ==
  ASSUME TypeInv, PlacesInv, OpenInv, Dispose
  PROVE  PlacesInv' /\ OpenInv'
<1> DEFINE waiting == ToSet(held) \cup StandaloneLive
           queued == ToSet(pendingTurns)
           alive == {r \in StepsOf(queued) : stepState[r] \in {"queued", "running"}}
<1>1. /\ reqState' = AbortAll(waiting \cup alive)
      /\ asg' = [r \in Requests |-> IF r \in waiting THEN "rejected" ELSE asg[r]]
      /\ work' = [t \in Owners |-> IF t \in queued \cup {NoTurn} THEN << >> ELSE work[t]]
      /\ notes' = [t \in Owners |-> IF t \in queued \cup {NoTurn} THEN << >> ELSE notes[t]]
      /\ held' = << >> /\ UNCHANGED <<admitting, home>>
  BY DEF Dispose, CancelEverything
<1>2. queued \subseteq Requests
  BY ElementsType DEF TypeInv, TypeOK, TurnTypeOK
<1>3. \A r \in alive : home[r] # NoTurn
  BY <1>2, NoTurnProps DEF StepsOf
<1>4. waiting = ToSet(held) \cup {r \in InQueue(NoTurn) : reqState[r] # "aborted"}
  BY StandaloneProps DEF TypeInv, TypeOK
<1> HIDE DEF waiting, queued, alive
<1>5. \A t \in Owners : InQueue(t)' = IF t \in queued \cup {NoTurn} THEN {} ELSE InQueue(t)
  BY <1>1, EmptyListProps DEF InQueue
<1>6. Gate' = ToSet(admitting)
  BY <1>1, EmptyListProps DEF Gate
<1>7. \A r \in waiting : r \notin Gate'
  <2>1. CASE admitting = << >>
    BY <1>6, <2>1, EmptyListProps
  <2>2. CASE admitting # << >>
    <3>1. held = << >> /\ ToSet(held) = {}
      BY <2>2, EmptyListProps DEF PlacesInv
    <3> QED BY <1>4, <1>6, <3>1, NoTurnProps DEF PlacesInv, Gate
  <2> QED BY <2>1, <2>2
<1>8. \A r \in Requests :
        \/ reqState'[r] = reqState[r]
        \/ /\ reqState[r] = "pending" /\ r \notin Gate' /\ asg'[r] # "open"
           /\ reqState'[r] = "aborted"
  <2> SUFFICES ASSUME NEW r \in Requests, r \in waiting \cup alive, reqState[r] = "pending"
               PROVE  r \notin Gate' /\ asg'[r] # "open"
    BY <1>1 DEF AbortAll
  <2>1. CASE r \in waiting
    BY <1>1, <1>7, <2>1
  <2>2. CASE r \in alive
    <3>1. r \notin Gate /\ asg[r] # "open"
      BY <1>3, <2>2, TakenProps
    <3> QED BY <1>1, <1>6, <3>1 DEF Gate
  <2> QED BY <2>1, <2>2
<1>9. \A r \in Requests : asg'[r] = "open" =>
           /\ asg[r] = "open"
           /\ r \in Gate => r \in Gate'
           /\ r \in InQueue(NoTurn) => r \in InQueue(NoTurn)'
  BY <1>1, <1>4, <1>6 DEF Gate, OpenInv
<1>10. IsInjective(held') /\ IsInjective(admitting') /\ held' = << >> /\ Gate' \subseteq Gate
  BY <1>1, <1>6, EmptyListProps DEF PlacesInv, Gate
<1> QED BY <1>1, <1>5, <1>8, <1>9, <1>10, PlacesShrink

\* releaseQuiescence copies what was held.
LEMMA TakeHeldPlaces ==
  ASSUME TypeInv, PlacesInv, OpenInv, SettleInv, TakeHeld
  PROVE  PlacesInv' /\ OpenInv'
<1>1. /\ admitting = << >> /\ admitting' = held /\ held' = << >>
      /\ UNCHANGED <<reqState, asg, work, notes, home>>
  BY DEF TakeHeld, SettleInv
<1>2. Gate' = Gate /\ \A t \in Owners : InQueue(t)' = InQueue(t)
  BY <1>1 DEF Gate, InQueue
<1>3. IsInjective(held') /\ IsInjective(admitting')
  BY <1>1, EmptyListProps DEF PlacesInv
<1> QED BY <1>1, <1>2, <1>3, NoTurnProps, PlacesShrink

\* The loop continues after tool calls.
LEMMA AfterStepPlaces ==
  ASSUME TypeInv, TurnsInv, PlacesInv, OpenInv, AfterStep
  PROVE  PlacesInv' /\ OpenInv'
<1>1. held' = held /\ admitting' = admitting /\ pc = "after" /\ Gate' = Gate
  BY DEF AfterStep, Gate
<1>2. CASE \E r \in Continuations :
             /\ reqState[r] = "new"
             /\ reqState' = [reqState EXCEPT ![r] = "pending"]
             /\ AssignStep(active, r)
  <2>1. PICK r \in Continuations :
             /\ reqState[r] = "new"
             /\ reqState' = [reqState EXCEPT ![r] = "pending"]
             /\ AssignStep(active, r)
    BY <1>2
  <2>2. r \in Requests /\ active \in Requests
    BY <1>1, ScopeAssumption DEF Requests, TurnsInv, TypeInv, TypeOK, TurnTypeOK, Owners
  <2>3. Admitted(r)
    BY <1>1, <2>1, <2>2 DEF Admitted, PlacesInv
  <2> QED BY <2>1, <2>2, <2>3, AssignStepPlaces
<1>3. CASE UNCHANGED <<reqState, asg, queueVars, stepVars>>
  BY <1>1, <1>3, PlacesFrame
<1> QED BY <1>2, <1>3 DEF AfterStep

\* Places and promises, in every step.
LEMMA NextPlaces ==
  ASSUME TypeInv, LeaseInv, TurnsInv, PlacesInv, OpenInv, StepsInv, SettleInv, [Next]_vars
  PROVE  PlacesInv' /\ OpenInv'
<1>1. ASSUME NEW res, Return(res), UNCHANGED <<home, asg, held, admitting, work, notes>>,
             pc \notin {"idle", "pump", "ending"}
      PROVE  PlacesInv' /\ OpenInv'
  BY <1>1, ReturnPlaces
<1>2. CASE UNCHANGED <<reqState, asg, work, notes, held, admitting, home>>
  BY <1>2, PlacesFrame
<1>3. CASE PumpTurns \/ StartTurn \/ PrepareTurn \/ Ending \/ Continue \/ StepFinished
           \/ Released \/ UNCHANGED vars
  BY <1>2, <1>3 DEF PumpTurns, StartTurn, PrepareTurn, Ending, Continue, StepFinished, Released
<1>4. CASE CancelActiveTurn \/ AcquireQuiescence \/ ReleaseQuiescence
           \/ \E w \in Waiters : Settled(w)
  BY <1>2, <1>4 DEF CancelActiveTurn, AcquireQuiescence, ReleaseQuiescence, Settled
<1>5. CASE BeginNothing \/ StepFailed
  BY <1>1, <1>5 DEF BeginNothing, StepFailed
<1>6. CASE StepInterrupted
  BY <1>1, <1>2, <1>6 DEF StepInterrupted
<1>7. CASE StepFailedRetryable
  BY <1>1, <1>2, <1>7 DEF StepFailedRetryable
<1>8. CASE CompleteStep
  BY <1>1, <1>2, <1>8 DEF CompleteStep
<1> QED
  BY <1>3, <1>4, <1>5, <1>6, <1>7, <1>8, EnqueuePlaces, AdmitHeldPlaces, BeginStepPlaces,
     RecoverPlaces, EndTurnPlaces, CancelQueuedTurnPlaces, CancelStepPlaces, AbortHeldPlaces,
     AbortStandalonePlaces, DisposePlaces, TakeHeldPlaces, AfterStepPlaces
  DEF Next, Loop, Call

-----------------------------------------------------------------------------
\* Turns, in every step.

\* Turns, in every step of the loop and every call.
LEMMA NextTurns ==
  ASSUME TypeInv, TurnsInv, PlacesInv, [Next]_vars
  PROVE  TurnsInv'
<1> DEFINE Away == {"idle", "pump", "ending"}
<1>0. /\ reqState \in [Requests -> {"new", "pending", "materialized", "aborted"}]
      /\ active \in Owners
  BY DEF TypeInv, TypeOK, RequestTypeOK, TurnTypeOK
<1>1. ASSUME UNCHANGED <<pendingTurns, active, turnState, turnId, nextReserved, held, admitting>>,
             pc' \in Away <=> pc \in Away,
             reqState' = reqState \/ \E R : reqState' = AbortAll(R)
      PROVE  TurnsInv'
  <2>1. \A r \in Requests : reqState'[r] = "new" => reqState[r] = "new"
    BY <1>1 DEF AbortAll
  <2>2. Gate' = Gate
    BY <1>1 DEF Gate
  <2> QED BY <1>1, <2>1, <2>2, TurnsFrame
<1>2. ASSUME NEW r \in Requests, Admit(r), active' = active,
             turnState[r] = "none", reqState'[r] # "new", r \notin Gate', Gate' \subseteq Gate,
             \A x \in Requests : reqState'[x] = "new" => reqState[x] = "new"
      PROVE  TurnsInv'
  <2>1. CASE CreateTurn(r)
    BY <1>2, <2>1, CreateTurnTurns
  <2>2. CASE UNCHANGED <<turnVars, pc>>
    BY <1>2, <2>2, TurnsFrame
  <2> QED BY <1>2, <2>1, <2>2 DEF Admit
<1>3. ASSUME NEW r \in Requests, Enqueue(r) PROVE TurnsInv'
  <2>1. /\ reqState[r] = "new" /\ reqState' = [reqState EXCEPT ![r] = "pending"]
        /\ admitting' = admitting /\ active' = active
        /\ turnState[r] = "none" /\ r \notin Gate
    BY <1>3 DEF Enqueue, PlacesInv, TurnsInv
  <2>2. CASE held' = Append(held, r) /\ UNCHANGED <<turnVars, pc>>
    <3>1. Gate' = Gate \cup {r}
      BY <2>1, <2>2, GateType, AppendProps DEF Gate
    <3>2. \A x \in Requests : reqState'[x] = "new" => reqState[x] = "new"
      BY <1>0, <2>1
    <3> QED BY <2>1, <2>2, <3>1, <3>2, TurnsFrame
  <2>3. CASE Admit(r) /\ held' = held
    BY <1>0, <1>2, <2>1, <2>3 DEF Gate
  <2>4. CASE UNCHANGED <<held, turnVars, pc>>
    <3>1. Gate' = Gate /\ \A x \in Requests : reqState'[x] = "new" => reqState[x] = "new"
      BY <1>0, <2>1, <2>4 DEF Gate
    <3> QED BY <2>1, <2>4, <3>1, TurnsFrame
  <2> QED BY <1>3, <2>2, <2>3, <2>4 DEF Enqueue
<1>4. CASE AdmitHeld
  <2> DEFINE r == Head(admitting)
  <2>1. /\ admitting # << >> /\ admitting' = Tail(admitting) /\ held' = held /\ active' = active
    BY <1>4 DEF AdmitHeld
  <2>2. /\ r \in Requests /\ r \in Gate /\ r \notin ToSet(admitting') /\ held = << >>
        /\ ToSet(admitting') \subseteq ToSet(admitting)
    BY <2>1, GateType, HeadTailProps DEF PlacesInv, Gate
  <2>3. r \notin Gate' /\ Gate' \subseteq Gate
    BY <2>1, <2>2, EmptyListProps DEF Gate
  <2>4. reqState[r] = "pending" /\ turnState[r] = "none"
    BY <2>2 DEF PlacesInv, TurnsInv
  <2> HIDE DEF r
  <2>5. CASE Admit(r) /\ reqState' = reqState
    BY <1>2, <2>1, <2>2, <2>3, <2>4, <2>5
  <2>6. CASE (reqState' = reqState \/ reqState' = AbortAll({r})) /\ UNCHANGED <<turnVars, pc>>
    <3>1. \A x \in Requests : reqState'[x] = "new" => reqState[x] = "new"
      BY <2>6 DEF AbortAll
    <3> QED BY <2>1, <2>3, <2>6, <3>1, TurnsFrame
  <2> QED BY <1>4, <2>5, <2>6 DEF AdmitHeld, r
<1>5. CASE AfterStep
  <2>1. UNCHANGED <<turnVars, active, held, admitting>> /\ pc = "after" /\ pc' = "complete"
    BY <1>5 DEF AfterStep
  <2>2. \A r \in Requests : reqState'[r] = "new" => reqState[r] = "new"
    BY <1>0, <1>5 DEF AfterStep
  <2>3. Gate' = Gate
    BY <2>1 DEF Gate
  <2> QED BY <2>1, <2>2, <2>3, TurnsFrame
<1>6. CASE BeginStep
  <2>1. UNCHANGED <<turnVars, active, held, admitting>> /\ pc = "begin" /\ pc' = "exec"
    BY <1>6 DEF BeginStep
  <2>2. \A r \in Requests : reqState'[r] = "new" => reqState[r] = "new"
    BY <1>6 DEF BeginStep
  <2>3. Gate' = Gate
    BY <2>1 DEF Gate
  <2> QED BY <2>1, <2>2, <2>3, TurnsFrame
<1>7. CASE TakeHeld
  <2>1. UNCHANGED <<turnVars, active, pc, reqState>> /\ admitting' = held /\ held' = << >>
    BY <1>7 DEF TakeHeld
  <2>2. \A r \in Requests : r \in Gate' => r \in Gate
    BY <2>1, EmptyListProps DEF Gate
  <2> QED BY <2>1, <2>2, TurnsFrame
<1>8. ASSUME NEW k \in DOMAIN held, AbortHeld(k) PROVE TurnsInv'
  <2>1. /\ UNCHANGED <<turnVars, active, pc, admitting>> /\ held' = RemoveAt(held, k)
        /\ reqState' = AbortAll({held[k]})
    BY <1>8 DEF AbortHeld
  <2>2. ToSet(held') \subseteq ToSet(held)
    <3>1. k \in 1 .. Len(held)
      BY GateType
    <3> QED BY <2>1, <3>1, GateType, RemoveAtInjective DEF PlacesInv
  <2>3. /\ \A r \in Requests : r \in Gate' => r \in Gate
        /\ \A r \in Requests : reqState'[r] = "new" => reqState[r] = "new"
    BY <2>1, <2>2 DEF Gate, AbortAll
  <2> QED BY <2>1, <2>3, TurnsFrame
<1>9. CASE PumpTurns \/ PrepareTurn \/ Ending \/ Continue \/ StepFinished
           \/ Released \/ UNCHANGED vars
  BY <1>1, <1>9 DEF PumpTurns, PrepareTurn, Ending, Continue, StepFinished, Released,
    CallPump, TurnsInv, Free, AwaitPhases, SyncPhases
<1>10. CASE CancelActiveTurn \/ AcquireQuiescence \/ \E w \in Waiters : Settled(w)
  BY <1>1, <1>10 DEF CancelActiveTurn, AcquireQuiescence, Settled
<1>11. CASE ReleaseQuiescence
  BY <1>1, <1>11 DEF ReleaseQuiescence, CallPump, TurnsInv
<1>12. CASE BeginNothing \/ StepFailed
  BY <1>1, <1>12 DEF BeginNothing, StepFailed, Return
<1>13. CASE StepInterrupted \/ StepFailedRetryable
  BY <1>1, <1>13 DEF StepInterrupted, StepFailedRetryable, Return
<1>14. CASE Recover \/ CompleteStep
  BY <1>1, <1>14 DEF Recover, CompleteStep, Return
<1>15. ASSUME NEW r \in Requests, CancelStep(r) \/ AbortStandalone(r) PROVE TurnsInv'
  BY <1>1, <1>15 DEF CancelStep, CancelSteps, AbortStandalone
<1> QED
  BY <1>3, <1>4, <1>5, <1>6, <1>7, <1>8, <1>9, <1>10, <1>11, <1>12, <1>13, <1>14, <1>15,
     StartTurnTurns, EndTurnTurns, CancelQueuedTurnTurns, DisposeTurns
  DEF Next, Loop, Call

-----------------------------------------------------------------------------
\* Steps.

StepStates == {"none", "queued", "running", "completed", "cancelled"}

\* Types, for the steps.
LEMMA StepsType ==
  ASSUME TypeInv
  PROVE  /\ reqState \in [Requests -> {"new", "pending", "materialized", "aborted"}]
         /\ home \in [Requests -> Owners]
         /\ stepState \in [Requests -> StepStates]
         /\ turnState \in [Requests -> {"none", "queued", "running"} \cup Ended]
         /\ "none" \notin Ended /\ "queued" \notin Ended /\ "running" \notin Ended
  BY DEF TypeInv, TypeOK, RequestTypeOK, TurnTypeOK, Ended, StepStates

\* Steps are cancelled, and perhaps turns end of which every step is.
LEMMA StepsCancel ==
  ASSUME TypeInv, StepsInv, home' = home, NEW alive \in SUBSET Requests,
         \A r \in alive : stepState[r] \in {"queued", "running"},
         stepState' = [r \in Requests |-> IF r \in alive THEN "cancelled" ELSE stepState[r]],
         NEW R, alive \subseteq R, reqState' = AbortAll(R),
         \A r \in Requests : home[r] # NoTurn /\ turnState'[home[r]] \in Ended =>
           \/ turnState[home[r]] \in Ended
           \/ stepState[r] \in {"queued", "running"} => r \in alive,
         pc' \in {"exec", "after", "complete", "recover"} =>
           UNCHANGED <<pc, driver, active>>
  PROVE  StepsInv'
<1>1. \A r \in Requests : reqState'[r] = IF r \in R /\ reqState[r] = "pending"
                                         THEN "aborted" ELSE reqState[r]
  BY DEF AbortAll
<1>2. \A r \in Requests : home[r] = NoTurn <=> stepState'[r] = "none"
  BY StepsType DEF StepsInv
<1>3. \A r \in Requests : stepState'[r] \in {"completed", "cancelled"} => reqState'[r] # "pending"
  BY <1>1 DEF StepsInv
<1>4. pc' \in {"exec", "after", "complete", "recover"} =>
         reqState'[driver'] = "materialized" /\ home[driver'] = active'
  BY <1>1 DEF StepsInv, TypeInv
<1>5. ASSUME NEW r \in Requests, home[r] # NoTurn, turnState'[home[r]] \in Ended
      PROVE  stepState'[r] \in {"completed", "cancelled"} /\ reqState'[r] # "pending"
  <2>1. stepState'[r] \in {"completed", "cancelled"}
    BY <1>5, StepsType DEF StepsInv, EndedTurnIsSettled, StepStates
  <2> QED BY <1>3, <2>1
<1> QED BY <1>2, <1>3, <1>4, <1>5 DEF StepsInv, EndedTurnIsSettled

\* Requests are aborted, no step changes.
LEMMA AbortSteps ==
  ASSUME TypeInv, StepsInv, UNCHANGED <<home, stepState, turnState>>,
         reqState' = reqState \/ \E R : reqState' = AbortAll(R),
         pc' \in {"exec", "after", "complete", "recover"} =>
           /\ pc \in {"exec", "after", "complete", "recover"}
           /\ UNCHANGED <<driver, active>>
  PROVE  StepsInv'
<1>1. \A r \in Requests : \/ reqState'[r] = reqState[r]
                          \/ reqState[r] = "pending" /\ reqState'[r] = "aborted"
  BY DEF AbortAll
<1> QED BY <1>1 DEF StepsInv, EndedTurnIsSettled, TypeInv

\* A request that has no step yet is sent, held or put into the standalone queue.
LEMMA SendSteps ==
  ASSUME TypeInv, StepsInv, NEW r \in Requests, reqState[r] \in {"new", "pending"},
         home[r] = NoTurn, reqState' = [reqState EXCEPT ![r] = "pending"],
         UNCHANGED <<home, stepState, turnState, pc, driver, active>>
  PROVE  StepsInv'
<1>1. \A x \in Requests : reqState'[x] = IF x = r THEN "pending" ELSE reqState[x]
  BY StepsType
<1>2. stepState[r] = "none"
  BY DEF StepsInv
<1> QED BY <1>1, <1>2 DEF StepsInv, EndedTurnIsSettled, TypeInv

\* A request gets a step in the active turn.
LEMMA AssignSteps ==
  ASSUME TypeInv, TurnsInv, StepsInv, NEW r \in Requests, reqState[r] \in {"new", "pending"},
         home[r] = NoTurn, active \in Requests, AssignStep(active, r),
         reqState' = [reqState EXCEPT ![r] = "pending"],
         UNCHANGED <<turnState, driver, active>>,
         pc' = pc \/ (pc = "after" /\ pc' = "complete")
  PROVE  StepsInv'
<1>1. /\ home' = [home EXCEPT ![r] = active] /\ stepState' = [stepState EXCEPT ![r] = "queued"]
  BY DEF AssignStep
<1>2. \A x \in Requests : /\ reqState'[x] = IF x = r THEN "pending" ELSE reqState[x]
                          /\ home'[x] = IF x = r THEN active ELSE home[x]
                          /\ stepState'[x] = IF x = r THEN "queued" ELSE stepState[x]
  BY <1>1, StepsType
<1>3. active # NoTurn /\ turnState[active] = "running"
  BY NoTurnProps DEF TurnsInv
<1> QED BY <1>2, <1>3, StepsType DEF StepsInv, EndedTurnIsSettled, TypeInv

\* A request gets a step in a turn of its own, and what waited joins it.
LEMMA CreateTurnSteps ==
  ASSUME TypeInv, PlacesInv, TurnsInv, StepsInv, NEW r \in Requests,
         reqState[r] \in {"new", "pending"},
         home[r] = NoTurn, turnState[r] = "none", CreateTurn(r), active' = active, driver' = driver,
         reqState' = [reqState EXCEPT ![r] = "pending"]
  PROVE  StepsInv'
<1> DEFINE moved == {x \in InQueue(NoTurn) : reqState[x] # "aborted"}
<1>1. /\ home' = [x \in Requests |-> IF x \in moved \cup {r} THEN r ELSE home[x]]
      /\ stepState' = [x \in Requests |-> IF x \in moved \cup {r} THEN "queued" ELSE stepState[x]]
      /\ turnState' = [turnState EXCEPT ![r] = "queued"]
      /\ pc' = "pump" \/ pc' = pc
  BY StandaloneProps DEF CreateTurn, CallPump, TypeInv, TypeOK
<1>2. \A x \in moved : reqState[x] = "pending" /\ x \in Requests
  BY InQueueType, NoTurnProps DEF PlacesInv, TypeInv, TypeOK
<1> HIDE DEF moved
<1>3. \A x \in Requests : reqState'[x] = IF x = r THEN "pending" ELSE reqState[x]
  BY StepsType
<1>4. r # NoTurn
  BY NoTurnProps
<1>5. \A x \in Requests : home'[x] = NoTurn <=> stepState'[x] = "none"
  BY <1>1, <1>4 DEF StepsInv
<1>6. \A x \in Requests : stepState'[x] \in {"completed", "cancelled"} => reqState'[x] # "pending"
  BY <1>1, <1>3 DEF StepsInv
<1>7. pc' \in {"exec", "after", "complete", "recover"} =>
         reqState'[driver'] = "materialized" /\ home'[driver'] = active'
  BY <1>1, <1>2, <1>3 DEF StepsInv, TypeInv
<1>8. ASSUME NEW x \in Requests, home'[x] # NoTurn, turnState'[home'[x]] \in Ended
      PROVE  stepState'[x] \in {"completed", "cancelled"} /\ reqState'[x] # "pending"
  <2>1. home'[x] # r
    BY <1>1, <1>8, StepsType
  <2>2. x \notin moved \cup {r} /\ home'[x] = home[x] /\ stepState'[x] = stepState[x]
    BY <1>1, <2>1
  <2>3. turnState'[home[x]] = turnState[home[x]]
    BY <1>1, <2>1, <2>2, StepsType
  <2> QED BY <1>3, <1>8, <2>2, <2>3 DEF StepsInv, EndedTurnIsSettled
<1> QED BY <1>5, <1>6, <1>7, <1>8 DEF StepsInv, EndedTurnIsSettled

\* Whatever its admission, a request gets a step in a turn that is not over.
LEMMA AdmitSteps ==
  ASSUME TypeInv, PlacesInv, TurnsInv, StepsInv, NEW r \in Requests,
         reqState[r] \in {"new", "pending"},
         home[r] = NoTurn, turnState[r] = "none", Admit(r), active' = active, driver' = driver,
         reqState' = [reqState EXCEPT ![r] = "pending"]
  PROVE  StepsInv'
<1>1. CASE CreateTurn(r)
  BY <1>1, CreateTurnSteps
<1>2. CASE active # NoTurn /\ AssignStep(active, r) /\ UNCHANGED <<turnVars, pc>>
  <2>1. active \in Requests
    BY <1>2 DEF TypeInv, TypeOK, TurnTypeOK, Owners
  <2>2. turnState' = turnState /\ pc' = pc
    BY <1>2
  <2>3. AssignStep(active, r)
    BY <1>2
  <2>4. UNCHANGED <<turnState, driver, active>>
    BY <2>2
  <2> QED BY <2>1, <2>2, <2>3, <2>4, AssignSteps
<1>3. CASE UNCHANGED <<stepVars, turnVars, pc>>
  BY <1>3, SendSteps
<1> QED BY <1>1, <1>2, <1>3 DEF Admit

\* Steps, in every step of the loop and every call.
LEMMA NextSteps ==
  ASSUME TypeInv, TurnsInv, PlacesInv, StepsInv, [Next]_vars
  PROVE  StepsInv'
<1>0. \A R : reqState' = AbortAll(R) => \E S : reqState' = AbortAll(S)
  OBVIOUS
<1>1. ASSUME NEW res, Return(res), UNCHANGED <<home, stepState, turnState>>
      PROVE  StepsInv'
  BY <1>1, AbortSteps DEF Return
<1>2. CASE PumpTurns \/ PrepareTurn \/ Ending \/ Continue \/ StepFinished
           \/ Released \/ UNCHANGED vars
  BY <1>2, AbortSteps DEF PumpTurns, PrepareTurn, Ending, Continue, StepFinished, Released,
    CallPump
<1>3. CASE CancelActiveTurn \/ AcquireQuiescence \/ ReleaseQuiescence \/ TakeHeld
           \/ \E w \in Waiters : Settled(w)
  BY <1>3, AbortSteps DEF CancelActiveTurn, AcquireQuiescence, ReleaseQuiescence, TakeHeld,
    Settled, CallPump
<1>4. CASE BeginNothing \/ StepFailed
  BY <1>1, <1>4 DEF BeginNothing, StepFailed
<1>5. CASE StepInterrupted
  BY <1>1, <1>5, AbortSteps DEF StepInterrupted
<1>6. CASE StepFailedRetryable
  BY <1>1, <1>6, AbortSteps DEF StepFailedRetryable
<1>7. ASSUME NEW r \in Requests, AbortStandalone(r) PROVE StepsInv'
  BY <1>7, AbortSteps DEF AbortStandalone
<1>8. ASSUME NEW k \in DOMAIN held, AbortHeld(k) PROVE StepsInv'
  BY <1>8, AbortSteps DEF AbortHeld
<1>9. CASE StartTurn
  <2>1. /\ UNCHANGED <<home, stepState, reqState>> /\ pc' = "starting"
        /\ turnState' = [turnState EXCEPT ![Head(pendingTurns)] = "running"]
    BY <1>9 DEF StartTurn
  <2>2. \A t \in Requests : turnState'[t] \in Ended => turnState[t] \in Ended
    BY <2>1, StepsType
  <2>3. \A r \in Requests : home[r] # NoTurn => home[r] \in Requests
    BY StepsType DEF Owners
  <2> QED BY <2>1, <2>2, <2>3 DEF StepsInv, EndedTurnIsSettled
<1>10. CASE EndTurn
  <2> DEFINE alive == {r \in StepsOf({active}) : stepState[r] \in {"queued", "running"}}
  <2>1. /\ stepState' = [r \in Requests |-> IF r \in alive THEN "cancelled" ELSE stepState[r]]
        /\ reqState' = AbortAll(alive) /\ home' = home /\ pc' = "ending"
        /\ turnState' = [turnState EXCEPT ![active] = result]
    BY <1>10 DEF EndTurn, CancelSteps
  <2>2. alive \in SUBSET Requests /\ \A r \in alive : stepState[r] \in {"queued", "running"}
    BY DEF StepsOf
  <2>3. \A r \in Requests : home[r] # NoTurn /\ turnState'[home[r]] \in Ended =>
           \/ turnState[home[r]] \in Ended
           \/ stepState[r] \in {"queued", "running"} => r \in alive
    BY <2>1, StepsType DEF StepsOf
  <2> HIDE DEF alive
  <2> QED BY <2>1, <2>2, <2>3, StepsCancel
<1>11. ASSUME NEW k \in DOMAIN pendingTurns, CancelQueuedTurn(k) PROVE StepsInv'
  <2> DEFINE t == pendingTurns[k]
             alive == {r \in StepsOf({t}) : stepState[r] \in {"queued", "running"}}
  <2>1. /\ stepState' = [r \in Requests |-> IF r \in alive THEN "cancelled" ELSE stepState[r]]
        /\ reqState' = AbortAll(alive) /\ UNCHANGED <<home, pc, driver, active>>
        /\ turnState' = [turnState EXCEPT ![t] = "cancelled"]
    BY <1>11 DEF CancelQueuedTurn, CancelSteps
  <2>2. alive \in SUBSET Requests /\ \A r \in alive : stepState[r] \in {"queued", "running"}
    BY DEF StepsOf
  <2>3. \A r \in Requests : home[r] # NoTurn /\ turnState'[home[r]] \in Ended =>
           \/ turnState[home[r]] \in Ended
           \/ stepState[r] \in {"queued", "running"} => r \in alive
    BY <2>1, StepsType DEF StepsOf
  <2> HIDE DEF alive
  <2> QED BY <2>1, <2>2, <2>3, StepsCancel
<1>12. CASE Dispose
  <2> DEFINE queued == ToSet(pendingTurns)
             alive == {r \in StepsOf(queued) : stepState[r] \in {"queued", "running"}}
             R == (ToSet(held) \cup StandaloneLive) \cup alive
  <2>1. /\ stepState' = [r \in Requests |-> IF r \in alive THEN "cancelled" ELSE stepState[r]]
        /\ reqState' = AbortAll(R) /\ UNCHANGED <<home, pc, driver, active>>
        /\ turnState' = [r \in Requests |-> IF r \in queued THEN "cancelled" ELSE turnState[r]]
    BY <1>12 DEF Dispose, CancelEverything
  <2>2. /\ alive \in SUBSET Requests /\ \A r \in alive : stepState[r] \in {"queued", "running"}
        /\ alive \subseteq R
    BY DEF StepsOf
  <2>3. \A r \in Requests : home[r] # NoTurn => home[r] \in Requests
    BY StepsType DEF Owners
  <2>4. \A r \in Requests : home[r] # NoTurn /\ turnState'[home[r]] \in Ended =>
           \/ turnState[home[r]] \in Ended
           \/ stepState[r] \in {"queued", "running"} => r \in alive
    BY <2>1, <2>3 DEF StepsOf
  <2> HIDE DEF alive, R
  <2> QED BY <2>1, <2>2, <2>4, StepsCancel
<1>13. ASSUME NEW r \in Requests, CancelStep(r) PROVE StepsInv'
  <2> DEFINE alive == {x \in {r} : stepState[x] \in {"queued", "running"}}
  <2>1. /\ stepState' = [x \in Requests |-> IF x \in alive THEN "cancelled" ELSE stepState[x]]
        /\ reqState' = AbortAll(alive) /\ UNCHANGED <<home, pc, driver, active, turnState>>
    BY <1>13 DEF CancelStep, CancelSteps
  <2>2. alive \in SUBSET Requests /\ \A x \in alive : stepState[x] \in {"queued", "running"}
    OBVIOUS
  <2> HIDE DEF alive
  <2> QED BY <2>1, <2>2, StepsCancel
<1>14. ASSUME NEW r \in Requests, Enqueue(r) PROVE StepsInv'
  <2>1. /\ reqState[r] = "new" /\ reqState' = [reqState EXCEPT ![r] = "pending"]
        /\ home[r] = NoTurn /\ turnState[r] = "none" /\ active' = active /\ driver' = driver
    BY <1>14 DEF Enqueue, PlacesInv, TurnsInv
  <2>2. CASE Admit(r)
    BY <2>1, <2>2, AdmitSteps
  <2>3. CASE UNCHANGED <<turnVars, stepVars, pc>>
    BY <2>1, <2>3, SendSteps
  <2> QED BY <1>14, <2>2, <2>3 DEF Enqueue
<1>15. CASE AdmitHeld
  <2> DEFINE r == Head(admitting)
  <2>1. r \in Requests /\ r \in Gate /\ active' = active /\ driver' = driver
    BY <1>15, GateType, HeadTailProps DEF AdmitHeld, Gate
  <2>2. reqState[r] = "pending" /\ home[r] = NoTurn /\ turnState[r] = "none"
    BY <2>1 DEF PlacesInv, TurnsInv
  <2> HIDE DEF r
  <2>3. CASE Admit(r) /\ reqState' = reqState
    <3>1. reqState' = [reqState EXCEPT ![r] = "pending"]
      BY <2>1, <2>2, <2>3, StepsType
    <3> QED BY <2>1, <2>2, <2>3, <3>1, AdmitSteps
  <2>4. CASE /\ reqState' = reqState \/ reqState' = AbortAll({r})
             /\ UNCHANGED <<turnVars, stepVars, pc>>
    BY <2>1, <2>4, AbortSteps
  <2> QED BY <1>15, <2>3, <2>4 DEF AdmitHeld, r
<1>16. CASE AfterStep
  <2>1. UNCHANGED <<turnState, driver, active>> /\ pc = "after" /\ pc' = "complete"
    BY <1>16 DEF AfterStep
  <2>2. CASE \E r \in Continuations :
               /\ reqState[r] = "new"
               /\ reqState' = [reqState EXCEPT ![r] = "pending"]
               /\ AssignStep(active, r)
    <3>1. PICK r \in Continuations :
               /\ reqState[r] = "new"
               /\ reqState' = [reqState EXCEPT ![r] = "pending"]
               /\ AssignStep(active, r)
      BY <2>2
    <3>2. r \in Requests /\ active \in Requests
      BY <2>1, ScopeAssumption DEF Requests, TurnsInv, TypeInv, TypeOK, TurnTypeOK, Owners
    <3>3. home[r] = NoTurn
      BY <3>1, <3>2 DEF PlacesInv
    <3> QED BY <2>1, <3>1, <3>2, <3>3, AssignSteps
  <2>3. CASE UNCHANGED <<reqState, stepVars>>
    BY <2>1, <2>3, AbortSteps
  <2> QED BY <1>16, <2>2, <2>3 DEF AfterStep
<1>17. CASE BeginStep
  <2> DEFINE d == BatchDriver(active)
             fresh == Fresh(BatchOf(active))
  <2>1. /\ active \in Requests /\ active \in Owners /\ QueueTypeOK /\ HasPending(active)
        /\ active # NoTurn /\ turnState[active] = "running"
    BY <1>17, NoTurnProps DEF BeginStep, TurnsInv, TypeInv, TypeOK, TurnTypeOK, Owners
  <2>2. /\ driver' = d /\ stepState' = [stepState EXCEPT ![d] = "running"]
        /\ reqState' = [r \in Requests |-> IF r \in fresh THEN "materialized" ELSE reqState[r]]
        /\ UNCHANGED <<home, active, turnState>>
    BY <1>17 DEF BeginStep
  <2>3. d \in InQueue(active) /\ reqState[d] # "aborted"
    BY <2>1, BatchProps
  <2>4. d \in Requests /\ home[d] = active
    BY <2>1, <2>3, TurnQueueProps
  <2>5. d \in fresh <=> reqState[d] = "pending"
    BY DEF Fresh, BatchOf
  <2>6. \A r \in fresh : reqState[r] = "pending"
    BY DEF Fresh
  <2>7. reqState[d] # "new"
    BY <2>1, <2>3, <2>4 DEF PlacesInv
  <2> HIDE DEF d, fresh
  <2>8. reqState'[d] = "materialized"
    BY <2>2, <2>3, <2>4, <2>5, <2>7, StepsType
  <2>9. \A r \in Requests : stepState'[r] = IF r = d THEN "running" ELSE stepState[r]
    BY <2>2, <2>4, StepsType
  <2>10. \A r \in Requests : reqState'[r] = "pending" => reqState[r] = "pending"
    BY <2>2
  <2>11. \A r \in Requests : home[r] = NoTurn <=> stepState'[r] = "none"
    BY <2>1, <2>4, <2>9 DEF StepsInv
  <2>12. \A r \in Requests : stepState'[r] \in {"completed", "cancelled"} => reqState'[r] # "pending"
    BY <2>9, <2>10 DEF StepsInv
  <2>13. ASSUME NEW r \in Requests, home[r] # NoTurn, turnState[home[r]] \in Ended
         PROVE  stepState'[r] \in {"completed", "cancelled"} /\ reqState'[r] # "pending"
    <3>1. r # d
      BY <2>1, <2>4, <2>13, StepsType
    <3> QED BY <2>9, <2>10, <2>13, <3>1 DEF StepsInv, EndedTurnIsSettled
  <2> QED BY <2>2, <2>4, <2>8, <2>11, <2>12, <2>13 DEF StepsInv, EndedTurnIsSettled
<1>18. CASE Recover
  <2>1. CASE \E res : Return(res) /\ UNCHANGED <<queueVars, stepState>>
    BY <1>1, <1>18, <2>1 DEF Recover
  <2>2. CASE /\ stepState' = [stepState EXCEPT ![driver] = "queued"] /\ pc' = "requeued"
             /\ UNCHANGED <<reqState, result>>
    <3>1. /\ driver \in Requests /\ home[driver] = active /\ active # NoTurn
          /\ turnState[active] = "running" /\ UNCHANGED <<home, turnState>>
      BY <1>18 DEF Recover, TurnsInv, StepsInv, TypeInv, TypeOK, TurnTypeOK, Owners
    <3>2. \A r \in Requests : stepState'[r] = IF r = driver THEN "queued" ELSE stepState[r]
      BY <2>2, <3>1, StepsType
    <3> QED BY <2>2, <3>1, <3>2, StepsType DEF StepsInv, EndedTurnIsSettled
  <2> QED BY <1>18, <2>1, <2>2 DEF Recover
<1>19. CASE CompleteStep
  <2>1. /\ driver \in Requests /\ home[driver] = active /\ active # NoTurn
        /\ reqState[driver] = "materialized" /\ UNCHANGED <<home, turnState>>
        /\ stepState' = [stepState EXCEPT ![driver] = "completed"]
        /\ pc' \in {"return", "begin"}
        /\ reqState' = reqState \/ \E R : reqState' = AbortAll(R)
    BY <1>19 DEF CompleteStep, TurnsInv, StepsInv, TypeInv, Return
  <2>2. \A r \in Requests : stepState'[r] = IF r = driver THEN "completed" ELSE stepState[r]
    BY <2>1, StepsType
  <2>3. \A r \in Requests : \/ reqState'[r] = reqState[r]
                            \/ reqState[r] = "pending" /\ reqState'[r] = "aborted"
    BY <2>1 DEF AbortAll
  <2> QED BY <2>1, <2>2, <2>3, StepsType DEF StepsInv, EndedTurnIsSettled
<1> QED
  BY <1>2, <1>3, <1>4, <1>5, <1>6, <1>7, <1>8, <1>9, <1>10, <1>11, <1>12, <1>13, <1>14,
     <1>15, <1>16, <1>17, <1>18, <1>19
  DEF Next, Loop, Call

-----------------------------------------------------------------------------
\* Whoever waits for a quiet loop.

\* Steps that change nothing settled() looks at, except that the loop goes on.
LEMMA SettleFrame ==
  ASSUME SettleInv,
         UNCHANGED <<quiescence, releasing, pendingTurns, active, held, admitting, waiter, disposing>>,
         \/ pc' = pc
         \/ pc # "pump" /\ pc' # "idle" /\ (pc' \in SyncPhases => quiescence = 0)
  PROVE  SettleInv'
  BY DEF SettleInv, Quiet

\* A request is let in: it opens a turn, and a loop that rests is pumped, or it
\* leaves the turns alone.
LEMMA AdmitSettle ==
  ASSUME TypeInv, TurnsInv, SettleInv, NEW r \in Requests, Admit(r), quiescence = 0,
         ~ disposing, pc # "pump",
         UNCHANGED <<quiescence, releasing, active, held, waiter, disposing>>,
         releasing # "admitting" => admitting' = << >>
  PROVE  SettleInv'
<1>1. CASE CreateTurn(r)
  <2>1. /\ pendingTurns' # << >>
        /\ pc' = IF active = NoTurn THEN "pump" ELSE pc
    <3>1. pendingTurns \in Seq(Requests)
      BY DEF TypeInv, TypeOK, TurnTypeOK
    <3> QED BY <1>1, <3>1 DEF CreateTurn, CallPump
  <2>2. pc' # "idle"
    BY <2>1 DEF TurnsInv
  <2> QED BY <2>1, <2>2 DEF SettleInv, Quiet
<1>2. CASE UNCHANGED <<pendingTurns, pc>>
  BY <1>2 DEF SettleInv, Quiet
<1> QED BY <1>1, <1>2 DEF Admit

\* The gate, the pump and the callers of settled(), in every step.
LEMMA NextSettle ==
  ASSUME TypeInv, LeaseInv, TurnsInv, SettleInv, [Next]_vars
  PROVE  SettleInv'
<1>0. /\ quiescence \in Nat /\ pendingTurns \in Seq(Requests) /\ held \in Seq(Requests)
      /\ admitting \in Seq(Requests) /\ active \in Owners
      /\ releasing \in {"no", "pumped", "admitting"}
      /\ waiter \in [Waiters -> {"none", "waiting", "settled"}]
  BY DEF TypeInv, TypeOK, GateTypeOK, TurnTypeOK, ServiceTypeOK
<1>1. pc \notin {"idle", "pump", "ending"} => active # NoTurn /\ quiescence = 0
  BY <1>0 DEF TurnsInv, LeaseInv, LeaseIsQuiet
<1>2. CASE PumpTurns
  <2>1. /\ quiescence = 0 /\ pendingTurns = << >> /\ pc' = "idle"
        /\ UNCHANGED <<quiescence, releasing, pendingTurns, active, held, admitting, disposing>>
    BY <1>2 DEF PumpTurns, SettleInv, SyncPhases
  <2>2. \A w \in Waiters : waiter'[w] = "waiting" =>
          waiter[w] = "waiting" /\ (disposing \/ ~ Quiet(pendingTurns, active, held))
    BY <1>0, <1>2, <2>1 DEF PumpTurns, SettleIf
  <2> QED BY <2>1, <2>2 DEF SettleInv, Quiet, SyncPhases
<1>3. CASE StartTurn
  <2>1. Head(pendingTurns) \in Requests
    BY <1>0, <1>3 DEF StartTurn
  <2>2. active' # NoTurn
    BY <1>3, <2>1, NoTurnProps DEF StartTurn
  <2> QED BY <1>3, <2>2 DEF StartTurn, SettleInv, Quiet
<1>4. CASE EndTurn
  <2>1. /\ quiescence = 0 /\ pc' = "ending" /\ active' = NoTurn
        /\ UNCHANGED <<quiescence, releasing, pendingTurns, held, admitting, disposing>>
    BY <1>1, <1>4 DEF EndTurn
  <2>2. \A w \in Waiters : waiter'[w] = "waiting" => ~ Quiet(pendingTurns, NoTurn, held)
    BY <1>0, <1>4 DEF EndTurn, SettleIf
  <2> QED BY <2>1, <2>2 DEF SettleInv, Quiet
<1>5. CASE PrepareTurn \/ Ending \/ Continue \/ StepFinished \/ UNCHANGED vars
  BY <1>1, <1>5, SettleFrame DEF PrepareTurn, Ending, Continue, StepFinished, CallPump,
    SettleInv, TurnsInv, SyncPhases
<1>6. CASE BeginNothing \/ BeginStep \/ StepFailed
  BY <1>1, <1>6, SettleFrame DEF BeginNothing, BeginStep, StepFailed, Return, SyncPhases
<1>7. CASE StepInterrupted \/ StepFailedRetryable
  BY <1>1, <1>7, SettleFrame DEF StepInterrupted, StepFailedRetryable, Return, SyncPhases
<1>8. CASE Recover \/ AfterStep \/ CompleteStep
  BY <1>1, <1>8, SettleFrame DEF Recover, AfterStep, CompleteStep, Return, SyncPhases
<1>9. CASE TakeHeld
  BY <1>9 DEF TakeHeld, SettleInv
<1>10. CASE AdmitHeld
  <2>1. /\ releasing = "admitting" /\ quiescence = 0 /\ ~ disposing /\ pc \notin SyncPhases
        /\ UNCHANGED <<held, quiescence, releasing, active, waiter, disposing>>
        /\ admitting # << >>
    BY <1>10 DEF AdmitHeld, LeaseInv, SettleInv
  <2>2. Head(admitting) \in Requests
    BY <1>0, <2>1
  <2>3. CASE Admit(Head(admitting))
    BY <2>1, <2>2, <2>3, AdmitSettle DEF SyncPhases
  <2>4. CASE UNCHANGED <<pendingTurns, pc>>
    BY <2>1, <2>4 DEF SettleInv
  <2> QED BY <1>10, <2>3, <2>4 DEF AdmitHeld
<1>11. CASE Released
  <2>1. /\ releasing = "admitting" /\ quiescence = 0 /\ ~ disposing /\ held = << >>
        /\ admitting = << >> /\ releasing' = "no"
        /\ pc' = IF active = NoTurn THEN "pump" ELSE pc
        /\ UNCHANGED <<held, quiescence, admitting, active, pendingTurns, waiter, disposing>>
    BY <1>11 DEF Released, LeaseInv, SettleInv, CallPump
  <2>2. active # NoTurn => pc' # "idle"
    BY <2>1 DEF TurnsInv
  <2> QED BY <2>1, <2>2 DEF SettleInv, Quiet
<1>12. ASSUME NEW r \in Requests, Enqueue(r) PROVE SettleInv'
  <2>1. /\ pc # "pump" /\ ~ disposing
        /\ UNCHANGED <<quiescence, releasing, admitting, active, waiter, disposing>>
    BY <1>12 DEF Enqueue, External, Free, AwaitPhases
  <2>2. CASE quiescence > 0 /\ held' = Append(held, r) /\ UNCHANGED <<pendingTurns, pc>>
    <3>1. held' # << >>
      BY <1>0, <2>2
    <3>2. quiescence' # 0
      BY <1>0, <2>1, <2>2
    <3>3. pc' \in SyncPhases => quiescence = 0
      BY <2>2 DEF SettleInv
    <3>4. pc' = "idle" => pendingTurns' = << >>
      BY <2>2 DEF SettleInv
    <3>5. releasing # "admitting" => admitting = << >>
      BY DEF SettleInv
    <3> QED BY <2>1, <3>1, <3>2, <3>3, <3>4, <3>5 DEF SettleInv, Quiet
  <2>3. CASE quiescence = 0 /\ Admit(r) /\ UNCHANGED held
    <3>1. releasing # "admitting" => admitting' = << >>
      BY <2>1 DEF SettleInv
    <3> QED BY <2>1, <2>3, <3>1, AdmitSettle
  <2>4. CASE UNCHANGED <<held, pendingTurns, pc>>
    BY <2>1, <2>4, SettleFrame
  <2> QED BY <1>12, <2>2, <2>3, <2>4 DEF Enqueue
<1>13. ASSUME NEW r \in Requests, CancelStep(r) \/ AbortStandalone(r) PROVE SettleInv'
  BY <1>13, SettleFrame DEF CancelStep, AbortStandalone
<1>14. ASSUME NEW k \in DOMAIN pendingTurns, CancelQueuedTurn(k) PROVE SettleInv'
  <2>1. /\ pendingTurns # << >>
        /\ UNCHANGED <<quiescence, releasing, active, held, admitting, disposing, pc>>
    BY <1>0, <1>14 DEF CancelQueuedTurn
  <2>2. \A w \in Waiters : waiter'[w] = "waiting" => ~ Quiet(pendingTurns', active, held)
    BY <1>0, <1>14 DEF CancelQueuedTurn, SettleIf
  <2> QED BY <2>1, <2>2 DEF SettleInv, Quiet
<1>15. ASSUME NEW k \in DOMAIN held, AbortHeld(k) PROVE SettleInv'
  <2>1. /\ held # << >>
        /\ UNCHANGED <<quiescence, releasing, active, pendingTurns, admitting, disposing, pc>>
    BY <1>0, <1>15 DEF AbortHeld
  <2>2. \A w \in Waiters : waiter'[w] = "waiting" => ~ Quiet(pendingTurns, active, held')
    BY <1>0, <1>15 DEF AbortHeld, SettleIf
  <2> QED BY <2>1, <2>2 DEF SettleInv, Quiet
<1>16. CASE CancelActiveTurn
  BY <1>16, SettleFrame DEF CancelActiveTurn
<1>17. CASE AcquireQuiescence
  <2>1. /\ pc \notin SyncPhases /\ quiescence' = quiescence + 1
        /\ UNCHANGED <<releasing, active, pendingTurns, held, admitting, waiter, disposing, pc>>
    BY <1>17 DEF AcquireQuiescence, Free, AwaitPhases, SyncPhases
  <2>2. quiescence' # 0
    BY <1>0, <2>1
  <2> QED BY <2>1, <2>2 DEF SettleInv, Quiet
<1>18. CASE ReleaseQuiescence
  <2>1. /\ pc \in AwaitPhases /\ pc \notin SyncPhases /\ releasing = "no" /\ quiescence > 0
        /\ quiescence' = quiescence - 1
        /\ UNCHANGED <<active, pendingTurns, held, admitting, waiter, disposing>>
    BY <1>18 DEF ReleaseQuiescence, Free, AwaitPhases, SyncPhases
  <2>2. CASE (quiescence' > 0 \/ disposing) /\ UNCHANGED <<releasing, pc>>
    <3>1. quiescence' = 0 => disposing
      BY <2>2
    <3> QED BY <2>1, <2>2, <3>1 DEF SettleInv, Quiet
  <2>3. CASE ~ (quiescence' > 0 \/ disposing) /\ releasing' = "pumped" /\ CallPump
    <3>1. quiescence' = 0
      BY <1>0, <2>1, <2>3
    <3>2. pc' = "pump"
      BY <2>1, <2>3 DEF CallPump, LeaseInv, LeaseIsQuiet
    <3> QED BY <2>1, <2>3, <3>1, <3>2 DEF SettleInv, Quiet
  <2> QED BY <1>18, <2>2, <2>3 DEF ReleaseQuiescence
<1>19. ASSUME NEW w \in Waiters, Settled(w) PROVE SettleInv'
  <2>1. /\ UNCHANGED <<quiescence, releasing, active, pendingTurns, held, admitting, disposing, pc>>
        /\ waiter' = [waiter EXCEPT ![w] = IF Quiet(pendingTurns, active, held)
                                           THEN "settled" ELSE "waiting"]
    BY <1>19 DEF Settled
  <2>2. \A v \in Waiters : waiter'[v] = "waiting" =>
          waiter[v] = "waiting" \/ ~ Quiet(pendingTurns, active, held)
    BY <1>0, <2>1
  <2> QED BY <2>1, <2>2 DEF SettleInv, Quiet
<1>20. CASE Dispose
  <2>1. /\ releasing = "no" /\ pendingTurns' = << >> /\ held' = << >>
        /\ UNCHANGED <<quiescence, releasing, active, admitting, pc>> /\ disposing' = TRUE
    BY <1>20 DEF Dispose, CancelEverything, Free
  <2>2. \A w \in Waiters : waiter'[w] = "waiting" => active # NoTurn
    BY <1>0, <1>20 DEF Dispose, SettleIf
  <2> QED BY <2>1, <2>2 DEF SettleInv, Quiet
<1> QED
  BY <1>2, <1>3, <1>4, <1>5, <1>6, <1>7, <1>8, <1>9, <1>10, <1>11, <1>12, <1>13, <1>14,
     <1>15, <1>16, <1>17, <1>18, <1>19, <1>20
  DEF Next, Loop, Call

-----------------------------------------------------------------------------
\* The invariant, and what follows from it.

LoopInv ==
  /\ TypeInv /\ LeaseInv
  /\ TurnsInv /\ PlacesInv /\ OpenInv /\ StepsInv /\ SettleInv

\* The invariant holds of a new loop ...
LEMMA InitLoop == Init => LoopInv
<1> SUFFICES ASSUME Init PROVE LoopInv
  OBVIOUS
<1>1. TypeInv
  BY InitType
<1>2. LeaseInv
  BY DEF Init, LeaseInv, LeaseIsQuiet
<1>3. Gate = {} /\ \A t \in Owners : InQueue(t) = {}
  BY EmptyListProps DEF Init, Gate, InQueue
<1>4. TurnsInv
  <2>1. /\ pendingTurns = << >> /\ ToSet(pendingTurns) = {} /\ DOMAIN pendingTurns = {}
        /\ active = NoTurn /\ pc = "idle" /\ \A t \in Requests : turnState[t] = "none"
    BY EmptyListProps DEF Init
  <2>2. \A t \in Requests : t # NoTurn
    BY NoTurnProps
  <2> QED BY <1>3, <2>1, <2>2 DEF TurnsInv
<1>5. PlacesInv
  BY <1>3, EmptyListProps, NoTurnProps DEF Init, PlacesInv
<1>6. OpenInv
  BY DEF Init, OpenInv
<1>7. StepsInv
  BY DEF Init, StepsInv, EndedTurnIsSettled
<1>8. SettleInv
  BY DEF Init, SettleInv, SyncPhases
<1> QED BY <1>1, <1>2, <1>4, <1>5, <1>6, <1>7, <1>8 DEF LoopInv

\* ... and every step keeps it.
LEMMA NextLoop == LoopInv /\ [Next]_vars => LoopInv'
<1> SUFFICES ASSUME LoopInv, [Next]_vars PROVE LoopInv'
  OBVIOUS
<1>1. TypeInv' /\ LeaseInv'
  BY NextType, NextLease DEF LoopInv
<1>2. TurnsInv'
  BY NextTurns DEF LoopInv
<1>3. PlacesInv' /\ OpenInv'
  BY NextPlaces DEF LoopInv
<1>4. StepsInv'
  BY NextSteps DEF LoopInv
<1>5. SettleInv'
  BY NextSettle DEF LoopInv
<1> QED BY <1>1, <1>2, <1>3, <1>4, <1>5 DEF LoopInv

\* The invariant of the loop.
LEMMA LoopInvariant == Spec => []LoopInv
  BY InitLoop, NextLoop, PTL DEF Spec

\* One turn at a time, in the order in which pumpTurns was given them.
THEOREM TurnOrderHolds == Spec => []TurnOrder
<1>1. LoopInv => TurnOrder
  <2> SUFFICES ASSUME LoopInv, NEW t \in Requests, turnState[t] = "running",
                      NEW u \in Requests, turnState[u] # "none", turnId[u] < turnId[t]
               PROVE  turnState[u] \in Ended
    BY DEF TurnOrder, LoopInv, TurnsInv
  <2>1. /\ t = active /\ turnId \in [Requests -> Nat]
        /\ turnState \in [Requests -> {"none", "queued", "running"} \cup Ended]
    BY DEF LoopInv, TurnsInv, TypeInv, TypeOK, TurnTypeOK
  <2>2. turnId[t] \in Nat /\ turnId[u] \in Nat
    BY <2>1
  <2>3. turnState[u] # "running"
    BY <2>1, <2>2 DEF LoopInv, TurnsInv
  <2>4. turnState[u] # "queued"
    <3>1. ASSUME turnState[u] = "queued" PROVE FALSE
      <4>1. PICK i \in DOMAIN pendingTurns : u = pendingTurns[i]
        BY <3>1 DEF LoopInv, TurnsInv, ToSet
      <4>2. turnId[t] < turnId[u]
        BY <2>1, <4>1 DEF LoopInv, TurnsInv
      <4> QED BY <2>2, <4>2
    <3> QED BY <3>1
  <2> QED BY <2>1, <2>3, <2>4
<1> QED BY <1>1, LoopInvariant, PTL

\* No sender is forgotten between the gate, the standalone queue and a turn.
THEOREM OpenIsTrackedHolds == Spec => []OpenIsTracked
<1>1. LoopInv => OpenIsTracked
  <2> SUFFICES ASSUME LoopInv, NEW r \in Requests, asg[r] = "open"
               PROVE  /\ r \in ToSet(held) \cup ToSet(admitting) \cup StandaloneLive
                      /\ reqState[r] = "pending"
    BY DEF OpenIsTracked
  <2>1. reqState[r] = "pending" /\ r \in Gate \cup InQueue(NoTurn)
    BY DEF LoopInv, OpenInv
  <2>2. StandaloneLive = {x \in InQueue(NoTurn) : reqState[x] # "aborted"}
    BY StandaloneProps DEF LoopInv, TypeInv, TypeOK
  <2> QED BY <2>1, <2>2 DEF Gate
<1> QED BY <1>1, LoopInvariant, PTL

\* releaseActiveTurn, CancelQueuedTurn and dispose leave nothing of a turn behind.
THEOREM EndedTurnIsSettledHolds == Spec => []EndedTurnIsSettled
<1>1. LoopInv => EndedTurnIsSettled
  BY DEF LoopInv, StepsInv
<1> QED BY <1>1, LoopInvariant, PTL

\* A loop that rests was not left by a pump that should have come.
THEOREM IdleIsDoneHolds == Spec => []IdleIsDone
<1>1. LoopInv => IdleIsDone
  BY DEF LoopInv, SettleInv, TurnsInv, IdleIsDone, Quiet
<1> QED BY <1>1, LoopInvariant, PTL

\* settled() resolves only for a loop that is quiet at that moment.
THEOREM SettledIsQuietHolds == Spec => SettledIsQuiet
<1> DEFINE Step == \A w \in Waiters : waiter[w] # "settled" /\ waiter'[w] = "settled" =>
                     active' = NoTurn /\ pendingTurns' = << >> /\ held' = << >>
<1>1. ASSUME LoopInv, [Next]_vars PROVE Step
  <2>0. waiter \in [Waiters -> {"none", "waiting", "settled"}]
    BY <1>1 DEF LoopInv, TypeInv, TypeOK, ServiceTypeOK
  <2>1. CASE waiter' = waiter
    BY <2>1
  <2>2. CASE PumpTurns \/ EndTurn
    BY <2>0, <2>2 DEF PumpTurns, EndTurn, SettleIf, Quiet
  <2>3. ASSUME NEW k \in DOMAIN pendingTurns, CancelQueuedTurn(k) PROVE Step
    BY <2>0, <2>3 DEF CancelQueuedTurn, SettleIf, Quiet
  <2>4. ASSUME NEW k \in DOMAIN held, AbortHeld(k) PROVE Step
    BY <2>0, <2>4 DEF AbortHeld, SettleIf, Quiet
  <2>5. ASSUME NEW w \in Waiters, Settled(w) PROVE Step
    BY <2>0, <2>5 DEF Settled, Quiet
  <2>6. CASE Dispose
    BY <2>0, <2>6 DEF Dispose, CancelEverything, SettleIf
  <2>7. CASE Loop \/ ReleaseQuiescence \/ UNCHANGED vars
    <3>1. PumpTurns \/ EndTurn \/ waiter' = waiter
      BY <2>7 DEF Loop, ReleaseQuiescence, StartTurn, PrepareTurn, Ending, BeginNothing,
        BeginStep, StepFinished, StepInterrupted, StepFailed, StepFailedRetryable, Recover,
        AfterStep, CompleteStep, Continue, TakeHeld, AdmitHeld, Released
    <3> QED BY <2>1, <2>2, <3>1
  <2>8. CASE \/ \E r \in Requests \ Continuations : Enqueue(r)
             \/ \E r \in Requests : CancelStep(r) \/ AbortStandalone(r)
             \/ CancelActiveTurn \/ AcquireQuiescence
    BY <2>1, <2>8 DEF Enqueue, CancelStep, AbortStandalone, CancelActiveTurn, AcquireQuiescence
  <2> QED BY <1>1, <2>3, <2>4, <2>5, <2>6, <2>7, <2>8 DEF Next, Call
<1>2. LoopInv /\ [Next]_vars => [Step]_vars
  BY <1>1
<1> QED BY <1>2, LoopInvariant, PTL DEF Spec, SettledIsQuiet

\* No step touches the outcome of a turn that is over.
FinalStep == \A t \in Requests : turnState[t] \in Ended => turnState'[t] = turnState[t]

LEMMA FinalStepHolds ==
  ASSUME LoopInv, [Next]_vars
  PROVE  FinalStep
<1> USE DEF FinalStep
<1>0. /\ turnState \in [Requests -> {"none", "queued", "running"} \cup Ended]
      /\ pendingTurns \in Seq(Requests)
      /\ "none" \notin Ended /\ "queued" \notin Ended /\ "running" \notin Ended
  BY StepsType DEF LoopInv, TypeInv, TypeOK, TurnTypeOK
<1>1. CASE turnState' = turnState
  BY <1>1
<1>2. ASSUME NEW r \in Requests, turnState[r] \in {"none", "queued", "running"}, NEW s,
             turnState' = [turnState EXCEPT ![r] = s]
      PROVE  FinalStep
  BY <1>0, <1>2
<1>3. \A i \in DOMAIN pendingTurns :
        pendingTurns[i] \in Requests /\ turnState[pendingTurns[i]] = "queued"
  BY <1>0 DEF LoopInv, TurnsInv, ToSet
<1>4. CASE StartTurn
  <2>1. 1 \in DOMAIN pendingTurns /\ Head(pendingTurns) = pendingTurns[1]
    BY <1>0, <1>4 DEF StartTurn
  <2> QED BY <1>2, <1>3, <1>4, <2>1 DEF StartTurn
<1>5. CASE EndTurn
  <2>1. active \in Requests /\ turnState[active] = "running"
    BY <1>5 DEF EndTurn, LoopInv, TurnsInv, TypeInv, TypeOK, TurnTypeOK, Owners
  <2> QED BY <1>2, <1>5, <2>1 DEF EndTurn
<1>6. ASSUME NEW k \in DOMAIN pendingTurns, CancelQueuedTurn(k) PROVE FinalStep
  BY <1>2, <1>3, <1>6 DEF CancelQueuedTurn
<1>7. CASE Dispose
  BY <1>0, <1>3, <1>7 DEF Dispose, CancelEverything, ToSet
<1>8. ASSUME NEW r \in Requests, Admit(r), turnState[r] = "none" PROVE FinalStep
  BY <1>0, <1>1, <1>2, <1>8 DEF Admit, CreateTurn
<1>9. ASSUME NEW r \in Requests, Enqueue(r) PROVE FinalStep
  <2>1. turnState[r] = "none"
    BY <1>9 DEF Enqueue, LoopInv, TurnsInv
  <2> QED BY <1>1, <1>8, <1>9, <2>1 DEF Enqueue
<1>10. CASE AdmitHeld
  <2>1. Head(admitting) \in Requests /\ Head(admitting) \in Gate
    BY <1>10, GateType, HeadTailProps DEF AdmitHeld, Gate, LoopInv
  <2>2. turnState[Head(admitting)] = "none"
    BY <2>1 DEF LoopInv, TurnsInv
  <2> QED BY <1>1, <1>8, <1>10, <2>1, <2>2 DEF AdmitHeld
<1>11. CASE Loop \/ ReleaseQuiescence \/ UNCHANGED vars
  <2>1. StartTurn \/ EndTurn \/ AdmitHeld \/ turnState' = turnState
    BY <1>11 DEF Loop, ReleaseQuiescence, PumpTurns, PrepareTurn, Ending, BeginNothing,
      BeginStep, StepFinished, StepInterrupted, StepFailed, StepFailedRetryable, Recover,
      AfterStep, CompleteStep, Continue, TakeHeld, Released
  <2> QED BY <1>1, <1>4, <1>5, <1>10, <2>1
<1>12. CASE \/ \E r \in Requests : CancelStep(r) \/ AbortStandalone(r)
            \/ \E k \in DOMAIN held : AbortHeld(k)
            \/ CancelActiveTurn \/ AcquireQuiescence
            \/ \E w \in Waiters : Settled(w)
  BY <1>1, <1>12 DEF CancelStep, AbortStandalone, AbortHeld, CancelActiveTurn,
    AcquireQuiescence, Settled
<1> QED BY <1>6, <1>7, <1>9, <1>11, <1>12 DEF Next, Call

\* Whatever the order of cancellation, pump and end of turns, a turn that was
\* recorded as over is never started, ended or cancelled again.
THEOREM EndedTurnIsFinalHolds == Spec => EndedTurnIsFinal
<1>1. LoopInv /\ [Next]_vars => [FinalStep]_vars
  BY FinalStepHolds
<1> QED BY <1>1, LoopInvariant, PTL DEF Spec, EndedTurnIsFinal, FinalStep

\* The outcome of t is its cancellation, or nothing can make it another one.
Stands(t) ==
  \/ turnState[t] = "cancelled"
  \/ /\ active = t /\ turnAborted
     /\ pc \in {"exec", "recover"} \/ (pc = "return" /\ result = "cancelled")

\* A turn whose abort surfaces in a step returns as cancelled, and stays so.
LEMMA StandsStep ==
  ASSUME LoopInv, [Next]_vars, NEW t \in Requests, Stands(t)
  PROVE  Stands(t)'
<1>0. /\ turnState \in [Requests -> {"none", "queued", "running"} \cup Ended]
      /\ "cancelled" \in Ended /\ t # NoTurn
  BY NoTurnProps DEF LoopInv, TypeInv, TypeOK, TurnTypeOK, Ended
<1>1. CASE turnState[t] = "cancelled"
  BY <1>0, <1>1, FinalStepHolds DEF Stands, FinalStep
<1> SUFFICES ASSUME active = t, turnAborted,
                    pc \in {"exec", "recover"} \/ (pc = "return" /\ result = "cancelled")
             PROVE  Stands(t)'
  BY <1>1 DEF Stands
<1>2. ASSUME UNCHANGED <<active, turnAborted, pc, result>> PROVE Stands(t)'
  BY <1>2 DEF Stands
<1>3. CASE StepInterrupted \/ Recover
  BY <1>3 DEF StepInterrupted, Recover, Return, Stands
<1>4. CASE EndTurn
  BY <1>0, <1>4 DEF EndTurn, Stands
<1>5. CASE Loop /\ ~ StepInterrupted /\ ~ Recover /\ ~ EndTurn
  <2>1. CASE TakeHeld \/ AdmitHeld \/ Released
    BY <1>0, <1>2, <2>1 DEF TakeHeld, AdmitHeld, Released, Admit, CreateTurn, CallPump,
      Rejected, AssignStep
  <2>2. ~ TakeHeld /\ ~ AdmitHeld /\ ~ Released => FALSE
    BY <1>5 DEF Loop, PumpTurns, StartTurn, PrepareTurn, Ending, BeginNothing, BeginStep,
      StepFinished, StepFailed, StepFailedRetryable, AfterStep, CompleteStep, Continue,
      SignalAborted
  <2> QED BY <2>1, <2>2
<1>6. CASE ReleaseQuiescence \/ UNCHANGED vars
  BY <1>0, <1>2, <1>6 DEF ReleaseQuiescence, CallPump
<1>7. ASSUME NEW r \in Requests, Enqueue(r) PROVE Stands(t)'
  BY <1>0, <1>2, <1>7 DEF Enqueue, Admit, CreateTurn, CallPump, Rejected, AssignStep
<1>8. CASE Dispose \/ CancelActiveTurn
  BY <1>0, <1>8 DEF Dispose, CancelEverything, CancelActiveTurn, Stands
<1>9. CASE \/ \E r \in Requests : CancelStep(r) \/ AbortStandalone(r)
           \/ \E k \in DOMAIN pendingTurns : CancelQueuedTurn(k)
           \/ \E k \in DOMAIN held : AbortHeld(k)
           \/ AcquireQuiescence
           \/ \E w \in Waiters : Settled(w)
  BY <1>2, <1>9 DEF CancelStep, AbortStandalone, CancelQueuedTurn, AbortHeld,
    AcquireQuiescence, Settled
<1> QED BY <1>3, <1>4, <1>5, <1>6, <1>7, <1>8, <1>9 DEF Next, Call

\* No answer, failure, retry or cancelled step that races with the cancellation
\* of a turn makes it end any other way.
THEOREM CancelDuringStepStandsHolds == Spec => CancelDuringStepStands
<1> SUFFICES ASSUME NEW t \in Requests
             PROVE  Spec => [](active = t /\ turnAborted /\ pc \in {"exec", "recover"}
                                 => [](turnState[t] \in {"running", "cancelled"}))
  BY DEF CancelDuringStepStands
<1> DEFINE Reached == active = t /\ turnAborted /\ pc \in {"exec", "recover"}
           Held    == turnState[t] \in {"running", "cancelled"}
<1>1. Reached => Stands(t)
  BY DEF Stands
<1>2. LoopInv /\ Stands(t) => Held
  BY DEF LoopInv, TurnsInv, Stands
<1>3. LoopInv /\ Stands(t) /\ [Next]_vars => Stands(t)'
  BY StandsStep
<1> HIDE DEF Reached, Held
<1>4. []LoopInv /\ [][Next]_vars => [](Reached => []Held)
  BY <1>1, <1>2, <1>3, PTL
<1> QED BY <1>4, LoopInvariant, PTL DEF Spec, Reached, Held

-----------------------------------------------------------------------------
\* The loop implements the turn queue.

\* The filter of the turn queue is the one the lemmas are about.
LEMMA SameFilter ==
  ASSUME NEW s, NEW S
  PROVE  Queue!Without(s, S) = Without(s, S)
  BY DEF Without, Subsequence, Nth, Cardinality,
    Queue!Without, Queue!Subsequence, Queue!Nth, Queue!Cardinality

\* What became of the requests, but for the turn that is about to start.
Seen == [r \in Requests |-> IF turnState[r] # "none" THEN turnState[r]
                            ELSE IF r \in Gate THEN "held"
                            ELSE IF reqState[r] = "new" THEN "none" ELSE "declined"]

\* A step of the turn queue, or none.
QueueStep == [Queue!LoopNext]_(Queue!loopVars)

\* The queue as its senders see it: what a lease holds back, the turns between
\* two pumps, and the turns while they are being pumped.
HeldView ==
  /\ HeldRequests \in Seq(Requests) /\ ToSet(HeldRequests) = Gate
  /\ releasing # "admitting" => HeldRequests = held
  /\ quiescence = 0 /\ releasing # "pumped" => HeldRequests = admitting
  /\ quiescence = 0 /\ releasing = "no" => HeldRequests = << >>
  /\ disposing => HeldRequests = << >>

RestView == RunningTurn = active /\ WaitingTurns = pendingTurns /\ TurnOf = Seen

PumpView ==
  /\ active = NoTurn /\ quiescence = 0
  /\ disposing => pendingTurns = << >>
  /\ pendingTurns = << >> => RunningTurn = NoTurn /\ WaitingTurns = << >> /\ TurnOf = Seen
  /\ pendingTurns # << >> =>
       /\ RunningTurn = Head(pendingTurns) /\ WaitingTurns = Tail(pendingTurns)
       /\ TurnOf = [Seen EXCEPT ![Head(pendingTurns)] = "running"]

View ==
  /\ HeldView
  /\ IF pc = "pump" THEN PumpView ELSE RestView

\* The invariant of the loop is all the view needs, in this state and the next.
LEMMA ViewProps == LoopInv => View
<1> SUFFICES ASSUME LoopInv PROVE View
  OBVIOUS
<1>1. HeldView
  <2>1. /\ held \in Seq(Requests) /\ admitting \in Seq(Requests)
    BY GateType DEF LoopInv
  <2>2. HeldRequests \in Seq(Requests) /\ ToSet(HeldRequests) = Gate
    BY <2>1, ConcatProps DEF HeldRequests, Gate
  <2>3. admitting = << >> => HeldRequests = held
    BY <2>1 DEF HeldRequests
  <2>4. held = << >> => HeldRequests = admitting
    BY <2>1 DEF HeldRequests
  <2> QED BY <2>2, <2>3, <2>4 DEF HeldView, LoopInv, SettleInv
<1>2. ToSet(HeldRequests) = Gate
  BY <1>1 DEF HeldView
<1>3. \A r \in Requests : turnState[r] = "running" <=> r = active
  BY DEF LoopInv, TurnsInv
<1>4. CASE pc # "pump"
  <2>1. RunningTurn = active /\ WaitingTurns = pendingTurns
    BY <1>4 DEF AboutToStart, RunningTurn, WaitingTurns
  <2>2. TurnOf = Seen
    <3> SUFFICES ASSUME NEW r \in Requests PROVE TurnOf[r] = Seen[r]
      BY DEF TurnOf, Seen
    <3> QED BY <1>2, <1>3, <2>1 DEF TurnOf, Seen
  <2> QED BY <1>1, <1>4, <2>1, <2>2 DEF View, RestView
<1>5. CASE pc = "pump"
  <2>1. /\ active = NoTurn /\ quiescence = 0
        /\ disposing => pendingTurns = << >>
        /\ \A r \in Requests : turnState[r] # "running"
    BY <1>3, <1>5, NoTurnProps DEF LoopInv, TurnsInv, SettleInv, SyncPhases
  <2>2. CASE pendingTurns = << >>
    <3>1. RunningTurn = NoTurn /\ WaitingTurns = << >>
      BY <2>1, <2>2 DEF AboutToStart, RunningTurn, WaitingTurns
    <3>2. TurnOf = Seen
      <4> SUFFICES ASSUME NEW r \in Requests PROVE TurnOf[r] = Seen[r]
        BY DEF TurnOf, Seen
      <4>1. r # RunningTurn
        BY <3>1, NoTurnProps
      <4> QED BY <1>2, <4>1 DEF TurnOf, Seen
    <3>3. PumpView
      BY <2>1, <2>2, <3>1, <3>2 DEF PumpView
    <3> QED BY <1>1, <1>5, <3>3 DEF View
  <2>3. CASE pendingTurns # << >>
    <3>1. RunningTurn = Head(pendingTurns) /\ WaitingTurns = Tail(pendingTurns)
      BY <1>5, <2>1, <2>3 DEF AboutToStart, RunningTurn, WaitingTurns
    <3>2. TurnOf = [Seen EXCEPT ![Head(pendingTurns)] = "running"]
      <4> SUFFICES ASSUME NEW r \in Requests
                   PROVE  TurnOf[r] = IF r = Head(pendingTurns) THEN "running" ELSE Seen[r]
        BY DEF TurnOf, Seen
      <4> QED BY <1>2, <3>1 DEF TurnOf, Seen
    <3>3. PumpView
      BY <2>1, <2>3, <3>1, <3>2 DEF PumpView
    <3> QED BY <1>1, <1>5, <3>3 DEF View
  <2> QED BY <2>2, <2>3
<1> QED BY <1>4, <1>5

LEMMA ViewPropsNext == LoopInv' => View'
  BY ViewProps, PTL

\* A call that pumps does to the turn queue what its Pump does.
LEMMA PumpedProps ==
  ASSUME View', pc' = "pump", disposing' = disposing
  PROVE  Queue!Pump(pendingTurns', Seen')
  BY DEF View, PumpView, Queue!Pump

\* A step that the turn queue does not see.
LEMMA QueueStutters ==
  ASSUME View, View', pc # "pump", pc' # "pump",
         UNCHANGED <<pendingTurns, active, turnState, held, admitting, disposing>>,
         Leased' = Leased,
         \A r \in Requests : reqState'[r] = "new" <=> reqState[r] = "new"
  PROVE  QueueStep
<1>1. HeldRequests' = HeldRequests /\ Gate' = Gate
  BY DEF HeldRequests, Gate
<1>2. Seen' = Seen
  BY <1>1 DEF Seen
<1> QED BY <1>1, <1>2 DEF View, RestView, QueueStep, Queue!loopVars, Queue!turnVars

\* A request is let in: it opens a turn, or joins one.
LEMMA AdmitOpens ==
  ASSUME LoopInv, View, View', NEW r \in Requests, Admit(r), pc # "pump",
         turnState[r] = "none", reqState'[r] # "new", r \notin Gate',
         \A x \in Requests \ {r} : /\ reqState'[x] = "new" <=> reqState[x] = "new"
                                   /\ x \in Gate' <=> x \in Gate,
         active' = active, disposing' = disposing
  PROVE  Queue!OpenTurn(r) \/ (r \in Requests \ NewTurn /\ Queue!Decline(r))
<1>1. /\ turnState \in [Requests -> {"none", "queued", "running"} \cup Ended]
      /\ RunningTurn = active /\ WaitingTurns = pendingTurns /\ TurnOf = Seen
  BY DEF LoopInv, TypeInv, TypeOK, TurnTypeOK, View, RestView
<1>2. CASE CreateTurn(r)
  <2>1. /\ turnState' = [turnState EXCEPT ![r] = "queued"]
        /\ pendingTurns' = Append(pendingTurns, r)
        /\ pc' = IF active = NoTurn THEN "pump" ELSE pc
    BY <1>2 DEF CreateTurn, CallPump
  <2>2. Seen' = [Seen EXCEPT ![r] = "queued"]
    <3> SUFFICES ASSUME NEW x \in Requests
                 PROVE  Seen'[x] = IF x = r THEN "queued" ELSE Seen[x]
      BY DEF Seen
    <3>1. turnState'[x] = IF x = r THEN "queued" ELSE turnState[x]
      BY <1>1, <2>1
    <3> QED BY <3>1 DEF Seen
  <2>3. CASE active = NoTurn
    <3>1. Queue!Pump(pendingTurns', Seen')
      BY <2>1, <2>3, PumpedProps
    <3> QED BY <1>1, <2>1, <2>2, <2>3, <3>1 DEF Queue!OpenTurn
  <2>4. CASE active # NoTurn
    <3>1. RunningTurn' = active /\ WaitingTurns' = pendingTurns' /\ TurnOf' = Seen'
      BY <2>1, <2>4 DEF View, RestView
    <3> QED BY <1>1, <2>1, <2>2, <2>4, <3>1 DEF Queue!OpenTurn
  <2> QED BY <2>3, <2>4
<1>3. CASE r \notin NewTurn /\ UNCHANGED <<turnVars, pc>>
  <2>1. Seen' = [Seen EXCEPT ![r] = "declined"]
    <3> SUFFICES ASSUME NEW x \in Requests
                 PROVE  Seen'[x] = IF x = r THEN "declined" ELSE Seen[x]
      BY DEF Seen
    <3> QED BY <1>3 DEF Seen
  <2>2. RunningTurn' = active /\ WaitingTurns' = pendingTurns' /\ TurnOf' = Seen'
    BY <1>3 DEF View, RestView
  <2> QED BY <1>1, <1>3, <2>1, <2>2 DEF Queue!Decline
<1> QED BY <1>2, <1>3, AdmissionAssumption DEF Admit, OpensTurn

\* A sender: the request is held, opens a turn, or the loop has none for it.
LEMMA EnqueueSends ==
  ASSUME LoopInv, View, View', NEW r \in Requests, Enqueue(r)
  PROVE  QueueStep
<1>1. /\ ~ disposing /\ disposing' = disposing
      /\ reqState[r] = "new" /\ reqState' = [reqState EXCEPT ![r] = "pending"]
      /\ UNCHANGED <<quiescence, releasing, admitting, active>>
      /\ pc # "pump"
  BY DEF Enqueue, External, Free, AwaitPhases
<1>2. /\ reqState \in [Requests -> {"new", "pending", "materialized", "aborted"}]
      /\ turnState[r] = "none" /\ r \notin Gate /\ Gate \subseteq Requests
      /\ held \in Seq(Requests) /\ quiescence \in Nat
  BY <1>1, StepsType, GateType DEF LoopInv, TurnsInv, PlacesInv, Gate, TypeInv, TypeOK, GateTypeOK
<1>3. /\ RunningTurn = active /\ WaitingTurns = pendingTurns /\ TurnOf = Seen
      /\ Seen[r] = "none"
  BY <1>1, <1>2 DEF View, RestView, Seen
<1>4. \A x \in Requests \ {r} : reqState'[x] = "new" <=> reqState[x] = "new"
  BY <1>1, <1>2
<1>5. reqState'[r] = "pending"
  BY <1>1, <1>2
<1>6. CASE /\ quiescence > 0 /\ held' = Append(held, r)
           /\ UNCHANGED <<queueVars, turnVars, stepVars, pc>>
  <2>1. releasing = "no" /\ admitting = << >>
    BY <1>2, <1>6 DEF LoopInv, LeaseInv, SettleInv
  <2>2. HeldRequests = held /\ HeldRequests' = Append(held, r)
    BY <1>1, <1>6, <2>1 DEF View, HeldView
  <2>3. Gate' = Gate \cup {r}
    BY <1>1, <1>2, <1>6, AppendProps DEF Gate
  <2>4. Seen' = [Seen EXCEPT ![r] = "held"]
    <3> SUFFICES ASSUME NEW x \in Requests
                 PROVE  Seen'[x] = IF x = r THEN "held" ELSE Seen[x]
      BY DEF Seen
    <3> QED BY <1>2, <1>4, <1>6, <2>3 DEF Seen
  <2>5. RunningTurn' = active /\ WaitingTurns' = pendingTurns /\ TurnOf' = Seen'
    BY <1>1, <1>6 DEF View, RestView
  <2>6. Queue!LoopSend(r)
    BY <1>1, <1>3, <1>6, <2>2, <2>4, <2>5 DEF Queue!LoopSend, Queue!LoopEnqueue, Leased
  <2> QED BY <2>6 DEF QueueStep, Queue!LoopNext
<1>7. CASE /\ quiescence = 0 /\ UNCHANGED held
           /\ \/ Admit(r)
              \/ Rejected(r) /\ UNCHANGED <<queueVars, turnVars, stepVars, pc>>
  <2>1. ~ Leased /\ Leased' = Leased /\ Gate' = Gate /\ HeldRequests' = HeldRequests
    BY <1>1, <1>7 DEF Leased, Gate, HeldRequests
  <2>2. CASE Admit(r)
    <3>1. Queue!OpenTurn(r) \/ (r \in Requests \ NewTurn /\ Queue!Decline(r))
      BY <1>1, <1>2, <1>4, <1>5, <2>1, <2>2, AdmitOpens
    <3>2. Queue!LoopSend(r)
      BY <1>1, <1>3, <2>1, <3>1 DEF Queue!LoopSend, Queue!LoopEnqueue
    <3> QED BY <3>2 DEF QueueStep, Queue!LoopNext
  <2>3. CASE Rejected(r) /\ UNCHANGED <<queueVars, turnVars, stepVars, pc>>
    <3>1. r \in Requests \ NewTurn
      BY <2>3, AdmissionAssumption DEF Rejected
    <3>2. Seen' = [Seen EXCEPT ![r] = "declined"]
      <4> SUFFICES ASSUME NEW x \in Requests
                   PROVE  Seen'[x] = IF x = r THEN "declined" ELSE Seen[x]
        BY DEF Seen
      <4> QED BY <1>2, <1>4, <1>5, <2>1, <2>3 DEF Seen
    <3>3. RunningTurn' = active /\ WaitingTurns' = pendingTurns /\ TurnOf' = Seen'
      BY <1>1, <2>3 DEF View, RestView
    <3>4. Queue!LoopSend(r)
      BY <1>1, <1>3, <2>1, <3>1, <3>2, <3>3 DEF Queue!LoopSend, Queue!Decline
    <3> QED BY <3>4 DEF QueueStep, Queue!LoopNext
  <2> QED BY <1>7, <2>2, <2>3
<1> QED BY <1>6, <1>7 DEF Enqueue

\* The lease is over: what it held back is let in, one by one.
LEMMA AdmitHeldAdmits ==
  ASSUME LoopInv, LoopInv', View, View', AdmitHeld
  PROVE  QueueStep
<1> DEFINE r == Head(admitting)
<1>1. /\ releasing = "admitting" /\ pc # "pump"
      /\ admitting # << >> /\ admitting' = Tail(admitting)
      /\ UNCHANGED <<held, quiescence, releasing, active, disposing>>
  BY DEF AdmitHeld, SyncPhases
<1>2. quiescence = 0 /\ held = << >> /\ IsInjective(admitting) /\ admitting \in Seq(Requests)
  BY <1>1, GateType DEF LoopInv, LeaseInv, SettleInv, PlacesInv
<1>3. /\ r \in Requests /\ r \notin ToSet(Tail(admitting))
      /\ ToSet(admitting) = {r} \cup ToSet(Tail(admitting))
  BY <1>1, <1>2, HeadTailProps
<1>4. /\ HeldRequests = admitting /\ HeldRequests' = Tail(admitting)
      /\ ~ Leased /\ Leased' = Leased
  BY <1>1, <1>2 DEF View, HeldView, Leased
<1>5. Gate = ToSet(admitting) /\ Gate' = ToSet(Tail(admitting))
  BY <1>1, <1>2, EmptyListProps DEF Gate
<1>6. reqState[r] = "pending" /\ turnState[r] = "none"
  BY <1>3, <1>5 DEF LoopInv, PlacesInv, TurnsInv
<1>7. /\ RunningTurn = active /\ WaitingTurns = pendingTurns /\ TurnOf = Seen
  BY <1>1 DEF View, RestView
<1>8. ASSUME Queue!OpenTurn(r) \/ (r \in Requests \ NewTurn /\ Queue!Decline(r))
      PROVE  QueueStep
  <2>1. Queue!LoopAdmits
    BY <1>1, <1>4, <1>8 DEF Queue!LoopAdmits, Queue!Admitting
  <2> QED BY <2>1 DEF QueueStep, Queue!LoopNext
<1>9. CASE Admit(r) /\ UNCHANGED reqState
  <2>1. \A x \in Requests \ {r} : x \in Gate' <=> x \in Gate
    BY <1>3, <1>5
  <2>2. reqState'[r] # "new" /\ r \notin Gate'
    BY <1>3, <1>5, <1>6, <1>9
  <2> HIDE DEF r
  <2> QED BY <1>1, <1>3, <1>6, <1>8, <1>9, <2>1, <2>2, AdmitOpens
<1>10. CASE /\ Rejected(r) /\ reqState' = AbortAll({r})
            /\ UNCHANGED <<queueVars, turnVars, stepVars, pc>>
  <2>1. r \in Requests \ NewTurn
    BY <1>3, <1>10, AdmissionAssumption DEF Rejected
  <2>2. Seen' = [Seen EXCEPT ![r] = "declined"]
    <3> SUFFICES ASSUME NEW x \in Requests
                 PROVE  Seen'[x] = IF x = r THEN "declined" ELSE Seen[x]
      BY DEF Seen
    <3>1. reqState'[x] = IF x = r THEN "aborted" ELSE reqState[x]
      BY <1>6, <1>10 DEF AbortAll
    <3>2. x \in Gate' <=> x # r /\ x \in Gate
      BY <1>3, <1>5
    <3> HIDE DEF r
    <3> QED BY <1>6, <1>10, <3>1, <3>2 DEF Seen
  <2>3. RunningTurn' = active /\ WaitingTurns' = pendingTurns /\ TurnOf' = Seen'
    BY <1>1, <1>10 DEF View, RestView
  <2> HIDE DEF r
  <2>4. Queue!Decline(r)
    BY <1>7, <2>2, <2>3 DEF Queue!Decline
  <2> QED BY <1>8, <2>1, <2>4
<1> QED BY <1>6, <1>9, <1>10 DEF AdmitHeld

\* cancel of a turn that waits
LEMMA CancelQueuedTurnCancels ==
  ASSUME LoopInv, View, View', NEW i \in DOMAIN pendingTurns, CancelQueuedTurn(i)
  PROVE  QueueStep
<1> DEFINE t == pendingTurns[i]
<1>1. /\ pendingTurns' = RemoveAt(pendingTurns, i)
      /\ turnState' = [turnState EXCEPT ![t] = "cancelled"]
      /\ \E R : reqState' = AbortAll(R)
      /\ UNCHANGED <<gateVars, active, pc, disposing>>
      /\ pc # "pump"
  BY DEF CancelQueuedTurn, CancelSteps, Dequeue, External, Free, AwaitPhases
<1>2. /\ pendingTurns \in Seq(Requests) /\ i \in 1 .. Len(pendingTurns)
      /\ turnState \in [Requests -> {"none", "queued", "running"} \cup Ended]
      /\ t \in Requests /\ turnState[t] = "queued"
  BY DEF LoopInv, TypeInv, TypeOK, TurnTypeOK, TurnsInv, ToSet
<1>3. IsInjective(pendingTurns)
  <2>1. DOMAIN pendingTurns = 1 .. Len(pendingTurns) /\ Len(pendingTurns) \in Nat
    BY <1>2
  <2>2. ASSUME NEW j \in DOMAIN pendingTurns, NEW k \in DOMAIN pendingTurns, j < k
        PROVE  pendingTurns[j] # pendingTurns[k]
    <3>1. turnId[pendingTurns[j]] < turnId[pendingTurns[k]]
      BY <2>2 DEF LoopInv, TurnsInv
    <3>2. turnId[pendingTurns[j]] \in Nat /\ turnId[pendingTurns[k]] \in Nat
      BY <1>2 DEF LoopInv, TypeInv, TypeOK, TurnTypeOK
    <3> QED BY <3>1, <3>2
  <2> QED BY <2>1, <2>2 DEF IsInjective
<1>4. pendingTurns' = Queue!Without(pendingTurns, {t})
  BY <1>1, <1>2, <1>3, RemoveAtIsWithout, SameFilter
<1>5. /\ RunningTurn = active /\ WaitingTurns = pendingTurns /\ TurnOf = Seen
      /\ RunningTurn' = active /\ WaitingTurns' = pendingTurns' /\ TurnOf' = Seen'
      /\ HeldRequests' = HeldRequests /\ Leased' = Leased /\ Gate' = Gate
  BY <1>1 DEF View, RestView, HeldRequests, Leased, Gate
<1> HIDE DEF t
<1>6. Seen[t] = "queued" /\ Seen' = [Seen EXCEPT ![t] = "cancelled"]
  <2>1. Seen[t] = "queued"
    BY <1>2 DEF Seen
  <2>2. ASSUME NEW x \in Requests
        PROVE  Seen'[x] = IF x = t THEN "cancelled" ELSE Seen[x]
    <3>1. turnState'[x] = IF x = t THEN "cancelled" ELSE turnState[x]
      BY <1>1, <1>2
    <3>2. reqState'[x] = "new" <=> reqState[x] = "new"
      BY <1>1 DEF AbortAll
    <3> QED BY <1>5, <3>1, <3>2 DEF Seen
  <2> QED BY <2>1, <2>2 DEF Seen
<1>7. Queue!LoopCancelQueued(t)
  BY <1>1, <1>4, <1>5, <1>6 DEF Queue!LoopCancelQueued, Queue!LoopCancel
<1> QED BY <1>2, <1>7 DEF QueueStep, Queue!LoopNext

\* The receipt's abort of a request that is held back.
LEMMA AbortHeldWithdraws ==
  ASSUME LoopInv, View, View', NEW i \in DOMAIN held, AbortHeld(i)
  PROVE  QueueStep
<1> DEFINE t == held[i]
<1>1. /\ held' = RemoveAt(held, i) /\ reqState' = AbortAll({t})
      /\ UNCHANGED <<quiescence, releasing, admitting, turnVars, active, pc, disposing>>
      /\ pc # "pump"
  BY DEF AbortHeld, External, Free, AwaitPhases
<1>2. /\ held \in Seq(Requests) /\ i \in 1 .. Len(held) /\ t \in Requests
      /\ t \in Gate /\ held # << >>
  BY GateType DEF LoopInv, Gate, ToSet
<1>3. /\ reqState[t] = "pending" /\ turnState[t] = "none"
      /\ IsInjective(held) /\ admitting = << >>
  BY <1>2 DEF LoopInv, PlacesInv, TurnsInv
<1>4. /\ held' \in Seq(Requests)
      /\ held' = Queue!Without(held, {t})
      /\ ToSet(held') = ToSet(held) \ {t}
  BY <1>1, <1>2, <1>3, RemoveAtIsWithout, RemoveAtInjective, SameFilter
<1>5. /\ HeldRequests = held /\ HeldRequests' = held' /\ Leased' = Leased
      /\ Gate' = Gate \ {t}
  <2>1. HeldRequests = held /\ HeldRequests' = held'
    BY <1>1, <1>2, <1>3, <1>4 DEF HeldRequests
  <2>2. Leased' = Leased
    BY <1>1 DEF Leased
  <2>3. Gate = ToSet(held) /\ Gate' = ToSet(held')
    BY <1>1, <1>3, EmptyListProps DEF Gate
  <2> HIDE DEF t
  <2> QED BY <1>4, <2>1, <2>2, <2>3
<1>6. /\ RunningTurn = active /\ WaitingTurns = pendingTurns /\ TurnOf = Seen
      /\ RunningTurn' = active /\ WaitingTurns' = pendingTurns /\ TurnOf' = Seen'
  BY <1>1 DEF View, RestView
<1> HIDE DEF t
<1>7. Seen[t] = "held" /\ Seen' = [Seen EXCEPT ![t] = "declined"]
  <2>1. Seen[t] = "held"
    BY <1>2, <1>3 DEF Seen
  <2>2. ASSUME NEW x \in Requests
        PROVE  Seen'[x] = IF x = t THEN "declined" ELSE Seen[x]
    <3>1. reqState'[x] = IF x = t THEN "aborted" ELSE reqState[x]
      BY <1>1, <1>3 DEF AbortAll
    <3> QED BY <1>1, <1>3, <1>5, <3>1 DEF Seen
  <2> QED BY <2>1, <2>2 DEF Seen
<1>8. Queue!LoopWithdraw(t)
  BY <1>1, <1>4, <1>5, <1>6, <1>7 DEF Queue!LoopWithdraw, Queue!Decline
<1> QED BY <1>2, <1>8 DEF QueueStep, Queue!LoopNext
\* dispose ends what waits, and leaves the turn that runs to its end.
LEMMA DisposeDisposes ==
  ASSUME LoopInv, View, View', Dispose
  PROVE  QueueStep
<1>1. /\ ~ disposing /\ disposing' /\ releasing = "no" /\ pc # "pump"
      /\ pendingTurns' = << >> /\ held' = << >>
      /\ UNCHANGED <<quiescence, releasing, admitting, active, pc>>
      /\ turnState' = [r \in Requests |-> IF r \in ToSet(pendingTurns) THEN "cancelled"
                                                                       ELSE turnState[r]]
  BY DEF Dispose, CancelEverything, Free, AwaitPhases
<1>2. \A r \in Requests :
        /\ reqState'[r] = "new" <=> reqState[r] = "new"
        /\ turnState[r] = "queued" <=> r \in ToSet(pendingTurns)
        /\ r \in Gate => reqState[r] = "pending" /\ turnState[r] = "none"
  BY DEF Dispose, CancelEverything, AbortAll, LoopInv, TurnsInv, PlacesInv
<1>3. /\ RunningTurn = active /\ WaitingTurns = pendingTurns /\ TurnOf = Seen
      /\ RunningTurn' = active /\ WaitingTurns' = << >> /\ TurnOf' = Seen'
      /\ HeldRequests' = << >> /\ Leased' = Leased
  BY <1>1 DEF View, RestView, HeldView, Leased
<1>4. Gate' = {}
  <2>1. admitting = << >>
    BY <1>1 DEF LoopInv, SettleInv
  <2> QED BY <1>1, <2>1, EmptyListProps DEF Gate
<1>5. Seen' = [r \in Requests |-> CASE Seen[r] = "queued" -> "cancelled"
                                    [] Seen[r] = "held"   -> "declined"
                                    [] OTHER              -> Seen[r]]
  <2> SUFFICES ASSUME NEW r \in Requests
               PROVE  Seen'[r] = CASE Seen[r] = "queued" -> "cancelled"
                                   [] Seen[r] = "held"   -> "declined"
                                   [] OTHER              -> Seen[r]
    BY DEF Seen
  <2>1. turnState[r] \in {"none", "queued", "running"} \cup Ended /\ "held" \notin Ended
    BY StepsType DEF LoopInv, Ended
  <2>2. turnState'[r] = IF turnState[r] = "queued" THEN "cancelled" ELSE turnState[r]
    BY <1>1, <1>2
  <2>3. CASE turnState[r] # "none"
    <3>1. Seen[r] = turnState[r] /\ Seen[r] # "held"
      BY <2>1, <2>3 DEF Seen
    <3>2. Seen'[r] = IF turnState[r] = "queued" THEN "cancelled" ELSE turnState[r]
      BY <2>2, <2>3 DEF Seen
    <3> QED BY <3>1, <3>2
  <2>4. CASE turnState[r] = "none"
    <3>1. Seen[r] = IF r \in Gate THEN "held"
                    ELSE IF reqState[r] = "new" THEN "none" ELSE "declined"
      BY <2>4 DEF Seen
    <3>2. Seen'[r] = IF reqState[r] = "new" THEN "none" ELSE "declined"
      BY <1>2, <1>4, <2>2, <2>4 DEF Seen
    <3> QED BY <1>2, <3>1, <3>2
  <2> QED BY <2>3, <2>4
<1>6. Queue!LoopDisposes
  BY <1>1, <1>3, <1>5 DEF Queue!LoopDisposes
<1> QED BY <1>6 DEF QueueStep, Queue!LoopNext

\* pumpTurns starts a turn: the one that counted as running runs.
LEMMA StartTurnStutters ==
  ASSUME LoopInv, View, View', StartTurn
  PROVE  QueueStep
<1> DEFINE h == Head(pendingTurns)
<1>1. /\ pc = "pump" /\ pc' # "pump" /\ pendingTurns # << >>
      /\ pendingTurns' = Tail(pendingTurns) /\ active' = h
      /\ turnState' = [turnState EXCEPT ![h] = "running"]
      /\ UNCHANGED <<reqState, gateVars, disposing>>
  BY DEF StartTurn
<1>2. /\ turnState \in [Requests -> {"none", "queued", "running"} \cup Ended]
      /\ HeldRequests' = HeldRequests /\ Leased' = Leased /\ Gate' = Gate
  BY <1>1 DEF LoopInv, TypeInv, TypeOK, TurnTypeOK, HeldRequests, Leased, Gate
<1>3. /\ RunningTurn = h /\ WaitingTurns = Tail(pendingTurns)
      /\ TurnOf = [Seen EXCEPT ![h] = "running"]
      /\ RunningTurn' = h /\ WaitingTurns' = Tail(pendingTurns) /\ TurnOf' = Seen'
  BY <1>1 DEF View, PumpView, RestView
<1> HIDE DEF h
<1>4. Seen' = [Seen EXCEPT ![h] = "running"]
  <2> SUFFICES ASSUME NEW r \in Requests
               PROVE  Seen'[r] = IF r = h THEN "running" ELSE Seen[r]
    BY DEF Seen
  <2>1. turnState'[r] = IF r = h THEN "running" ELSE turnState[r]
    BY <1>1, <1>2
  <2> QED BY <1>1, <1>2, <2>1 DEF Seen
<1> QED BY <1>1, <1>2, <1>3, <1>4 DEF QueueStep, Queue!loopVars, Queue!turnVars

\* The run of a turn is over.
LEMMA EndTurnEnds ==
  ASSUME LoopInv, View, View', EndTurn
  PROVE  QueueStep
<1>1. /\ pc # "pump" /\ pc' # "pump" /\ active' = NoTurn
      /\ turnState' = [turnState EXCEPT ![active] = result]
      /\ \E R : reqState' = AbortAll(R)
      /\ UNCHANGED <<gateVars, pendingTurns, disposing>>
  BY DEF EndTurn, CancelSteps
<1>2. /\ active \in Requests /\ active # NoTurn /\ result \in Ended
      /\ "none" \notin Ended /\ turnState[active] = "running"
      /\ turnState \in [Requests -> {"none", "queued", "running"} \cup Ended]
  BY StepsType DEF EndTurn, LoopInv, TurnsInv, TypeInv, TypeOK, TurnTypeOK, RunTypeOK, Owners
<1>3. /\ RunningTurn = active /\ WaitingTurns = pendingTurns /\ TurnOf = Seen
      /\ RunningTurn' = NoTurn /\ WaitingTurns' = pendingTurns /\ TurnOf' = Seen'
      /\ HeldRequests' = HeldRequests /\ Leased' = Leased /\ Gate' = Gate
  BY <1>1 DEF View, RestView, HeldRequests, Leased, Gate
<1>4. Seen' = [Seen EXCEPT ![active] = result]
  <2> SUFFICES ASSUME NEW r \in Requests
               PROVE  Seen'[r] = IF r = active THEN result ELSE Seen[r]
    BY DEF Seen
  <2>1. turnState'[r] = IF r = active THEN result ELSE turnState[r]
    BY <1>1, <1>2
  <2>2. reqState'[r] = "new" <=> reqState[r] = "new"
    BY <1>1 DEF AbortAll
  <2> QED BY <1>2, <1>3, <2>1, <2>2 DEF Seen
<1>5. Queue!LoopEnds
  BY <1>1, <1>2, <1>3, <1>4 DEF Queue!LoopEnds, Queue!Outcomes, Ended
<1> QED BY <1>5 DEF QueueStep, Queue!LoopNext

\* turn.ended was published, or the last held request was let in: the loop pumps.
LEMMA PumpStarts ==
  ASSUME LoopInv, LoopInv', View, View', pc # "pump", pc' = "pump", active = NoTurn,
         UNCHANGED <<reqState, pendingTurns, active, turnState, held, admitting, disposing>>
  PROVE  /\ Queue!Pump(WaitingTurns, TurnOf)
         /\ RunningTurn = NoTurn /\ HeldRequests' = HeldRequests
<1>1. /\ RunningTurn = NoTurn /\ WaitingTurns = pendingTurns /\ TurnOf = Seen
  BY DEF View, RestView
<1>2. HeldRequests' = HeldRequests /\ Gate' = Gate
  BY DEF HeldRequests, Gate
<1>3. Seen' = Seen
  BY <1>2 DEF Seen
<1> QED BY <1>1, <1>2, <1>3, PumpedProps

LEMMA EndingStarts ==
  ASSUME LoopInv, LoopInv', View, View', Ending
  PROVE  QueueStep
<1>1. /\ pc = "ending" /\ active = NoTurn /\ pc' = "pump" /\ quiescence = 0
      /\ UNCHANGED <<reqState, pendingTurns, active, turnState, gateVars, disposing>>
  BY DEF Ending, CallPump, LoopInv, TurnsInv, SettleInv, SyncPhases
<1>2. /\ Queue!Pump(WaitingTurns, TurnOf)
      /\ RunningTurn = NoTurn /\ HeldRequests' = HeldRequests
  BY <1>1, PumpStarts
<1>3. Queue!LoopStarts
  BY <1>1, <1>2 DEF Queue!LoopStarts, Leased
<1> QED BY <1>3 DEF QueueStep, Queue!LoopNext

LEMMA ReleasedStarts ==
  ASSUME LoopInv, LoopInv', View, View', Released
  PROVE  QueueStep
<1>1. /\ pc # "pump" /\ quiescence = 0 /\ pc' = IF active = NoTurn THEN "pump" ELSE pc
      /\ UNCHANGED <<reqState, pendingTurns, active, turnState, held, quiescence, admitting,
                     disposing>>
  BY DEF Released, CallPump, LoopInv, LeaseInv, SyncPhases
<1>2. CASE active = NoTurn
  <2>1. /\ Queue!Pump(WaitingTurns, TurnOf)
        /\ RunningTurn = NoTurn /\ HeldRequests' = HeldRequests
    BY <1>1, <1>2, PumpStarts
  <2>2. Queue!LoopStarts
    BY <1>1, <2>1 DEF Queue!LoopStarts, Leased
  <2> QED BY <2>2 DEF QueueStep, Queue!LoopNext
<1>3. CASE active # NoTurn
  BY <1>1, <1>3, QueueStutters DEF Leased
<1> QED BY <1>2, <1>3

\* A lease is given back.  The last one pumps a queue in which nothing waits.
LEMMA ReleaseQuiescenceReleases ==
  ASSUME LoopInv, LoopInv', View, View', ReleaseQuiescence
  PROVE  QueueStep
<1>1. /\ pc # "pump" /\ quiescence > 0 /\ quiescence' = quiescence - 1
      /\ UNCHANGED <<reqState, pendingTurns, active, turnState, held, admitting, disposing>>
      /\ active = NoTurn /\ pendingTurns = << >> /\ quiescence \in Nat
      /\ pc' = IF quiescence' > 0 \/ disposing THEN pc ELSE "pump"
  BY DEF ReleaseQuiescence, CallPump, Free, AwaitPhases, LoopInv, LeaseInv, LeaseIsQuiet,
    TypeInv, TypeOK, GateTypeOK
<1>2. CASE quiescence' > 0
  BY <1>1, <1>2, QueueStutters DEF Leased
<1>3. CASE ~ (quiescence' > 0)
  <2>1. Leased /\ ~ Leased' /\ Leased \in BOOLEAN /\ Leased' \in BOOLEAN
    BY <1>1, <1>3 DEF Leased
  <2>2. HeldRequests' = HeldRequests /\ Gate' = Gate
    BY <1>1 DEF HeldRequests, Gate
  <2>3. Seen' = Seen
    BY <1>1, <2>2 DEF Seen
  <2>4. RunningTurn' = RunningTurn /\ WaitingTurns' = WaitingTurns /\ TurnOf' = TurnOf
    BY <1>1, <2>3 DEF View, RestView, PumpView
  <2>5. Queue!LoopReleased
    BY <1>1, <2>1, <2>2, <2>4 DEF Queue!LoopReleased, Queue!turnVars
  <2> QED BY <2>5 DEF QueueStep, Queue!LoopNext
<1> QED BY <1>2, <1>3

LEMMA AcquireQuiescenceLends ==
  ASSUME LoopInv, View, View', AcquireQuiescence
  PROVE  QueueStep
<1>1. /\ ~ disposing /\ releasing = "no" /\ pc # "pump" /\ pc' = pc
      /\ active = NoTurn /\ pendingTurns = << >>
      /\ quiescence \in Nat /\ quiescence' = quiescence + 1
      /\ UNCHANGED <<reqState, pendingTurns, active, turnState, held, admitting, disposing>>
  BY DEF AcquireQuiescence, Busy, HasPendingRequests, Free, AwaitPhases, LoopInv, TypeInv, TypeOK,
    GateTypeOK
<1>2. CASE quiescence > 0
  BY <1>1, <1>2, QueueStutters DEF Leased
<1>3. CASE quiescence = 0
  <2>1. ~ Leased /\ Leased' /\ Leased' \in BOOLEAN
    BY <1>1, <1>3 DEF Leased
  <2>2. HeldRequests = << >> /\ HeldRequests' = HeldRequests /\ Gate' = Gate
    BY <1>1, <1>3 DEF View, HeldView, HeldRequests, Gate
  <2>3. Seen' = Seen
    BY <1>1, <2>2 DEF Seen
  <2>4. /\ RunningTurn = NoTurn /\ WaitingTurns = << >>
        /\ RunningTurn' = RunningTurn /\ WaitingTurns' = WaitingTurns /\ TurnOf' = TurnOf
    BY <1>1, <2>3 DEF View, RestView
  <2>5. Queue!LoopLends
    BY <1>1, <2>1, <2>2, <2>4 DEF Queue!LoopLends, Queue!turnVars
  <2> QED BY <2>5 DEF QueueStep, Queue!LoopNext
<1> QED BY <1>1, <1>2, <1>3

\* What a lease held back is taken to be let in.
LEMMA TakeHeldStutters ==
  ASSUME LoopInv, View, View', TakeHeld
  PROVE  QueueStep
<1>1. /\ releasing = "pumped" /\ releasing' = "admitting" /\ pc # "pump" /\ pc' = pc
      /\ admitting' = held /\ held' = << >>
      /\ UNCHANGED <<reqState, pendingTurns, active, turnState, quiescence, disposing>>
  BY DEF TakeHeld, SyncPhases
<1>2. admitting = << >> /\ quiescence = 0
  BY <1>1 DEF LoopInv, LeaseInv, SettleInv
<1>3. /\ HeldRequests' = HeldRequests /\ Leased' = Leased
  BY <1>1, <1>2 DEF View, HeldView, Leased
<1>4. Gate' = Gate
  BY <1>1, <1>2, EmptyListProps DEF Gate
<1>5. Seen' = Seen
  BY <1>1, <1>4 DEF Seen
<1> QED BY <1>1, <1>3, <1>5 DEF View, RestView, QueueStep, Queue!loopVars, Queue!turnVars

\* The pump finds nothing to start.
LEMMA PumpTurnsStutters ==
  ASSUME LoopInv, View, View', PumpTurns
  PROVE  QueueStep
<1>1. /\ pc = "pump" /\ pc' = "idle"
      /\ disposing \/ quiescence > 0 \/ pendingTurns = << >>
      /\ UNCHANGED <<reqState, pendingTurns, active, turnState, gateVars, disposing>>
  BY DEF PumpTurns
<1>2. /\ pendingTurns = << >> /\ active = NoTurn
      /\ RunningTurn = NoTurn /\ WaitingTurns = << >> /\ TurnOf = Seen
  BY <1>1 DEF View, PumpView
<1>3. HeldRequests' = HeldRequests /\ Leased' = Leased /\ Gate' = Gate
  BY <1>1 DEF HeldRequests, Leased, Gate
<1>4. Seen' = Seen
  BY <1>1, <1>3 DEF Seen
<1> QED BY <1>1, <1>2, <1>3, <1>4 DEF View, RestView, QueueStep, Queue!loopVars, Queue!turnVars

\* The step that reads the results of the tools joins the turn that runs.
LEMMA AfterStepSends ==
  ASSUME LoopInv, View, View', AfterStep
  PROVE  QueueStep
<1>1. /\ pc = "after" /\ pc' = "complete"
      /\ UNCHANGED <<gateVars, turnVars, active, disposing>>
  BY DEF AfterStep
<1>2. /\ active # NoTurn /\ quiescence = 0
      /\ reqState \in [Requests -> {"new", "pending", "materialized", "aborted"}]
  BY <1>1, StepsType DEF LoopInv, TurnsInv, LeaseInv, LeaseIsQuiet, TypeInv, TypeOK, GateTypeOK
<1>3. CASE reqState' = reqState
  BY <1>1, <1>3, QueueStutters DEF Leased
<1>4. ASSUME NEW r \in Continuations, ~ disposing, reqState[r] = "new",
             reqState' = [reqState EXCEPT ![r] = "pending"]
      PROVE  QueueStep
  <2>1. r \in Requests \ NewTurn
    BY ScopeAssumption, AdmissionAssumption DEF Requests
  <2>2. turnState[r] = "none" /\ r \notin Gate
    BY <1>4, <2>1 DEF LoopInv, TurnsInv, PlacesInv
  <2>3. /\ RunningTurn = active /\ WaitingTurns = pendingTurns /\ TurnOf = Seen
        /\ RunningTurn' = active /\ WaitingTurns' = pendingTurns /\ TurnOf' = Seen'
        /\ HeldRequests' = HeldRequests /\ Gate' = Gate
        /\ ~ Leased /\ Leased' = Leased
    BY <1>1, <1>2 DEF View, RestView, HeldRequests, Gate, Leased
  <2>4. Seen[r] = "none"
    BY <1>4, <2>1, <2>2 DEF Seen
  <2>5. Seen' = [Seen EXCEPT ![r] = "declined"]
    <3> SUFFICES ASSUME NEW x \in Requests
                 PROVE  Seen'[x] = IF x = r THEN "declined" ELSE Seen[x]
      BY DEF Seen
    <3>1. reqState'[x] = IF x = r THEN "pending" ELSE reqState[x]
      BY <1>2, <1>4
    <3> QED BY <1>1, <2>2, <2>3, <3>1 DEF Seen
  <2>6. Queue!LoopSend(r)
    BY <1>1, <1>4, <2>1, <2>3, <2>4, <2>5 DEF Queue!LoopSend, Queue!Decline
  <2> QED BY <2>1, <2>6 DEF QueueStep, Queue!LoopNext
<1> QED BY <1>3, <1>4 DEF AfterStep

\* Every action of the loop is one step of the turn queue or none.
\* Every action of the loop is a step of the queue or none.
LEMMA NextQueue ==
  ASSUME LoopInv, LoopInv', View, View', [Next]_vars
  PROVE  QueueStep
<1> DEFINE Unseen == /\ pc # "pump" /\ pc' # "pump"
                     /\ UNCHANGED <<pendingTurns, active, turnState, gateVars, disposing>>
                     /\ reqState' = reqState \/ \E R : reqState' = AbortAll(R)
<1>1. ASSUME Unseen PROVE QueueStep
  <2>1. \A r \in Requests : reqState'[r] = "new" <=> reqState[r] = "new"
    BY <1>1 DEF AbortAll
  <2> QED BY <1>1, <2>1, QueueStutters DEF Leased
<1>2. CASE PrepareTurn \/ Continue \/ StepFinished
  BY <1>1, <1>2 DEF PrepareTurn, Continue, StepFinished
<1>3. CASE BeginNothing \/ StepFailed
  BY <1>1, <1>3 DEF BeginNothing, StepFailed, Return
<1>4. CASE StepInterrupted \/ StepFailedRetryable
  BY <1>1, <1>4 DEF StepInterrupted, StepFailedRetryable, Return
<1>5. CASE Recover \/ CompleteStep
  BY <1>1, <1>5 DEF Recover, CompleteStep, Return
<1>6. CASE BeginStep
  <2>1. /\ pc # "pump" /\ pc' # "pump"
        /\ UNCHANGED <<pendingTurns, active, turnState, gateVars, disposing>>
        /\ reqState' = [r \in Requests |-> IF r \in Fresh(BatchOf(active)) THEN "materialized"
                                                                           ELSE reqState[r]]
    BY <1>6 DEF BeginStep
  <2>2. \A r \in Requests : reqState'[r] = "new" <=> reqState[r] = "new"
    BY <2>1 DEF Fresh
  <2> QED BY <2>1, <2>2, QueueStutters DEF Leased
<1>7. CASE CancelActiveTurn \/ \E w \in Waiters : Settled(w)
  BY <1>1, <1>7 DEF CancelActiveTurn, Settled, External, Free, AwaitPhases
<1>8. CASE \E r \in Requests : CancelStep(r) \/ AbortStandalone(r)
  BY <1>1, <1>8 DEF CancelStep, CancelSteps, AbortStandalone, External, Free, AwaitPhases
<1>9. CASE UNCHANGED vars
  <2>1. /\ RunningTurn' = RunningTurn /\ WaitingTurns' = WaitingTurns
        /\ HeldRequests' = HeldRequests /\ Leased' = Leased /\ TurnOf' = TurnOf
    BY <1>9 DEF AboutToStart, RunningTurn, WaitingTurns, HeldRequests, Leased, TurnOf
  <2> QED BY <1>9, <2>1 DEF QueueStep, Queue!loopVars, Queue!turnVars
<1> QED
  BY <1>2, <1>3, <1>4, <1>5, <1>6, <1>7, <1>8, <1>9, EnqueueSends, AdmitHeldAdmits,
     CancelQueuedTurnCancels, AbortHeldWithdraws, DisposeDisposes, StartTurnStutters,
     EndTurnEnds, EndingStarts, ReleasedStarts, ReleaseQuiescenceReleases,
     AcquireQuiescenceLends, TakeHeldStutters, PumpTurnsStutters, AfterStepSends
  DEF Next, Loop, Call

\* The loop starts as an empty queue.
LEMMA InitQueue == Init => Queue!LoopInit
<1> SUFFICES ASSUME Init PROVE Queue!LoopInit
  OBVIOUS
<1>1. LoopInv
  BY InitLoop
<1>2. View
  BY <1>1, ViewProps
<1>3. /\ pc = "idle" /\ active = NoTurn /\ pendingTurns = << >> /\ held = << >>
      /\ admitting = << >> /\ quiescence = 0 /\ releasing = "no" /\ ~ disposing
      /\ reqState = [r \in Requests |-> "new"] /\ turnState = [r \in Requests |-> "none"]
      /\ disposing = FALSE
  BY DEF Init
<1>4. RunningTurn = NoTurn /\ WaitingTurns = << >> /\ HeldRequests = << >> /\ TurnOf = Seen
  BY <1>2, <1>3 DEF View, RestView, HeldView
<1>5. Leased = FALSE
  BY <1>3 DEF Leased
<1>6. Gate = {}
  BY <1>3, EmptyListProps DEF Gate
<1>7. Seen = [r \in Requests |-> "none"]
  BY <1>3, <1>6 DEF Seen
<1> QED BY <1>3, <1>4, <1>5, <1>7 DEF Queue!LoopInit

\* The loop implements the turn queue: whatever interleaving of senders,
\* cancellers, leases, failures and dispose, what becomes of a request is what
\* TurnQueue, and PromptQueue over it, say of it.
THEOREM LoopImplementsTurnQueue == Spec => TurnQueueSpec
<1>1. LoopInv /\ LoopInv' /\ [Next]_vars => [Queue!LoopNext]_(Queue!loopVars)
  BY NextQueue, ViewProps, ViewPropsNext DEF QueueStep
<1> QED BY <1>1, InitQueue, LoopInvariant, PTL DEF Spec, TurnQueueSpec, Queue!LoopSpec
=============================================================================
