-------------------------- MODULE ToolBatchProofs --------------------------
(***************************************************************************)
(* Proofs about ToolBatch, for every set of calls, keys and messages and   *)
(* every symmetric relation of conflicting accesses: tools with            *)
(* conflicting accesses never overlap, conflicting calls start in the      *)
(* provider's order, and a tool runs once per key.                         *)
(***************************************************************************)
EXTENDS ToolBatch, TLAPS

LEMMA ConflictSymmetric ==
  ASSUME NEW c, NEW d, Conflict(c, d)
  PROVE  Conflict(d, c)
<1> DEFINE p == <<access[c], access[d]>>
<1>1. p \in Conflicts
  BY DEF Conflict
<1>2. <<p[2], p[1]>> \in Conflicts
  BY <1>1, ConflictsAssumption
<1> QED BY <1>2 DEF Conflict

\* A task that was not prepared to run conflicts with nothing.
LEMMA ConflictHasAccess ==
  ASSUME NEW c, NEW d, Conflict(c, d)
  PROVE  access[c] # Nothing /\ access[d] # Nothing
<1>1. <<access[c], access[d]>> \in Accesses \X Accesses
  BY ConflictsAssumption DEF Conflict
<1> QED BY <1>1, ConflictsAssumption

\* The tasks the scheduler starts conflict neither with each other nor with
\* those that are active.
LEMMA StartableExclusive ==
  ASSUME NEW Q \in SUBSET Calls, NEW A \in SUBSET Calls,
         \A c, d \in A : c # d => ~Conflict(c, d)
  PROVE  \A c, d \in A \cup Startable(Q, A) : c # d => ~Conflict(c, d)
<1> SUFFICES ASSUME NEW c \in A \cup Startable(Q, A),
                    NEW d \in A \cup Startable(Q, A), c # d, Conflict(c, d)
             PROVE  FALSE
  OBVIOUS
<1>1. Conflict(d, c)
  BY ConflictSymmetric
<1>2. CASE c \in A /\ d \in A
  BY <1>2
<1>3. CASE c \in Startable(Q, A) /\ d \in A
  BY <1>3 DEF Startable, ConflictsWithAny
<1>4. CASE c \in A /\ d \in Startable(Q, A)
  BY <1>1, <1>4 DEF Startable, ConflictsWithAny
<1>5. CASE c \in Startable(Q, A) /\ d \in Startable(Q, A)
  <2>1. c \in Q /\ d \in Q /\ c \in Nat /\ d \in Nat
    BY <1>5, CallsAssumption DEF Startable
  <2>2. c < d \/ d < c
    BY <2>1
  <2>3. CASE c < d
    BY <1>1, <1>5, <2>1, <2>3 DEF Startable, ConflictsWithAny, Earlier
  <2>4. CASE d < c
    BY <1>5, <2>1, <2>4 DEF Startable, ConflictsWithAny, Earlier
  <2> QED BY <2>2, <2>3, <2>4
<1> QED BY <1>2, <1>3, <1>4, <1>5

\* What starting the startable tasks of a queue does to the tasks, whether the
\* batch is scheduled or a task has ended.
LEMMA StartTasksInv ==
  ASSUME TypeOK, TaskInv, ConflictsExcluded,
         NEW Q \in SUBSET Calls, NEW A \in SUBSET Calls,
         \A c \in Q : stage[c] \in {"runnable", "queued"},
         \A c \in Calls : stage[c] \in {"new", "runnable", "queued"} => c \in Q,
         \A c \in Calls : stage[c] = "running" => c \in A,
         \A c \in Q : c \notin A,
         \A c, d \in A : c # d => ~Conflict(c, d),
         StartTasks(Startable(Q, A), Q, A),
         access' = access, aborted' = aborted
  PROVE  /\ stage' \in [Calls -> Stages \ {"new", "runnable"}]
         /\ body' \in [Calls -> {"none", "running", "over"}]
         /\ result' \in [Calls -> Result \cup {Nothing}]
         /\ active' \subseteq Calls
         /\ TaskInv' /\ ActiveInv' /\ ConflictsExcluded'
<1> DEFINE S == Startable(Q, A)
<1>1. S \subseteq Q
  BY DEF Startable
<1>2. \A c, d \in A \cup S : c # d => ~Conflict(c, d)
  BY StartableExclusive
<1> HIDE DEF S
<1>3. /\ active' = A \cup S
      /\ stage' = [c \in Calls |->
                     IF c \in S THEN IF RunsItsTool(c) THEN "running" ELSE "settled"
                     ELSE IF c \in Q THEN "queued" ELSE stage[c]]
      /\ body' = [c \in Calls |->
                    IF c \in S /\ RunsItsTool(c) THEN "running" ELSE body[c]]
      /\ result' = [c \in Calls |->
                      IF c \in S /\ result[c] = Nothing /\ ~RunsItsTool(c)
                        THEN Outcome(c, "aborted") ELSE result[c]]
  BY DEF StartTasks, S
<1>4. stage \in [Calls -> Stages] /\ body \in [Calls -> {"none", "running", "over"}]
      /\ result \in [Calls -> Result \cup {Nothing}]
  BY DEF TypeOK
<1>5. stage' \in [Calls -> Stages \ {"new", "runnable"}]
  BY <1>3, <1>4 DEF Stages
<1>6. body' \in [Calls -> {"none", "running", "over"}]
  BY <1>3, <1>4
<1>7. result' \in [Calls -> Result \cup {Nothing}]
  <2>1. \A c \in Calls : Outcome(c, "aborted") \in Result
    BY DEF Outcome, Result, Outcomes
  <2> QED BY <1>3, <1>4, <2>1
<1>8. active' \subseteq Calls
  BY <1>1, <1>3
<1>9. ASSUME NEW c \in Calls
      PROVE  /\ stage'[c] = "running" => c \in active' /\ body'[c] = "running"
             /\ stage'[c] \in {"new", "runnable", "queued"}
                  => body'[c] = "none" /\ c \notin active'
             /\ body'[c] = "running" /\ ~aborted => stage'[c] = "running"
  <2>1. CASE c \in S
    <3>1. stage[c] \in {"runnable", "queued"} /\ body[c] = "none"
      BY <1>1, <2>1 DEF TaskInv
    <3> QED BY <1>3, <2>1, <3>1
  <2>2. CASE c \notin S /\ c \in Q
    BY <1>3, <2>2 DEF TaskInv
  <2>3. CASE c \notin S /\ c \notin Q
    BY <1>3, <2>3 DEF TaskInv
  <2> QED BY <2>1, <2>2, <2>3
<1>10. TaskInv'
  BY <1>9 DEF TaskInv
<1>11. ActiveInv'
  BY <1>2, <1>3 DEF ActiveInv, Conflict
<1>12. ConflictsExcluded'
  <2> SUFFICES ASSUME NEW c \in Calls, NEW d \in Calls, c # d,
                      body'[c] = "running", body'[d] = "running"
               PROVE  ~Conflict(c, d)
    BY DEF ConflictsExcluded, Conflict
  <2>1. CASE aborted
    <3>1. body[c] = "running" /\ body[d] = "running"
      BY <1>3, <2>1 DEF RunsItsTool
    <3> QED BY <3>1 DEF ConflictsExcluded
  <2>2. CASE ~aborted
    <3>1. c \in active' /\ d \in active'
      BY <1>9, <2>2
    <3> QED BY <1>2, <1>3, <3>1
  <2> QED BY <2>1, <2>2
<1> QED BY <1>5, <1>6, <1>7, <1>8, <1>10, <1>11, <1>12

LEMMA InitSchedulerInv == Init => SchedulerInv
<1> SUFFICES ASSUME Init PROVE SchedulerInv
  OBVIOUS
<1>1. key \in [Calls -> Keys]
  BY MessagesAssumption DEF Init
<1> QED BY <1>1 DEF Init, SchedulerInv, TypeOK, PhaseInv, TaskInv, ActiveInv,
                    ConflictsExcluded, Stages

\* A deferred is created pending, never put away.
LEMMA CheckToolCallType ==
  ASSUME TypeOK, NEW c \in Calls, CheckToolCall(c)
  PROVE  /\ deferred' \in [Keys -> Result \cup {Nothing, Pending}]
         /\ registered' \subseteq Calls
         /\ synthetic' \subseteq Calls
  BY DEF TypeOK, CheckToolCall

\* Preparing a call starts nothing.
LEMMA PrepareSchedulerInv ==
  ASSUME SchedulerInv, NEW c \in Calls, Prepare(c)
  PROVE  SchedulerInv'
<1> USE DEF SchedulerInv
<1>1. /\ phase = "preparing" /\ c \in upcoming
      /\ upcoming' = upcoming \ {c}
      /\ UNCHANGED <<phase, active, body, key, signals>>
      /\ stage' = [stage EXCEPT ![c] = "runnable"]
      /\ stopBatch' \in BOOLEAN
      /\ allowed' \subseteq Calls
  BY DEF Prepare, PrepareSkipped, PrepareRejected, PrepareDenied, PrepareDuplicate,
         PrepareDeniedLate, PrepareRunnable, PrepareAllowed,
         WillRun, Preparing, Canned, CannedWith, TypeOK
<1>2. /\ access' \in [Calls -> Accesses \cup {Nothing}]
      /\ result' \in [Calls -> Result \cup {Nothing}]
  <2>1. Outcome(c, "canned") \in Result /\ Outcome(c, "placeholder") \in Result
    BY DEF Outcome, Result, Outcomes
  <2> QED BY <2>1, PlanWritesAssumption DEF TypeOK, Prepare, PrepareSkipped, PrepareRejected, PrepareDenied,
            PrepareDuplicate, PrepareDeniedLate, PrepareRunnable, PrepareAllowed,
         WillRun, Canned, CannedWith
<1>3. /\ deferred' \in [Keys -> Result \cup {Nothing, Pending}]
      /\ registered' \subseteq Calls
      /\ synthetic' \subseteq Calls
  <2>1. CASE UNCHANGED dedupe
    BY <2>1 DEF TypeOK, dedupe
  <2>2. CASE CheckToolCall(c)
    BY <2>2, CheckToolCallType
  <2> QED BY <2>1, <2>2 DEF Prepare, PrepareSkipped, PrepareRejected, PrepareDenied,
            PrepareDuplicate, PrepareDeniedLate, PrepareRunnable, PrepareAllowed,
         WillRun
<1>4. TypeOK'
  <2>1. stage' \in [Calls -> Stages]
    BY <1>1 DEF TypeOK, Stages
  <2> QED BY <1>1, <1>2, <1>3, <2>1 DEF TypeOK, signals
<1>5. active = {} /\ \A d \in Calls :
        /\ stage[d] = IF d \in upcoming THEN "new" ELSE "runnable"
        /\ body[d] = "none"
  BY <1>1 DEF PhaseInv, TaskInv
<1>6. \A d \in Calls : stage'[d] = IF d \in upcoming' THEN "new" ELSE "runnable"
  BY <1>1, <1>5 DEF TypeOK
<1> QED BY <1>1, <1>4, <1>5, <1>6 DEF PhaseInv, TaskInv, ActiveInv, ConflictsExcluded

\* The two steps that start tasks do so from a queue that holds every call not
\* started yet, and an active set that holds every task that runs.
LEMMA StartingSteps ==
  ASSUME SchedulerInv, Schedule \/ \E c \in Calls : Finish(c)
  PROVE  \E Q \in SUBSET Calls, A \in SUBSET Calls :
           /\ \A c \in Q : stage[c] \in {"runnable", "queued"}
           /\ \A c \in Calls : stage[c] \in {"new", "runnable", "queued"} => c \in Q
           /\ \A c \in Calls : stage[c] = "running" => c \in A
           /\ \A c \in Q : c \notin A
           /\ \A c, d \in A : c # d => ~Conflict(c, d)
           /\ StartTasks(Startable(Q, A), Q, A)
<1> USE DEF SchedulerInv
<1>1. CASE Schedule
  <2>1. \A c \in Calls : stage[c] = "runnable"
    BY <1>1 DEF Schedule, PhaseInv
  <2> WITNESS Calls \in SUBSET Calls, {} \in SUBSET Calls
  <2> QED BY <1>1, <2>1 DEF Schedule
<1>2. ASSUME NEW c \in Calls, Finish(c)
      PROVE  \E Q \in SUBSET Calls, A \in SUBSET Calls :
               /\ \A d \in Q : stage[d] \in {"runnable", "queued"}
               /\ \A d \in Calls : stage[d] \in {"new", "runnable", "queued"} => d \in Q
               /\ \A d \in Calls : stage[d] = "running" => d \in A
               /\ \A d \in Q : d \notin A
               /\ \A d, e \in A : d # e => ~Conflict(d, e)
               /\ StartTasks(Startable(Q, A), Q, A)
  <2>1. c \in active /\ stage[c] = "settled"
    BY <1>2 DEF Finish
  <2>2. \A d \in Calls : stage[d] \notin {"new", "runnable"}
    BY <2>1 DEF PhaseInv
  <2>3. active \subseteq Calls
    BY DEF TypeOK
  <2> DEFINE A == active \ {c}
  <2>4. /\ \A d \in Queued : stage[d] \in {"runnable", "queued"}
        /\ \A d \in Calls : stage[d] \in {"new", "runnable", "queued"} => d \in Queued
    BY <2>2 DEF Queued
  <2>5. /\ \A d \in Calls : stage[d] = "running" => d \in A
        /\ \A d \in Queued : d \notin A
    BY <2>1 DEF TaskInv, Queued
  <2>6. \A d, e \in A : d # e => ~Conflict(d, e)
    BY DEF ActiveInv
  <2>7. StartTasks(Startable(Queued, A), Queued, A)
    BY <1>2 DEF Finish, Restarted
  <2>8. Queued \in SUBSET Calls /\ A \in SUBSET Calls
    BY <2>3 DEF Queued
  <2> HIDE DEF A
  <2> QED BY <2>4, <2>5, <2>6, <2>7, <2>8
<1> QED BY <1>1, <1>2

LEMMA StartingSchedulerInv ==
  ASSUME SchedulerInv, Schedule \/ \E c \in Calls : Finish(c)
  PROVE  SchedulerInv'
<1> USE DEF SchedulerInv
<1>1. UNCHANGED <<upcoming, stopBatch, access, key, allowed, dedupe, signals>>
  BY DEF Schedule, Finish, preparation
<1>2. access' = access /\ aborted' = aborted
  BY <1>1 DEF signals
<1>3. PICK Q \in SUBSET Calls, A \in SUBSET Calls :
        /\ \A c \in Q : stage[c] \in {"runnable", "queued"}
        /\ \A c \in Calls : stage[c] \in {"new", "runnable", "queued"} => c \in Q
        /\ \A c \in Calls : stage[c] = "running" => c \in A
        /\ \A c \in Q : c \notin A
        /\ \A c, d \in A : c # d => ~Conflict(c, d)
        /\ StartTasks(Startable(Q, A), Q, A)
  BY StartingSteps
<1>4. /\ stage' \in [Calls -> Stages \ {"new", "runnable"}]
      /\ body' \in [Calls -> {"none", "running", "over"}]
      /\ result' \in [Calls -> Result \cup {Nothing}]
      /\ active' \subseteq Calls
      /\ TaskInv' /\ ActiveInv' /\ ConflictsExcluded'
  BY <1>2, <1>3, StartTasksInv
<1>5. phase' \in {"running", "over"}
  <2>1. CASE Schedule
    BY <2>1 DEF Schedule
  <2>2. CASE \E c \in Calls : Finish(c)
    BY <2>2 DEF Finish, preparation, PhaseInv, TypeOK
  <2> QED BY <2>1, <2>2
<1>6. TypeOK'
  BY <1>1, <1>4, <1>5 DEF TypeOK, dedupe, signals
<1>7. PhaseInv'
  BY <1>4, <1>5 DEF PhaseInv
<1> QED BY <1>4, <1>6, <1>7

\* A call moves on without starting a tool: its own, past the queue, settles or
\* is finalized.
LEMMA MovingOnSchedulerInv ==
  ASSUME SchedulerInv, NEW c \in Calls,
         BodyEnds(c) \/ GraceOver(c) \/ Finalize(c)
  PROVE  SchedulerInv'
<1> USE DEF SchedulerInv
<1>1. /\ UNCHANGED <<phase, upcoming, stopBatch, access, key, allowed, active, aborted,
                     disposed>>
      /\ lost' \in BOOLEAN
  BY DEF BodyEnds, GraceOver, Finalize, TakeResult, DeliveryFails, FinalizeOriginal,
         FinalizeDuplicate, TakeSharedResult, preparation, signals, TypeOK
<1>2. /\ \A d \in Calls \ {c} : stage'[d] = stage[d] /\ body'[d] = body[d]
      /\ body'[c] = body[c] \/ (body[c] = "running" /\ body'[c] = "over")
      /\ \/ stage'[c] = stage[c] /\ stage[c] # "running"
         \/ /\ stage[c] \in {"running", "settled", "finalizing", "duplicate"}
            /\ stage'[c] \in {"settled", "finalizing", "duplicate", "done"}
      /\ stage[c] = "running" /\ body'[c] = "running" => aborted
      /\ stage' \in [Calls -> Stages]
      /\ body' \in [Calls -> {"none", "running", "over"}]
  <2>1. CASE BodyEnds(c)
    BY <2>1 DEF BodyEnds, TypeOK, Stages
  <2>2. CASE GraceOver(c)
    BY <2>2 DEF GraceOver, TypeOK, Stages
  <2>3. CASE Finalize(c)
    BY <2>3 DEF Finalize, TakeResult, DeliveryFails, FinalizeOriginal,
                FinalizeDuplicate, TakeSharedResult, TypeOK, Stages
  <2> QED BY <2>1, <2>2, <2>3
<1>3. /\ result' \in [Calls -> Result \cup {Nothing}]
      /\ deferred' \in [Keys -> Result \cup {Nothing, Pending}]
      /\ registered' \subseteq Calls
      /\ synthetic' \subseteq Calls
  <2>1. \A what \in Outcomes : Outcome(c, what) \in Result
    BY DEF Outcome, Result
  <2>2. key[c] \in Keys
    BY DEF TypeOK
  <2>3. CASE BodyEnds(c) \/ GraceOver(c) \/ TakeResult(c) \/ DeliveryFails(c)
    BY <2>1, <2>3 DEF BodyEnds, GraceOver, TakeResult, DeliveryFails, TypeOK, dedupe, Outcomes
  <2>4. CASE FinalizeOriginal(c)
    BY <2>2, <2>4 DEF FinalizeOriginal, ResolveDeferred, TypeOK
  <2>5. CASE FinalizeDuplicate(c)
    BY <2>5 DEF FinalizeDuplicate, TypeOK
  <2>6. CASE TakeSharedResult(c)
    BY <2>2, <2>6 DEF TakeSharedResult, SharedReady, SharedResult, TypeOK, dedupe
  <2> QED BY <2>3, <2>4, <2>5, <2>6 DEF Finalize
<1>4. TypeOK'
  BY <1>1, <1>2, <1>3 DEF TypeOK
<1>5. PhaseInv'
  BY <1>1, <1>2 DEF PhaseInv
<1>6. TaskInv'
  BY <1>1, <1>2 DEF TaskInv
<1>7. ActiveInv'
  BY <1>1 DEF ActiveInv, Conflict
<1>8. ConflictsExcluded'
  BY <1>1, <1>2 DEF ConflictsExcluded, Conflict
<1> QED BY <1>4, <1>5, <1>6, <1>7, <1>8

LEMMA NextSchedulerInv == SchedulerInv /\ [Next]_vars => SchedulerInv'
<1> SUFFICES ASSUME SchedulerInv, [Next]_vars PROVE SchedulerInv'
  OBVIOUS
<1>1. CASE \E c \in Calls : Prepare(c)
  BY <1>1, PrepareSchedulerInv
<1>2. CASE Schedule \/ \E c \in Calls : Finish(c)
  BY <1>2, StartingSchedulerInv
<1>3. CASE \E c \in Calls : BodyEnds(c) \/ GraceOver(c) \/ Finalize(c)
  BY <1>3, MovingOnSchedulerInv
<1>4. CASE PrepareThrows
  BY <1>4 DEF PrepareThrows, SchedulerInv, TypeOK, PhaseInv, TaskInv, ActiveInv,
              ConflictsExcluded, Conflict, dedupe, signals
<1>5. CASE End
  <2>1. phase = "running" /\ phase' = "over"
    BY <1>5 DEF End
  <2> QED BY <1>5, <2>1 DEF End, SchedulerInv, TypeOK, PhaseInv, TaskInv, ActiveInv,
              ConflictsExcluded, Conflict, dedupe, signals
<1>6. CASE Abort \/ Dispose
  BY <1>6 DEF Abort, Dispose, SchedulerInv, TypeOK, PhaseInv, TaskInv, ActiveInv,
              ConflictsExcluded, Conflict, dedupe, preparation
<1>7. CASE UNCHANGED vars
  BY <1>7 DEF vars, SchedulerInv, TypeOK, PhaseInv, TaskInv, ActiveInv,
              ConflictsExcluded, Conflict
<1> QED BY <1>1, <1>2, <1>3, <1>4, <1>5, <1>6, <1>7 DEF Next

LEMMA SchedulerInvHolds == Spec => []SchedulerInv
<1> QED BY InitSchedulerInv, NextSchedulerInv, PTL DEF Spec

\* The variables keep their types: executeBatch, the scheduler and the hooks
\* leave every call in one of its stages with a result where it has one.
THEOREM TypeOKHolds == Spec => []TypeOK
<1>1. SchedulerInv => TypeOK
  BY DEF SchedulerInv
<1> QED BY <1>1, SchedulerInvHolds, PTL

\* Two tools whose accesses conflict never run at the same time, whatever the
\* calls, the conflicts and the moment of an abort: the scheduler may forget a
\* tool that outlives its grace period because it starts none after it.
THEOREM ConflictsExcludedHolds == Spec => []ConflictsExcluded
<1>1. SchedulerInv => ConflictsExcluded
  BY DEF SchedulerInv
<1> QED BY <1>1, SchedulerInvHolds, PTL

-----------------------------------------------------------------------------
(* The provider's order *)

LEMMA StepProviderOrder ==
  ASSUME SchedulerInv, [Next]_vars,
         NEW c \in Calls, NEW d \in Calls, c < d, Conflict(c, d),
         body[d] = "none", body'[d] = "running"
  PROVE  stage'[c] \notin {"new", "runnable", "queued", "running"}
<1>1. Schedule \/ \E e \in Calls : Finish(e)
  <2>1. CASE \E e \in Calls : Prepare(e)
    BY <2>1 DEF Prepare, PrepareSkipped, PrepareRejected, PrepareDenied,
                PrepareDuplicate, PrepareDeniedLate, PrepareRunnable, PrepareAllowed,
         WillRun, Preparing
  <2>2. CASE \E e \in Calls : BodyEnds(e)
    BY <2>2 DEF BodyEnds, SchedulerInv, TypeOK
  <2>3. CASE \E e \in Calls : GraceOver(e) \/ Finalize(e)
    BY <2>3 DEF GraceOver, Finalize, TakeResult, DeliveryFails, FinalizeOriginal,
                FinalizeDuplicate, TakeSharedResult
  <2>4. CASE PrepareThrows \/ End \/ Abort \/ Dispose \/ UNCHANGED vars
    BY <2>4 DEF PrepareThrows, End, Abort, Dispose, vars
  <2> QED BY <2>1, <2>2, <2>3, <2>4 DEF Next
<1>2. PICK Q \in SUBSET Calls, A \in SUBSET Calls :
        /\ \A e \in Q : stage[e] \in {"runnable", "queued"}
        /\ \A e \in Calls : stage[e] \in {"new", "runnable", "queued"} => e \in Q
        /\ \A e \in Calls : stage[e] = "running" => e \in A
        /\ \A e \in Q : e \notin A
        /\ \A e, f \in A : e # f => ~Conflict(e, f)
        /\ StartTasks(Startable(Q, A), Q, A)
  BY <1>1, StartingSteps
<1>3. d \in Startable(Q, A)
  BY <1>2 DEF StartTasks
<1>4. Conflict(d, c)
  BY ConflictSymmetric
<1>5. c \notin A
  BY <1>3, <1>4 DEF Startable, ConflictsWithAny
<1>6. c \notin Q
  BY <1>3, <1>4 DEF Startable, ConflictsWithAny, Earlier
<1>7. stage'[c] = stage[c]
  BY <1>2, <1>6 DEF StartTasks, Startable
<1> QED BY <1>2, <1>5, <1>6, <1>7

\* Conflicting calls take effect in the order the provider listed them,
\* however many calls wait and in whatever order the running ones end.
THEOREM ProviderOrderHolds == Spec => ProviderOrder
<1> DEFINE Kept == \A d \in Calls : body[d] = "none" /\ body'[d] = "running" =>
              \A c \in Earlier(d, Calls) : Conflict(c, d) =>
                stage'[c] \notin {"new", "runnable", "queued", "running"}
<1>1. SchedulerInv /\ [Next]_vars => Kept
  BY StepProviderOrder DEF Earlier
<1>2. SchedulerInv /\ [Next]_vars => [Kept]_vars
  BY <1>1
<1> HIDE DEF Kept
<1>3. Spec => [][Kept]_vars
  BY <1>2, SchedulerInvHolds, PTL DEF Spec
<1> QED BY <1>3 DEF ProviderOrder, Kept

-----------------------------------------------------------------------------
(* Repeated calls *)

LEMMA OutcomeIsResult ==
  ASSUME NEW c \in Calls, NEW what \in Outcomes
  PROVE  Outcome(c, what) \in Result /\ Outcome(c, what) # Nothing
  BY NothingAssumption DEF Outcome, Result

\* Only the first call of its key is prepared to run.
LEMMA PrepareOriginalsInv ==
  ASSUME BatchInv, NEW c \in Calls, Prepare(c)
  PROVE  OriginalsInv'
<1> USE DEF BatchInv, SchedulerInv
<1>1. /\ UNCHANGED <<body, key>>
      /\ stage' = [stage EXCEPT ![c] = "runnable"]
      /\ stage[c] = "new" /\ access[c] = Nothing
  BY DEF Prepare, PrepareSkipped, PrepareRejected, PrepareDenied, PrepareDuplicate,
         PrepareDeniedLate, PrepareRunnable, PrepareAllowed,
         WillRun, Preparing, Canned, CannedWith, PhaseInv,
         OriginalsInv
<1>2. /\ key \in [Calls -> Keys]
      /\ stage \in [Calls -> Stages]
      /\ deferred \in [Keys -> Result \cup {Nothing, Pending}]
      /\ result \in [Calls -> Result \cup {Nothing}]
      /\ access \in [Calls -> Accesses \cup {Nothing}]
  BY DEF TypeOK
<1>3. /\ \A k \in Keys : deferred[k] # Nothing => deferred'[k] # Nothing
      /\ \A d \in synthetic' : d \notin synthetic => deferred'[key[d]] # Nothing
  <2>1. CASE UNCHANGED dedupe
    BY <2>1 DEF dedupe
  <2>2. CASE CheckToolCall(c)
    BY <1>2, <2>2, NothingAssumption DEF CheckToolCall
  <2> QED BY <2>1, <2>2 DEF Prepare, PrepareSkipped, PrepareRejected, PrepareDenied,
            PrepareDuplicate, PrepareDeniedLate, PrepareRunnable, PrepareAllowed,
         WillRun
<1>4. CASE PrepareRunnable(c) \/ PrepareAllowed(c)
  <2>1. PICK a \in Accesses : access' = [access EXCEPT ![c] = a]
    BY <1>4, PlanWritesAssumption DEF PrepareRunnable, PrepareAllowed, WillRun
  <2>2. \/ allowed' = allowed \cup {c}
        \/ /\ allowed' = allowed
           /\ deferred[key[c]] = Nothing /\ deferred'[key[c]] # Nothing
    BY <1>2, <1>4, NothingAssumption DEF PrepareRunnable, PrepareAllowed, CheckToolCall
  <2>3. result' = result /\ a # Nothing
    BY <1>4, ConflictsAssumption DEF PrepareRunnable, PrepareAllowed, WillRun
  <2>4. c \in Originals' => \A d \in Originals : key[d] # key[c]
    BY <2>2 DEF OriginalsInv, Originals
  <2>5. \A d \in Calls : access'[d] = IF d = c THEN a ELSE access[d]
    BY <1>2, <2>1
  <2>6. \A d \in Calls : stage'[d] = IF d = c THEN "runnable" ELSE stage[d]
    BY <1>1, <1>2
  <2>7. \A d \in Originals' : d = c \/ d \in Originals
    BY <2>2, <2>5 DEF Originals
  <2>8. \A d \in Originals' : deferred'[key[d]] # Nothing
    BY <1>2, <1>3, <2>2, <2>7 DEF OriginalsInv, Originals
  <2>9. \A d, e \in Originals' : d # e => key[d] # key[e]
    BY <2>4, <2>7 DEF OriginalsInv
  <2>10. \A d \in Calls \ {c} : d \in allowed' <=> d \in allowed
    BY <2>2
  <2> QED BY <1>1, <1>2, <1>3, <2>3, <2>5, <2>6, <2>8, <2>9, <2>10 DEF OriginalsInv
<1>5. CASE /\ access' = access /\ allowed' = allowed
           /\ \E what \in Outcomes : result' = [result EXCEPT ![c] = Outcome(c, what)]
  <2>1. result'[c] # Nothing /\ \A d \in Calls \ {c} : result'[d] = result[d]
    BY <1>2, <1>5, OutcomeIsResult
  <2>2. \A d \in Calls : stage'[d] = IF d = c THEN "runnable" ELSE stage[d]
    BY <1>1, <1>2
  <2>3. Originals' = Originals /\ \A d \in Originals : deferred'[key[d]] # Nothing
    BY <1>2, <1>3, <1>5 DEF OriginalsInv, Originals
  <2> QED BY <1>1, <1>2, <1>3, <1>5, <2>1, <2>2, <2>3 DEF OriginalsInv
<1> QED BY <1>4, <1>5 DEF Prepare, PrepareSkipped, PrepareRejected, PrepareDenied,
        PrepareDuplicate, PrepareDeniedLate, Canned, CannedWith, Outcomes

\* A call that starts has an access; one that settles has a result.
LEMMA StartingOriginalsInv ==
  ASSUME BatchInv, Schedule \/ \E c \in Calls : Finish(c)
  PROVE  OriginalsInv'
<1> USE DEF BatchInv, SchedulerInv
<1>1. UNCHANGED <<access, key, allowed, deferred, synthetic>>
  BY DEF Schedule, Finish, preparation, dedupe
<1>2. PICK Q \in SUBSET Calls, A \in SUBSET Calls :
        /\ \A c \in Q : stage[c] \in {"runnable", "queued"}
        /\ \A c \in Calls : stage[c] \in {"new", "runnable", "queued"} => c \in Q
        /\ StartTasks(Startable(Q, A), Q, A)
  BY StartingSteps
<1>3. ASSUME NEW c \in Calls
      PROVE  /\ stage'[c] = "new" => access[c] = Nothing /\ c \notin allowed
             /\ stage'[c] \in {"runnable", "queued"} /\ result'[c] = Nothing
                  => access[c] # Nothing
             /\ body'[c] # "none" => access[c] # Nothing
             /\ stage'[c] \in {"settled", "finalizing", "duplicate", "done"}
                  => result'[c] # Nothing
             /\ stage'[c] = "duplicate" => deferred[key[c]] # Nothing
  <2>1. Outcome(c, "aborted") # Nothing
    BY OutcomeIsResult DEF Outcomes
  <2>2. CASE c \in Startable(Q, A)
    <3>1. stage[c] \in {"runnable", "queued"}
      BY <1>2, <2>2 DEF Startable
    <3> QED BY <1>2, <2>1, <2>2, <3>1 DEF StartTasks, RunsItsTool, OriginalsInv
  <2>3. CASE c \notin Startable(Q, A) /\ c \in Q
    BY <1>2, <2>3 DEF StartTasks, OriginalsInv
  <2>4. CASE c \notin Startable(Q, A) /\ c \notin Q
    BY <1>2, <2>4 DEF StartTasks, OriginalsInv
  <2> QED BY <2>2, <2>3, <2>4
<1> QED BY <1>1, <1>3 DEF OriginalsInv, Originals

\* What a call leaves for the ones that repeat it is a result.
LEMMA MovingOnOriginalsInv ==
  ASSUME BatchInv, NEW c \in Calls,
         BodyEnds(c) \/ GraceOver(c) \/ Finalize(c)
  PROVE  OriginalsInv'
<1> USE DEF BatchInv, SchedulerInv
<1>1. UNCHANGED <<access, key, allowed>>
  BY DEF BodyEnds, GraceOver, Finalize, TakeResult, DeliveryFails, FinalizeOriginal,
         FinalizeDuplicate, TakeSharedResult, preparation
<1>2. /\ key \in [Calls -> Keys]
      /\ stage \in [Calls -> Stages]
      /\ body \in [Calls -> {"none", "running", "over"}]
      /\ deferred \in [Keys -> Result \cup {Nothing, Pending}]
      /\ result \in [Calls -> Result \cup {Nothing}]
  BY DEF TypeOK
<1>3. \A what \in Outcomes : Outcome(c, what) # Nothing
  BY OutcomeIsResult
<1>4. stage[c] \in {"finalizing", "duplicate"} => result[c] # Nothing
  BY DEF OriginalsInv
<1>5. \A k \in Keys : deferred[k] # Nothing => deferred'[k] # Nothing
  BY <1>2, <1>4 DEF BodyEnds, GraceOver, Finalize, TakeResult, DeliveryFails,
         FinalizeOriginal, ResolveDeferred, FinalizeDuplicate, TakeSharedResult, dedupe
<1>6. synthetic' \subseteq synthetic
  BY DEF BodyEnds, GraceOver, Finalize, TakeResult, DeliveryFails, FinalizeOriginal,
         FinalizeDuplicate, TakeSharedResult, dedupe
<1>7. \A d \in Calls \ {c} :
        stage'[d] = stage[d] /\ body'[d] = body[d] /\ result'[d] = result[d]
  BY <1>2 DEF BodyEnds, GraceOver, Finalize, TakeResult, DeliveryFails, FinalizeOriginal,
         FinalizeDuplicate, TakeSharedResult
<1>8. /\ stage'[c] = stage[c] \/ stage'[c] \in {"settled", "finalizing", "duplicate", "done"}
      /\ body'[c] # "none" => body[c] # "none"
      /\ stage'[c] = "duplicate" => deferred[key[c]] # Nothing
  BY <1>2 DEF BodyEnds, GraceOver, Finalize, TakeResult, DeliveryFails, FinalizeOriginal,
         FinalizeDuplicate, TakeSharedResult, OriginalsInv
<1>9. result'[c] = result[c] \/ result'[c] # Nothing
  <2>1. CASE BodyEnds(c) \/ GraceOver(c) \/ DeliveryFails(c)
    BY <1>2, <1>3, <2>1 DEF BodyEnds, GraceOver, DeliveryFails, Outcomes
  <2>2. CASE TakeSharedResult(c)
    BY <1>2, <2>2 DEF TakeSharedResult, SharedResult, OriginalsInv
  <2> QED BY <2>1, <2>2 DEF Finalize, TakeResult, FinalizeOriginal, FinalizeDuplicate
<1>10. stage'[c] \in {"settled", "finalizing", "duplicate", "done"} => result'[c] # Nothing
  <2>1. CASE stage[c] \in {"settled", "finalizing", "duplicate", "done"}
    BY <1>9, <2>1 DEF OriginalsInv
  <2>2. CASE stage[c] \notin {"settled", "finalizing", "duplicate", "done"}
    BY <1>2, <1>3, <2>2 DEF BodyEnds, GraceOver, Finalize, TakeResult, DeliveryFails,
       FinalizeOriginal, FinalizeDuplicate, TakeSharedResult, Outcomes
  <2> QED BY <2>1, <2>2
<1>11. \A d \in Calls :
         /\ stage'[d] = "new" => access[d] = Nothing /\ d \notin allowed
         /\ stage'[d] \in {"runnable", "queued"} /\ result'[d] = Nothing
              => access[d] # Nothing
         /\ body'[d] # "none" => access[d] # Nothing
         /\ stage'[d] \in {"settled", "finalizing", "duplicate", "done"}
              => result'[d] # Nothing
         /\ stage'[d] = "duplicate" => deferred[key[d]] # Nothing
  BY <1>7, <1>8, <1>9, <1>10 DEF OriginalsInv
<1> QED BY <1>1, <1>2, <1>5, <1>6, <1>11 DEF OriginalsInv, Originals

LEMMA NextOriginalsInv == BatchInv /\ [Next]_vars => OriginalsInv'
<1> SUFFICES ASSUME BatchInv, [Next]_vars PROVE OriginalsInv'
  OBVIOUS
<1>1. CASE \E c \in Calls : Prepare(c)
  BY <1>1, PrepareOriginalsInv
<1>2. CASE Schedule \/ \E c \in Calls : Finish(c)
  BY <1>2, StartingOriginalsInv
<1>3. CASE \E c \in Calls : BodyEnds(c) \/ GraceOver(c) \/ Finalize(c)
  BY <1>3, MovingOnOriginalsInv
<1>4. CASE PrepareThrows \/ End \/ Abort \/ Dispose \/ UNCHANGED vars
  <2>1. UNCHANGED <<stage, access, body, result, key, allowed, deferred, synthetic>>
    BY <1>4 DEF PrepareThrows, End, Abort, Dispose, vars, preparation, dedupe
  <2> QED BY <2>1 DEF BatchInv, OriginalsInv, Originals
<1> QED BY <1>1, <1>2, <1>3, <1>4 DEF Next

LEMMA BatchInvHolds == Spec => []BatchInv
<1>1. Init => OriginalsInv
  BY MessagesAssumption DEF Init, OriginalsInv, Originals
<1>2. Init => BatchInv
  BY <1>1, InitSchedulerInv DEF BatchInv
<1>3. BatchInv /\ [Next]_vars => BatchInv'
  BY NextSchedulerInv, NextOriginalsInv DEF BatchInv
<1> QED BY <1>2, <1>3, PTL DEF Spec

\* Within a step a tool runs at most once with the same arguments, in whatever
\* order the calls were denied, skipped and prepared.
THEOREM RunsOncePerKeyHolds == Spec => []RunsOncePerKey
<1>1. BatchInv => RunsOncePerKey
  BY DEF BatchInv, OriginalsInv, Originals, RunsOncePerKey
<1> QED BY <1>1, BatchInvHolds, PTL

-----------------------------------------------------------------------------
(* Shared answers *)

\* The answers stay final when what is done does not change, a deferred is
\* resolved only with the own result of a call that is done, and a call that
\* becomes done has its own result or that of a deferred.
LEMMA AnswersStep ==
  ASSUME BatchInv, AnswersInv,
         \A c \in Calls : stage[c] = "done" => stage'[c] = "done" /\ result'[c] = result[c],
         \A c \in Calls : stage'[c] # "done" /\ result'[c] # Nothing =>
           /\ result'[c].from = c
           /\ result'[c].what = "placeholder" => c \in synthetic' \/ stage'[c] = "duplicate",
         \A k \in Keys :
           \/ deferred'[k] = deferred[k]
           \/ deferred'[k] = Pending
           \/ \E c \in Calls : /\ stage'[c] = "done" /\ deferred'[k] = result'[c]
                               /\ result'[c].from = c /\ result'[c].what # "placeholder",
         \A c \in Calls : stage'[c] = "done" /\ stage[c] # "done" =>
           \/ \E k \in Keys : result'[c] = deferred[k] /\ deferred[k] \notin {Nothing, Pending}
           \/ result'[c].from = c /\ result'[c].what # "placeholder"
  PROVE  AnswersInv'
<1>1. /\ deferred \in [Keys -> Result \cup {Nothing, Pending}]
      /\ result \in [Calls -> Result \cup {Nothing}]
  BY DEF BatchInv, SchedulerInv, TypeOK
<1>2. ASSUME NEW k \in Keys, deferred[k] \notin {Nothing, Pending}
      PROVE  /\ deferred[k].what # "placeholder"
             /\ stage'[deferred[k].from] = "done"
             /\ result'[deferred[k].from] = deferred[k]
  <2>1. deferred[k] \in Result /\ Final(deferred[k])
    BY <1>1, <1>2 DEF AnswersInv
  <2> QED BY <2>1 DEF Final, Result
<1>3. ASSUME NEW c \in Calls, stage[c] = "done"
      PROVE  /\ result'[c].what # "placeholder"
             /\ stage'[result'[c].from] = "done"
             /\ result'[result'[c].from] = result'[c]
  <2>1. Final(result[c]) /\ result'[c] = result[c]
    BY <1>3 DEF AnswersInv
  <2>2. result[c] \in Result
    BY <1>1, <1>3 DEF BatchInv, OriginalsInv
  <2> QED BY <2>1, <2>2 DEF Final, Result
<1>4. ASSUME NEW k \in Keys
      PROVE  deferred'[k] \in {Nothing, Pending} \/ Final(deferred[k])'
  BY <1>2 DEF Final
<1>5. ASSUME NEW c \in Calls, stage'[c] = "done" PROVE Final(result[c])'
  BY <1>2, <1>3, <1>5 DEF Final
<1> QED BY <1>4, <1>5 DEF AnswersInv

LEMMA PrepareAnswersInv ==
  ASSUME BatchInv, AnswersInv, NEW c \in Calls, Prepare(c)
  PROVE  AnswersInv'
<1> USE DEF BatchInv, SchedulerInv
<1>1. /\ key \in [Calls -> Keys]
      /\ stage \in [Calls -> Stages]
      /\ deferred \in [Keys -> Result \cup {Nothing, Pending}]
      /\ result \in [Calls -> Result \cup {Nothing}]
  BY DEF TypeOK
<1>2. stage' = [stage EXCEPT ![c] = "runnable"] /\ stage[c] = "new"
  BY DEF Prepare, PrepareSkipped, PrepareRejected, PrepareDenied, PrepareDuplicate,
         PrepareDeniedLate, PrepareRunnable, PrepareAllowed,
         WillRun, Preparing, Canned, CannedWith, PhaseInv
<1>3. /\ stage'[c] = "runnable"
      /\ \A d \in Calls \ {c} : stage'[d] = stage[d] /\ result'[d] = result[d]
  <2>1. \/ result' = result
        \/ \E what \in Outcomes : result' = [result EXCEPT ![c] = Outcome(c, what)]
    BY DEF Prepare, PrepareSkipped, PrepareRejected, PrepareDenied, PrepareDuplicate,
           PrepareDeniedLate, PrepareRunnable, PrepareAllowed,
           WillRun, Canned, CannedWith, Outcomes
  <2> QED BY <1>1, <1>2, <2>1
<1>4. /\ synthetic \subseteq synthetic'
      /\ \A k \in Keys : deferred'[k] = deferred[k] \/ deferred'[k] = Pending
  <2>1. CASE UNCHANGED dedupe
    BY <2>1 DEF dedupe
  <2>2. CASE CheckToolCall(c)
    BY <1>1, <2>2 DEF CheckToolCall
  <2> QED BY <2>1, <2>2 DEF Prepare, PrepareSkipped, PrepareRejected, PrepareDenied,
            PrepareDuplicate, PrepareDeniedLate, PrepareRunnable, PrepareAllowed, WillRun
<1>5. result'[c] # Nothing =>
        /\ result'[c].from = c
        /\ result'[c].what = "placeholder" => c \in synthetic'
  <2>1. CASE result' = result
    BY <1>2, <1>4, <2>1 DEF AnswersInv
  <2>2. CASE result' = [result EXCEPT ![c] = Outcome(c, "canned")]
    BY <1>1, <2>2 DEF Outcome
  <2>3. CASE PrepareDuplicate(c)
    <3>1. c \in synthetic'
      BY <2>3 DEF PrepareDuplicate, CheckToolCall
    <3> QED BY <1>1, <2>3, <3>1 DEF PrepareDuplicate, CannedWith, Outcome
  <2> QED BY <2>1, <2>2, <2>3 DEF Prepare, PrepareSkipped, PrepareRejected, PrepareDenied,
            PrepareDeniedLate, PrepareRunnable, PrepareAllowed, WillRun, Canned, CannedWith
<1>6. \A d \in Calls : stage[d] = "done" => stage'[d] = "done" /\ result'[d] = result[d]
  BY <1>2, <1>3
<1>7. \A d \in Calls : stage'[d] = "done" => stage[d] = "done"
  BY <1>3
<1>8. \A d \in Calls : stage'[d] # "done" /\ result'[d] # Nothing =>
        /\ result'[d].from = d
        /\ result'[d].what = "placeholder" => d \in synthetic' \/ stage'[d] = "duplicate"
  BY <1>3, <1>4, <1>5 DEF AnswersInv
<1> QED BY <1>4, <1>6, <1>7, <1>8, AnswersStep

LEMMA StartingAnswersInv ==
  ASSUME BatchInv, AnswersInv, Schedule \/ \E c \in Calls : Finish(c)
  PROVE  AnswersInv'
<1> USE DEF BatchInv, SchedulerInv
<1>1. UNCHANGED dedupe
  BY DEF Schedule, Finish
<1>2. PICK Q \in SUBSET Calls, A \in SUBSET Calls :
        /\ \A c \in Q : stage[c] \in {"runnable", "queued"}
        /\ StartTasks(Startable(Q, A), Q, A)
  BY StartingSteps
<1>3. ASSUME NEW c \in Calls
      PROVE  /\ stage'[c] = "done" <=> stage[c] = "done"
             /\ stage[c] = "duplicate" => stage'[c] = "duplicate"
             /\ \/ result'[c] = result[c]
                \/ stage[c] # "done" /\ result'[c] = Outcome(c, "aborted")
  <2>1. CASE c \in Startable(Q, A)
    <3>1. stage[c] \in {"runnable", "queued"}
      BY <1>2, <2>1 DEF Startable
    <3> QED BY <1>2, <2>1, <3>1 DEF StartTasks
  <2>2. CASE c \notin Startable(Q, A) /\ c \in Q
    BY <1>2, <2>2 DEF StartTasks
  <2>3. CASE c \notin Startable(Q, A) /\ c \notin Q
    BY <1>2, <2>3 DEF StartTasks
  <2> QED BY <2>1, <2>2, <2>3
<1>4. ASSUME NEW c \in Calls, stage'[c] # "done", result'[c] # Nothing
      PROVE  /\ result'[c].from = c
             /\ result'[c].what = "placeholder" => c \in synthetic' \/ stage'[c] = "duplicate"
  <2>1. CASE result'[c] = Outcome(c, "aborted")
    BY <2>1 DEF Outcome
  <2>2. CASE result'[c] = result[c]
    <3>1. stage[c] # "done" /\ result[c] # Nothing /\ synthetic' = synthetic
      BY <1>1, <1>3, <1>4, <2>2 DEF dedupe
    <3> QED BY <1>3, <2>2, <3>1 DEF AnswersInv
  <2> QED BY <1>3, <2>1, <2>2
<1>5. \A k \in Keys : deferred'[k] = deferred[k]
  BY <1>1 DEF dedupe
<1> QED BY <1>3, <1>4, <1>5, AnswersStep

LEMMA MovingOnAnswersInv ==
  ASSUME BatchInv, AnswersInv, NEW c \in Calls,
         BodyEnds(c) \/ GraceOver(c) \/ Finalize(c)
  PROVE  AnswersInv'
<1> USE DEF BatchInv, SchedulerInv
<1>1. /\ key \in [Calls -> Keys]
      /\ stage \in [Calls -> Stages]
      /\ deferred \in [Keys -> Result \cup {Nothing, Pending}]
      /\ result \in [Calls -> Result \cup {Nothing}]
  BY DEF TypeOK
<1>2. /\ \A d \in Calls \ {c} : stage'[d] = stage[d] /\ result'[d] = result[d]
      /\ stage[c] = "done" => stage'[c] = "done" /\ result'[c] = result[c]
      /\ \A d \in Calls \ {c} : d \in synthetic' <=> d \in synthetic
  BY <1>1 DEF BodyEnds, GraceOver, Finalize, TakeResult, DeliveryFails, FinalizeOriginal,
         FinalizeDuplicate, TakeSharedResult, dedupe
<1>3. \/ \A k \in Keys : deferred'[k] = deferred[k]
      \/ FinalizeOriginal(c)
  BY DEF BodyEnds, GraceOver, Finalize, TakeResult, DeliveryFails, FinalizeDuplicate,
         TakeSharedResult, dedupe
<1>4. ASSUME FinalizeOriginal(c)
      PROVE  /\ stage'[c] = "done" /\ result'[c] = result[c]
             /\ result[c].from = c /\ result[c].what # "placeholder"
             /\ \A k \in Keys : deferred'[k] = deferred[k] \/ deferred'[k] = result'[c]
  <2>1. stage[c] = "finalizing" /\ c \notin synthetic /\ result' = result /\ stage'[c] = "done"
    BY <1>1, <1>4 DEF FinalizeOriginal
  <2>2. result[c] # Nothing
    BY <2>1 DEF OriginalsInv
  <2>3. result[c].from = c /\ result[c].what # "placeholder"
    BY <2>1, <2>2 DEF AnswersInv
  <2> QED BY <1>1, <1>4, <2>1, <2>3 DEF FinalizeOriginal, ResolveDeferred
<1>5. ASSUME stage'[c] # "done", result'[c] # Nothing
      PROVE  /\ result'[c].from = c
             /\ result'[c].what = "placeholder" => c \in synthetic' \/ stage'[c] = "duplicate"
  <2>1. CASE BodyEnds(c) \/ GraceOver(c)
    BY <1>1, <1>5, <2>1 DEF BodyEnds, GraceOver, Outcome, AnswersInv, dedupe
  <2>2. CASE TakeResult(c)
    BY <1>1, <1>5, <2>2 DEF TakeResult, AnswersInv, dedupe
  <2>3. CASE FinalizeDuplicate(c)
    BY <1>1, <1>5, <2>3 DEF FinalizeDuplicate, AnswersInv
  <2> QED BY <1>1, <1>5, <2>1, <2>2, <2>3 DEF Finalize, DeliveryFails, FinalizeOriginal, TakeSharedResult
<1>6. ASSUME stage'[c] = "done", stage[c] # "done"
      PROVE  \/ \E k \in Keys : result'[c] = deferred[k] /\ deferred[k] \notin {Nothing, Pending}
             \/ result'[c].from = c /\ result'[c].what # "placeholder"
  <2>1. CASE FinalizeOriginal(c)
    BY <1>4, <2>1
  <2>2. CASE DeliveryFails(c)
    BY <1>1, <2>2 DEF DeliveryFails, Outcome
  <2>3. CASE TakeSharedResult(c)
    <3>1. /\ result'[c] = deferred[key[c]] /\ deferred[key[c]] # Pending
          /\ stage[c] = "duplicate"
      BY <1>1, <2>3 DEF TakeSharedResult, SharedResult, SharedReady
    <3>2. deferred[key[c]] # Nothing /\ key[c] \in Keys
      BY <1>1, <3>1 DEF OriginalsInv
    <3> QED BY <3>1, <3>2
  <2> QED BY <1>1, <1>6, <2>1, <2>2, <2>3
          DEF BodyEnds, GraceOver, Finalize, TakeResult, FinalizeDuplicate
<1>7. \A k \in Keys :
        \/ deferred'[k] = deferred[k]
        \/ \E d \in Calls : /\ stage'[d] = "done" /\ deferred'[k] = result'[d]
                            /\ result'[d].from = d /\ result'[d].what # "placeholder"
  BY <1>3, <1>4
<1>8. \A d \in Calls : stage[d] = "done" => stage'[d] = "done" /\ result'[d] = result[d]
  BY <1>2
<1>9. ASSUME NEW d \in Calls, stage'[d] # "done", result'[d] # Nothing
      PROVE  /\ result'[d].from = d
             /\ result'[d].what = "placeholder" => d \in synthetic' \/ stage'[d] = "duplicate"
  <2>1. CASE d = c
    BY <1>5, <1>9, <2>1
  <2>2. CASE d # c
    BY <1>2, <1>9, <2>2 DEF AnswersInv
  <2> QED BY <2>1, <2>2
<1>10. ASSUME NEW d \in Calls, stage'[d] = "done", stage[d] # "done"
       PROVE  \/ \E k \in Keys : result'[d] = deferred[k] /\ deferred[k] \notin {Nothing, Pending}
              \/ result'[d].from = d /\ result'[d].what # "placeholder"
  BY <1>2, <1>6, <1>10
<1> QED BY <1>7, <1>8, <1>9, <1>10, AnswersStep

LEMMA NextAnswersInv == BatchInv /\ AnswersInv /\ [Next]_vars => AnswersInv'
<1> SUFFICES ASSUME BatchInv, AnswersInv, [Next]_vars PROVE AnswersInv'
  OBVIOUS
<1>1. CASE \E c \in Calls : Prepare(c)
  BY <1>1, PrepareAnswersInv
<1>2. CASE Schedule \/ \E c \in Calls : Finish(c)
  BY <1>2, StartingAnswersInv
<1>3. CASE \E c \in Calls : BodyEnds(c) \/ GraceOver(c) \/ Finalize(c)
  BY <1>3, MovingOnAnswersInv
<1>4. CASE PrepareThrows \/ End \/ Abort \/ Dispose \/ UNCHANGED vars
  <2>1. UNCHANGED <<stage, result, deferred, synthetic>>
    BY <1>4 DEF PrepareThrows, End, Abort, Dispose, vars, dedupe
  <2> QED BY <2>1 DEF AnswersInv, Final
<1> QED BY <1>1, <1>2, <1>3, <1>4 DEF Next

\* A repeated call is answered what the call it repeats is answered, whatever
\* the number of calls and the order they are finalized in, aborted batches and
\* failed deliveries included; no placeholder reaches the context.
THEOREM DuplicateSharesAnswerHolds == Spec => []DuplicateSharesAnswer
<1>1. Init => AnswersInv
  BY DEF Init, AnswersInv
<1>2. AnswersInv => DuplicateSharesAnswer
  BY DEF AnswersInv, Final, DuplicateSharesAnswer
<1> QED BY <1>1, <1>2, BatchInvHolds, NextAnswersInv, PTL DEF Spec
=============================================================================
