----------------------------- MODULE AgentLoop -----------------------------
(***************************************************************************)
(* The turn loop of one agent: AgentLoopService                            *)
(* (packages/agent-core-v2/src/agent/loop/loopService.ts) with its step    *)
(* queue, its loop-continuation hook and the step-retry error handler.     *)
(*                                                                         *)
(* Senders enqueue step requests.  A request opens a turn of its own,      *)
(* joins the active turn, or waits for one, as its admission says.  Turns  *)
(* run one at a time in the order they were created; a turn drains its     *)
(* queue, one batch of requests for each step, until it is empty, a hook   *)
(* stops it, it fails, or it is cancelled.                                 *)
(*                                                                         *)
(* JavaScript runs a stretch of code without interruption until it awaits. *)
(* The phases of pc in SyncPhases split such a stretch into actions for    *)
(* readability: while one is under way nothing else happens, except what   *)
(* the code itself calls (the turn.ended subscribers while pc = "ending"). *)
(* In the other phases the loop is suspended at an await and anyone may    *)
(* call in: "exec" (hooks, model call and tools), "after" (the after-step  *)
(* hooks), "complete" (they returned), "recover" (an error handler),       *)
(* "requeued" and "return" (the outcome is settled, not yet acted on).     *)
(*                                                                         *)
(* A turn is named by the request that created it.                         *)
(***************************************************************************)
EXTENDS TurnOps, Sequences, SequencesExt

CONSTANTS
  NewTurn, ActiveOrNewTurn,         \* step requests by admission
  ActiveOrNextTurn, ActiveTurnOnly,
  Mergeable,        \* requests that ride along with a batch
  TurnScoped,       \* requests that do not outlive the run they are queued in
  Continuations,    \* what the loop's own hook enqueues after tool calls
  Waiters,          \* callers of settled()
  NoTurn,           \* no active turn; also the owner of the standalone queue
  MaxStepsPerTurn,  \* loop_control.max_steps_per_turn, 0 for no limit
  MaxAttempts,      \* loop_control.max_retries_per_step
  MaxQuiescence     \* bound on nested quiescence leases

Requests == NewTurn \cup ActiveOrNewTurn \cup ActiveOrNextTurn \cup ActiveTurnOnly

ASSUME AdmissionAssumption ==
  /\ NewTurn \cap ActiveOrNewTurn = {}
  /\ NewTurn \cap ActiveOrNextTurn = {}
  /\ NewTurn \cap ActiveTurnOnly = {}
  /\ ActiveOrNewTurn \cap ActiveOrNextTurn = {}
  /\ ActiveOrNewTurn \cap ActiveTurnOnly = {}
  /\ ActiveOrNextTurn \cap ActiveTurnOnly = {}
ASSUME ScopeAssumption ==
  /\ Mergeable \subseteq Requests
  /\ TurnScoped \subseteq Requests
  /\ Continuations \subseteq (ActiveOrNextTurn \cap TurnScoped) \ Mergeable
ASSUME NoTurnAssumption == NoTurn \notin Requests
ASSUME BoundsAssumption ==
  /\ MaxStepsPerTurn \in Nat
  /\ MaxAttempts \in Nat \ {0}
  /\ MaxQuiescence \in Nat

VARIABLES
  \* requests
  reqState,      \* new (not enqueued), pending, materialized, aborted
  asg,           \* the assigned promise: none, open, assigned, rejected
  appended,      \* how often the request's messages entered the context
  \* step queues: per turn, and under NoTurn the standalone queue; the
  \* requests that drive a step and, apart, the mergeable ones
  work, notes,
  \* admission
  held,          \* heldAdmissions
  quiescence,    \* quiescenceDepth
  releasing,     \* releaseQuiescence under way: no, pumped, admitting
  admitting,     \* its local copy of the held admissions
  \* turns
  pendingTurns, active, turnState, turnId, nextReserved, clock,
  \* steps: the turn whose steps map holds the request's step, and its state
  home, stepState,
  \* the run of the active turn; turnAborted and stepAborted are the signals
  \* of the turn and of the step that is running
  pc, driver, steps, finish, hookStop, result, turnAborted, stepAborted,
  failedDriver, failedAttempts,
  \* service
  waiter, disposing

requestVars == <<reqState, asg, appended>>
queueVars == <<work, notes>>
gateVars == <<held, quiescence, releasing, admitting>>
turnVars == <<pendingTurns, turnState, turnId, nextReserved, clock>>
stepVars == <<home, stepState>>
signalVars == <<turnAborted, stepAborted>>
runVars == <<driver, steps, finish, hookStop, result>>
retryVars == <<failedDriver, failedAttempts>>

vars == <<requestVars, queueVars, gateVars, turnVars, active, stepVars,
          signalVars, pc, runVars, retryVars, waiter, disposing>>

Owners == Requests \cup {NoTurn}
FinishReasons == {"completed", "tool_calls", "filtered"}
Ended == {"completed", "failed", "cancelled"}
SyncPhases == {"pump", "starting", "begin", "release", "ending"}
AwaitPhases == {"idle", "exec", "after", "complete", "recover", "requeued", "return"}

RequestTypeOK ==
  /\ reqState \in [Requests -> {"new", "pending", "materialized", "aborted"}]
  /\ asg \in [Requests -> {"none", "open", "assigned", "rejected"}]
  /\ appended \in [Requests -> Nat]
  /\ home \in [Requests -> Owners]
  /\ stepState \in [Requests -> {"none", "queued", "running", "completed", "cancelled"}]

QueueTypeOK ==
  /\ work \in [Owners -> Seq(Requests)]
  /\ notes \in [Owners -> Seq(Requests)]

GateTypeOK ==
  /\ held \in Seq(Requests)
  /\ admitting \in Seq(Requests)
  /\ quiescence \in Nat
  /\ releasing \in {"no", "pumped", "admitting"}

TurnTypeOK ==
  /\ pendingTurns \in Seq(Requests)
  /\ active \in Owners
  /\ turnState \in [Requests -> {"none", "queued", "running"} \cup Ended]
  /\ turnId \in [Requests -> Nat]
  /\ nextReserved \in Nat
  /\ clock \in TurnClockState

RunTypeOK ==
  /\ pc \in SyncPhases \cup AwaitPhases
  /\ driver \in Owners
  /\ steps \in Nat
  /\ finish \in FinishReasons
  /\ hookStop \in BOOLEAN
  /\ result \in Ended
  /\ turnAborted \in BOOLEAN
  /\ stepAborted \in BOOLEAN
  /\ failedDriver \in Owners
  /\ failedAttempts \in Nat

ServiceTypeOK ==
  /\ waiter \in [Waiters -> {"none", "waiting", "settled"}]
  /\ disposing \in BOOLEAN

TypeOK ==
  /\ RequestTypeOK /\ QueueTypeOK /\ GateTypeOK
  /\ TurnTypeOK /\ RunTypeOK /\ ServiceTypeOK

Init ==
  /\ reqState = [r \in Requests |-> "new"]
  /\ asg = [r \in Requests |-> "none"]
  /\ appended = [r \in Requests |-> 0]
  /\ work = [t \in Owners |-> << >>]
  /\ notes = [t \in Owners |-> << >>]
  /\ held = << >> /\ admitting = << >>
  /\ quiescence = 0 /\ releasing = "no"
  /\ pendingTurns = << >> /\ active = NoTurn
  /\ turnState = [r \in Requests |-> "none"]
  /\ turnId = [r \in Requests |-> 0]
  /\ nextReserved = 0 /\ clock = InitialTurnClock
  /\ home = [r \in Requests |-> NoTurn]
  /\ stepState = [r \in Requests |-> "none"]
  /\ turnAborted = FALSE /\ stepAborted = FALSE
  /\ pc = "idle" /\ driver = NoTurn /\ steps = 0
  /\ finish = "completed" /\ hookStop = FALSE /\ result = "completed"
  /\ failedDriver = NoTurn /\ failedAttempts = 0
  /\ waiter = [w \in Waiters |-> "none"]
  /\ disposing = FALSE

-----------------------------------------------------------------------------
\* Who may run now.

Free == pc \in AwaitPhases /\ releasing = "no"

\* A sender or a canceller outside the loop, or a turn.ended subscriber.
External == Free \/ pc = "ending"

\* Mutant: a turn is started without looking for an active one.
CallPumpAnyway == pc' = "pump"

\* pumpTurns is called: it returns at once while a turn is active.
CallPump == pc' = IF active = NoTurn THEN "pump" ELSE pc

-----------------------------------------------------------------------------
\* The step queue.  An aborted request stays where it is until it is reached.

Live(q) == {i \in DOMAIN q : reqState[q[i]] # "aborted"}

HasPending(t) == Live(work[t]) # {} \/ Live(notes[t]) # {}

\* takeNextBatch: the first request that is not mergeable drives the step, or
\* the first one if all are; every mergeable request goes with it.
BatchDriver(t) ==
  IF Live(work[t]) # {} THEN work[t][Min(Live(work[t]))]
                        ELSE notes[t][Min(Live(notes[t]))]

BatchOf(t) == {BatchDriver(t)} \cup {notes[t][i] : i \in Live(notes[t])}

WorkLeft(t) ==
  IF Live(work[t]) # {}
  THEN SubSeq(work[t], Min(Live(work[t])) + 1, Len(work[t]))
  ELSE << >>

\* enqueue into the queue of turn t (or the standalone queue)
PutTail(t, r) ==
  IF r \in Mergeable
  THEN notes' = [notes EXCEPT ![t] = Append(@, r)] /\ UNCHANGED work
  ELSE work' = [work EXCEPT ![t] = Append(@, r)] /\ UNCHANGED notes

PutHead(t, r) ==
  IF r \in Mergeable
  THEN notes' = [notes EXCEPT ![t] = <<r>> \o @] /\ UNCHANGED work
  ELSE work' = [work EXCEPT ![t] = <<r>> \o @] /\ UNCHANGED notes

\* request.abort(): only what is still pending can be aborted
AbortAll(R) ==
  [r \in Requests |-> IF r \in R /\ reqState[r] = "pending" THEN "aborted"
                                                            ELSE reqState[r]]

-----------------------------------------------------------------------------
\* settled() and maybeSettle

\* Mutant: held admissions are forgotten.
QuietTurns(pending, act, hold) == pending = << >> /\ act = NoTurn

Quiet(pending, act, hold) == pending = << >> /\ act = NoTurn /\ hold = << >>

SettleIf(quiet) ==
  waiter' = IF quiet THEN [w \in Waiters |-> IF waiter[w] = "waiting" THEN "settled"
                                                                      ELSE waiter[w]]
                     ELSE waiter

Settled(w) ==
  /\ Free
  /\ waiter[w] = "none"
  /\ waiter' = [waiter EXCEPT ![w] = IF Quiet(pendingTurns, active, held)
                                     THEN "settled" ELSE "waiting"]
  /\ UNCHANGED <<requestVars, queueVars, gateVars, turnVars, active, stepVars,
                 pc, runVars, retryVars, signalVars, disposing>>

-----------------------------------------------------------------------------
\* Admission.

\* assignStep: the request gets a step in turn t and its promise resolves.
AssignStep(t, r) ==
  /\ PutTail(t, r)
  /\ home' = [home EXCEPT ![r] = t]
  /\ stepState' = [stepState EXCEPT ![r] = "queued"]
  /\ asg' = [asg EXCEPT ![r] = "assigned"]

\* Mutant: ids promised to queued turns are forgotten.
ReservedTurnIdModel == clock.next

\* reserveTurnId
ReservedTurnId == Max({clock.next, nextReserved})

StandaloneLive ==
  {work[NoTurn][i] : i \in Live(work[NoTurn])}
    \cup {notes[NoTurn][i] : i \in Live(notes[NoTurn])}

\* createAndQueueTurn: a new turn takes an id, the request that opens it and
\* whatever waits in the standalone queue, and is pumped.
CreateTurn(r) ==
  LET first == [q \in BOOLEAN |-> IF q = (r \in Mergeable) THEN <<r>> ELSE << >>]
      moved == StandaloneLive
  IN  /\ turnId' = [turnId EXCEPT ![r] = ReservedTurnId]
      /\ nextReserved' = ReservedTurnId + 1
      /\ turnState' = [turnState EXCEPT ![r] = "queued"]
      /\ pendingTurns' = Append(pendingTurns, r)
      /\ work' = [work EXCEPT ![r] = first[FALSE] \o work[NoTurn], ![NoTurn] = << >>]
      /\ notes' = [notes EXCEPT ![r] = first[TRUE] \o notes[NoTurn], ![NoTurn] = << >>]
      /\ home' = [x \in Requests |-> IF x \in moved \cup {r} THEN r ELSE home[x]]
      /\ stepState' = [x \in Requests |-> IF x \in moved \cup {r} THEN "queued"
                                                                  ELSE stepState[x]]
      /\ asg' = [x \in Requests |-> IF x \in moved \cup {r} THEN "assigned" ELSE asg[x]]
      /\ CallPump
      /\ UNCHANGED clock

OpensTurn(r) == r \in NewTurn \/ (r \in ActiveOrNewTurn /\ active = NoTurn)

\* admit, but for the rejection
Admit(r) ==
  \/ OpensTurn(r) /\ CreateTurn(r)
  \/ /\ ~ OpensTurn(r) /\ active # NoTurn
     /\ AssignStep(active, r)
     /\ UNCHANGED <<turnVars, pc>>
  \/ /\ r \in ActiveOrNextTurn /\ active = NoTurn
     /\ PutTail(NoTurn, r)
     /\ asg' = [asg EXCEPT ![r] = "open"]
     /\ UNCHANGED <<stepVars, turnVars, pc>>

Rejected(r) == r \in ActiveTurnOnly /\ active = NoTurn

\* enqueue, by a sender: held while someone owns the quiet loop, admitted or
\* thrown back otherwise.
Enqueue(r) ==
  /\ External /\ ~ disposing
  /\ reqState[r] = "new"
  /\ reqState' = [reqState EXCEPT ![r] = "pending"]
  /\ \/ /\ quiescence > 0
        /\ held' = Append(held, r)
        /\ asg' = [asg EXCEPT ![r] = "open"]
        /\ UNCHANGED <<queueVars, turnVars, stepVars, pc>>
     \/ /\ quiescence = 0 /\ ~ Rejected(r)
        /\ Admit(r)
        /\ UNCHANGED held
     \/ /\ quiescence = 0 /\ Rejected(r)
        /\ asg' = [asg EXCEPT ![r] = "rejected"]
        /\ UNCHANGED <<held, queueVars, turnVars, stepVars, pc>>
  /\ UNCHANGED <<appended, quiescence, releasing, admitting, active, runVars,
                 retryVars, signalVars, waiter, disposing>>

-----------------------------------------------------------------------------
\* Quiescence: compaction and undo own the loop while nothing runs.

HasPendingRequests ==
  \/ active # NoTurn /\ HasPending(active)
  \/ HasPending(NoTurn)
  \/ pendingTurns # << >>
  \/ \E i \in DOMAIN held : reqState[held[i]] # "aborted"

\* Mutant: a turn that is waiting for the model does not count.
BusyQueued == HasPendingRequests

Busy == active # NoTurn \/ HasPendingRequests

AcquireQuiescence ==
  /\ Free /\ ~ disposing
  /\ ~ Busy
  /\ quiescence < MaxQuiescence
  /\ quiescence' = quiescence + 1
  /\ UNCHANGED <<requestVars, queueVars, held, releasing, admitting, turnVars,
                 active, stepVars, pc, runVars, retryVars, signalVars, waiter, disposing>>

\* Mutant: the last lease pumps, and what it held back is forgotten.
ReleaseQuiescenceForgetful ==
  /\ Free /\ quiescence > 0
  /\ quiescence' = quiescence - 1
  /\ IF quiescence' > 0 \/ disposing THEN UNCHANGED pc ELSE CallPump
  /\ UNCHANGED <<requestVars, queueVars, held, releasing, admitting, turnVars,
                 active, stepVars, runVars, retryVars, signalVars, waiter, disposing>>

\* The last lease pumps, admits what was held one by one, and pumps again.
ReleaseQuiescence ==
  /\ Free /\ quiescence > 0
  /\ quiescence' = quiescence - 1
  /\ IF quiescence' > 0 \/ disposing
     THEN UNCHANGED <<releasing, pc>>
     ELSE releasing' = "pumped" /\ CallPump
  /\ UNCHANGED <<requestVars, queueVars, held, admitting, turnVars, active,
                 stepVars, runVars, retryVars, signalVars, waiter, disposing>>

TakeHeld ==
  /\ releasing = "pumped" /\ pc \notin SyncPhases
  /\ releasing' = "admitting"
  /\ admitting' = held
  /\ held' = << >>
  /\ UNCHANGED <<requestVars, queueVars, quiescence, turnVars, active, stepVars,
                 pc, runVars, retryVars, signalVars, waiter, disposing>>

AdmitHeld ==
  /\ releasing = "admitting" /\ pc \notin SyncPhases
  /\ admitting # << >>
  /\ admitting' = Tail(admitting)
  /\ LET r == Head(admitting) IN
     \/ /\ reqState[r] = "aborted"
        /\ UNCHANGED <<reqState, asg, queueVars, turnVars, stepVars, pc>>
     \/ /\ reqState[r] # "aborted" /\ ~ Rejected(r)
        /\ Admit(r)
        /\ UNCHANGED reqState
     \/ /\ reqState[r] # "aborted" /\ Rejected(r)
        /\ reqState' = AbortAll({r})
        /\ asg' = [asg EXCEPT ![r] = "rejected"]
        /\ UNCHANGED <<queueVars, turnVars, stepVars, pc>>
  /\ UNCHANGED <<appended, held, quiescence, releasing, active, runVars,
                 retryVars, signalVars, waiter, disposing>>

Released ==
  /\ releasing = "admitting" /\ pc \notin SyncPhases
  /\ admitting = << >>
  /\ releasing' = "no"
  /\ CallPump
  /\ UNCHANGED <<requestVars, queueVars, held, quiescence, admitting, turnVars,
                 active, stepVars, runVars, retryVars, signalVars, waiter, disposing>>

-----------------------------------------------------------------------------
\* Cancellation.

\* Mutant: the steps are cancelled, their requests are not aborted.
CancelStepsOnly(R) ==
  LET alive == {r \in R : stepState[r] \in {"queued", "running"}}
  IN  /\ stepState' = [r \in Requests |-> IF r \in alive THEN "cancelled"
                                                         ELSE stepState[r]]
      /\ stepAborted' = (stepAborted \/ driver \in alive)
      /\ UNCHANGED reqState

\* cancelStep on every step of R that is not over
CancelSteps(R) ==
  LET alive == {r \in R : stepState[r] \in {"queued", "running"}}
  IN  /\ stepState' = [r \in Requests |-> IF r \in alive THEN "cancelled"
                                                         ELSE stepState[r]]
      /\ stepAborted' = (stepAborted \/ driver \in alive)
      /\ reqState' = AbortAll(alive)

StepsOf(T) == {r \in Requests : home[r] \in T}

CancelStep(r) ==
  /\ External
  /\ stepState[r] \in {"queued", "running"}
  /\ CancelSteps({r})
  /\ UNCHANGED <<asg, appended, queueVars, gateVars, turnVars, active, home, pc,
                 runVars, retryVars, turnAborted, waiter, disposing>>

CancelActiveTurn ==
  /\ External
  /\ active # NoTurn /\ ~ turnAborted
  /\ turnAborted' = TRUE
  /\ UNCHANGED <<requestVars, queueVars, gateVars, turnVars, active, stepVars,
                 stepAborted, pc, runVars, retryVars, waiter, disposing>>

\* The list of queued turns without the one at position i.
\* Mutant: the turn stays in the list.
DequeueNone(i) == pendingTurns

Dequeue(i) == RemoveAt(pendingTurns, i)

CancelQueuedTurn(i) ==
  LET t == pendingTurns[i] IN
  /\ External
  /\ pendingTurns' = Dequeue(i)
  /\ clock' = CancelQueuedTurns(clock, {turnId[t]})
  /\ CancelSteps(StepsOf({t}))
  /\ turnState' = [turnState EXCEPT ![t] = "cancelled"]
  /\ work' = [work EXCEPT ![t] = << >>]
  /\ notes' = [notes EXCEPT ![t] = << >>]
  /\ SettleIf(Quiet(pendingTurns', active, held))
  /\ UNCHANGED <<asg, appended, gateVars, turnId, nextReserved, active, home,
                 turnAborted, pc, runVars, retryVars, disposing>>

\* The receipt's abort, on a request no turn has taken: held or standalone.
\* (On one that has a step it is CancelStep, on one that opened a turn still
\* queued it is CancelQueuedTurn.)
AbortHeld(i) ==
  /\ External
  /\ held' = RemoveAt(held, i)
  /\ reqState' = AbortAll({held[i]})
  /\ asg' = [asg EXCEPT ![held[i]] = "rejected"]
  /\ SettleIf(Quiet(pendingTurns, active, held'))
  /\ UNCHANGED <<appended, queueVars, quiescence, releasing, admitting, turnVars,
                 active, stepVars, pc, runVars, retryVars, signalVars, disposing>>

\* Mutant: the sender is not told.
AbortStandaloneSilently(r) ==
  /\ External
  /\ r \in StandaloneLive
  /\ reqState' = AbortAll({r})
  /\ UNCHANGED <<asg, appended, queueVars, gateVars, turnVars, active, stepVars, pc,
                 runVars, retryVars, signalVars, waiter, disposing>>

AbortStandalone(r) ==
  /\ External
  /\ r \in StandaloneLive
  /\ reqState' = AbortAll({r})
  /\ asg' = [asg EXCEPT ![r] = "rejected"]
  /\ UNCHANGED <<appended, queueVars, gateVars, turnVars, active, stepVars, pc,
                 runVars, retryVars, signalVars, waiter, disposing>>

\* What dispose cancels: every queued turn, the active one, and all that waits
\* for a turn.
CancelEverything ==
  /\ LET waiting == ToSet(held) \cup StandaloneLive
         queued == ToSet(pendingTurns)
         alive == {r \in StepsOf(queued) : stepState[r] \in {"queued", "running"}}
     IN  /\ reqState' = AbortAll(waiting \cup alive)
         /\ asg' = [r \in Requests |-> IF r \in waiting THEN "rejected" ELSE asg[r]]
         /\ stepState' = [r \in Requests |-> IF r \in alive THEN "cancelled"
                                                            ELSE stepState[r]]
         /\ turnState' = [r \in Requests |-> IF r \in queued THEN "cancelled"
                                                             ELSE turnState[r]]
         /\ clock' = CancelQueuedTurns(clock, {turnId[t] : t \in queued})
         /\ work' = [t \in Owners |-> IF t \in queued \cup {NoTurn} THEN << >> ELSE work[t]]
         /\ notes' = [t \in Owners |-> IF t \in queued \cup {NoTurn} THEN << >> ELSE notes[t]]
  /\ pendingTurns' = << >>
  /\ held' = << >>
  /\ turnAborted' = (turnAborted \/ active # NoTurn)
  /\ UNCHANGED <<appended, quiescence, releasing, admitting, turnId, nextReserved,
                 active, home, stepAborted, pc, runVars, retryVars>>

\* Mutant: whoever waits for the loop to settle is left waiting.
DisposeUnsettled ==
  /\ Free /\ ~ disposing
  /\ disposing' = TRUE
  /\ CancelEverything
  /\ UNCHANGED waiter

\* dispose, by the agent's lifecycle, never from inside a call of the loop
Dispose ==
  /\ Free /\ ~ disposing
  /\ disposing' = TRUE
  /\ CancelEverything
  /\ SettleIf(active = NoTurn)

-----------------------------------------------------------------------------
\* Turns.

PumpTurns ==
  /\ pc = "pump"
  /\ disposing \/ quiescence > 0 \/ pendingTurns = << >>
  /\ pc' = "idle"
  /\ SettleIf(~ disposing /\ quiescence = 0 /\ Quiet(pendingTurns, active, held))
  /\ UNCHANGED <<requestVars, queueVars, gateVars, turnVars, active, stepVars,
                 runVars, retryVars, signalVars, disposing>>

\* startTurn: the turn.prompt record, and turn.started resets the retries
StartTurn ==
  /\ pc = "pump"
  /\ ~ disposing /\ quiescence = 0 /\ pendingTurns # << >>
  /\ pendingTurns' = Tail(pendingTurns)
  /\ active' = Head(pendingTurns)
  /\ turnState' = [turnState EXCEPT ![Head(pendingTurns)] = "running"]
  /\ clock' = PromptTurn(clock)
  /\ failedDriver' = NoTurn /\ failedAttempts' = 0
  /\ pc' = "starting"
  /\ UNCHANGED <<requestVars, queueVars, gateVars, turnId, nextReserved, stepVars,
                 signalVars, runVars, waiter, disposing>>

\* prepareTurnConfig resolves the model, or throws and the turn is over.
PrepareTurn ==
  /\ pc = "starting"
  /\ \/ pc' = "begin" /\ UNCHANGED result
     \/ pc' = "release" /\ result' = "failed"
  /\ UNCHANGED <<requestVars, queueVars, gateVars, turnVars, active, stepVars, driver,
                 steps, finish, hookStop, retryVars, signalVars, waiter, disposing>>

\* runTurn's finally: releaseActiveTurn cancels what the turn did not get to,
\* then turn.ended is recorded and published.
EndTurn ==
  /\ pc \in {"return", "release"}
  /\ pc = "return" => releasing = "no"
  /\ turnState' = [turnState EXCEPT ![active] = result]
  /\ CancelSteps(StepsOf({active}))
  /\ work' = [work EXCEPT ![active] = << >>]
  /\ notes' = [notes EXCEPT ![active] = << >>]
  /\ active' = NoTurn
  /\ SettleIf(Quiet(pendingTurns, NoTurn, held))
  /\ pc' = "ending"
  /\ driver' = NoTurn /\ steps' = 0 /\ turnAborted' = FALSE
  /\ finish' = "completed" /\ hookStop' = FALSE /\ result' = "completed"
  /\ UNCHANGED <<asg, appended, gateVars, pendingTurns, turnId, nextReserved,
                 clock, home, retryVars, disposing>>

\* Mutant: nobody pumps after a turn.
EndingIdle ==
  /\ pc = "ending"
  /\ pc' = "idle"
  /\ UNCHANGED <<requestVars, queueVars, gateVars, turnVars, active, stepVars,
                 runVars, retryVars, signalVars, waiter, disposing>>

\* The turn.ended subscribers have run.
Ending ==
  /\ pc = "ending"
  /\ CallPump
  /\ UNCHANGED <<requestVars, queueVars, gateVars, turnVars, active, stepVars,
                 runVars, retryVars, signalVars, waiter, disposing>>

-----------------------------------------------------------------------------
\* The run of the active turn: steps.

\* runtime.current is dropped
ClearStep == driver' = NoTurn /\ stepAborted' = FALSE

\* The run is over; its queue drops what is scoped to the turn.
Return(res) ==
  /\ pc' = "return" /\ result' = res
  /\ ClearStep
  /\ reqState' = AbortAll(TurnScoped \cap (ToSet(work[active]) \cup ToSet(notes[active])))

\* Mutant: a running step does not listen to its turn's signal.
SignalAbortedStep == stepAborted

\* AbortSignal.any of the turn and the step
SignalAborted == turnAborted \/ stepAborted

AtStepLimit == MaxStepsPerTurn > 0 /\ steps >= MaxStepsPerTurn

\* beginLoopStep without a step: cancelled, drained, or at the step limit
BeginNothing ==
  /\ pc = "begin"
  /\ \/ turnAborted /\ Return("cancelled")
     \/ ~ turnAborted /\ ~ HasPending(active) /\ Return("completed")
     \/ ~ turnAborted /\ HasPending(active) /\ AtStepLimit /\ Return("failed")
  /\ UNCHANGED <<asg, appended, queueVars, gateVars, turnVars, active, stepVars,
                 steps, finish, hookStop, retryVars, turnAborted, waiter, disposing>>

\* Mutant: a retried request is materialized again.
FreshAlways(R) == R

\* materializeRequest: what of R is not yet in the context
Fresh(R) == {r \in R : reqState[r] = "pending"}

\* beginLoopStep: take a batch, materialize it, and suspend in the step.  Only
\* the driver's step runs; a request retried is already in the context.
BeginStep ==
  /\ pc = "begin"
  /\ ~ turnAborted /\ HasPending(active) /\ ~ AtStepLimit
  /\ LET d     == BatchDriver(active)
         fresh == Fresh(BatchOf(active))
     IN  /\ driver' = d
         /\ stepState' = [stepState EXCEPT ![d] = "running"]
         /\ stepAborted' = FALSE
         /\ reqState' = [r \in Requests |-> IF r \in fresh THEN "materialized"
                                                           ELSE reqState[r]]
         /\ appended' = [r \in Requests |-> IF r \in fresh THEN appended[r] + 1
                                                           ELSE appended[r]]
  /\ work' = [work EXCEPT ![active] = WorkLeft(active)]
  /\ notes' = [notes EXCEPT ![active] = << >>]
  /\ steps' = steps + 1
  /\ pc' = "exec"
  /\ UNCHANGED <<asg, gateVars, turnVars, active, home, finish, hookStop, result,
                 retryVars, turnAborted, waiter, disposing>>

\* The model answered, the tools ran, step.end is in the context; the
\* step-retry hook forgets the failed attempts.
StepFinished ==
  /\ Free /\ pc = "exec"
  /\ ~ SignalAborted
  /\ pc' = "after"
  /\ failedDriver' = NoTurn /\ failedAttempts' = 0
  /\ UNCHANGED <<requestVars, queueVars, gateVars, turnVars, active, stepVars,
                 runVars, signalVars, waiter, disposing>>

\* An abort surfaces in the step or in its after-hooks: a cancelled step is
\* skipped, a cancelled turn returns.
StepInterrupted ==
  /\ Free /\ pc \in {"exec", "after"}
  /\ SignalAborted
  /\ IF ~ turnAborted /\ stepState[driver] = "cancelled"
     THEN pc' = "requeued" /\ ClearStep /\ UNCHANGED <<reqState, result>>
     ELSE Return("cancelled")
  /\ UNCHANGED <<asg, appended, queueVars, gateVars, turnVars, active, stepVars,
                 steps, finish, hookStop, retryVars, turnAborted, waiter, disposing>>

\* The step fails with an error no handler takes, or an abort that is nobody's
\* cancellation comes out of it or of its after-hooks.
StepFailed ==
  /\ Free /\ pc \in {"exec", "after"}
  /\ ~ SignalAborted
  /\ \/ pc = "exec" /\ Return("failed")
     \/ Return("cancelled")
  /\ UNCHANGED <<asg, appended, queueVars, gateVars, turnVars, active, stepVars,
                 steps, finish, hookStop, retryVars, turnAborted, waiter, disposing>>

\* The step fails with an error the step-retry handler takes: it waits before
\* the next attempt, or gives up and the turn fails.
StepFailedRetryable ==
  /\ Free /\ pc = "exec"
  /\ ~ SignalAborted
  /\ LET attempts == IF failedDriver = driver THEN failedAttempts + 1 ELSE 1 IN
     IF attempts >= MaxAttempts
     THEN /\ failedDriver' = NoTurn /\ failedAttempts' = 0
          /\ Return("failed")
     ELSE /\ failedDriver' = driver /\ failedAttempts' = attempts
          /\ pc' = "recover"
          /\ UNCHANGED <<reqState, driver, stepAborted, result>>
  /\ UNCHANGED <<asg, appended, queueVars, gateVars, turnVars, active, stepVars,
                 steps, finish, hookStop, turnAborted, waiter, disposing>>

\* The wait is over, or cut short by the turn's signal.  A step cancelled in
\* the meantime makes the handler decline, and the original error stands.
Recover ==
  /\ Free /\ pc = "recover"
  /\ \/ /\ turnAborted
        /\ Return("cancelled")
        /\ UNCHANGED <<queueVars, stepState>>
     \/ /\ ~ turnAborted /\ stepAborted
        /\ Return("failed")
        /\ UNCHANGED <<queueVars, stepState>>
     \/ /\ ~ turnAborted /\ ~ stepAborted
        /\ PutHead(active, driver)
        /\ stepState' = [stepState EXCEPT ![driver] = "queued"]
        /\ pc' = "requeued" /\ ClearStep
        /\ UNCHANGED <<reqState, result>>
  /\ UNCHANGED <<asg, appended, gateVars, turnVars, active, home,
                 steps, finish, hookStop, retryVars, turnAborted, waiter, disposing>>

\* The after-step hooks return.  Any of them may have stopped the turn; after
\* tool calls the loop's own hook enqueues the step that reads the results,
\* unless a hook further down the chain threw, which nobody hears of.
AfterStep ==
  /\ Free /\ pc = "after"
  /\ pc' = "complete"
  /\ \E f \in FinishReasons, stop, threw \in BOOLEAN :
       /\ finish' = f /\ hookStop' = stop
       /\ IF f = "tool_calls" /\ ~ stop /\ ~ threw
          THEN /\ ~ disposing
               /\ \E r \in Continuations :
                    /\ reqState[r] = "new"
                    /\ reqState' = [reqState EXCEPT ![r] = "pending"]
                    /\ AssignStep(active, r)
          ELSE UNCHANGED <<reqState, asg, queueVars, stepVars>>
  /\ UNCHANGED <<appended, gateVars, turnVars, active, driver, steps,
                 result, retryVars, signalVars, waiter, disposing>>

\* completeLoopStep, whatever happened to the step while the hooks ran
CompleteStep ==
  /\ Free /\ pc = "complete"
  /\ stepState' = [stepState EXCEPT ![driver] = "completed"]
  /\ \/ finish = "filtered" /\ Return(IF turnAborted THEN "cancelled" ELSE "failed")
     \/ finish # "filtered" /\ hookStop /\ Return("completed")
     \/ /\ finish # "filtered" /\ ~ hookStop
        /\ pc' = "begin" /\ ClearStep
        /\ UNCHANGED <<reqState, result>>
  /\ finish' = "completed" /\ hookStop' = FALSE
  /\ UNCHANGED <<asg, appended, queueVars, gateVars, turnVars, active, home,
                 steps, retryVars, turnAborted, waiter, disposing>>

Continue ==
  /\ Free /\ pc = "requeued"
  /\ pc' = "begin"
  /\ UNCHANGED <<requestVars, queueVars, gateVars, turnVars, active, stepVars,
                 runVars, retryVars, signalVars, waiter, disposing>>

-----------------------------------------------------------------------------

\* What the service does on its own, once called ...
Loop ==
  \/ PumpTurns \/ StartTurn \/ PrepareTurn \/ EndTurn \/ Ending
  \/ BeginNothing \/ BeginStep \/ StepFinished \/ StepInterrupted \/ StepFailed
  \/ StepFailedRetryable \/ Recover \/ AfterStep \/ CompleteStep \/ Continue
  \/ TakeHeld \/ AdmitHeld \/ Released

\* ... and what it is called for.
Call ==
  \/ \E r \in Requests \ Continuations : Enqueue(r)
  \/ \E r \in Requests : CancelStep(r) \/ AbortStandalone(r)
  \/ \E i \in DOMAIN pendingTurns : CancelQueuedTurn(i)
  \/ \E i \in DOMAIN held : AbortHeld(i)
  \/ CancelActiveTurn
  \/ AcquireQuiescence
  \/ \E w \in Waiters : Settled(w)
  \/ Dispose

Next == Loop \/ Call \/ ReleaseQuiescence

Spec == Init /\ [][Next]_vars

\* The loop itself runs on: model calls, tools, hooks and back-offs end in an
\* answer, an error or an abort, and whoever took a lease gives it back.
FairSpec == Spec /\ WF_vars(Loop) /\ WF_vars(ReleaseQuiescence)

-----------------------------------------------------------------------------
\* Safety.

\* One turn at a time, in the order of creation: while a turn runs it is the
\* active one, and every turn created before it is over.
TurnOrder ==
  \A t \in Requests : turnState[t] = "running" =>
    /\ t = active
    /\ \A u \in Requests : turnState[u] # "none" /\ turnId[u] < turnId[t]
                             => turnState[u] \in Ended

\* Whoever holds a quiescence lease has the loop to itself: no turn is active
\* or queued, however the lease is acquired, nested and released between
\* sends, cancellations and the end of turns.
LeaseIsQuiet == quiescence > 0 => active = NoTurn /\ pendingTurns = << >>

\* No sender is forgotten: an assignment promise that is still open belongs to
\* a request that is held, about to be admitted, or in the standalone queue.
OpenIsTracked ==
  \A r \in Requests : asg[r] = "open" =>
    /\ r \in ToSet(held) \cup ToSet(admitting) \cup StandaloneLive
    /\ reqState[r] = "pending"

\* The messages of a request enter the context once, however often its step is
\* retried, and never after it was aborted.
MaterializedOnce ==
  \A r \in Requests : appended[r] = IF reqState[r] = "materialized" THEN 1 ELSE 0

\* When a turn is over nothing of it is left behind: its steps are settled and
\* no request it took is still waiting to be materialized.
EndedTurnIsSettled ==
  \A r \in Requests :
    home[r] # NoTurn /\ turnState[home[r]] \in Ended =>
      stepState[r] \in {"completed", "cancelled"} /\ reqState[r] # "pending"

\* An idle loop has nothing to do: no turn is queued that nobody pumps and no
\* caller of settled() is left waiting.
IdleIsDone ==
  pc = "idle" /\ releasing = "no" /\ quiescence = 0 =>
    /\ pendingTurns = << >> /\ held = << >>
    /\ \A w \in Waiters : waiter[w] # "waiting"

\* settled() resolves only when no turn is active, queued or held.
SettledIsQuiet ==
  [][\A w \in Waiters : waiter[w] # "settled" /\ waiter'[w] = "settled" =>
       active' = NoTurn /\ pendingTurns' = << >> /\ held' = << >>]_vars

\* A turn whose cancellation was recorded as that of a queued turn never
\* starts, and a turn that is over never comes back.
EndedTurnIsFinal ==
  [][\A t \in Requests : turnState[t] \in Ended => turnState'[t] = turnState[t]]_vars

-----------------------------------------------------------------------------
\* Liveness.

\* Every turn created ends.
TurnsEnd ==
  \A t \in Requests : turnState[t] \in {"queued", "running"} ~> turnState[t] \in Ended

\* What a lease holds back is admitted or aborted.
HeldIsAdmitted == \A r \in Requests : r \in ToSet(held) ~> r \notin ToSet(held)

\* settled() resolves.
SettledResolves == \A w \in Waiters : waiter[w] = "waiting" ~> waiter[w] = "settled"

\* A cancellation that reaches a turn while a step of it executes, or waits to
\* be retried, is its outcome: no answer, failure, retry or cancelled step that
\* races with it makes the turn end any other way.
CancelDuringStepStands ==
  \A t \in Requests :
    [](active = t /\ turnAborted /\ pc \in {"exec", "recover"}
         => [](turnState[t] \in {"running", "cancelled"}))

-----------------------------------------------------------------------------
\* What the comments and the tests of the repository promise.

\* "agent-scoped requests (steers) carry into the next turn": the end of a
\* turn that was not cancelled does not drop them.
AgentScopedCarriesOver ==
  [][\A r \in Requests \ TurnScoped :
       active # NoTurn /\ active' = NoTurn /\ ~ turnAborted
         /\ reqState[r] = "pending" => reqState'[r] = "pending"]_vars
=============================================================================
