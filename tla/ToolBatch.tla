----------------------------- MODULE ToolBatch -----------------------------
(***************************************************************************)
(* The tool calls of one step of a turn: they are prepared one after the   *)
(* other (toolExecutorService.prepareToolCall), scheduled by the resources *)
(* they access (toolScheduler), raced with a grace period once the turn is *)
(* aborted, and finalized concurrently through the onDidExecuteTool hooks, *)
(* one of which (toolDedupeService) lets a call that repeats another of    *)
(* the same step wait for the other's result.                              *)
(*                                                                         *)
(* A call is known by its position in the provider's list.  "body" is the  *)
(* tool's own promise, which may outlive the scheduler's task.             *)
(***************************************************************************)
EXTENDS Integers, FiniteSets

CONSTANTS
  Calls,      \* positions of the calls in the provider's message
  Keys,       \* tool name and arguments: equal keys are repeated calls
  Messages,   \* the messages of the provider: the keys of their calls
  Accesses,   \* what a runnable call declares to access
  PlanWrites, \* those of a call that writes the plan file only
  Conflicts,  \* pairs of accesses that may not overlap
  Nothing,    \* no access, no result, no deferred
  Pending     \* a deferred nobody has resolved

ASSUME CallsAssumption == Calls \subseteq Nat
ASSUME MessagesAssumption == Messages \subseteq [Calls -> Keys]
ASSUME PlanWritesAssumption == PlanWrites \subseteq Accesses
ASSUME ConflictsAssumption ==
  /\ Conflicts \subseteq Accesses \X Accesses
  /\ \A p \in Conflicts : <<p[2], p[1]>> \in Conflicts
  /\ Nothing \notin Accesses

VARIABLES
  phase,      \* of the generator execute(): preparing, running, over, failed
  upcoming,   \* calls not prepared yet
  stopBatch,  \* a prepared call skips the rest
  stage,      \* of every call
  access,     \* ToolCallTask.accesses; a canned result accesses nothing
  active,     \* ToolScheduler.activeTasks
  body,       \* the promise of the tool's execute()
  result,     \* of every call: its outcome and the call it came from
  key,        \* of every call
  deferred,   \* toolDedupe.stepDeferreds: none, pending or a result
  registered, \* calls in callKeyByCallId
  synthetic,  \* toolDedupe.syntheticCallIds
  aborted,    \* options.signal
  disposed,   \* the loop is disposed of (which aborts the turn)
  allowed,    \* history: calls toolDedupe was not asked about and that run
  lost        \* history: a hook ahead of toolDedupe failed

vars == <<phase, upcoming, stopBatch, stage, access, active, body, result, key,
          deferred, registered, synthetic, aborted, disposed, allowed, lost>>

preparation == <<phase, upcoming, stopBatch, access, key, allowed>>
dedupe      == <<deferred, registered, synthetic>>
signals     == <<aborted, disposed, lost>>

Stages   == {"new", "runnable", "queued", "running", "settled", "finalizing",
             "duplicate", "done"}
Outcomes == {"tool", "canned", "aborted", "failed", "placeholder"}
Result   == [what : Outcomes, from : Calls]

ASSUME NothingAssumption == Nothing # Pending /\ Nothing \notin Result

TypeOK ==
  /\ phase \in {"preparing", "running", "over", "failed"}
  /\ upcoming \subseteq Calls
  /\ stopBatch \in BOOLEAN
  /\ stage \in [Calls -> Stages]
  /\ access \in [Calls -> Accesses \cup {Nothing}]
  /\ active \subseteq Calls
  /\ body \in [Calls -> {"none", "running", "over"}]
  /\ result \in [Calls -> Result \cup {Nothing}]
  /\ key \in [Calls -> Keys]
  /\ deferred \in [Keys -> Result \cup {Nothing, Pending}]
  /\ registered \subseteq Calls
  /\ synthetic \subseteq Calls
  /\ aborted \in BOOLEAN
  /\ disposed \in BOOLEAN
  /\ allowed \subseteq Calls
  /\ lost \in BOOLEAN

Init ==
  /\ phase = "preparing"
  /\ upcoming = Calls
  /\ stopBatch = FALSE
  /\ stage = [c \in Calls |-> "new"]
  /\ access = [c \in Calls |-> Nothing]
  /\ active = {}
  /\ body = [c \in Calls |-> "none"]
  /\ result = [c \in Calls |-> Nothing]
  /\ key \in Messages
  /\ deferred = [k \in Keys |-> Nothing]
  /\ registered = {}
  /\ synthetic = {}
  /\ aborted = FALSE
  /\ disposed = FALSE
  /\ allowed = {}
  /\ lost = FALSE

Outcome(c, what) == [what |-> what, from |-> c]

-----------------------------------------------------------------------------
(* toolDedupe *)

\* Mutant: the first call of a key is not remembered.
CheckToolCallForgetful(c) ==
  /\ registered' = registered \cup {c}
  /\ IF deferred[key[c]] # Nothing
       THEN synthetic' = synthetic \cup {c}
       ELSE synthetic' = synthetic
  /\ UNCHANGED deferred

\* checkToolCall: the first call of a key in the step is the original, the
\* others are answered from it.
CheckToolCall(c) ==
  /\ registered' = registered \cup {c}
  /\ IF deferred[key[c]] # Nothing
       THEN /\ synthetic' = synthetic \cup {c}
            /\ UNCHANGED deferred
       ELSE /\ deferred' = [deferred EXCEPT ![key[c]] = Pending]
            /\ UNCHANGED synthetic

-----------------------------------------------------------------------------
(* Preparation: one call after the other, nothing runs yet. *)

Preparing(c) ==
  /\ phase = "preparing"
  /\ c \in upcoming
  /\ \A d \in upcoming : c <= d
  /\ upcoming' = upcoming \ {c}
  /\ UNCHANGED <<phase, active, body, key, signals>>

\* The call is answered without running: its task accesses nothing and is
\* resolved from the start.
CannedWith(c, what, stop) ==
  /\ stage' = [stage EXCEPT ![c] = "runnable"]
  /\ result' = [result EXCEPT ![c] = Outcome(c, what)]
  /\ stopBatch' = stop
  /\ UNCHANGED <<access, allowed>>

Canned(c, stop) == CannedWith(c, "canned", stop)

\* prepareSkippedToolCall
PrepareSkipped(c) ==
  /\ stopBatch
  /\ Preparing(c)
  /\ Canned(c, TRUE)
  /\ UNCHANGED dedupe

\* The preflight rejects the call, or its execution cannot be resolved, or
\* the turn was aborted when it was.
PrepareRejected(c) ==
  /\ ~stopBatch
  /\ Preparing(c)
  /\ Canned(c, FALSE)
  /\ UNCHANGED dedupe

\* The execution is an error of itself, or a listener ahead of toolDedupe
\* vetoes; either may stop the batch.
PrepareDenied(c) ==
  /\ ~stopBatch /\ ~aborted
  /\ Preparing(c)
  /\ \E stop \in BOOLEAN : Canned(c, stop)
  /\ UNCHANGED dedupe

\* toolDedupe vetoes a repeated call with a placeholder.
PrepareDuplicate(c) ==
  /\ ~stopBatch /\ ~aborted
  /\ Preparing(c)
  /\ deferred[key[c]] # Nothing
  /\ CheckToolCall(c)
  /\ CannedWith(c, "placeholder", FALSE)

\* A listener behind toolDedupe (a permission that is refused) vetoes.
PrepareDeniedLate(c) ==
  /\ ~stopBatch /\ ~aborted
  /\ Preparing(c)
  /\ deferred[key[c]] = Nothing
  /\ CheckToolCall(c)
  /\ \E stop \in BOOLEAN : Canned(c, stop)

WillRun(c, accesses) ==
  /\ stage' = [stage EXCEPT ![c] = "runnable"]
  /\ \E a \in accesses : access' = [access EXCEPT ![c] = a]
  /\ UNCHANGED result

\* Nobody objects; the call may skip the rest of the batch.
PrepareRunnable(c) ==
  /\ ~stopBatch /\ ~aborted
  /\ Preparing(c)
  /\ deferred[key[c]] = Nothing
  /\ CheckToolCall(c)
  /\ WillRun(c, Accesses)
  /\ stopBatch' \in BOOLEAN
  /\ UNCHANGED allowed

\* In plan mode the plan guard, a listener ahead of toolDedupe, allows a write
\* of the plan file, which ends the adjudication.
PrepareAllowed(c) ==
  /\ ~stopBatch /\ ~aborted
  /\ Preparing(c)
  /\ WillRun(c, PlanWrites)
  /\ allowed' = allowed \cup {c}
  /\ UNCHANGED <<stopBatch, dedupe>>

\* A listener throws: the generator fails before any call has run.
PrepareThrows ==
  /\ phase = "preparing"
  /\ upcoming # {} /\ ~stopBatch /\ ~aborted
  /\ phase' = "failed"
  /\ UNCHANGED <<upcoming, stopBatch, stage, access, active, body, result, key,
                 dedupe, signals, allowed>>

-----------------------------------------------------------------------------
(* ToolScheduler *)

Conflict(c, d) == <<access[c], access[d]>> \in Conflicts

ConflictsWithAny(c, others) == \E d \in others : Conflict(c, d)

Earlier(c, calls) == {d \in calls : d < c}

\* Mutant: a queued task does not wait for the ones that stay queued.
StartableOvertaking(queue, activeTasks) ==
  {c \in queue :
     /\ ~ConflictsWithAny(c, activeTasks)
     /\ \A d \in Earlier(c, queue) : Conflict(c, d) =>
          ConflictsWithAny(d, activeTasks \cup Earlier(d, queue))}

\* add() for every task in order, or startQueuedTasks(): a task starts unless
\* it conflicts with an active task or with one ahead of it in the queue,
\* whether that one starts or not.
Startable(queue, activeTasks) ==
  {c \in queue : /\ ~ConflictsWithAny(c, activeTasks)
                 /\ ~ConflictsWithAny(c, Earlier(c, queue))}

\* Mutant: a task that starts after the abort runs its tool nevertheless.
RunsItsToolBlindly(c) == result[c] = Nothing

\* runSingleExecution tests the signal before it calls the tool.
RunsItsTool(c) == result[c] = Nothing /\ ~aborted

\* start(): the tool is called in the same stretch; a canned result, and any
\* task after the abort, settles at once.
StartTasks(starting, queue, activeTasks) ==
  /\ active' = activeTasks \cup starting
  /\ stage' = [c \in Calls |->
                 IF c \in starting
                   THEN IF RunsItsTool(c) THEN "running" ELSE "settled"
                   ELSE IF c \in queue THEN "queued" ELSE stage[c]]
  /\ body' = [c \in Calls |->
                IF c \in starting /\ RunsItsTool(c) THEN "running" ELSE body[c]]
  /\ result' = [c \in Calls |->
                  IF c \in starting /\ result[c] = Nothing /\ ~RunsItsTool(c)
                    THEN Outcome(c, "aborted")
                    ELSE result[c]]

\* executeBatch adds all the tasks.
Schedule ==
  /\ phase = "preparing"
  /\ upcoming = {}
  /\ phase' = "running"
  /\ StartTasks(Startable(Calls, {}), Calls, {})
  /\ UNCHANGED <<upcoming, stopBatch, access, key, allowed, dedupe, signals>>

Queued == {c \in Calls : stage[c] = "queued"}

\* Mutant: a task that ends does not look at the queue.
RestartedNone(c) == {}

\* startQueuedTasks
Restarted(c) == Startable(Queued, active \ {c})

\* finish(), which runs ahead of whoever waits for the task's result
Finish(c) ==
  /\ c \in active
  /\ stage[c] = "settled"
  /\ StartTasks(Restarted(c), Queued, active \ {c})
  /\ UNCHANGED <<preparation, dedupe, signals>>

\* The tool's promise settles: in time, or after its task gave up waiting.
BodyEnds(c) ==
  /\ body[c] = "running"
  /\ body' = [body EXCEPT ![c] = "over"]
  /\ IF stage[c] = "running"
       THEN /\ stage' = [stage EXCEPT ![c] = "settled"]
            /\ result' = [result EXCEPT ![c] = Outcome(c, "tool")]
       ELSE UNCHANGED <<stage, result>>
  /\ UNCHANGED <<preparation, active, dedupe, signals>>

\* raceWithAbortGrace: the task settles without its tool.
GraceOver(c) ==
  /\ aborted
  /\ stage[c] = "running"
  /\ stage' = [stage EXCEPT ![c] = "settled"]
  /\ result' = [result EXCEPT ![c] = Outcome(c, "aborted")]
  /\ UNCHANGED <<preparation, active, body, dedupe, signals>>

-----------------------------------------------------------------------------
(* Finalization: the results are taken as they come, the hooks of several   *)
(* calls run at the same time; a call is done when its tool.result event is *)
(* in the context.                                                          *)

TakeResult(c) ==
  /\ stage[c] = "settled" /\ c \notin active
  /\ stage' = [stage EXCEPT ![c] = "finalizing"]
  /\ UNCHANGED <<preparation, active, body, result, dedupe, signals>>

\* The hook of prompt-service, which comes first, cannot deliver a message of
\* the tool to a loop that is disposed of: the other hooks are skipped.
DeliveryFails(c) ==
  /\ stage[c] = "finalizing"
  /\ disposed
  /\ stage' = [stage EXCEPT ![c] = "done"]
  /\ result' = [result EXCEPT ![c] = Outcome(c, "failed")]
  /\ lost' = TRUE
  /\ UNCHANGED <<preparation, active, body, dedupe, aborted, disposed>>

\* Mutant: the original keeps its result to itself.
ResolveDeferredNever(c) == UNCHANGED deferred

ResolveDeferred(c) == deferred' = [deferred EXCEPT ![key[c]] = result[c]]

\* toolDedupe's hook for the original of a key: registerSkipped takes in a
\* call the preparation never showed it, finalizeResult resolves the deferred.
FinalizeOriginal(c) ==
  /\ stage[c] = "finalizing"
  /\ c \notin synthetic
  /\ c \in registered \/ deferred[key[c]] = Nothing
  /\ ResolveDeferred(c)
  /\ registered' = registered \ {c}
  /\ stage' = [stage EXCEPT ![c] = "done"]
  /\ UNCHANGED <<preparation, active, body, result, synthetic, signals>>

\* ... and for a repeated call: it waits for the original's result.
FinalizeDuplicate(c) ==
  /\ stage[c] = "finalizing"
  /\ c \in synthetic \/ (c \notin registered /\ deferred[key[c]] # Nothing)
  /\ registered' = registered \ {c}
  /\ synthetic' = synthetic \ {c}
  /\ stage' = [stage EXCEPT ![c] = "duplicate"]
  /\ UNCHANGED <<preparation, active, body, result, deferred, signals>>

\* Mutant: the repeated call keeps the answer it was prepared with.
SharedResultOwn(c) == result[c]

SharedResult(c) == deferred[key[c]]

SharedReady(c) == deferred[key[c]] # Pending

TakeSharedResult(c) ==
  /\ stage[c] = "duplicate"
  /\ SharedReady(c)
  /\ result' = [result EXCEPT ![c] = SharedResult(c)]
  /\ stage' = [stage EXCEPT ![c] = "done"]
  /\ UNCHANGED <<preparation, active, body, dedupe, signals>>

\* The generator has yielded every result to the loop.
End ==
  /\ phase = "running"
  /\ \A c \in Calls : stage[c] = "done"
  /\ phase' = "over"
  /\ UNCHANGED <<upcoming, stopBatch, stage, access, active, body, result, key,
                 dedupe, signals, allowed>>

-----------------------------------------------------------------------------

Abort ==
  /\ ~aborted
  /\ aborted' = TRUE
  /\ UNCHANGED <<preparation, stage, active, body, result, dedupe, disposed, lost>>

\* The loop is disposed of: the turn is aborted with it.
Dispose ==
  /\ ~disposed
  /\ disposed' = TRUE
  /\ aborted' = TRUE
  /\ UNCHANGED <<preparation, stage, active, body, result, dedupe, lost>>

Prepare(c) ==
  \/ PrepareSkipped(c)
  \/ PrepareRejected(c)
  \/ PrepareDenied(c)
  \/ PrepareDuplicate(c)
  \/ PrepareDeniedLate(c)
  \/ PrepareRunnable(c)
  \/ PrepareAllowed(c)

Finalize(c) ==
  \/ TakeResult(c)
  \/ DeliveryFails(c)
  \/ FinalizeOriginal(c)
  \/ FinalizeDuplicate(c)
  \/ TakeSharedResult(c)

Next ==
  \/ \E c \in Calls :
       Prepare(c) \/ Finish(c) \/ BodyEnds(c) \/ GraceOver(c) \/ Finalize(c)
  \/ PrepareThrows
  \/ Schedule
  \/ End
  \/ Abort
  \/ Dispose

Spec == Init /\ [][Next]_vars

\* Listeners and hooks return, the grace timer fires; a tool may never return,
\* nobody need abort.  No call takes the same step twice, so that one of these
\* steps being taken while any is possible means that all of them are.
Progress ==
  \/ \E c \in Calls : Prepare(c) \/ Finish(c) \/ GraceOver(c) \/ Finalize(c)
  \/ Schedule
  \/ End

FairSpec == Spec /\ WF_vars(Progress)

-----------------------------------------------------------------------------

\* Two tools with conflicting accesses never run at the same time, a tool that
\* outlives its task after an abort included.
ConflictsExcluded ==
  \A c, d \in Calls :
    c # d /\ body[c] = "running" /\ body[d] = "running" => ~Conflict(c, d)

\* Conflicting calls take effect in the provider's order: when a tool starts,
\* every earlier call it conflicts with has settled.
ProviderOrder ==
  [][\A d \in Calls : body[d] = "none" /\ body'[d] = "running" =>
       \A c \in Earlier(d, Calls) : Conflict(c, d) =>
         stage'[c] \notin {"new", "runnable", "queued", "running"}]_vars

\* Within a step a tool runs at most once with the same arguments, whichever
\* of the equal calls was denied, skipped or rejected before it was seen; only
\* writes of the plan file that the plan guard allows are repeated.
RunsOncePerKey ==
  \A c, d \in Calls \ allowed :
    c # d /\ key[c] = key[d] => body[c] = "none" \/ body[d] = "none"

\* A repeated call is answered what the call it repeats is answered; the
\* placeholder it was prepared with never reaches the context.
DuplicateSharesAnswer ==
  \A c \in Calls : stage[c] = "done" =>
    /\ result[c].what # "placeholder"
    /\ LET o == result[c].from IN stage[o] = "done" => result[o] = result[c]

Ended == phase \in {"over", "failed"}

\* Cancelling the turn ends the batch though tools never return: no call waits
\* for another that is never answered.
AbortEnds == aborted ~> (Ended \/ lost)

\* When tools do return, the batch ends: no queued task is forgotten by the
\* scheduler and no repeated call waits for ever.
BatchEnds ==
  []<>(\A c \in Calls : body[c] # "running") => <>(Ended \/ lost)

-----------------------------------------------------------------------------
\* The inductive invariant behind the safety properties.

\* Nothing runs before the batch is scheduled, and then no call is left over.
PhaseInv ==
  IF phase \in {"preparing", "failed"}
    THEN /\ active = {}
         /\ \A c \in Calls : stage[c] = IF c \in upcoming THEN "new" ELSE "runnable"
    ELSE \A c \in Calls : stage[c] \notin {"new", "runnable"}

\* A task that runs is known to the scheduler and its tool is at work; a tool
\* works without a task only after the abort.
TaskInv ==
  \A c \in Calls :
    /\ stage[c] = "running" => c \in active /\ body[c] = "running"
    /\ stage[c] \in {"new", "runnable", "queued"} => body[c] = "none" /\ c \notin active
    /\ body[c] = "running" /\ ~aborted => stage[c] = "running"

ActiveInv ==
  \A c, d \in active : c # d => ~Conflict(c, d)

SchedulerInv ==
  TypeOK /\ PhaseInv /\ TaskInv /\ ActiveInv /\ ConflictsExcluded

\* A call that may run after toolDedupe was asked is the original of its key.
Originals == {c \in Calls \ allowed : access[c] # Nothing}

OriginalsInv ==
  /\ \A c \in Originals : deferred[key[c]] # Nothing
  /\ \A c, d \in Originals : c # d => key[c] # key[d]
  /\ \A c \in Calls :
       /\ stage[c] = "new" => access[c] = Nothing /\ c \notin allowed
       /\ stage[c] \in {"runnable", "queued"} /\ result[c] = Nothing
            => access[c] # Nothing
       /\ body[c] # "none" => access[c] # Nothing
       /\ stage[c] \in {"settled", "finalizing", "duplicate", "done"}
            => result[c] # Nothing
       /\ stage[c] = "duplicate" => deferred[key[c]] # Nothing
       /\ c \in synthetic => deferred[key[c]] # Nothing

BatchInv == SchedulerInv /\ OriginalsInv

\* A result that is final: the call it came from is done with the same one.
Final(r) ==
  r.what # "placeholder" /\ stage[r.from] = "done" /\ result[r.from] = r

\* Only the calls toolDedupe answers carry its placeholder, and what they are
\* answered is the final result of another call.
AnswersInv ==
  /\ \A c \in Calls : stage[c] # "done" /\ result[c] # Nothing =>
       /\ result[c].from = c
       /\ result[c].what = "placeholder" => c \in synthetic \/ stage[c] = "duplicate"
  /\ \A k \in Keys : deferred[k] \in {Nothing, Pending} \/ Final(deferred[k])
  /\ \A c \in Calls : stage[c] = "done" => Final(result[c])
=============================================================================
