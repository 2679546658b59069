---------------------------- MODULE PromptQueue ----------------------------
(***************************************************************************)
(* The queue of user prompts in front of an agent's turn loop:             *)
(* AgentPromptService (packages/agent-core-v2/src/agent/prompt/            *)
(* promptService.ts).  One prompt is active or being launched, the others  *)
(* wait; a waiting prompt may be steered into the turn that runs, or       *)
(* aborted; while a full compaction owns the idle agent prompts are held   *)
(* back and launched when it is over.                                      *)
(*                                                                         *)
(* The loop is the one of TurnQueue, which AgentLoop implements.  Of a      *)
(* compaction there is whether it is the current one, and that its worker  *)
(* fires onDidFinishCompaction when it unwinds, long after a cancellation. *)
(*                                                                         *)
(* startNext suspends twice, in the submit hooks and until its turn is     *)
(* assigned.  Steer suspends once, for one microtask: nothing comes        *)
(* between, and it is one action.  While the synchronous turn.ended         *)
(* subscribers run they may call in, and no suspended code resumes.  Nor   *)
(* does any while the end of a lease admits what was held; turns that fail *)
(* at once may end in both stretches, with their own subscribers.  Settle  *)
(* follows the end of a turn within two microtasks, before a request from  *)
(* outside can be served.                                                  *)
(***************************************************************************)
EXTENDS TurnQueue

CONSTANTS
  Prompts,      \* user prompts, each enqueued once at most
  Compactions   \* compactions, each begun once at most

\* The other turns are notifications, retries, goals.
Others == Turns \ Prompts

ASSUME PromptsAssumption == Prompts \subseteq Turns \ MayJoin

VARIABLES
  \* the prompt service
  state,      \* the state of a prompt's handle
  pending, active, steered,
  launching,  \* the prompt startNext is launching; None while the flag is down
  launchAt,   \* where startNext is suspended: hook, assign
  recursing,  \* startNext calls itself with nothing changed, until the stack
              \* overflows and the process is ended: nothing happens any more
  ending,     \* how many calls of the turn.ended subscribers are under way
  \* full compaction
  compaction  \* new, running, cancelled (its worker unwinds), over

promptVars == <<state, active, steered>>
launchVars == <<pending, launching, launchAt, recursing>>

vars == <<promptVars, launchVars, loopVars, ending, compaction>>

Done(p) == state[p] \in Outcomes \cup {"blocked"}

TypeOK ==
  /\ state \in [Prompts -> {"new", "pending", "running", "steered", "blocked"} \cup Outcomes]
  /\ pending \in Seq(Prompts)
  /\ active \in Prompts \cup {None}
  /\ steered \in [Prompts -> SUBSET Prompts]
  /\ launching \in Prompts \cup {None}
  /\ launchAt \in {"hook", "assign"}
  /\ LoopTypeOK
  /\ recursing \in BOOLEAN /\ ending \in Nat
  /\ compaction \in [Compactions -> {"new", "running", "cancelled", "over"}]

Init ==
  /\ state = [p \in Prompts |-> "new"]
  /\ pending = << >> /\ active = None
  /\ steered = [p \in Prompts |-> {}]
  /\ launching = None /\ launchAt = "hook" /\ recursing = FALSE
  /\ LoopInit /\ ending = 0
  /\ compaction = [c \in Compactions |-> "new"]

-----------------------------------------------------------------------------

\* The result of the active prompt's turn is there and settle is next.
SettleDue == active # None /\ turn[active] \in Outcomes

\* A request from outside is served; a subscriber calls in as well; suspended
\* code resumes.
Resume == ~ recursing /\ ending = 0 /\ ~ Admitting
Request == Resume /\ ~ SettleDue
CallIn == Request \/ (~ recursing /\ ending > 0)

Compacting == \E c \in Compactions : compaction[c] = "running"

\* Compaction has the agent to itself.
HeldBack(comp, run) == run = None /\ \E c \in Compactions : comp[c] = "running"

\* Mutant: the newest prompt is taken.
NextPromptLast(queue) == [first |-> Last(queue), rest |-> Front(queue)]

\* pending.shift
NextPrompt(queue) == [first |-> Head(queue), rest |-> Tail(queue)]

\* startNext, called when no prompt is active or being launched: the next
\* prompt goes to the submit hooks.  A prompt that compaction holds back is
\* put back, and the finally block calls startNext again.
StartNext(queue, comp, run) ==
  \/ /\ queue = << >>
     /\ pending' = queue /\ launching' = None
     /\ UNCHANGED <<launchAt, recursing>>
  \/ /\ queue # << >> /\ HeldBack(comp, run)
     /\ pending' = queue /\ launching' = None
     /\ recursing' = TRUE
     /\ UNCHANGED launchAt
  \/ /\ queue # << >> /\ ~ HeldBack(comp, run)
     /\ launching' = NextPrompt(queue).first
     /\ pending' = NextPrompt(queue).rest
     /\ launchAt' = "hook"
     /\ UNCHANGED recursing

\* Mutant: the prompts stay in the queue.
KeepPending(S) == pending

\* pending.splice
DropPending(S) == Without(pending, S)

\* Mutant: only the active prompt counts, not the one being launched.
BusyActive == active # None

Busy == active # None \/ launching # None

-----------------------------------------------------------------------------
\* The loop, and who else uses it.

OtherSends(t) ==
  /\ CallIn
  /\ LoopSend(t)
  /\ UNCHANGED <<promptVars, launchVars, ending, compaction>>

CancelTurn(t) ==
  /\ CallIn
  /\ LoopCancelQueued(t)
  /\ UNCHANGED <<promptVars, launchVars, ending, compaction>>

OtherWithdraws(t) ==
  /\ CallIn
  /\ LoopWithdraw(t)
  /\ UNCHANGED <<promptVars, launchVars, ending, compaction>>

EndTurn ==
  /\ ~ recursing
  /\ LoopEnds
  /\ ending' = ending + 1
  /\ UNCHANGED <<promptVars, launchVars, compaction>>

\* The subscribers have run; one of them may have opened a turn.
Ended ==
  /\ ~ recursing /\ ending > 0
  /\ ending' = ending - 1
  /\ IF running = None THEN LoopStarts ELSE UNCHANGED loopVars
  /\ UNCHANGED <<promptVars, launchVars, compaction>>

TakeLease ==
  /\ Resume
  /\ LoopLends
  /\ UNCHANGED <<promptVars, launchVars, ending, compaction>>

ReleaseLease ==
  /\ Resume
  /\ LoopReleased
  /\ UNCHANGED <<promptVars, launchVars, ending, compaction>>

AdmitHeld ==
  /\ ~ recursing /\ ending = 0
  /\ LoopAdmits
  /\ UNCHANGED <<promptVars, launchVars, ending, compaction>>

Dispose ==
  /\ Resume
  /\ LoopDisposes
  /\ UNCHANGED <<promptVars, launchVars, ending, compaction>>

-----------------------------------------------------------------------------
\* Calls of the prompt service.

\* enqueue: held back while compaction owns the agent, launched if no prompt
\* is on its way, queued otherwise.
Enqueue(p) ==
  /\ CallIn
  /\ state[p] = "new"
  /\ state' = [state EXCEPT ![p] = "pending"]
  /\ IF Busy \/ HeldBack(compaction, running)
     THEN /\ pending' = Append(pending, p)
          /\ UNCHANGED <<launching, launchAt, recursing>>
     ELSE StartNext(Append(pending, p), compaction, running)
  /\ UNCHANGED <<active, steered, loopVars, ending, compaction>>

\* steer: the prompts of S leave the queue, then the loop is asked to take
\* them into the running turn.  It refuses when there is none.
Steer(S) ==
  /\ Request
  /\ active # None
  /\ S # {} /\ S \subseteq ToSet(pending)
  /\ pending' = DropPending(S)
  /\ \/ /\ running # None /\ ~ disposing
        /\ state' = [p \in Prompts |-> IF p \in S THEN "steered" ELSE state[p]]
        /\ steered' = [steered EXCEPT ![active] = @ \cup S]
     \/ /\ running = None \/ disposing
        /\ UNCHANGED <<state, steered>>
  /\ UNCHANGED <<active, launching, launchAt, recursing, loopVars, ending, compaction>>

\* abort of a prompt that waits, or of the active one: its turn is cancelled
\* and the prompt settles with it.  A prompt being launched is not found.
AbortPending(p) ==
  /\ CallIn
  /\ active # p /\ p \in ToSet(pending)
  /\ pending' = DropPending({p})
  /\ state' = [state EXCEPT ![p] = "cancelled"]
  /\ UNCHANGED <<active, steered, launching, launchAt, recursing, loopVars, ending, compaction>>

AbortActive ==
  /\ CallIn
  /\ active # None
  /\ LoopCancel(active)
  /\ UNCHANGED <<promptVars, launchVars, ending, compaction>>

\* clear: every waiting prompt, then the active one
Clear ==
  /\ CallIn
  /\ pending' = << >>
  /\ state' = [p \in Prompts |-> IF p \in ToSet(pending) THEN "cancelled" ELSE state[p]]
  /\ IF active # None THEN LoopCancel(active) ELSE UNCHANGED loopVars
  /\ UNCHANGED <<active, steered, launching, launchAt, recursing, ending, compaction>>

-----------------------------------------------------------------------------
\* Where startNext and settle resume.

\* The submit hooks returned.  They may block the prompt or throw, and the
\* loop throws when it is disposed; the next prompt is up.
HookStops ==
  /\ Resume
  /\ launching # None /\ launchAt = "hook"
  /\ \E outcome \in {"blocked", "failed"} : state' = [state EXCEPT ![launching] = outcome]
  /\ StartNext(pending, compaction, running)
  /\ UNCHANGED <<active, steered, loopVars, ending, compaction>>

HookPasses ==
  /\ Resume
  /\ launching # None /\ launchAt = "hook"
  /\ ~ disposing
  /\ LoopEnqueue(launching)
  /\ launchAt' = "assign"
  /\ UNCHANGED <<promptVars, pending, launching, recursing, ending, lease, disposing,
                 compaction>>

\* Mutant: a request the lease holds back counts as assigned.
AssignedHeld(t) == turn[t] # "declined"

\* The request has its turn, whatever became of it since.
HasTurn(t) == turn[t] \notin {"held", "declined"}

\* The prompt being launched is the active one from now on.
Assigned ==
  /\ Resume
  /\ launching # None /\ launchAt = "assign"
  /\ HasTurn(launching)
  /\ state' = [state EXCEPT ![launching] = "running"]
  /\ active' = launching
  /\ launching' = None
  /\ UNCHANGED <<steered, pending, launchAt, recursing, loopVars, ending, compaction>>

\* The request was held and the loop disposed of.
Refused ==
  /\ Resume
  /\ launching # None /\ launchAt = "assign"
  /\ turn[launching] = "declined"
  /\ state' = [state EXCEPT ![launching] = "failed"]
  /\ StartNext(pending, compaction, running)
  /\ UNCHANGED <<active, steered, loopVars, ending, compaction>>

\* Mutant: the steered prompts are left to themselves.
SettledWithAlone(p) == {p}

\* The prompts that share the outcome of p's turn.
SettledWith(p) == {p} \cup steered[p]

\* settle: the turn of the active prompt is over.
Settle ==
  /\ Resume
  /\ active # None /\ turn[active] \in Outcomes
  /\ state' = [p \in Prompts |-> IF p \in SettledWith(active) THEN turn[active] ELSE state[p]]
  /\ steered' = [steered EXCEPT ![active] = {}]
  /\ active' = None
  /\ IF launching = None
     THEN StartNext(pending, compaction, running)
     ELSE UNCHANGED launchVars
  /\ UNCHANGED <<loopVars, ending, compaction>>

-----------------------------------------------------------------------------
\* Full compaction.

CompactionBegins(c) ==
  /\ ~ recursing
  /\ compaction[c] = "new" /\ ~ Compacting
  /\ compaction' = [compaction EXCEPT ![c] = "running"]
  /\ UNCHANGED <<promptVars, launchVars, loopVars, ending>>

CompactionCancelled(c) ==
  /\ ~ recursing
  /\ compaction[c] = "running"
  /\ compaction' = [compaction EXCEPT ![c] = "cancelled"]
  /\ UNCHANGED <<promptVars, launchVars, loopVars, ending>>

\* Mutant: nobody listens.
CompactionOverDeaf(comp) == UNCHANGED launchVars

\* onDidFinishCompaction calls startNext.
CompactionOver(comp) ==
  IF Busy THEN UNCHANGED launchVars ELSE StartNext(pending, comp, running)

\* The worker unwinds: completed, failed, or cancelled before.
WorkerEnds(c) ==
  /\ Resume
  /\ compaction[c] \in {"running", "cancelled"}
  /\ compaction' = [compaction EXCEPT ![c] = "over"]
  /\ CompactionOver(compaction')
  /\ UNCHANGED <<promptVars, loopVars, ending>>

-----------------------------------------------------------------------------

Call ==
  \/ \E p \in Prompts : Enqueue(p) \/ AbortPending(p)
  \/ \E S \in SUBSET Prompts : Steer(S)
  \/ AbortActive \/ Clear
  \/ \E t \in Others : OtherSends(t) \/ OtherWithdraws(t)
  \/ \E t \in Turns : CancelTurn(t)
  \/ TakeLease \/ Dispose
  \/ \E c \in Compactions : CompactionBegins(c) \/ CompactionCancelled(c)

Own ==
  \/ HookStops \/ HookPasses \/ Assigned \/ Refused \/ Settle
  \/ EndTurn \/ Ended \/ AdmitHeld
  \/ \E c \in Compactions : WorkerEnds(c)

Next == Call \/ Own \/ ReleaseLease

Spec == Init /\ [][Next]_vars

\* Whatever is suspended resumes or ends: hooks return, turns end, subscribers
\* return, compactions unwind; and leases are given back.  Nothing is assumed
\* of callers.
FairSpec == Spec /\ WF_vars(Own) /\ WF_vars(ReleaseLease)

-----------------------------------------------------------------------------
\* Safety.

\* User prompts are serialized: at most one of them has a turn the loop still
\* holds, queues or runs, and it is the one active or being launched.
OnePromptAtATime ==
  \A p \in Prompts : turn[p] \in {"held", "queued", "running"} => p \in {active, launching}

\* No handle is lost and none is served twice: one that is still pending is in
\* the queue or being launched, and only such a one is.  (steer takes prompts
\* out of the queue before the loop has a say; a loop being disposed of, and
\* only such a one, refuses them.)
QueueHoldsThePending ==
  ~ disposing => \A p \in Prompts :
    state[p] = "pending" <=> p \in ToSet(pending) \cup {launching}

\* No lost wake-up: prompts wait only behind another prompt, or for a
\* compaction whose worker has yet to report.
WaitingIsServed ==
  pending # << >> /\ ~ Busy =>
    recursing \/ \E c \in Compactions : compaction[c] \in {"running", "cancelled"}

\* A steered prompt belongs to the prompt that is active, and settles with it.
SteeredFollowsActive ==
  \A p \in Prompts : state[p] = "steered" => active # None /\ p \in steered[active]

\* A handle settles once, whatever is aborted, cleared, steered or launched
\* around it.
SettlesOnce ==
  [][\A p \in Prompts : Done(p) => state'[p] = state[p]]_vars

\* No prompt overtakes another: when one is launched, none that waited before
\* it is still waiting.
NoOvertaking ==
  [][\A i, j \in DOMAIN pending :
       i < j /\ launching' = pending[j] => pending[i] \notin ToSet(pending')]_vars

-----------------------------------------------------------------------------
\* Liveness.

Known(p) == p \in ToSet(pending) \/ p \in {launching, active} \/ state[p] = "steered"

\* Every prompt the service knows of settles, across compactions and leases;
\* unless steer lets go of it in a loop that is disposed of, or startNext never
\* returns (see DeferralReturns).
PromptsSettle == \A p \in Prompts : Known(p) ~> ~ Known(p) \/ recursing

-----------------------------------------------------------------------------
\* What the comments and the tests of the repository promise.

\* "defers a prompt submitted mid-compaction and replays it after completion"
\* (a test of full compaction): startNext leaves a prompt that compaction holds
\* back to the end of the compaction, and returns.
DeferralReturns == ~ recursing
=============================================================================
