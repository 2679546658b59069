--------------------------- MODULE FullCompaction ---------------------------
(***************************************************************************)
(* Full compaction of an agent's context (agent/fullCompaction), composed  *)
(* with what edits the context beside it: the turn that appends messages,  *)
(* undo, clear, and a process that ends and is restored from the journal.  *)
(*                                                                         *)
(* A compaction is a worker: it copies the history, awaits hooks, asks the *)
(* model for a summary, replaces the history, awaits two more calls and    *)
(* reports.  The service holds at most one worker as its own (compacting); *)
(* a cancelled worker lives on until its pending await returns.  A turn    *)
(* waits for a compaction before a step, or after the provider refused     *)
(* its request as too long.                                                *)
(*                                                                         *)
(* A message is its id and its kind; its size is 1 and the size of a       *)
(* context its length.  What the code does between two awaits is one step. *)
(***************************************************************************)
EXTENDS Integers, Sequences, Functions, Subsequences

CONSTANTS
  Workers,              \* workers alive at a time (bound)
  None,                 \* no compaction, no token count
  MaxMessages,          \* messages ever appended (bound)
  Trigger, Block,       \* sizes at which a compaction starts, a turn waits
  KeepMax, HeadMax,     \* user messages kept verbatim, how many oldest ones
  MaxOverflowAttempts,  \* overflow recoveries before a turn gives up
  MaxShrinks            \* times a request that is too long is shortened

ASSUME BoundsAssumption ==
  /\ MaxMessages \in Nat
  /\ Trigger \in Nat \ {0} /\ Block \in Nat /\ Trigger <= Block
  /\ KeepMax \in Nat \ {0} /\ HeadMax \in 0 .. KeepMax
  /\ MaxOverflowAttempts \in Nat /\ MaxShrinks \in Nat
ASSUME NoneAssumption == None \notin Workers /\ None \notin Nat

VARIABLES
  history,     \* the context: a sequence of messages
  next,        \* id of the next message
  owed,        \* ids of the messages the context still has to carry
  phase,       \* CompactionModel: what the journal says of compaction
  compacting,  \* _compacting: the worker the service holds, or None
  worker,      \* the state of every worker
  turn,        \* the running turn
  last,        \* lastCompactedTokenCount
  overflows,   \* consecutiveOverflowCompactions
  lease        \* undo holds the loop quiescent

context == <<history, next, owed>>
service == <<phase, compacting, worker>>
vars == <<context, service, turn, last, overflows, lease>>

-----------------------------------------------------------------------------
(* The context.  covers: the messages whose content this one carries, or   *)
(* stands for: what a note elides may be in no summary.                     *)

Said(id, kind) == [id |-> id, kind |-> kind, covers |-> {id}]
Summary(covered) == [id |-> 0, kind |-> "summary", covers |-> covered]
Elision(omitted) == [id |-> 0, kind |-> "elision", covers |-> omitted]

IsRealUserInput(m) == m.kind = "user"
Covered(h) == UNION {m.covers : m \in Range(h)}
Verbatim(h) == {m.id : m \in {n \in Range(h) : IsRealUserInput(n)}}
From(h, k) == SubSeq(h, k, Len(h))

Kept(h) ==
  LET users == Subsequence(h, {i \in DOMAIN h : IsRealUserInput(h[i])})
      n == Len(users)
      tail == n - (KeepMax - HeadMax)
  IN  IF n <= KeepMax
      THEN users
      ELSE SubSeq(users, 1, HeadMax)
             \o <<Elision(Covered(SubSeq(users, HeadMax + 1, tail)))>>
             \o SubSeq(users, tail + 1, n)

Compacted(h, covered) == Kept(h) \o <<Summary(covered)>>

\* Mutant: only the compacted prefix is compared.
HistoryKeepsPrefix(current, original) ==
  /\ Len(original) <= Len(current)
  /\ SubSeq(current, 1, Len(original)) = original

HistorySafeToCompact(current, original) ==
  /\ Len(original) <= Len(current)
  /\ SubSeq(current, 1, Len(original)) = original
  /\ \A i \in Len(original) + 1 .. Len(current) : IsRealUserInput(current[i])

UndoAnchors(h) ==
  {i \in DOMAIN h : /\ h[i].kind = "user"
                    /\ \A j \in i + 1 .. Len(h) : h[j].kind \notin {"user", "summary"}}

CanAppend == next <= MaxMessages
Says(kind) ==
  /\ CanAppend
  /\ history' = Append(history, Said(next, kind))
  /\ next' = next + 1
  /\ owed' = owed \cup {next}

-----------------------------------------------------------------------------
(* Workers.  at: the await a worker is in; snap: originalHistory; from:    *)
(* the first message its request still holds; size: tokensAfter.           *)

NoWorker ==
  [at |-> "free", aborted |-> FALSE, snap |-> <<>>, from |-> 1, shrinks |-> 0,
   size |-> 0]

Free == {w \in Workers : worker[w].at = "free"}

(* The turn.  on: the worker it waits for, told: how that one ended.       *)
NoTurn == [at |-> "idle", why |-> "before", on |-> None, told |-> "none",
           aborted |-> FALSE, prompt |-> FALSE]

Init ==
  /\ history = <<>> /\ next = 1 /\ owed = {}
  /\ phase = "idle" /\ compacting = None
  /\ worker = [w \in Workers |-> NoWorker]
  /\ turn = NoTurn
  /\ last = None /\ overflows = 0
  /\ lease = FALSE

(* begin: the caller has found compacting = None. *)
Begin(w, h) ==
  /\ compacting' = w
  /\ phase' = "running"
  /\ worker' = [worker EXCEPT ![w] = [NoWorker EXCEPT !.at = "hooks", !.snap = h]]

\* Mutant: a cancelled worker is forgotten before its promise is settled.
OrphanedForgotten(v) == NoWorker

(* abort() of the held worker: its listener runs cancelActive at once.  A  *)
(* cancelled worker needs no more than its place and its last result.      *)
Orphaned(v) == [NoWorker EXCEPT !.at = v.at, !.size = v.size, !.aborted = TRUE]

CancelActive ==
  /\ compacting' = None
  /\ phase' = "idle"
  /\ worker' = [worker EXCEPT ![compacting] = Orphaned(@)]

\* Mutant: a worker that ends releases whatever the service holds.
ReleasedAny(w) == None

\* Mutant: cancelActive and markCompleted do not clear _compacting.
ReleasedNever(w) == compacting

Released(w) == IF compacting = w THEN None ELSE compacting

(* A worker ends and lets go of the service if it still holds it; the      *)
(* promise of its compaction tells a turn that waits.                      *)
Ends(w, outcome) ==
  /\ worker' = [worker EXCEPT ![w] = NoWorker]
  /\ compacting' = Released(w)
  /\ phase' = IF compacting = w THEN "idle" ELSE phase
  /\ turn' = IF turn.on = w THEN [turn EXCEPT !.on = None, !.told = outcome] ELSE turn

(* The catch of compactionWorker. *)
Throws(w, error) == Ends(w, IF worker[w].aborted THEN "cancelled" ELSE error)

-----------------------------------------------------------------------------
(* The awaits of a worker, in order. *)

HooksEnd(w) ==
  /\ worker[w].at = "hooks" /\ ~worker[w].aborted
  /\ worker' = [worker EXCEPT ![w].at = "request"]
  /\ UNCHANGED <<context, compacting, phase, turn, last, overflows, lease>>

(* The request of a cancelled worker is refused or ends by its signal. *)
RequestIsAborted(w) ==
  /\ worker[w].at \in {"hooks", "request"} /\ worker[w].aborted
  /\ Throws(w, "cancelled")
  /\ UNCHANGED <<context, last, overflows, lease>>

(* The summary arrives over a history that only grew by user input. *)
Applies(w) ==
  LET original == worker[w].snap
      covered == Covered(From(original, worker[w].from))
  IN  /\ worker[w].at = "request" /\ ~worker[w].aborted
      /\ HistorySafeToCompact(history, original)
      /\ history' = Compacted(history, covered)
      /\ owed' = owed \ (Covered(SubSeq(original, 1, worker[w].from - 1)) \ Verbatim(history))
      /\ worker' = [worker EXCEPT ![w].at = "refresh", ![w].snap = <<>>,
                                  ![w].size = Len(history')]
      /\ UNCHANGED <<next, compacting, phase, turn, last, overflows,
                     lease>>

(* ... or over one that changed: the service's own compaction is cancelled, *)
(* whichever it is, and this worker ends.                                   *)
FindsStale(w) ==
  /\ worker[w].at = "request" /\ ~worker[w].aborted
  /\ ~HistorySafeToCompact(history, worker[w].snap)
  /\ compacting' = None
  /\ phase' = "idle"
  /\ worker' = [v \in Workers |->
       IF v = w THEN NoWorker
       ELSE IF v = compacting THEN Orphaned(worker[v]) ELSE worker[v]]
  /\ turn' = IF turn.on = w THEN [turn EXCEPT !.on = None, !.told = "cancelled"] ELSE turn
  /\ UNCHANGED <<context, last, overflows, lease>>

(* Too long, empty or truncated: the oldest messages leave the request. *)
Left(w) == Len(worker[w].snap) - worker[w].from + 1

MayShrink(w) == worker[w].shrinks < MaxShrinks /\ Left(w) > 1

RequestShrinks(w) ==
  /\ worker[w].at = "request" /\ ~worker[w].aborted
  /\ MayShrink(w)
  /\ \E k \in worker[w].from + 1 .. Len(worker[w].snap) + 1 :
       worker' = [worker EXCEPT ![w].from = k, ![w].shrinks = @ + 1]
  /\ UNCHANGED <<context, compacting, phase, turn, last, overflows, lease>>

RequestIsTooLong(w) ==
  /\ worker[w].at = "request" /\ ~worker[w].aborted
  /\ ~MayShrink(w)
  /\ Throws(w, "overflow")
  /\ UNCHANGED <<context, last, overflows, lease>>

(* A hook throws, the request fails for good or the injector throws. *)
WorkerThrows(w) ==
  /\ \/ worker[w].at \in {"hooks", "inject"}
     \/ worker[w].at = "request" /\ ~worker[w].aborted
  /\ Throws(w, "failed")
  /\ UNCHANGED <<context, last, overflows, lease>>

RefreshEnds(w) ==
  /\ worker[w].at = "refresh"
  /\ last' = worker[w].size
  /\ worker' = [worker EXCEPT ![w].at = "inject"]
  /\ UNCHANGED <<context, compacting, phase, turn, overflows, lease>>

\* Mutant: the result of markCompleted is not looked at.
OutcomeUnchecked(w) == "done"

Outcome(w) == IF compacting = w THEN "done" ELSE "cancelled"

InjectEnds(w) ==
  /\ worker[w].at = "inject"
  /\ Says("other") \/ UNCHANGED context
  /\ last' = Len(history')
  /\ Ends(w, Outcome(w))
  /\ UNCHANGED <<overflows, lease>>

-----------------------------------------------------------------------------
(* Users of the service. *)

BeginManual ==
  /\ compacting = None /\ turn.at = "idle" /\ history # <<>>
  /\ \E w \in Free : Begin(w, history)
  /\ UNCHANGED <<context, turn, last, overflows, lease>>

CancelCompaction ==
  /\ compacting # None
  /\ CancelActive
  /\ UNCHANGED <<context, turn, last, overflows, lease>>

(* checkAutoCompaction, for a context h and a floor l. *)
NeedsCompaction(h, l) ==
  /\ compacting = None
  /\ l # None => Len(h) > l
  /\ Len(h) >= Trigger

(* beforeStep, as a turn begins a step with the context h. *)
BeforeStep(t, h, l) ==
  \/ /\ NeedsCompaction(h, l)
     /\ \E w \in Free :
          /\ Begin(w, h)
          /\ turn' = IF Len(h) >= Block
                     THEN [t EXCEPT !.at = "blocked", !.why = "before", !.on = w]
                     ELSE [t EXCEPT !.at = "request"]
  \/ /\ ~NeedsCompaction(h, l)
     /\ turn' = IF compacting # None /\ Len(h) >= Block
                THEN [t EXCEPT !.at = "blocked", !.why = "before", !.on = compacting]
                ELSE [t EXCEPT !.at = "request"]
     /\ UNCHANGED service

(* A prompt waits while a compaction runs over an idle loop; input injected *)
(* into the loop, a task notification or a goal does not.                   *)
StartTurn(kind, prompt) ==
  /\ turn.at = "idle" /\ ~lease
  /\ prompt => kind = "user" /\ compacting = None
  /\ Says(kind)
  /\ last' = None /\ overflows' = 0
  /\ BeforeStep([NoTurn EXCEPT !.prompt = prompt], history', None)
  /\ UNCHANGED lease

(* The step answered; afterStep runs. *)
StepAnswers ==
  /\ turn.at = "request" /\ ~turn.aborted
  /\ IF CanAppend THEN Says("other") ELSE UNCHANGED context
  /\ overflows' = 0
  /\ turn' = [turn EXCEPT !.at = "between"]
  /\ IF Trigger # Block /\ NeedsCompaction(history', last)
     THEN \E w \in Free : Begin(w, history')
     ELSE UNCHANGED service
  /\ UNCHANGED <<last, lease>>

TurnEndsItself ==
  /\ turn.at = "between"
  /\ turn' = NoTurn
  /\ UNCHANGED <<context, service, last, overflows, lease>>

(* The next step of the turn, after a tool ran or with steered user input. *)
NextStep ==
  /\ turn.at = "between" /\ ~turn.aborted /\ CanAppend
  /\ UNCHANGED context \/ Says("user")
  /\ BeforeStep(turn, history', last)
  /\ UNCHANGED <<last, overflows, lease>>

\* Mutant: recoveries are not counted.
AttemptsUncounted == overflows

Attempts == overflows + 1

(* The error handler registered with the loop: compact, wait, retry. *)
Recover ==
  /\ overflows' = Attempts
  /\ IF Attempts > MaxOverflowAttempts \/ (compacting = None /\ history = <<>>)
     THEN turn' = NoTurn /\ UNCHANGED service
     ELSE \/ /\ compacting = None
             /\ \E w \in Free :
                  /\ Begin(w, history)
                  /\ turn' = [turn EXCEPT !.at = "blocked", !.why = "recover", !.on = w,
                                          !.told = "none"]
          \/ /\ compacting # None
             /\ turn' = [turn EXCEPT !.at = "blocked", !.why = "recover", !.on = compacting,
                                     !.told = "none"]
             /\ UNCHANGED service

StepOverflows ==
  /\ turn.at = "request" /\ ~turn.aborted
  /\ Recover
  /\ UNCHANGED <<context, last, lease>>

StepFails ==
  /\ turn.at = "request" /\ ~turn.aborted
  /\ turn' = NoTurn
  /\ UNCHANGED <<context, service, last, overflows, lease>>

(* The request of a cancelled turn ends; what it had streamed is kept. *)
StepIsAborted ==
  /\ turn.at = "request" /\ turn.aborted
  /\ Says("other") \/ UNCHANGED context
  /\ turn' = NoTurn
  /\ UNCHANGED <<service, last, overflows, lease>>

(* The promise a turn waited for is settled: the rest of block. *)
Woken(outcome) ==
  /\ turn.at = "blocked" /\ turn.told = outcome /\ ~turn.aborted

WakesToStep ==
  /\ Woken("done") /\ turn.why = "before"
  /\ turn' = [turn EXCEPT !.at = "request", !.told = "none"]
  /\ UNCHANGED <<context, service, last, overflows, lease>>

WakesToRetry ==
  /\ Woken("done") /\ turn.why = "recover"
  /\ BeforeStep([turn EXCEPT !.told = "none"], history, last)
  /\ UNCHANGED <<context, last, overflows, lease>>

(* A compaction that failed before a step because its own request was too  *)
(* long: the error names the overflow as its cause and the handler matches. *)
WakesToRecover ==
  /\ Woken("overflow") /\ turn.why = "before"
  /\ Recover
  /\ UNCHANGED <<context, last, lease>>

WakesToEnd ==
  /\ \/ turn.at = "blocked" /\ turn.told # "none" /\ turn.aborted
     \/ Woken("cancelled")
     \/ Woken("failed")
     \/ Woken("overflow") /\ turn.why = "recover"
  /\ turn' = NoTurn
  /\ UNCHANGED <<context, service, last, overflows, lease>>

(* The turn's signal is aborted; a turn that waits aborts what it waits for. *)
AbortsTurn ==
  /\ turn' = [turn EXCEPT !.aborted = TRUE]
  /\ IF turn.at = "blocked" /\ compacting = turn.on
     THEN CancelActive
     ELSE UNCHANGED service

CancelTurn ==
  /\ turn.at # "idle" /\ ~turn.aborted
  /\ AbortsTurn
  /\ UNCHANGED <<context, last, overflows, lease>>

Clear ==
  /\ history # <<>>
  /\ IF turn.prompt /\ ~turn.aborted THEN AbortsTurn ELSE UNCHANGED <<turn, service>>
  /\ history' = <<>> /\ owed' = {}
  /\ UNCHANGED <<next, last, overflows, lease>>

UndoCuts ==
  /\ turn.at = "idle" /\ ~lease /\ compacting = None
  /\ \E i \in UndoAnchors(history) :
       /\ history' = SubSeq(history, 1, i - 1)
       /\ owed' = owed \ Covered(From(history, i))
  /\ lease' = TRUE
  /\ UNCHANGED <<next, service, turn, last, overflows>>

UndoEnds ==
  /\ lease /\ lease' = FALSE
  /\ UNCHANGED <<context, service, turn, last, overflows>>

(* The process ends; the journal is replayed and a stranded phase cancelled. *)
\* Mutant: the replayed phase is taken as it is.
NormalizedNot(p) == p

Normalized(p) == IF p = "running" THEN "idle" ELSE p

Crash ==
  /\ phase' = Normalized(phase)
  /\ compacting' = None
  /\ worker' = [w \in Workers |-> NoWorker]
  /\ turn' = NoTurn
  /\ last' = None /\ overflows' = 0 /\ lease' = FALSE
  /\ UNCHANGED context

WorkerStep(w) ==
  \/ HooksEnd(w) \/ RequestIsAborted(w) \/ Applies(w) \/ FindsStale(w)
  \/ RequestShrinks(w) \/ RequestIsTooLong(w)
  \/ WorkerThrows(w) \/ RefreshEnds(w) \/ InjectEnds(w)

TurnStep ==
  \/ StepAnswers \/ StepOverflows \/ StepFails \/ StepIsAborted
  \/ TurnEndsItself \/ NextStep
  \/ WakesToStep \/ WakesToRetry \/ WakesToRecover \/ WakesToEnd

UserStep ==
  \/ BeginManual \/ CancelCompaction
  \/ \E kind \in {"user", "other"}, prompt \in BOOLEAN : StartTurn(kind, prompt)
  \/ CancelTurn \/ Clear \/ UndoCuts

Next ==
  \/ \E w \in Workers : WorkerStep(w)
  \/ TurnStep \/ UndoEnds \/ UserStep \/ Crash

Spec == Init /\ [][Next]_vars

(* The process goes on handling what its awaits return.  These steps have  *)
(* no cycle of their own and users can only add finitely many between them *)
(* while a turn or a compaction is alive, so one weak fairness serves all. *)
Progress == (\E w \in Workers : WorkerStep(w)) \/ TurnStep \/ UndoEnds

FairSpec == Spec /\ WF_vars(Progress)

-----------------------------------------------------------------------------
(* Properties *)

Live(w) == worker[w].at # "free"
Message == [id : 0 .. MaxMessages, kind : {"user", "other", "summary", "elision"},
            covers : SUBSET (1 .. MaxMessages)]

(* Every variable has its type; a turn that waits waits for a live worker. *)
TypeOK ==
  /\ history \in Seq(Message) /\ next \in 1 .. MaxMessages + 1
  /\ owed \subseteq 1 .. next - 1
  /\ phase \in {"idle", "running"} /\ compacting \in Workers \cup {None}
  /\ worker \in
       [Workers -> [at : {"free", "hooks", "request", "refresh", "inject"},
                    aborted : BOOLEAN, snap : Seq(Message),
                    from : Nat, shrinks : 0 .. MaxShrinks, size : Nat]]
  /\ turn \in [at : {"idle", "request", "between", "blocked"},
               why : {"before", "recover"}, on : Workers \cup {None},
               told : {"none", "done", "cancelled", "failed", "overflow"},
               aborted : BOOLEAN, prompt : BOOLEAN]
  /\ last \in Nat \cup {None} /\ overflows \in 0 .. MaxOverflowAttempts + 1
  /\ lease \in BOOLEAN

(* The journal says "running" exactly while the service holds a worker, and *)
(* that is the one worker alive that nobody cancelled; so every begin,      *)
(* cancel and complete record takes effect when it is replayed.             *)
OneCompaction ==
  /\ phase = "running" <=> compacting # None
  /\ \A w \in Workers : Live(w) /\ ~worker[w].aborted <=> compacting = w

(* A turn waits for a worker that is alive, and for nothing once it has     *)
(* been told: no wait is for a promise that is already settled.             *)
WaitsForLive ==
  turn.at = "blocked" => IF turn.told = "none" THEN turn.on \in Workers /\ Live(turn.on)
                                               ELSE turn.on = None

(* Whatever arrives while a compaction runs, each message that was not      *)
(* undone or cleared is in the context or covered by its summary, but for   *)
(* the ones the compaction had to leave out of its own request.             *)
NothingLost == owed \subseteq Covered(history)

(* A worker that was cancelled ends no compaction but its own. *)
StaleIsHarmless == [][\A w \in Workers :
  Live(w) /\ worker'[w] # worker[w] /\ compacting \notin {None, w} /\ ~Crash
    => compacting' = compacting]_vars

(* A turn goes on from a compaction only if the service held it to its end: *)
(* a cancellation that came first is what the turn is told.                 *)
DoneIsJournaled == [][turn.told # "done" /\ turn'.told = "done" =>
  compacting = turn.on /\ compacting' = None]_vars

(* A turn ends, though it waits for compactions and every request of it may *)
(* be refused as too long.                                                  *)
TurnEnds == turn.at # "idle" ~> turn.at = "idle"

(* Prompts wait for compacting to be None: the service always lets go. *)
CompactionEnds == compacting # None ~> compacting = None
=============================================================================
