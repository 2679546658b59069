------------------------ MODULE FullCompactionProofs ------------------------
(***************************************************************************)
(* Proofs about FullCompaction, for every number of workers, every size at *)
(* which a compaction starts and every bound: the journal and the service  *)
(* agree on the one compaction that runs, a worker that was cancelled ends *)
(* no compaction but its own, a turn goes on only from a compaction that   *)
(* was held to its end, and it waits for nothing that is already over.     *)
(* ControlInv, which these rest on, assumes nothing of the context.  That  *)
(* no message is lost rests on HistoryInv: what is owed is carried, and a  *)
(* user's message carries itself, so that the ones a compaction keeps and  *)
(* the note on those it does not stand for all of them.                    *)
(***************************************************************************)
EXTENDS FullCompaction, OperatorLemmas

Fields == {"at", "aborted", "snap", "from", "shrinks", "size"}

TurnType ==
  [at : {"idle", "request", "between", "blocked"},
   why : {"before", "recover"}, on : Workers \cup {None},
   told : {"none", "done", "cancelled", "failed", "overflow"},
   aborted : BOOLEAN, prompt : BOOLEAN]

\* The control state has its type; of a worker only the fields are known.
Shape ==
  /\ DOMAIN worker = Workers
  /\ \A w \in Workers : DOMAIN worker[w] = Fields /\ worker[w].aborted \in BOOLEAN
  /\ turn \in TurnType
  /\ compacting \in Workers \cup {None}
  /\ phase \in {"idle", "running"}

ControlInv ==
  /\ Shape
  /\ OneCompaction
  /\ WaitsForLive
  /\ turn.at # "blocked" => turn.on = None /\ turn.told = "none"

LEMMA NoTurnType ==
  /\ NoTurn \in TurnType /\ NoTurn.at = "idle" /\ NoTurn.on = None /\ NoTurn.told = "none"
  /\ \A prompt \in BOOLEAN :
       LET t == [NoTurn EXCEPT !.prompt = prompt]
       IN  t \in TurnType /\ t.on = None /\ t.told = "none"
  BY DEF NoTurn, TurnType

LEMMA NoWorkerShape ==
  /\ DOMAIN NoWorker = Fields /\ NoWorker.at = "free" /\ NoWorker.aborted = FALSE
  /\ \A h : LET v == [NoWorker EXCEPT !.at = "hooks", !.snap = h]
            IN  DOMAIN v = Fields /\ v.at = "hooks" /\ v.aborted = FALSE
<1>1. DOMAIN NoWorker = Fields /\ NoWorker.at = "free" /\ NoWorker.aborted = FALSE
  BY DEF NoWorker, Fields
<1> QED BY <1>1 DEF Fields

\* The service takes a free worker for a new compaction.
LEMMA BeginShape ==
  ASSUME ControlInv, compacting = None, NEW w \in Free, NEW h, Begin(w, h)
  PROVE  /\ w \in Workers /\ ~Live(w)
         /\ DOMAIN worker' = Workers
         /\ worker'[w].at = "hooks" /\ worker'[w].aborted = FALSE /\ DOMAIN worker'[w] = Fields
         /\ \A v \in Workers : v # w => worker'[v] = worker[v]
         /\ compacting' = w /\ phase' = "running"
  BY NoWorkerShape DEF ControlInv, Shape, Begin, Free, Live

\* Whatever a turn does as a compaction begins: it waits for it, or for nothing.
LEMMA BeginInv ==
  ASSUME ControlInv, compacting = None, NEW w \in Free, NEW h, Begin(w, h),
         turn' \in TurnType, turn'.told = "none",
         turn'.at = "blocked" => turn'.on = w,
         turn'.at # "blocked" => turn'.on = None
  PROVE  ControlInv'
<1>1. /\ w \in Workers /\ ~Live(w)
      /\ DOMAIN worker' = Workers
      /\ worker'[w].at = "hooks" /\ worker'[w].aborted = FALSE /\ DOMAIN worker'[w] = Fields
      /\ \A v \in Workers : v # w => worker'[v] = worker[v]
      /\ compacting' = w /\ phase' = "running"
  BY BeginShape
<1>2. Shape'
  BY <1>1 DEF ControlInv, Shape
<1>3. w # None
  BY <1>1, NoneAssumption
<1>4. OneCompaction'
  <2>1. \A v \in Workers : ~(Live(v) /\ ~worker[v].aborted)
    <3>1. \A v \in Workers : compacting # v
      BY NoneAssumption
    <3> QED BY <3>1 DEF ControlInv, OneCompaction
  <2>2. \A v \in Workers : (Live(v) /\ ~worker[v].aborted)' <=> v = w
    BY <1>1, <2>1 DEF Live
  <2> QED BY <1>1, <1>3, <2>2 DEF OneCompaction
<1>5. WaitsForLive'
  <2>1. Live(w)'
    BY <1>1 DEF Live
  <2> QED BY <1>1, <2>1 DEF WaitsForLive
<1> QED BY <1>2, <1>4, <1>5 DEF ControlInv

LEMMA WorkerStepInv ==
  ASSUME ControlInv, NEW w \in Workers, WorkerStep(w)
  PROVE  ControlInv'
<1> USE NoneAssumption DEF ControlInv, Shape, Fields, TurnType, OneCompaction, WaitsForLive, Live
<1>1. CASE HooksEnd(w)
  BY <1>1 DEF HooksEnd
<1>2. ASSUME NEW o \in {"done", "cancelled", "failed", "overflow"}, Live(w), Ends(w, o)
      PROVE  ControlInv'
  BY <1>2 DEF Ends, Released, NoWorker
<1>3. CASE Applies(w)
  BY <1>3 DEF Applies
<1>4. CASE FindsStale(w)
  <2>1. w = compacting
    BY <1>4 DEF FindsStale
  <2> QED BY <1>4, <2>1 DEF FindsStale, NoWorker
<1>5. CASE RequestShrinks(w)
  BY <1>5 DEF RequestShrinks
<1>6. CASE RefreshEnds(w)
  BY <1>6 DEF RefreshEnds
<1>7. CASE RequestIsAborted(w) \/ RequestIsTooLong(w) \/ WorkerThrows(w) \/ InjectEnds(w)
  <2>1. Live(w) /\ \E o \in {"done", "cancelled", "failed", "overflow"} : Ends(w, o)
    BY <1>7 DEF RequestIsAborted, RequestIsTooLong, WorkerThrows, InjectEnds, Throws, Outcome
  <2> QED BY <1>2, <2>1
<1> QED BY <1>1, <1>3, <1>4, <1>5, <1>6, <1>7 DEF WorkerStep

\* A turn that begins a step: it starts a compaction, waits for the one that
\* runs, or goes on.
LEMMA BeforeStepInv ==
  ASSUME ControlInv, NEW t \in TurnType, t.on = None, t.told = "none",
         NEW h, NEW l, BeforeStep(t, h, l)
  PROVE  ControlInv'
<1> USE NoneAssumption DEF ControlInv, Shape, Fields, TurnType, OneCompaction, WaitsForLive, Live
<1>1. CASE \E w \in Free :
             /\ compacting = None
             /\ Begin(w, h)
             /\ \/ turn' = [t EXCEPT !.at = "blocked", !.why = "before", !.on = w]
                \/ turn' = [t EXCEPT !.at = "request"]
  <2>1. PICK w \in Free :
          /\ Begin(w, h)
          /\ \/ turn' = [t EXCEPT !.at = "blocked", !.why = "before", !.on = w]
             \/ turn' = [t EXCEPT !.at = "request"]
    BY <1>1
  <2>2. w \in Workers
    BY DEF Free
  <2>3. /\ turn' \in TurnType /\ turn'.told = "none"
        /\ turn'.at = "blocked" => turn'.on = w
        /\ turn'.at # "blocked" => turn'.on = None
    BY <2>1, <2>2 DEF TurnType
  <2> QED BY ONLY ControlInv, <1>1, <2>1, <2>3, BeginInv
<1>2. CASE /\ UNCHANGED service
           /\ \/ /\ compacting # None
                 /\ turn' = [t EXCEPT !.at = "blocked", !.why = "before", !.on = compacting]
              \/ turn' = [t EXCEPT !.at = "request"]
  <2>1. Shape' /\ OneCompaction'
    BY <1>2 DEF service
  <2>2. compacting # None => Live(compacting)
    OBVIOUS
  <2>3. /\ turn'.told = "none"
        /\ turn'.at = "blocked" => compacting # None /\ turn'.on = compacting
        /\ turn'.at # "blocked" => turn'.on = None
    BY <1>2
  <2>4. WaitsForLive'
    BY <1>2, <2>2, <2>3 DEF service
  <2> QED BY ONLY <2>1, <2>3, <2>4 DEF ControlInv
<1> QED BY <1>1, <1>2 DEF BeforeStep, NeedsCompaction

LEMMA RecoverInv ==
  ASSUME ControlInv, Recover, turn.on = None
  PROVE  ControlInv'
<1> USE NoneAssumption DEF ControlInv, Shape, Fields, TurnType, OneCompaction, WaitsForLive, Live
<1>1. CASE turn' = NoTurn /\ UNCHANGED service
  BY <1>1, NoTurnType DEF service
<1>2. CASE /\ compacting = None
           /\ \E w \in Free :
                /\ Begin(w, history)
                /\ turn' = [turn EXCEPT !.at = "blocked", !.why = "recover", !.on = w,
                                        !.told = "none"]
  <2>1. PICK w \in Free :
          /\ Begin(w, history)
          /\ turn' = [turn EXCEPT !.at = "blocked", !.why = "recover", !.on = w,
                                  !.told = "none"]
    BY <1>2
  <2>2. w \in Workers
    BY DEF Free
  <2>3. /\ turn' \in TurnType /\ turn'.told = "none"
        /\ turn'.at = "blocked" /\ turn'.on = w
    BY <2>1, <2>2
  <2> QED BY ONLY ControlInv, <1>2, <2>1, <2>3, BeginInv
<1>3. CASE /\ compacting # None
           /\ turn' = [turn EXCEPT !.at = "blocked", !.why = "recover", !.on = compacting,
                                   !.told = "none"]
           /\ UNCHANGED service
  BY <1>3 DEF service
<1> QED BY <1>1, <1>2, <1>3 DEF Recover

LEMMA AbortsTurnInv ==
  ASSUME ControlInv, AbortsTurn
  PROVE  ControlInv'
<1> USE NoneAssumption DEF ControlInv, Shape, Fields, TurnType, OneCompaction, WaitsForLive, Live
<1>1. CASE CancelActive /\ turn.at = "blocked" /\ compacting = turn.on
  BY <1>1 DEF AbortsTurn, CancelActive, Orphaned, NoWorker
<1>2. CASE UNCHANGED service
  BY <1>2 DEF AbortsTurn, service
<1> QED BY <1>1, <1>2 DEF AbortsTurn

LEMMA TurnStepInv ==
  ASSUME ControlInv, TurnStep
  PROVE  ControlInv'
<1> USE NoneAssumption DEF ControlInv, Shape, Fields, TurnType, OneCompaction, WaitsForLive, Live
<1>1. CASE StepAnswers
  <2>1. CASE UNCHANGED service
    BY <1>1, <2>1 DEF StepAnswers, service
  <2>2. CASE compacting = None /\ \E w \in Free : Begin(w, history')
    <3>1. PICK w \in Free : Begin(w, history')
      BY <2>2
    <3>2. turn' \in TurnType /\ turn'.told = "none" /\ turn'.at = "between" /\ turn'.on = None
      BY <1>1 DEF StepAnswers
    <3> QED BY ONLY ControlInv, <2>2, <3>1, <3>2, BeginInv
  <2> QED BY <1>1, <2>1, <2>2 DEF StepAnswers, NeedsCompaction
<1>2. CASE StepOverflows \/ WakesToRecover
  BY <1>2, RecoverInv DEF StepOverflows, WakesToRecover, Woken
<1>3. CASE StepFails \/ StepIsAborted \/ TurnEndsItself \/ WakesToEnd
  BY <1>3, NoTurnType DEF StepFails, StepIsAborted, TurnEndsItself, WakesToEnd, service
<1>4. CASE NextStep
  <2>1. turn \in TurnType /\ turn.on = None /\ turn.told = "none"
    BY <1>4 DEF NextStep
  <2> QED BY <1>4, <2>1, BeforeStepInv DEF NextStep
<1>5. CASE WakesToStep
  BY <1>5 DEF WakesToStep, Woken, service
<1>6. CASE WakesToRetry
  <2> DEFINE t == [turn EXCEPT !.told = "none"]
  <2>1. t \in TurnType /\ t.on = None /\ t.told = "none"
    BY <1>6 DEF WakesToRetry, Woken
  <2> QED BY <1>6, <2>1, BeforeStepInv DEF WakesToRetry
<1> QED BY <1>1, <1>2, <1>3, <1>4, <1>5, <1>6 DEF TurnStep

LEMMA UserStepInv ==
  ASSUME ControlInv, UserStep
  PROVE  ControlInv'
<1> USE NoneAssumption DEF ControlInv, Shape, Fields, TurnType, OneCompaction, WaitsForLive, Live
<1>1. CASE BeginManual
  <2>1. PICK w \in Free : Begin(w, history)
    BY <1>1 DEF BeginManual
  <2>2. /\ compacting = None
        /\ turn' \in TurnType /\ turn'.told = "none" /\ turn'.at = "idle" /\ turn'.on = None
    BY <1>1 DEF BeginManual
  <2> QED BY ONLY ControlInv, <2>1, <2>2, BeginInv
<1>2. CASE CancelCompaction
  BY <1>2 DEF CancelCompaction, CancelActive, Orphaned, NoWorker
<1>3. ASSUME NEW kind, NEW prompt \in BOOLEAN, StartTurn(kind, prompt)
      PROVE  ControlInv'
  <2> DEFINE t == [NoTurn EXCEPT !.prompt = prompt]
  <2>1. t \in TurnType /\ t.on = None /\ t.told = "none"
    BY NoTurnType
  <2> QED BY <1>3, <2>1, BeforeStepInv DEF StartTurn
<1>4. CASE CancelTurn \/ Clear
  <2>1. CASE AbortsTurn
    BY <2>1, AbortsTurnInv
  <2>2. CASE UNCHANGED <<turn, service>>
    BY <2>2 DEF service
  <2> QED BY <1>4, <2>1, <2>2 DEF CancelTurn, Clear
<1>5. CASE UndoCuts
  BY <1>5 DEF UndoCuts, service
<1> QED BY <1>1, <1>2, <1>3, <1>4, <1>5 DEF UserStep

LEMMA ControlInvHolds == Spec => []ControlInv
<1> USE NoneAssumption DEF ControlInv, Shape, Fields, TurnType, OneCompaction, WaitsForLive, Live
<1>1. Init => ControlInv
  <2> SUFFICES ASSUME Init PROVE ControlInv
    OBVIOUS
  <2>1. /\ turn \in TurnType /\ turn.at = "idle" /\ turn.on = None /\ turn.told = "none"
        /\ phase = "idle" /\ compacting = None /\ DOMAIN worker = Workers
    BY NoTurnType DEF Init
  <2>2. \A w \in Workers : /\ DOMAIN worker[w] = Fields
                           /\ worker[w].at = "free" /\ worker[w].aborted = FALSE
    BY NoWorkerShape DEF Init
  <2> QED BY <2>1, <2>2
<1>2. ControlInv /\ [Next]_vars => ControlInv'
  <2> SUFFICES ASSUME ControlInv, [Next]_vars PROVE ControlInv'
    OBVIOUS
  <2>1. CASE \E w \in Workers : WorkerStep(w)
    BY <2>1, WorkerStepInv
  <2>2. CASE TurnStep
    BY <2>2, TurnStepInv
  <2>3. CASE UserStep
    BY <2>3, UserStepInv
  <2>4. CASE UndoEnds
    BY <2>4 DEF UndoEnds, service
  <2>5. CASE Crash
    <3>1. /\ turn' \in TurnType /\ turn'.at = "idle" /\ turn'.on = None /\ turn'.told = "none"
          /\ phase' = "idle" /\ compacting' = None /\ DOMAIN worker' = Workers
      BY <2>5, NoTurnType DEF Crash, Normalized
    <3>2. \A w \in Workers : /\ DOMAIN worker'[w] = Fields
                             /\ worker'[w].at = "free" /\ worker'[w].aborted = FALSE
      BY <2>5, NoWorkerShape DEF Crash
    <3> QED BY <3>1, <3>2
  <2>6. CASE UNCHANGED vars
    BY <2>6 DEF vars, service
  <2> QED BY <2>1, <2>2, <2>3, <2>4, <2>5, <2>6 DEF Next
<1> QED BY <1>1, <1>2, PTL DEF Spec

\* The journal says that a compaction runs exactly while the service holds the
\* one worker that is alive and that nobody cancelled, also after a process
\* that ended in the middle of one was restored.
THEOREM OneCompactionHolds == Spec => []OneCompaction
<1>1. ControlInv => OneCompaction
  BY DEF ControlInv
<1> QED BY <1>1, ControlInvHolds, PTL

\* A turn never waits for a compaction that is already over.
THEOREM WaitsForLiveHolds == Spec => []WaitsForLive
<1>1. ControlInv => WaitsForLive
  BY DEF ControlInv
<1> QED BY <1>1, ControlInvHolds, PTL

LEMMA WorkerStepReleases ==
  ASSUME ControlInv, NEW w \in Workers, WorkerStep(w), compacting # w,
         compacting # None
  PROVE  compacting' = compacting
<1> USE DEF ControlInv, OneCompaction, Live
<1>1. Live(w) => worker[w].aborted
  OBVIOUS
<1>2. ASSUME NEW o, Ends(w, o) PROVE compacting' = compacting
  BY <1>2 DEF Ends, Released
<1>3. CASE FindsStale(w)
  BY <1>1, <1>3 DEF FindsStale
<1>4. CASE HooksEnd(w) \/ Applies(w) \/ RequestShrinks(w) \/ RefreshEnds(w)
  BY <1>4 DEF HooksEnd, Applies, RequestShrinks, RefreshEnds
<1>5. CASE RequestIsAborted(w) \/ RequestIsTooLong(w) \/ WorkerThrows(w) \/ InjectEnds(w)
  BY <1>2, <1>5 DEF RequestIsAborted, RequestIsTooLong, WorkerThrows, InjectEnds, Throws
<1> QED BY <1>3, <1>4, <1>5 DEF WorkerStep

\* A worker changes nobody's state but its own and, when it finds the context
\* changed, that of the worker the service holds.
LEMMA WorkerStepFrames ==
  ASSUME ControlInv, NEW w \in Workers, WorkerStep(w), NEW v \in Workers, v # w,
         v # compacting
  PROVE  worker'[v] = worker[v]
<1> USE DEF ControlInv, Shape
<1>1. CASE FindsStale(w)
  BY <1>1 DEF FindsStale
<1>2. CASE HooksEnd(w) \/ Applies(w) \/ RequestShrinks(w) \/ RefreshEnds(w)
  BY <1>2 DEF HooksEnd, Applies, RequestShrinks, RefreshEnds
<1>3. CASE RequestIsAborted(w) \/ RequestIsTooLong(w) \/ WorkerThrows(w) \/ InjectEnds(w)
  BY <1>3 DEF RequestIsAborted, RequestIsTooLong, WorkerThrows, InjectEnds, Throws, Ends
<1> QED BY <1>1, <1>2, <1>3 DEF WorkerStep

\* While the service holds a worker, turns and users touch that one alone.
LEMMA OtherStepFrames ==
  ASSUME ControlInv, compacting # None, TurnStep \/ UserStep \/ UndoEnds,
         NEW v \in Workers, v # compacting
  PROVE  worker'[v] = worker[v]
<1> USE DEF ControlInv, Shape
<1>1. ASSUME NEW t, NEW h, NEW l, BeforeStep(t, h, l) PROVE worker' = worker
  BY <1>1 DEF BeforeStep, NeedsCompaction, service
<1>2. ASSUME Recover PROVE worker' = worker
  BY <1>2 DEF Recover, service
<1>3. ASSUME CancelActive PROVE worker'[v] = worker[v]
  BY <1>3 DEF CancelActive
<1>4. CASE StepAnswers
  BY <1>4 DEF StepAnswers, NeedsCompaction, service
<1>5. CASE StepOverflows \/ WakesToRecover
  BY <1>2, <1>5 DEF StepOverflows, WakesToRecover
<1>6. CASE NextStep \/ WakesToRetry
  BY <1>1, <1>6 DEF NextStep, WakesToRetry
<1>7. CASE StepFails \/ StepIsAborted \/ TurnEndsItself \/ WakesToEnd \/ WakesToStep
  BY <1>7 DEF StepFails, StepIsAborted, TurnEndsItself, WakesToEnd, WakesToStep, service
<1>8. CASE BeginManual \/ UndoCuts \/ UndoEnds
  BY <1>8 DEF BeginManual, UndoCuts, UndoEnds, service
<1>9. CASE \E kind \in {"user", "other"}, prompt \in BOOLEAN : StartTurn(kind, prompt)
  BY <1>1, <1>9 DEF StartTurn
<1>10. CASE CancelCompaction \/ CancelTurn \/ Clear
  BY <1>3, <1>10 DEF CancelCompaction, CancelTurn, Clear, AbortsTurn, service
<1> QED BY <1>4, <1>5, <1>6, <1>7, <1>8, <1>9, <1>10 DEF TurnStep, UserStep

\* A worker that was cancelled ends no compaction but its own: when it returns
\* from its await, the one that the service holds by then goes on.
THEOREM StaleIsHarmlessHolds == Spec => StaleIsHarmless
<1>1. ControlInv /\ [Next]_vars =>
        [\A w \in Workers :
          Live(w) /\ worker'[w] # worker[w] /\ compacting \notin {None, w} /\ ~Crash
            => compacting' = compacting]_vars
  <2> SUFFICES ASSUME ControlInv, Next, NEW v \in Workers,
                      worker'[v] # worker[v], compacting \notin {None, v}, ~Crash
               PROVE  compacting' = compacting
    OBVIOUS
  <2>1. ASSUME NEW w \in Workers, WorkerStep(w) PROVE compacting' = compacting
    <3>1. w = v
      BY <2>1, WorkerStepFrames
    <3> QED BY <2>1, <3>1, WorkerStepReleases
  <2>2. CASE TurnStep \/ UserStep \/ UndoEnds
    BY <2>2, OtherStepFrames
  <2> QED BY <2>1, <2>2 DEF Next
<1> QED BY <1>1, ControlInvHolds, PTL DEF Spec, StaleIsHarmless

\* A turn is told "done" only by the worker it waits for, as that one lets go
\* of the service that still held it.
THEOREM DoneIsJournaledHolds == Spec => DoneIsJournaled
<1>1. ControlInv /\ [Next]_vars =>
        [turn.told # "done" /\ turn'.told = "done" =>
          compacting = turn.on /\ compacting' = None]_vars
  <2> SUFFICES ASSUME ControlInv, Next, turn.told # "done", turn'.told = "done"
               PROVE  compacting = turn.on /\ compacting' = None
    OBVIOUS
  <2> USE DEF ControlInv, Shape, TurnType
  <2>1. ASSUME NEW w \in Workers, WorkerStep(w)
        PROVE  compacting = turn.on /\ compacting' = None
    <3>1. ASSUME NEW o \in {"cancelled", "failed", "overflow"}, Ends(w, o) PROVE FALSE
      BY <3>1 DEF Ends
    <3>2. CASE InjectEnds(w)
      BY <3>2 DEF InjectEnds, Ends, Outcome, Released
    <3>3. CASE RequestIsAborted(w) \/ RequestIsTooLong(w) \/ WorkerThrows(w)
      <4>1. \E o \in {"cancelled", "failed", "overflow"} : Ends(w, o)
        BY <3>3 DEF RequestIsAborted, RequestIsTooLong, WorkerThrows, Throws
      <4> QED BY <3>1, <4>1
    <3>4. CASE HooksEnd(w) \/ Applies(w) \/ RequestShrinks(w) \/ RefreshEnds(w)
      BY <3>4 DEF HooksEnd, Applies, RequestShrinks, RefreshEnds
    <3>5. CASE FindsStale(w)
      BY <3>5 DEF FindsStale
    <3> QED BY <2>1, <3>2, <3>3, <3>4, <3>5 DEF WorkerStep
  <2>2. ASSUME NEW t \in TurnType, t.told = "none", NEW h, NEW l, BeforeStep(t, h, l)
        PROVE  FALSE
    <3>1. \E v : turn' \in {[t EXCEPT !.at = "request"],
                           [t EXCEPT !.at = "blocked", !.why = "before", !.on = v]}
      BY <2>2 DEF BeforeStep
    <3> QED BY <2>2, <3>1
  <2>3. ASSUME Recover PROVE FALSE
    <3>1. \/ turn' = NoTurn
          \/ \E v : turn' = [turn EXCEPT !.at = "blocked", !.why = "recover", !.on = v,
                                        !.told = "none"]
      BY <2>3 DEF Recover
    <3> QED BY <3>1, NoTurnType
  <2>4. CASE TurnStep
    <3>1. CASE StepAnswers \/ StepFails \/ StepIsAborted \/ TurnEndsItself \/ WakesToEnd
               \/ WakesToStep
      BY <3>1, NoTurnType DEF StepAnswers, StepFails, StepIsAborted, TurnEndsItself,
           WakesToEnd, WakesToStep
    <3>2. CASE StepOverflows \/ WakesToRecover
      BY <2>3, <3>2 DEF StepOverflows, WakesToRecover
    <3>3. CASE NextStep
      BY <2>2, <3>3 DEF NextStep
    <3>4. CASE WakesToRetry
      BY <3>4 DEF WakesToRetry, Woken
    <3> QED BY <2>4, <3>1, <3>2, <3>3, <3>4 DEF TurnStep
  <2>5. CASE UserStep
    <3>1. ASSUME NEW kind, NEW prompt \in BOOLEAN, StartTurn(kind, prompt) PROVE FALSE
      BY <2>2, <3>1, NoTurnType DEF StartTurn
    <3>2. CASE BeginManual \/ CancelCompaction \/ CancelTurn \/ Clear \/ UndoCuts
      BY <3>2 DEF BeginManual, CancelCompaction, CancelTurn, Clear, AbortsTurn, UndoCuts
    <3> QED BY <2>5, <3>1, <3>2 DEF UserStep
  <2>6. CASE UndoEnds \/ Crash
    BY <2>6, NoTurnType DEF UndoEnds, Crash
  <2> QED BY <2>1, <2>4, <2>5, <2>6 DEF Next
<1> QED BY <1>1, ControlInvHolds, PTL DEF Spec, DoneIsJournaled

-----------------------------------------------------------------------------
\* The context.

WorkerType ==
  [at : {"free", "hooks", "request", "refresh", "inject"}, aborted : BOOLEAN,
   snap : Seq(Message), from : Nat \ {0}, shrinks : 0 .. MaxShrinks, size : Nat]

\* What is owed is in the context; a user's message stands for itself.
HistoryInv ==
  /\ history \in Seq(Message) /\ next \in 1 .. MaxMessages + 1
  /\ owed \subseteq 1 .. next - 1
  /\ \A m \in Range(history) : IsRealUserInput(m) => m.id \in m.covers
  /\ NothingLost

\* A turn that has not given up has attempts left.
AttemptsInv ==
  /\ worker \in [Workers -> WorkerType]
  /\ last \in Nat \cup {None}
  /\ overflows \in 0 .. MaxOverflowAttempts + 1
  /\ turn.at # "idle" => overflows <= MaxOverflowAttempts
  /\ lease \in BOOLEAN

LEMMA RangeIsToSet == \A s : Range(s) = ToSet(s)
  BY DEF Range, ToSet

\* The user messages that stay, and the note on those that do not, cover every
\* user message there was; and nobody becomes a user who was not.
LEMMA KeptProps ==
  ASSUME NEW h \in Seq(Message)
  PROVE  /\ Kept(h) \in Seq(Message)
         /\ \A m \in Range(h) : IsRealUserInput(m) => m.covers \subseteq Covered(Kept(h))
         /\ \A m \in Range(Kept(h)) : IsRealUserInput(m) => m \in Range(h)
<1> DEFINE K == {i \in DOMAIN h : IsRealUserInput(h[i])}
           users == Subsequence(h, K)
           n == Len(users)
           tail == n - (KeepMax - HeadMax)
           older == SubSeq(users, 1, HeadMax)
           middle == SubSeq(users, HeadMax + 1, tail)
           recent == SubSeq(users, tail + 1, n)
           note == <<Elision(Covered(middle))>>
<1>1. /\ users \in Seq(Message) /\ n \in Nat /\ DOMAIN users = 1 .. n
      /\ ToSet(users) = {h[k] : k \in K}
  <2>1. K \in SUBSET (DOMAIN h)
    OBVIOUS
  <2> HIDE DEF K
  <2> QED BY <2>1, SubsequenceProps
<1>2. \A m : m \in ToSet(users) <=> m \in Range(h) /\ IsRealUserInput(m)
  BY <1>1 DEF Range
<1>3. CASE n <= KeepMax
  <2>1. Kept(h) = users
    BY <1>3 DEF Kept
  <2> HIDE DEF users
  <2> QED BY <1>1, <1>2, <2>1, RangeIsToSet DEF Covered
<1>4. CASE ~ (n <= KeepMax)
  <2>1. Kept(h) = (older \o note) \o recent
    BY <1>4 DEF Kept
  <2>2. /\ tail \in Nat /\ HeadMax \in Nat /\ HeadMax <= n /\ tail <= n
        /\ HeadMax + 1 \in Nat \ {0} /\ tail + 1 \in Nat \ {0} /\ 1 \in Nat \ {0}
        /\ \A i \in 1 .. n : i \in 1 .. HeadMax \/ i \in HeadMax + 1 .. tail \/ i \in tail + 1 .. n
        /\ 1 .. HeadMax \subseteq 1 .. n /\ tail + 1 .. n \subseteq 1 .. n
    <3> HIDE DEF users, n
    <3>1. n \in Nat /\ KeepMax \in Nat /\ HeadMax \in Nat /\ HeadMax <= KeepMax /\ KeepMax < n
      BY <1>1, <1>4, BoundsAssumption
    <3>2. tail \in Nat /\ tail <= n /\ HeadMax <= n
      BY <3>1
    <3> HIDE DEF tail
    <3> QED BY <3>1, <3>2
  <2> HIDE DEF users, n, tail
  <2>3. n = Len(users)
    BY DEF n
  <2>4. /\ older \in Seq(Message) /\ ToSet(older) = {users[k] : k \in 1 .. HeadMax}
        /\ middle \in Seq(Message) /\ ToSet(middle) = {users[k] : k \in HeadMax + 1 .. tail}
        /\ recent \in Seq(Message) /\ ToSet(recent) = {users[k] : k \in tail + 1 .. n}
    BY <1>1, <2>2, <2>3, SubSeqProps
  <2> HIDE DEF older, middle, recent
  <2>5. Covered(middle) \subseteq 1 .. MaxMessages
    <3>1. \A m \in ToSet(middle) : m \in Message
      BY <2>4 DEF ToSet
    <3> QED BY <3>1, RangeIsToSet DEF Covered, Message
  <2>6. /\ Elision(Covered(middle)) \in Message
        /\ Elision(Covered(middle)).covers = Covered(middle)
        /\ ~ IsRealUserInput(Elision(Covered(middle)))
    BY <2>5, BoundsAssumption DEF Elision, Message, IsRealUserInput
  <2>7. note \in Seq(Message) /\ ToSet(note) = {Elision(Covered(middle))}
    BY <2>6 DEF ToSet
  <2> HIDE DEF note
  <2>8. /\ Kept(h) \in Seq(Message)
        /\ ToSet(Kept(h)) = ToSet(older) \cup ToSet(note) \cup ToSet(recent)
    <3> DEFINE front == older \o note
    <3>1. front \in Seq(Message) /\ ToSet(front) = ToSet(older) \cup ToSet(note)
      BY <2>4, <2>7, ConcatProps
    <3>2. Kept(h) = front \o recent
      BY <2>1
    <3> HIDE DEF front
    <3>3. recent \in Seq(Message)
      BY <2>4
    <3>4. front \o recent \in Seq(Message) /\ ToSet(front \o recent) = ToSet(front) \cup ToSet(recent)
      BY <3>1, <3>3, ConcatProps
    <3> QED BY <3>1, <3>2, <3>4
  <2>9. ASSUME NEW m \in Range(h), IsRealUserInput(m)
        PROVE  m.covers \subseteq Covered(Kept(h))
    <3>1. PICK i \in 1 .. n : m = users[i]
      BY <1>1, <1>2, <2>9 DEF ToSet
    <3>2. CASE i \in 1 .. HeadMax \/ i \in tail + 1 .. n
      <4>1. m \in ToSet(Kept(h))
        BY <2>4, <2>8, <3>1, <3>2
      <4> QED BY <4>1, RangeIsToSet DEF Covered
    <3>3. CASE i \in HeadMax + 1 .. tail
      <4>1. m \in ToSet(middle)
        BY <2>4, <3>1, <3>3
      <4>2. m.covers \subseteq Covered(middle)
        BY <4>1, RangeIsToSet DEF Covered
      <4>3. Elision(Covered(middle)) \in ToSet(Kept(h))
        BY <2>7, <2>8
      <4>4. Covered(middle) \subseteq Covered(Kept(h))
        BY <2>6, <4>3, RangeIsToSet DEF Covered
      <4> QED BY <4>2, <4>4
    <3> QED BY <2>2, <3>2, <3>3
  <2>10. ASSUME NEW m \in Range(Kept(h)), IsRealUserInput(m) PROVE m \in Range(h)
    <3>1. m \in ToSet(older) \/ m \in ToSet(recent)
      BY <2>6, <2>7, <2>8, <2>10, RangeIsToSet
    <3>2. m \in ToSet(users)
      BY <1>1, <2>2, <2>4, <3>1 DEF ToSet
    <3> QED BY <1>2, <3>2
  <2> QED BY <2>8, <2>9, <2>10
<1> QED BY <1>3, <1>4

\* A history that is cut or appended to keeps what it had.
LEMMA CoveredProps ==
  ASSUME NEW h \in Seq(Message), NEW m \in Message
  PROVE  /\ Append(h, m) \in Seq(Message)
         /\ Range(Append(h, m)) = Range(h) \cup {m}
         /\ Covered(Append(h, m)) = Covered(h) \cup m.covers
<1>1. Append(h, m) \in Seq(Message) /\ Range(Append(h, m)) = Range(h) \cup {m}
  BY AppendProps, RangeIsToSet
<1> QED BY <1>1 DEF Covered

\* What a summary over a history that only grew by user input stands for.
LEMMA AppliesHistoryInv ==
  ASSUME HistoryInv, AttemptsInv, NEW w \in Workers, Applies(w)
  PROVE  HistoryInv'
<1> DEFINE original == worker[w].snap
           k == worker[w].from
           before == SubSeq(original, 1, k - 1)
           after == From(original, k)
           kept == Kept(history)
           summary == Summary(Covered(after))
<1>1. /\ original \in Seq(Message) /\ k \in Nat \ {0}
      /\ history \in Seq(Message)
  BY DEF AttemptsInv, WorkerType, HistoryInv
<1>2. /\ HistorySafeToCompact(history, original)
      /\ history' = kept \o <<summary>>
      /\ owed' = owed \ (Covered(before) \ Verbatim(history))
      /\ next' = next
  BY DEF Applies, Compacted
<1>3. /\ kept \in Seq(Message)
      /\ \A m \in Range(history) : IsRealUserInput(m) => m.covers \subseteq Covered(kept)
      /\ \A m \in Range(kept) : IsRealUserInput(m) => m \in Range(history)
  BY <1>1, KeptProps
<1> HIDE DEF kept
<1>4. Covered(after) \subseteq 1 .. MaxMessages
  <2>1. \A m \in Range(after) : m \in Message
    BY <1>1 DEF From, Range
  <2> HIDE DEF after
  <2> QED BY <2>1 DEF Covered, Message
<1>5. /\ summary \in Message /\ summary.covers = Covered(after)
      /\ ~ IsRealUserInput(summary)
  BY <1>4, BoundsAssumption DEF Summary, Message, IsRealUserInput
<1> HIDE DEF summary
<1>6. history' = Append(kept, summary)
  BY <1>2, <1>3
<1>7. /\ history' \in Seq(Message)
      /\ Range(history') = Range(kept) \cup {summary}
      /\ Covered(history') = Covered(kept) \cup Covered(after)
  BY <1>3, <1>5, <1>6, CoveredProps
<1>8. ASSUME NEW x \in owed' PROVE x \in Covered(history')
  <2>1. x \in owed /\ (x \in Covered(before) => x \in Verbatim(history))
    BY <1>2
  <2>2. PICK i \in DOMAIN history : x \in history[i].covers
    BY <2>1 DEF HistoryInv, NothingLost, Covered, Range
  <2>3. CASE x \in Verbatim(history)
    <3>1. PICK m \in Range(history) : IsRealUserInput(m) /\ x = m.id
      BY <2>3 DEF Verbatim
    <3>2. x \in m.covers
      BY <3>1 DEF HistoryInv
    <3> QED BY <1>3, <1>7, <3>1, <3>2
  <2>4. CASE x \notin Verbatim(history)
    <3>1. x \notin Covered(before)
      BY <2>1, <2>4
    <3>2. CASE i > Len(original)
      <4>1. IsRealUserInput(history[i]) /\ history[i] \in Range(history)
        BY <1>1, <1>2, <2>2, <3>2, SMTT(30) DEF HistorySafeToCompact, Range
      <4> QED BY <1>3, <1>7, <2>2, <4>1
    <3>3. CASE i <= Len(original)
      <4>1. /\ i \in 1 .. Len(original) /\ Len(original) \in Nat
            /\ Len(original) <= Len(history)
        BY <1>1, <1>2, <2>2, <3>3 DEF HistorySafeToCompact
      <4>2. history[i] = original[i]
        <5>1. original = SubSeq(history, 1, Len(original))
          BY <1>2 DEF HistorySafeToCompact
        <5>2. \A l \in Nat : l <= Len(history) =>
                \A j \in 1 .. l : SubSeq(history, 1, l)[j] = history[j]
          BY <1>1
        <5>3. SubSeq(history, 1, Len(original))[i] = history[i]
          BY <4>1, <5>2
        <5> QED BY <5>1, <5>3
      <4>3. CASE i < k
        <5>1. k - 1 \in Nat /\ (k - 1 <= Len(original) => i \in 1 .. (k - 1))
          BY <1>1, <4>1, <4>3
        <5>2. original[i] \in Range(before)
          BY <1>1, <4>1, <4>3 DEF Range
        <5> QED BY <2>2, <3>1, <4>2, <5>2 DEF Covered
      <4>4. CASE i >= k
        <5>1. Len(original) <= Len(original) /\ i \in k .. Len(original)
          BY <1>1, <4>1, <4>4
        <5>2. ToSet(SubSeq(original, k, Len(original))) = {original[j] : j \in k .. Len(original)}
          <6> HIDE DEF original, k
          <6> QED BY <1>1, <4>1, <5>1, SubSeqProps
        <5>3. original[i] \in Range(after)
          BY <5>1, <5>2, RangeIsToSet DEF From
        <5> QED BY <1>7, <2>2, <4>2, <5>3 DEF Covered
      <4> QED BY <1>1, <4>1, <4>3, <4>4
    <3> QED BY <1>1, <2>2, <3>2, <3>3
  <2> QED BY <2>3, <2>4
<1>9. \A m \in Range(history') : IsRealUserInput(m) => m.id \in m.covers
  BY <1>3, <1>5, <1>7 DEF HistoryInv
<1>10. next' \in 1 .. MaxMessages + 1 /\ owed' \subseteq 1 .. next' - 1
  BY <1>2 DEF HistoryInv
<1> QED BY <1>7, <1>8, <1>9, <1>10 DEF HistoryInv, NothingLost

LEMMA SaysHistoryInv ==
  ASSUME HistoryInv, NEW kind \in {"user", "other"}, Says(kind)
  PROVE  HistoryInv'
<1> DEFINE m == Said(next, kind)
<1>1. next \in 1 .. MaxMessages /\ MaxMessages \in Nat
  BY BoundsAssumption DEF Says, CanAppend, HistoryInv
<1>2. m \in Message /\ m.id = next /\ m.covers = {next}
  BY <1>1 DEF Said, Message
<1>3. history' = Append(history, m) /\ next' = next + 1 /\ owed' = owed \cup {next}
  BY DEF Says
<1> HIDE DEF m
<1>4. /\ history' \in Seq(Message)
      /\ Range(history') = Range(history) \cup {m}
      /\ Covered(history') = Covered(history) \cup m.covers
  BY <1>2, <1>3, CoveredProps DEF HistoryInv
<1>5. next' \in 1 .. MaxMessages + 1 /\ owed' \subseteq 1 .. next' - 1
  BY <1>1, <1>3 DEF HistoryInv
<1>6. \A n \in Range(history') : IsRealUserInput(n) => n.id \in n.covers
  BY <1>2, <1>4 DEF HistoryInv
<1> QED BY <1>2, <1>3, <1>4, <1>5, <1>6 DEF HistoryInv, NothingLost

LEMMA ContextHistoryInv ==
  ASSUME HistoryInv, UNCHANGED context
  PROVE  HistoryInv'
  BY DEF HistoryInv, NothingLost, context

LEMMA ClearHistoryInv ==
  ASSUME HistoryInv, Clear
  PROVE  HistoryInv'
<1>1. history' = <<>> /\ owed' = {} /\ next' = next
  BY DEF Clear
<1>2. history' \in Seq(Message) /\ Range(history') = {}
  BY <1>1 DEF Range
<1> QED BY <1>1, <1>2 DEF HistoryInv, NothingLost

\* What undo cuts away is no longer owed, and the rest stays where it was.
LEMMA UndoHistoryInv ==
  ASSUME HistoryInv, UndoCuts
  PROVE  HistoryInv'
<1>1. PICK i \in UndoAnchors(history) :
        /\ history' = SubSeq(history, 1, i - 1)
        /\ owed' = owed \ Covered(From(history, i))
  BY DEF UndoCuts
<1>2. next' = next
  BY DEF UndoCuts
<1>3. history \in Seq(Message) /\ i \in 1 .. Len(history) /\ Len(history) \in Nat
  BY DEF UndoAnchors, HistoryInv
<1>4. /\ 1 \in Nat \ {0} /\ i \in Nat \ {0} /\ i - 1 \in Nat
      /\ i - 1 <= Len(history) /\ Len(history) <= Len(history)
      /\ \A j \in DOMAIN history : j \in 1 .. (i - 1) \/ j \in i .. Len(history)
  BY <1>3
<1> DEFINE front == SubSeq(history, 1, i - 1)
           rest == SubSeq(history, i, Len(history))
<1>5. front \in Seq(Message) /\ ToSet(front) = {history[j] : j \in 1 .. (i - 1)}
  BY <1>3, <1>4, SubSeqProps
<1>6. ToSet(rest) = {history[j] : j \in i .. Len(history)}
  BY <1>3, <1>4, SubSeqProps
<1> HIDE DEF front, rest
<1>7. history' = front /\ owed' = owed \ Covered(rest)
  BY <1>1 DEF front, rest, From
<1>8. \A m \in Range(history) : m \in ToSet(front) \/ m \in ToSet(rest)
  BY <1>4, <1>5, <1>6 DEF Range
<1>9. ToSet(front) \subseteq Range(history)
  BY <1>3, <1>4, <1>5 DEF Range
<1>10. owed' \subseteq Covered(front)
  BY <1>7, <1>8, RangeIsToSet DEF HistoryInv, NothingLost, Covered
<1> QED BY <1>2, <1>5, <1>7, <1>9, <1>10, RangeIsToSet DEF HistoryInv, NothingLost

LEMMA HistoryInvStep ==
  ASSUME HistoryInv, AttemptsInv, [Next]_vars
  PROVE  HistoryInv'
<1>1. ASSUME NEW kind \in {"user", "other"}, Says(kind) PROVE HistoryInv'
  BY <1>1, SaysHistoryInv
<1>2. CASE UNCHANGED context
  BY <1>2, ContextHistoryInv
<1>3. CASE UNCHANGED vars
  BY <1>2, <1>3 DEF vars
<1>4. ASSUME NEW w \in Workers, WorkerStep(w) PROVE HistoryInv'
  <2>1. CASE Applies(w)
    BY <2>1, AppliesHistoryInv
  <2>2. CASE InjectEnds(w)
    BY <1>1, <1>2, <2>2 DEF InjectEnds
  <2>3. CASE HooksEnd(w) \/ RequestIsAborted(w) \/ FindsStale(w) \/ RequestShrinks(w)
             \/ RequestIsTooLong(w) \/ WorkerThrows(w) \/ RefreshEnds(w)
    BY <1>2, <2>3 DEF HooksEnd, RequestIsAborted, FindsStale, RequestShrinks,
         RequestIsTooLong, WorkerThrows, RefreshEnds
  <2> QED BY <1>4, <2>1, <2>2, <2>3 DEF WorkerStep
<1>5. CASE TurnStep
  <2>1. CASE StepAnswers
    BY <1>1, <1>2, <2>1 DEF StepAnswers
  <2>2. CASE StepIsAborted \/ NextStep
    BY <1>1, <1>2, <2>2 DEF StepIsAborted, NextStep
  <2>3. CASE StepOverflows \/ StepFails \/ TurnEndsItself \/ WakesToStep
             \/ WakesToRetry \/ WakesToRecover \/ WakesToEnd
    BY <1>2, <2>3 DEF StepOverflows, StepFails, TurnEndsItself, WakesToStep,
         WakesToRetry, WakesToRecover, WakesToEnd
  <2> QED BY <1>5, <2>1, <2>2, <2>3 DEF TurnStep
<1>6. CASE UserStep
  <2>1. ASSUME NEW kind \in {"user", "other"}, NEW prompt \in BOOLEAN, StartTurn(kind, prompt)
        PROVE  HistoryInv'
    BY <1>1, <2>1 DEF StartTurn
  <2>2. CASE Clear \/ UndoCuts
    BY <2>2, ClearHistoryInv, UndoHistoryInv
  <2>3. CASE BeginManual \/ CancelCompaction \/ CancelTurn
    BY <1>2, <2>3 DEF BeginManual, CancelCompaction, CancelTurn
  <2> QED BY <1>6, <2>1, <2>2, <2>3 DEF UserStep
<1>7. CASE UndoEnds \/ Crash
  BY <1>2, <1>7 DEF UndoEnds, Crash
<1> QED BY <1>3, <1>4, <1>5, <1>6, <1>7 DEF Next

LEMMA WorkerTypes ==
  /\ NoWorker \in WorkerType
  /\ \A h \in Seq(Message) : [NoWorker EXCEPT !.at = "hooks", !.snap = h] \in WorkerType
<1>1. <<>> \in Seq(Message) /\ 0 \in 0 .. MaxShrinks /\ 0 \in Nat /\ 1 \in Nat \ {0}
  BY BoundsAssumption
<1>2. NoWorker \in WorkerType
  BY <1>1 DEF NoWorker, WorkerType
<1>3. ASSUME NEW h \in Seq(Message)
      PROVE  [NoWorker EXCEPT !.at = "hooks", !.snap = h] \in WorkerType
  BY <1>2 DEF WorkerType
<1> QED BY <1>2, <1>3

LEMMA OrphanedType == \A v \in WorkerType : Orphaned(v) \in WorkerType
  BY WorkerTypes DEF Orphaned, WorkerType

\* What turns and users do to workers: they start one over the context as it
\* is, or cancel the one the service holds.
LEMMA OtherWorkerTypes ==
  ASSUME HistoryInv, HistoryInv', AttemptsInv, TurnStep \/ UserStep \/ UndoEnds \/ Crash
  PROVE  worker' \in [Workers -> WorkerType]
<1> USE DEF AttemptsInv
<1>1. history \in Seq(Message) /\ history' \in Seq(Message)
  BY DEF HistoryInv
<1>2. ASSUME NEW h \in Seq(Message), NEW w \in Free, Begin(w, h)
      PROVE  worker' \in [Workers -> WorkerType]
  BY <1>2, WorkerTypes DEF Begin
<1>3. ASSUME CancelActive PROVE worker' \in [Workers -> WorkerType]
  BY <1>3, OrphanedType DEF CancelActive
<1>4. ASSUME NEW t, NEW h \in Seq(Message), NEW l, BeforeStep(t, h, l)
      PROVE  worker' \in [Workers -> WorkerType]
  BY <1>2, <1>4 DEF BeforeStep, service
<1>5. ASSUME Recover PROVE worker' \in [Workers -> WorkerType]
  BY <1>1, <1>2, <1>5 DEF Recover, service
<1>6. CASE StepAnswers
  BY <1>1, <1>2, <1>6 DEF StepAnswers, service
<1>7. CASE StepOverflows \/ WakesToRecover
  BY <1>5, <1>7 DEF StepOverflows, WakesToRecover
<1>8. CASE NextStep \/ WakesToRetry
  BY <1>1, <1>4, <1>8 DEF NextStep, WakesToRetry
<1>9. CASE StepFails \/ StepIsAborted \/ TurnEndsItself \/ WakesToEnd \/ WakesToStep
  BY <1>9 DEF StepFails, StepIsAborted, TurnEndsItself, WakesToEnd, WakesToStep, service
<1>10. CASE UndoCuts \/ UndoEnds
  BY <1>10 DEF UndoCuts, UndoEnds, service
<1>11. CASE BeginManual
  BY <1>1, <1>2, <1>11 DEF BeginManual
<1>12. CASE \E kind \in {"user", "other"}, prompt \in BOOLEAN : StartTurn(kind, prompt)
  BY <1>1, <1>4, <1>12 DEF StartTurn
<1>13. CASE CancelCompaction \/ CancelTurn \/ Clear
  BY <1>3, <1>13 DEF CancelCompaction, CancelTurn, Clear, AbortsTurn, service
<1>14. CASE Crash
  BY <1>14, WorkerTypes DEF Crash
<1> QED BY <1>6, <1>7, <1>8, <1>9, <1>10, <1>11, <1>12, <1>13, <1>14 DEF TurnStep, UserStep

LEMMA WorkerStepTypes ==
  ASSUME HistoryInv', AttemptsInv, NEW w \in Workers, WorkerStep(w)
  PROVE  worker' \in [Workers -> WorkerType]
<1> USE DEF AttemptsInv
<1>1. CASE HooksEnd(w)
  BY <1>1 DEF HooksEnd, WorkerType
<1>2. CASE Applies(w)
  <2>1. Len(history') \in Nat /\ <<>> \in Seq(Message)
    BY DEF HistoryInv
  <2>2. [worker[w] EXCEPT !.at = "refresh", !.snap = <<>>, !.size = Len(history')] \in WorkerType
    BY <2>1 DEF WorkerType
  <2>3. worker' = [worker EXCEPT ![w] = [worker[w] EXCEPT !.at = "refresh", !.snap = <<>>,
                                                          !.size = Len(history')]]
    BY <1>2 DEF Applies
  <2> QED BY <2>2, <2>3
<1>3. CASE FindsStale(w)
  BY <1>3, WorkerTypes, OrphanedType DEF FindsStale
<1>4. CASE RequestShrinks(w)
  <2>1. PICK k \in worker[w].from + 1 .. Len(worker[w].snap) + 1 :
          worker' = [worker EXCEPT ![w].from = k, ![w].shrinks = @ + 1]
    BY <1>4 DEF RequestShrinks
  <2>2. k \in Nat \ {0}
    BY DEF WorkerType
  <2>3. worker[w].shrinks + 1 \in 0 .. MaxShrinks
    BY <1>4, BoundsAssumption, SMTT(30) DEF RequestShrinks, MayShrink, WorkerType
  <2> QED BY <2>1, <2>2, <2>3 DEF WorkerType
<1>5. CASE RefreshEnds(w)
  BY <1>5 DEF RefreshEnds, WorkerType
<1>6. CASE RequestIsAborted(w) \/ RequestIsTooLong(w) \/ WorkerThrows(w) \/ InjectEnds(w)
  BY <1>6, WorkerTypes DEF RequestIsAborted, RequestIsTooLong, WorkerThrows, InjectEnds,
       Throws, Ends
<1> QED BY <1>1, <1>2, <1>3, <1>4, <1>5, <1>6 DEF WorkerStep

LEMMA AttemptsInvStep ==
  ASSUME ControlInv, HistoryInv, HistoryInv', AttemptsInv, [Next]_vars
  PROVE  AttemptsInv'
<1> DEFINE Counted ==
      /\ overflows \in 0 .. MaxOverflowAttempts + 1
      /\ turn.at # "idle" => overflows <= MaxOverflowAttempts
<1> USE BoundsAssumption
<1>1. worker' \in [Workers -> WorkerType]
  BY OtherWorkerTypes, WorkerStepTypes DEF Next, vars, service, AttemptsInv
<1>2. Len(history) \in Nat /\ Len(history') \in Nat
  BY DEF HistoryInv
<1>3. ASSUME NEW w \in Workers, WorkerStep(w)
      PROVE  last' \in Nat \cup {None} /\ lease' \in BOOLEAN /\ Counted'
  <2>1. turn' = turn \/ (turn.on = w /\ turn'.at = turn.at)
    BY <1>3 DEF WorkerStep, HooksEnd, RequestIsAborted, Applies, FindsStale, RequestShrinks,
       RequestIsTooLong, WorkerThrows, RefreshEnds, InjectEnds, Throws, Ends, ControlInv,
       Shape, TurnType
  <2>2. overflows' = overflows /\ lease' = lease
    BY <1>3 DEF WorkerStep, HooksEnd, RequestIsAborted, Applies, FindsStale, RequestShrinks,
       RequestIsTooLong, WorkerThrows, RefreshEnds, InjectEnds
  <2>3. last' \in {last, worker[w].size, Len(history')}
    BY <1>3 DEF WorkerStep, HooksEnd, RequestIsAborted, Applies, FindsStale, RequestShrinks,
       RequestIsTooLong, WorkerThrows, RefreshEnds, InjectEnds
  <2> QED BY <1>2, <2>1, <2>2, <2>3 DEF AttemptsInv, WorkerType
<1>4. ASSUME NEW t, t \in TurnType, NEW h, NEW l, BeforeStep(t, h, l) PROVE turn'.at # "idle"
  BY <1>4 DEF BeforeStep, TurnType
<1>5. ASSUME Recover, turn.at # "idle" PROVE Counted'
  <2>1. overflows \in 0 .. MaxOverflowAttempts
    BY <1>5 DEF AttemptsInv
  <2>2. CASE overflows + 1 <= MaxOverflowAttempts
    <3>1. overflows' = overflows + 1
      BY <1>5 DEF Recover, Attempts
    <3>2. overflows + 1 \in 0 .. MaxOverflowAttempts + 1
      BY <2>1
    <3> QED BY <2>2, <3>1, <3>2
  <2>3. CASE overflows + 1 > MaxOverflowAttempts
    BY <1>5, <2>1, <2>3, NoTurnType DEF Recover, Attempts
  <2> QED BY <2>1, <2>2, <2>3
<1>6. CASE TurnStep
  <2>1. last' = last /\ lease' = lease
    BY <1>6 DEF TurnStep, StepAnswers, StepOverflows, StepFails, StepIsAborted,
       TurnEndsItself, NextStep, WakesToStep, WakesToRetry, WakesToRecover, WakesToEnd
  <2>2. Counted'
    <3>1. CASE StepOverflows \/ WakesToRecover
      BY <1>5, <3>1 DEF StepOverflows, WakesToRecover, Woken
    <3>2. CASE StepAnswers
      BY <3>2 DEF StepAnswers
    <3>3. CASE StepFails \/ StepIsAborted \/ TurnEndsItself \/ NextStep \/ WakesToStep
               \/ WakesToRetry \/ WakesToEnd
      <4>1. overflows' = overflows
        BY <3>3 DEF StepFails, StepIsAborted, TurnEndsItself, NextStep, WakesToStep,
             WakesToRetry, WakesToEnd
      <4>2. turn'.at = "idle" \/ turn.at # "idle"
        BY <3>3, NoTurnType DEF StepFails, StepIsAborted, TurnEndsItself, NextStep,
             WakesToStep, WakesToRetry, WakesToEnd, Woken
      <4> QED BY <4>1, <4>2 DEF AttemptsInv
    <3> QED BY <1>6, <3>1, <3>2, <3>3 DEF TurnStep
  <2> QED BY <1>1, <2>1, <2>2 DEF AttemptsInv
<1>7. CASE UserStep
  <2>1. CASE \E kind \in {"user", "other"}, prompt \in BOOLEAN : StartTurn(kind, prompt)
    BY <1>1, <2>1 DEF StartTurn, AttemptsInv
  <2>2. CASE BeginManual \/ CancelCompaction \/ CancelTurn \/ Clear \/ UndoCuts
    <3>1. overflows' = overflows /\ last' = last /\ lease' \in {lease, TRUE}
      BY <2>2 DEF BeginManual, CancelCompaction, CancelTurn, Clear, UndoCuts
    <3>2. turn'.at = turn.at
      BY <2>2 DEF BeginManual, CancelCompaction, CancelTurn, Clear, UndoCuts, AbortsTurn,
           ControlInv, Shape, TurnType
    <3> QED BY <1>1, <3>1, <3>2 DEF AttemptsInv
  <2> QED BY <1>7, <2>1, <2>2 DEF UserStep
<1>8. CASE UndoEnds \/ Crash
  <2>1. 0 \in 0 .. MaxOverflowAttempts + 1
    OBVIOUS
  <2> QED BY <1>1, <1>8, <2>1, NoTurnType DEF UndoEnds, Crash, AttemptsInv
<1>9. CASE UNCHANGED vars
  BY <1>1, <1>9 DEF vars, AttemptsInv
<1> QED BY <1>1, <1>3, <1>6, <1>7, <1>8, <1>9 DEF Next, AttemptsInv

LEMMA ContextInvHolds == Spec => [](ControlInv /\ HistoryInv /\ AttemptsInv)
<1>1. Init => HistoryInv
  <2> SUFFICES ASSUME Init PROVE HistoryInv
    OBVIOUS
  <2>1. <<>> \in Seq(Message) /\ Range(<<>>) = {}
    BY DEF Range
  <2> QED BY <2>1, BoundsAssumption DEF Init, HistoryInv, NothingLost
<1>2. Init => AttemptsInv
  <2>1. 0 \in 0 .. MaxOverflowAttempts + 1
    BY BoundsAssumption
  <2> QED BY <2>1, WorkerTypes, NoTurnType DEF Init, AttemptsInv
<1>3. ControlInv /\ HistoryInv /\ AttemptsInv /\ [Next]_vars => HistoryInv' /\ AttemptsInv'
  BY HistoryInvStep, AttemptsInvStep
<1> QED BY <1>1, <1>2, <1>3, ControlInvHolds, PTL DEF Spec

\* Every variable has its type: no counter passes its bound, and a turn that
\* has given up on an overflow is over.
THEOREM CompactionTypes == Spec => []TypeOK
<1>1. ControlInv /\ HistoryInv /\ AttemptsInv => TypeOK
  BY DEF ControlInv, HistoryInv, AttemptsInv, Shape, TurnType, WorkerType, TypeOK
<1> QED BY <1>1, ContextInvHolds, PTL

\* Whatever arrives while a compaction runs, each message that was not undone
\* or cleared, and that the compaction did not have to leave out of its own
\* request, is in the context or covered by its summary.
THEOREM NothingLostHolds == Spec => []NothingLost
<1>1. HistoryInv => NothingLost
  BY DEF HistoryInv
<1> QED BY <1>1, ContextInvHolds, PTL
=============================================================================
