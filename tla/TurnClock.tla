----------------------------- MODULE TurnClock -----------------------------
(***************************************************************************)
(* Turn identity.  The engine hands out an id when a turn is created       *)
(* (loopService.reserveTurnId), long before the turn starts; the journal   *)
(* only sees the start (turn.prompt, without the id) and the cancellation  *)
(* of a queued turn (turn.cancel, with the id).  Two readers recount the   *)
(* journal: the engine's own TurnModel on resume, and the transcript's     *)
(* cold fold (packages/transcript/src/history/foldFacts.ts), which runs a  *)
(* counter of its own.  The three must agree on the id of every turn.      *)
(*                                                                         *)
(* "queued" is the list of ids of loopService.pendingTurns; "phase" keeps  *)
(* apart the synchronous stretches in which the engine cannot be           *)
(* interrupted: "pump" (pumpTurns was called and has not run), "ending"    *)
(* (the turn is released, the turn.ended subscribers run).                 *)
(***************************************************************************)
EXTENDS TurnOps, Sequences, SequencesExt

CONSTANT MaxTurns   \* bound on the ids a behaviour hands out

ASSUME MaxTurnsAssumption == MaxTurns \in Nat

VARIABLES
  queued,        \* ids of the turns created and not started, in order
  nextReserved,  \* loop.nextReservedTurnId; 0 while it is undefined
  clock,         \* TurnModel, persisted
  fold,          \* the counter of foldFacts over the same records
  started,       \* history: for every started turn the id the engine uses
                 \* and the ids the two readers assign
  phase

vars == <<queued, nextReserved, clock, fold, started, phase>>

StartRecord == [live : Nat, replayed : Nat, folded : Nat]

TypeOK ==
  /\ queued \in Seq(Nat)
  /\ nextReserved \in Nat
  /\ clock \in TurnClockState
  /\ fold \in TurnClockState
  /\ started \subseteq StartRecord
  /\ phase \in {"idle", "pump", "running", "ending"}

Init ==
  /\ queued = << >>
  /\ nextReserved = 0
  /\ clock = InitialTurnClock
  /\ fold = InitialTurnClock
  /\ started = {}
  /\ phase = "idle"

-----------------------------------------------------------------------------

\* foldFacts: a cancelled reservation is added and skipped at once ...
FoldCancelQueued(f, ids) ==
  LET cancelled == f.cancelled \cup {id \in ids : id >= f.next}
      first     == FirstNotCancelled(f.next, cancelled)
  IN  [next |-> first, cancelled |-> cancelled \ (f.next .. first)]

\* Mutant: the fold takes the next id, cancelled or not.
FoldPromptIdBlind(f) == f.next

\* ... and a prompt record skips first, then takes the id.
FoldPromptId(f) == FirstNotCancelled(f.next, f.cancelled)

FoldPrompt(f) ==
  [next      |-> FoldPromptId(f) + 1,
   cancelled |-> f.cancelled \ (f.next .. FoldPromptId(f))]

\* createPendingTurn + push: the id of the new turn.  A turn created while
\* none is active is pumped within the same call.
ReservedTurnId == Max({clock.next, nextReserved})

Reserve ==
  /\ phase # "pump"
  /\ ReservedTurnId < MaxTurns
  /\ queued' = Append(queued, ReservedTurnId)
  /\ nextReserved' = ReservedTurnId + 1
  /\ phase' = IF phase = "running" THEN "running" ELSE "pump"
  /\ UNCHANGED <<clock, fold, started>>

\* startTurn: the turn.prompt record is dispatched for the head of the list
Start ==
  /\ phase = "pump"
  /\ queued # << >>
  /\ queued' = Tail(queued)
  /\ started' = started \cup {[live     |-> Head(queued),
                               replayed |-> clock.next,
                               folded   |-> FoldPromptId(fold)]}
  /\ clock' = PromptTurn(clock)
  /\ fold' = FoldPrompt(fold)
  /\ phase' = "running"
  /\ UNCHANGED nextReserved

PumpEmpty ==
  /\ phase = "pump"
  /\ queued = << >>
  /\ phase' = "idle"
  /\ UNCHANGED <<queued, nextReserved, clock, fold, started>>

End ==
  /\ phase = "running"
  /\ phase' = "ending"
  /\ UNCHANGED <<queued, nextReserved, clock, fold, started>>

\* pumpTurns is called with no turn active: the turn.ended subscribers have
\* run, or a quiescence lease was given back.
Pump ==
  /\ phase \in {"idle", "ending"}
  /\ phase' = "pump"
  /\ UNCHANGED <<queued, nextReserved, clock, fold, started>>

\* cancelQueuedTurn, the turn at one position of the list
CancelQueued ==
  /\ phase \in {"running", "ending"}
  /\ \E i \in DOMAIN queued :
       /\ queued' = RemoveAt(queued, i)
       /\ clock' = CancelQueuedTurns(clock, {queued[i]})
       /\ fold' = FoldCancelQueued(fold, {queued[i]})
  /\ UNCHANGED <<nextReserved, started, phase>>

\* dispose: every queued turn is cancelled, in order
CancelAllQueued ==
  /\ phase # "pump"
  /\ queued # << >>
  /\ queued' = << >>
  /\ clock' = CancelQueuedTurns(clock, ToSet(queued))
  /\ fold' = FoldCancelQueued(fold, ToSet(queued))
  /\ UNCHANGED <<nextReserved, started, phase>>

\* The process ends and the session is resumed from its journal: what is not
\* persisted is gone, the two readers are rebuilt from the same records.
Restart ==
  /\ queued' = << >>
  /\ nextReserved' = 0
  /\ phase' = "idle"
  /\ UNCHANGED <<clock, fold, started>>

-----------------------------------------------------------------------------

Step ==
  \/ Reserve
  \/ Start
  \/ PumpEmpty
  \/ End
  \/ Pump
  \/ CancelQueued
  \/ CancelAllQueued

\* Within one process, or across restarts that find no cancelled reservation
\* still ahead of the clock (a graceful shutdown cancels all that is queued).
Next == Step \/ (clock.cancelled = {} /\ Restart)

Spec == Init /\ [][Next]_vars

\* A process may also end with a cancellation ahead of turns that are queued.
NextCrash == Step \/ Restart

SpecCrash == Init /\ [][NextCrash]_vars

-----------------------------------------------------------------------------

\* Every turn that started is replayed under the id it ran with, by the
\* engine on resume and by the transcript's fold: nothing the journal says
\* about a turn id (loop events, turn.ended, turn.cancel) lands on another.
ReplayedIdentity ==
  \A t \in started : t.live = t.replayed /\ t.live = t.folded

\* Whatever the ids mean to the running engine, the transcript's counter is
\* the TurnModel: both assign the same id to the same turn.prompt record.
FoldMirrorsTurnModel == \A t \in started : t.replayed = t.folded

\* Turn ids only grow: a turn that starts has an id above that of every turn
\* started before it, however queued turns were cancelled in between.
StartsAscend ==
  [][\A t \in started' \ started, u \in started : u.live < t.live]_vars

-----------------------------------------------------------------------------
\* The inductive invariant behind the properties above.

\* The ids between the clock and the next reservation are split between the
\* turns still queued, in ascending order, and the cancelled ones; the clock
\* itself never stands on a cancelled id.
ReservationsInv ==
  /\ IsFiniteSet(clock.cancelled)
  /\ \A id \in clock.cancelled : clock.next < id /\ id < nextReserved
  /\ \A i \in DOMAIN queued : /\ clock.next <= queued[i]
                              /\ queued[i] < nextReserved
                              /\ queued[i] \notin clock.cancelled
  /\ \A i, j \in DOMAIN queued : i < j => queued[i] < queued[j]
  /\ \A id \in clock.next .. (nextReserved - 1) :
       id \in clock.cancelled \/ \E i \in DOMAIN queued : queued[i] = id

\* The fold may lag behind the clock, but only over ids it knows cancelled,
\* and it remembers the same cancellations ahead.
FoldInv ==
  /\ IsFiniteSet(fold.cancelled)
  /\ fold.next <= clock.next
  /\ \A id \in fold.next .. (clock.next - 1) : id \in fold.cancelled
  /\ \A id \in fold.cancelled \cup clock.cancelled :
       id >= clock.next => id \in fold.cancelled /\ id \in clock.cancelled

\* What started is behind the clock and has one identity.
StartedInv ==
  \A t \in started :
    t.live < clock.next /\ t.live = t.replayed /\ t.live = t.folded

ClockInv == TypeOK /\ ReservationsInv /\ FoldInv /\ StartedInv

\* What is left of it when the process may end at any time: the two readers
\* stay in step, whatever became of the reservations.
MirrorInv ==
  /\ TypeOK
  /\ IsFiniteSet(clock.cancelled)
  /\ \A id \in clock.cancelled : clock.next < id
  /\ FoldInv
  /\ FoldMirrorsTurnModel
=============================================================================
