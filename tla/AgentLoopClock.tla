--------------------------- MODULE AgentLoopClock ---------------------------
(***************************************************************************)
(* The turn loop implements the turn clock: whatever senders, cancellers,  *)
(* leases and failures do to AgentLoop, its queue of turns, its id         *)
(* reservations and its persisted TurnModel take the steps of TurnClock    *)
(* and no others, so what is proved of TurnClock holds of the loop.        *)
(*                                                                         *)
(* fold and started are history variables: the counter of the transcript's *)
(* cold fold over the records the loop writes, and the identities of the   *)
(* turns that started.                                                     *)
(***************************************************************************)
EXTENDS AgentLoop

\* A behaviour has finitely many requests.
ASSUME FiniteAssumption == IsFiniteSet(Requests)

VARIABLES fold, started

\* The phases of the loop, as TurnClock sees them.
ClockPhase ==
  IF pc \in {"idle", "pump", "ending"} THEN pc ELSE "running"

QueuedIds == [i \in DOMAIN pendingTurns |-> turnId[pendingTurns[i]]]

\* A request opens one turn at most.
Clock == INSTANCE TurnClock WITH
           queued <- QueuedIds, phase <- ClockPhase,
           MaxTurns <- Cardinality(Requests)

\* The turns a step starts, and the queued ones it cancels.
Starting == {t \in Requests : turnState[t] = "queued" /\ turnState'[t] = "running"}
Dropping == {t \in Requests : turnState[t] = "queued" /\ turnState'[t] = "cancelled"}

Records ==
  /\ started' = started \cup {[live     |-> turnId[t],
                               replayed |-> clock.next,
                               folded   |-> Clock!FoldPromptId(fold)] : t \in Starting}
  /\ fold' = IF Starting # {} THEN Clock!FoldPrompt(fold)
             ELSE IF Dropping # {} THEN Clock!FoldCancelQueued(fold, {turnId[t] : t \in Dropping})
             ELSE fold

InitRecorded == Init /\ fold = InitialTurnClock /\ started = {}

NextRecorded == Next /\ Records

SpecRecorded == InitRecorded /\ [][NextRecorded]_<<vars, fold, started>>

\* The loop implements the turn clock.
TurnClockSpec == Clock!Spec
=============================================================================
