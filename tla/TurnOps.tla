------------------------------ MODULE TurnOps ------------------------------
(***************************************************************************)
(* The persisted turn clock of the agent engine                            *)
(* (packages/agent-core-v2/src/agent/loop/turnOps.ts).  A "turn.prompt"    *)
(* record carries no turn id: whoever replays the journal counts.  The     *)
(* clock is what the counting needs, the next id and the ids of the queued *)
(* turns that were cancelled before they started and so never produce a    *)
(* "turn.prompt" record of their own.                                      *)
(***************************************************************************)
EXTENDS Integers, FiniteSets, FiniteSetsExt

TurnClockState == [next : Nat, cancelled : SUBSET Nat]

InitialTurnClock == [next |-> 0, cancelled |-> {}]

\* The while loop of advanceTurnClock: skip every id that is cancelled.
FirstNotCancelled(next, cancelled) ==
  Min((next .. (next + Cardinality(cancelled))) \ cancelled)

\* The ids below the new next id are forgotten.
AdvanceTurnClock(next, cancelled) ==
  LET ahead == {id \in cancelled : id >= next}
      first == FirstNotCancelled(next, ahead)
  IN  [next |-> first, cancelled |-> {id \in ahead : id > first}]

\* Mutant: the ids cancelled ahead are not skipped.
PromptTurnBlind(clock) == [clock EXCEPT !.next = @ + 1]

\* apply of the "turn.prompt" record
PromptTurn(clock) == AdvanceTurnClock(clock.next + 1, clock.cancelled)

\* apply of "turn.cancel" records with target "queued", one for each of ids;
\* a record whose id is already behind the clock is ignored.  Cancelling the
\* ids one after the other or together leads to the same clock.
CancelQueuedTurns(clock, ids) ==
  AdvanceTurnClock(clock.next,
                   clock.cancelled \cup {id \in ids : id >= clock.next})
=============================================================================
