--------------------------- MODULE AgentLoopTurns ---------------------------
(***************************************************************************)
(* The turn loop implements the turn queue its senders see: whatever they, *)
(* cancellers, leases and failures do to AgentLoop, its turns take the     *)
(* steps of TurnQueue and no others, so what is proved of a sender over    *)
(* TurnQueue holds over the loop.                                          *)
(*                                                                         *)
(* pumpTurns returns with the next turn started, in the same stretch of    *)
(* code as what called it: while pc = "pump" the turn that is about to     *)
(* start counts as running.                                                *)
(***************************************************************************)
EXTENDS AgentLoop

AboutToStart == pc = "pump" /\ ~ disposing /\ quiescence = 0 /\ pendingTurns # << >>

RunningTurn == IF AboutToStart THEN Head(pendingTurns) ELSE active
WaitingTurns == IF AboutToStart THEN Tail(pendingTurns) ELSE pendingTurns
HeldRequests == admitting \o held
Leased == quiescence > 0

\* What became of a request, as its sender sees it.
TurnOf == [r \in Requests |->
  CASE r = RunningTurn -> "running"
    [] r # RunningTurn /\ turnState[r] # "none" -> turnState[r]
    [] r # RunningTurn /\ turnState[r] = "none" ->
         IF r \in ToSet(HeldRequests) THEN "held"
         ELSE IF reqState[r] = "new" THEN "none" ELSE "declined"]

Queue == INSTANCE TurnQueue WITH
           Turns <- Requests, MayJoin <- Requests \ NewTurn, None <- NoTurn,
           turn <- TurnOf, waiting <- WaitingTurns, held <- HeldRequests,
           running <- RunningTurn, lease <- Leased

\* The loop implements the turn queue.
TurnQueueSpec == Queue!LoopSpec
=============================================================================
