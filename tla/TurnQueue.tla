----------------------------- MODULE TurnQueue -----------------------------
(***************************************************************************)
(* What the turn loop of an agent promises to those who ask it for turns   *)
(* (AgentLoopService, packages/agent-core-v2/src/agent/loop/               *)
(* loopService.ts): turns run one at a time, in the order in which they    *)
(* were opened; one that waits can be cancelled, one that runs ends in its *)
(* own time; while somebody holds a quiescence lease none runs or waits,   *)
(* and what is sent is held back until the lease was given back.           *)
(*                                                                         *)
(* PromptQueue is written over this loop, AgentLoop implements it.  Steps, *)
(* retries, ids and the journal are left out.                              *)
(*                                                                         *)
(* A turn is named by the request that opens it.                           *)
(***************************************************************************)
EXTENDS Naturals, Sequences, SequencesExt, FiniteSets, Subsequences

CONSTANTS
  Turns,    \* requests that may open a turn
  MayJoin,  \* those of them that may join the turn that runs instead
  None

ASSUME TurnsAssumption == MayJoin \subseteq Turns /\ None \notin Turns

VARIABLES
  turn,     \* declined: the loop has opened no turn for the request
  waiting, held, running, lease, disposing

turnVars == <<turn, waiting, held, running>>
loopVars == <<turnVars, lease, disposing>>

Outcomes == {"completed", "failed", "cancelled"}
TurnStates == {"none", "held", "declined", "queued", "running"} \cup Outcomes

LoopTypeOK ==
  /\ turn \in [Turns -> TurnStates]
  /\ waiting \in Seq(Turns) /\ held \in Seq(Turns)
  /\ running \in Turns \cup {None}
  /\ {lease, disposing} \subseteq BOOLEAN

LoopInit ==
  /\ turn = [t \in Turns |-> "none"]
  /\ waiting = << >> /\ held = << >> /\ running = None
  /\ lease = FALSE /\ disposing = FALSE

-----------------------------------------------------------------------------

\* pumpTurns with the turns of queue waiting and none running
Pump(queue, states) ==
  IF queue = << >> \/ disposing
  THEN /\ waiting' = queue /\ running' = None /\ turn' = states
  ELSE /\ waiting' = Tail(queue) /\ running' = Head(queue)
       /\ turn' = [states EXCEPT ![Head(queue)] = "running"]

\* createAndQueueTurn
OpenTurn(t) ==
  \/ /\ running # None
     /\ waiting' = Append(waiting, t)
     /\ turn' = [turn EXCEPT ![t] = "queued"]
     /\ UNCHANGED running
  \/ /\ running = None
     /\ Pump(Append(waiting, t), [turn EXCEPT ![t] = "queued"])

Decline(t) ==
  /\ turn' = [turn EXCEPT ![t] = "declined"]
  /\ UNCHANGED <<waiting, running>>

\* enqueue of a request that opens a turn
LoopEnqueue(t) ==
  \/ /\ lease
     /\ held' = Append(held, t)
     /\ turn' = [turn EXCEPT ![t] = "held"]
     /\ UNCHANGED <<waiting, running>>
  \/ /\ ~ lease
     /\ OpenTurn(t)
     /\ UNCHANGED held

\* enqueue of any request
LoopSend(t) ==
  /\ ~ disposing
  /\ turn[t] = "none"
  /\ \/ LoopEnqueue(t)
     \/ ~ lease /\ t \in MayJoin /\ Decline(t) /\ UNCHANGED held
  /\ UNCHANGED <<lease, disposing>>

\* cancel: a queued turn is over, a running one is told and ends in its own
\* time, in any way.
LoopCancel(t) ==
  /\ waiting' = Without(waiting, {t})
  /\ turn' = [turn EXCEPT ![t] = IF @ = "queued" THEN "cancelled" ELSE @]
  /\ UNCHANGED <<held, running, lease, disposing>>

LoopCancelQueued(t) == turn[t] = "queued" /\ LoopCancel(t)

\* The receipt's abort, of a request that is held back.
LoopWithdraw(t) ==
  /\ turn[t] = "held"
  /\ held' = Without(held, {t})
  /\ Decline(t)
  /\ UNCHANGED <<lease, disposing>>

\* The end of runTurn, and the pump that follows when turn.ended was published.
LoopEnds ==
  /\ running # None
  /\ \E outcome \in Outcomes : turn' = [turn EXCEPT ![running] = outcome]
  /\ running' = None
  /\ UNCHANGED <<waiting, held, lease, disposing>>

LoopStarts ==
  /\ running = None /\ ~ lease
  /\ Pump(waiting, turn)
  /\ UNCHANGED <<held, lease, disposing>>

LoopLends ==
  /\ ~ disposing /\ ~ lease
  /\ running = None /\ waiting = << >> /\ held = << >>
  /\ lease' = TRUE
  /\ UNCHANGED <<turnVars, disposing>>

\* releaseQuiescence: what was held is admitted one by one.
LoopReleased ==
  /\ lease
  /\ lease' = FALSE
  /\ UNCHANGED <<turnVars, disposing>>

Admitting == ~ lease /\ held # << >>

LoopAdmits ==
  /\ Admitting
  /\ held' = Tail(held)
  /\ \/ OpenTurn(Head(held))
     \/ Head(held) \in MayJoin /\ Decline(Head(held))
  /\ UNCHANGED <<lease, disposing>>

LoopDisposes ==
  /\ ~ disposing
  /\ disposing' = TRUE
  /\ waiting' = << >> /\ held' = << >>
  /\ turn' = [t \in Turns |-> CASE turn[t] = "queued" -> "cancelled"
                                [] turn[t] = "held"   -> "declined"
                                [] OTHER              -> turn[t]]
  /\ UNCHANGED <<running, lease>>

LoopNext ==
  \/ \E t \in Turns : LoopSend(t) \/ LoopCancelQueued(t) \/ LoopWithdraw(t)
  \/ LoopEnds \/ LoopStarts \/ LoopLends \/ LoopReleased \/ LoopAdmits \/ LoopDisposes

LoopSpec == LoopInit /\ [][LoopNext]_loopVars
=============================================================================
