-------------------------- MODULE MCAgentLoopClock --------------------------
(***************************************************************************)
(* Instances of AgentLoop for TLC with what it implements: the clock of    *)
(* its ids and the queue its senders see.                                  *)
(***************************************************************************)
EXTENDS MCAgentLoop, AgentLoopClock, AgentLoopTurns
=============================================================================
