---------------------------- MODULE MCAgentLoop ----------------------------
(***************************************************************************)
(* Instances of AgentLoop for TLC: the requests                            *)
(* the services of an agent enqueue, with the options they enqueue them    *)
(* with.                                                                   *)
(***************************************************************************)
EXTENDS AgentLoop

CONSTANTS p1, p2,      \* prompts, retries, goal continuations
          n1,          \* a task notification
          s1,          \* a steer
          g1,          \* the stop hook's continuation
          c1, c2,      \* continuations of the loop's own
          w1           \* a caller of settled()

None      == {}
Prompts1  == {p1}
Prompts2  == {p1, p2}
Notice    == {n1}
Steer     == {s1}
Hooked    == {g1}
OwnOnly   == {c1}
OwnTwo    == {c1, c2}
OneWaiter == {w1}
Riders    == {n1, s1, g1} \cap Requests
Scoped    == {p1, p2, g1, c1, c2} \cap Requests
=============================================================================
