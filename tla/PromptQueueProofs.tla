-------------------------- MODULE PromptQueueProofs -------------------------
(***************************************************************************)
(* Proofs about PromptQueue: its safety properties, for any prompts, any   *)
(* turns of others and any compactions, over the loop of TurnQueue.        *)
(***************************************************************************)
EXTENDS PromptQueue, OperatorLemmas

USE TurnsAssumption, PromptsAssumption
USE DEF promptVars, launchVars, turnVars, loopVars, vars, Outcomes, TurnStates

-----------------------------------------------------------------------------
\* The inductive invariant.

\* Where the loop has a turn and what it says of the turn agree: the turns that
\* wait, those a lease holds back, and the one that runs.
Places(trn, wait, hld, run) ==
  /\ trn \in [Turns -> TurnStates]
  /\ wait \in Seq(Turns) /\ IsInjective(wait)
  /\ hld \in Seq(Turns) /\ IsInjective(hld)
  /\ run \in Turns \cup {None}
  /\ \A t \in Turns : /\ trn[t] = "queued" <=> t \in ToSet(wait)
                      /\ trn[t] = "held" <=> t \in ToSet(hld)
                      /\ trn[t] = "running" <=> t = run

\* The loop starts the next turn as soon as it may; under a lease nothing runs
\* or waits.
LoopInv ==
  /\ Places(turn, waiting, held, running)
  /\ {lease, disposing} \subseteq BOOLEAN /\ ending \in Nat
  /\ waiting # << >> => running # None \/ ending > 0 \/ disposing
  /\ lease => running = None /\ waiting = << >>

HandlesType(st, queue, act, str, lau, at) ==
  /\ st \in [Prompts -> {"new", "pending", "running", "steered", "blocked"} \cup Outcomes]
  /\ queue \in Seq(Prompts)
  /\ act \in Prompts \cup {None}
  /\ str \in [Prompts -> SUBSET Prompts]
  /\ lau \in Prompts \cup {None}
  /\ at \in {"hook", "assign"}

\* The queue has prompts that nobody has taken, each once.
QueueInv(st, queue, lau, trn) ==
  /\ IsInjective(queue)
  /\ \A p \in ToSet(queue) : st[p] = "pending" /\ p # lau
  /\ \A p \in Prompts : st[p] \in {"new", "pending"} /\ p # lau => trn[p] = "none"

\* The prompt being launched asks the loop for a turn when the hooks are done.
LaunchInv(st, lau, at, trn) ==
  lau # None => st[lau] = "pending" /\ (trn[lau] = "none" <=> at = "hook")

\* The active prompt has its turn, and the steered ones are with it.
ActiveInv(st, act, str, trn) ==
  /\ act # None => st[act] = "running" /\ trn[act] \in {"queued", "running"} \cup Outcomes
  /\ \A p, q \in Prompts : q \in str[p] => p = act /\ st[q] = "steered"
  /\ \A q \in Prompts : st[q] = "steered" => act # None /\ q \in str[act]

\* One prompt at a time is active or on its way, and no other is in the loop.
AloneInv(act, lau, trn) ==
  /\ act = None \/ lau = None
  /\ \A p \in Prompts : trn[p] \in {"held", "queued", "running"} => p \in {act, lau}

Handles(st, queue, act, str, lau, at, trn) ==
  /\ HandlesType(st, queue, act, str, lau, at)
  /\ QueueInv(st, queue, lau, trn)
  /\ LaunchInv(st, lau, at, trn)
  /\ ActiveInv(st, act, str, trn)
  /\ AloneInv(act, lau, trn)

\* A handle that is pending is still known.
PendingIsKept == disposing \/
  \A p \in Prompts : state[p] = "pending" => p \in ToSet(pending) \cup {launching}

Inv ==
  /\ LoopInv
  /\ Handles(state, pending, active, steered, launching, launchAt, turn)
  /\ PendingIsKept
  /\ recursing \in BOOLEAN
  /\ compaction \in [Compactions -> {"new", "running", "cancelled", "over"}]
  /\ WaitingIsServed

-----------------------------------------------------------------------------
\* The loop's places.

\* pumpTurns starts the turn that has waited longest.
LEMMA PumpPlaces ==
  ASSUME NEW queue, NEW states, NEW hld,
         Places(states, queue, hld, None), Pump(queue, states)
  PROVE  /\ Places(turn', waiting', hld, running')
         /\ disposing \/ (waiting' # << >> => running' # None)
         /\ waiting' = << >> \/ queue # << >>
         /\ \A t \in Turns : \/ turn'[t] = states[t]
                             \/ states[t] = "queued" /\ turn'[t] = "running"
<1>1. CASE queue = << >> \/ disposing
  BY <1>1 DEF Pump, Places
<1>2. CASE ~ (queue = << >> \/ disposing)
  <2>1. /\ waiting' = Tail(queue) /\ running' = Head(queue)
        /\ turn' = [states EXCEPT ![Head(queue)] = "running"]
    BY <1>2 DEF Pump
  <2>2. /\ queue \in Seq(Turns) /\ IsInjective(queue) /\ queue # << >>
        /\ states \in [Turns -> TurnStates]
    BY <1>2 DEF Places
  <2>3. /\ Head(queue) \in Turns /\ Head(queue) \in ToSet(queue)
        /\ Tail(queue) \in Seq(Turns)
        /\ ToSet(queue) = {Head(queue)} \cup ToSet(Tail(queue))
        /\ IsInjective(Tail(queue)) /\ Head(queue) \notin ToSet(Tail(queue))
    BY <2>2, HeadTailProps
  <2>4. states[Head(queue)] = "queued" /\ None \notin Turns
    BY <2>3 DEF Places
  <2>5. /\ turn'[Head(queue)] = "running"
        /\ \A t \in Turns : t # Head(queue) => turn'[t] = states[t]
    BY <2>1, <2>2, <2>3
  <2>6. ASSUME NEW t \in Turns
        PROVE  /\ turn'[t] = "queued" <=> t \in ToSet(waiting')
               /\ turn'[t] = "held" <=> t \in ToSet(hld)
               /\ turn'[t] = "running" <=> t = running'
    <3>1. CASE t = Head(queue)
      BY <2>1, <2>3, <2>4, <2>5, <3>1 DEF Places
    <3>2. CASE t # Head(queue)
      BY <2>1, <2>3, <2>4, <2>5, <3>2 DEF Places
    <3> QED BY <3>1, <3>2
  <2>7. turn' \in [Turns -> TurnStates]
    BY <2>1, <2>2, <2>3
  <2>8. Places(turn', waiting', hld, running')
    BY <2>1, <2>3, <2>6, <2>7 DEF Places
  <2>9. running' # None
    BY <2>1, <2>3, <2>4
  <2> QED BY <1>2, <2>4, <2>5, <2>8, <2>9
<1> QED BY <1>1, <1>2

\* A turn that is opened leaves the held ones, if it was there, and is queued or
\* started.
LEMMA OpenTurnPlaces ==
  ASSUME Places(turn, waiting, held, running), disposing \in BOOLEAN,
         NEW t \in Turns, turn[t] \in {"none", "held"}, OpenTurn(t),
         NEW hld \in Seq(Turns), IsInjective(hld), ToSet(hld) = ToSet(held) \ {t}
  PROVE  /\ Places(turn', waiting', hld, running')
         /\ waiting' # << >> => running' # None \/ disposing
         /\ turn'[t] \in {"queued", "running"}
         /\ \A u \in Turns \ {t} : \/ turn'[u] = turn[u]
                                   \/ turn[u] = "queued" /\ turn'[u] = "running"
<1> DEFINE states == [turn EXCEPT ![t] = "queued"]
           queue == Append(waiting, t)
<1>1. /\ turn \in [Turns -> TurnStates] /\ t # running
      /\ waiting \in Seq(Turns) /\ IsInjective(waiting) /\ t \notin ToSet(waiting)
  BY DEF Places
<1>2. /\ queue \in Seq(Turns) /\ ToSet(queue) = ToSet(waiting) \cup {t} /\ IsInjective(queue)
  BY <1>1, AppendProps
<1>3. /\ states \in [Turns -> TurnStates]
      /\ states[t] = "queued" /\ \A u \in Turns \ {t} : states[u] = turn[u]
  BY <1>1
<1> HIDE DEF states, queue
<1>4. Places(states, queue, hld, running)
  <2>1. ASSUME NEW u \in Turns
        PROVE  /\ states[u] = "queued" <=> u \in ToSet(queue)
               /\ states[u] = "held" <=> u \in ToSet(hld)
               /\ states[u] = "running" <=> u = running
    <3>1. CASE u = t
      BY <1>1, <1>2, <1>3, <3>1
    <3>2. CASE u # t
      BY <1>2, <1>3, <3>2 DEF Places
    <3> QED BY <3>1, <3>2
  <2> QED BY <1>2, <1>3, <2>1 DEF Places
<1>5. CASE running # None /\ waiting' = queue /\ turn' = states /\ UNCHANGED running
  BY <1>3, <1>4, <1>5
<1>6. CASE running = None /\ Pump(queue, states)
  <2>1. /\ Places(turn', waiting', hld, running')
        /\ disposing \/ (waiting' # << >> => running' # None)
        /\ \A u \in Turns : \/ turn'[u] = states[u]
                            \/ states[u] = "queued" /\ turn'[u] = "running"
    BY <1>4, <1>6, PumpPlaces
  <2>2. turn'[t] \in {"queued", "running"}
    BY <1>3, <2>1
  <2>3. ASSUME NEW u \in Turns \ {t}
        PROVE  turn'[u] = turn[u] \/ (turn[u] = "queued" /\ turn'[u] = "running")
    BY <1>3, <2>1
  <2> QED BY <2>1, <2>2, <2>3
<1> QED BY <1>5, <1>6 DEF OpenTurn, states, queue

\* A request that opens no turn leaves the held ones, if it was there.
LEMMA DeclinePlaces ==
  ASSUME Places(turn, waiting, held, running),
         NEW t \in Turns, turn[t] \in {"none", "held"}, Decline(t),
         NEW hld \in Seq(Turns), IsInjective(hld), ToSet(hld) = ToSet(held) \ {t}
  PROVE  /\ Places(turn', waiting', hld, running')
         /\ turn'[t] = "declined" /\ \A u \in Turns \ {t} : turn'[u] = turn[u]
<1>1. /\ turn \in [Turns -> TurnStates] /\ turn' = [turn EXCEPT ![t] = "declined"]
      /\ UNCHANGED <<waiting, running>>
  BY DEF Places, Decline
<1>2. /\ turn'[t] = "declined" /\ \A u \in Turns \ {t} : turn'[u] = turn[u]
      /\ turn' \in [Turns -> TurnStates]
  BY <1>1
<1>3. ASSUME NEW u \in Turns
      PROVE  /\ turn'[u] = "queued" <=> u \in ToSet(waiting)
             /\ turn'[u] = "held" <=> u \in ToSet(hld)
             /\ turn'[u] = "running" <=> u = running
  <2>1. CASE u = t
    BY <1>2, <2>1 DEF Places
  <2>2. CASE u # t
    BY <1>2, <2>2 DEF Places
  <2> QED BY <2>1, <2>2
<1> QED BY <1>1, <1>2, <1>3 DEF Places

\* A turn that asks to be queued is held, queued or started.
LEMMA LoopEnqueueKeeps ==
  ASSUME LoopInv, NEW t \in Turns, turn[t] = "none", LoopEnqueue(t),
         UNCHANGED <<ending, lease, disposing>>
  PROVE  /\ LoopInv'
         /\ turn'[t] \in {"held", "queued", "running"}
         /\ \A u \in Turns \ {t} : \/ turn'[u] = turn[u]
                                   \/ turn[u] = "queued" /\ turn'[u] = "running"
<1>1. /\ turn \in [Turns -> TurnStates]
      /\ held \in Seq(Turns) /\ IsInjective(held) /\ t \notin ToSet(held)
      /\ t \notin ToSet(waiting) /\ t # running
  BY DEF LoopInv, Places
<1>2. CASE lease /\ held' = Append(held, t) /\ turn' = [turn EXCEPT ![t] = "held"]
           /\ UNCHANGED <<waiting, running>>
  <2>1. /\ held' \in Seq(Turns) /\ ToSet(held') = ToSet(held) \cup {t} /\ IsInjective(held')
    BY <1>1, <1>2, AppendProps
  <2>2. turn'[t] = "held" /\ \A u \in Turns \ {t} : turn'[u] = turn[u]
    BY <1>1, <1>2
  <2>3. turn' \in [Turns -> TurnStates]
    BY <1>1, <1>2
  <2>4. Places(turn', waiting', held', running')
    BY <1>1, <1>2, <2>1, <2>2, <2>3 DEF LoopInv, Places
  <2> QED BY <1>2, <2>2, <2>4 DEF LoopInv
<1>3. CASE ~ lease /\ OpenTurn(t) /\ held' = held
  <2>1. ToSet(held) = ToSet(held) \ {t} /\ disposing \in BOOLEAN
    BY <1>1 DEF LoopInv
  <2>2. /\ Places(turn', waiting', held, running')
        /\ waiting' # << >> => running' # None \/ disposing
        /\ turn'[t] \in {"queued", "running"}
        /\ \A u \in Turns \ {t} : \/ turn'[u] = turn[u]
                                  \/ turn[u] = "queued" /\ turn'[u] = "running"
    BY <1>1, <1>3, <2>1, OpenTurnPlaces DEF LoopInv
  <2> QED BY <1>3, <2>2 DEF LoopInv
<1> QED BY <1>2, <1>3 DEF LoopEnqueue

\* So is what another sender sends, unless it joins a turn.
LEMMA LoopSendKeeps ==
  ASSUME LoopInv, NEW t \in Turns, LoopSend(t), ending' = ending
  PROVE  /\ LoopInv'
         /\ \A u \in Turns \ {t} : \/ turn'[u] = turn[u]
                                   \/ turn[u] = "queued" /\ turn'[u] = "running"
<1>1. turn[t] = "none" /\ UNCHANGED <<lease, disposing>>
  BY DEF LoopSend
<1>2. CASE LoopEnqueue(t)
  BY <1>1, <1>2, LoopEnqueueKeeps
<1>3. CASE ~ lease /\ Decline(t) /\ held' = held
  <2>1. /\ held \in Seq(Turns) /\ IsInjective(held) /\ ToSet(held) = ToSet(held) \ {t}
    BY <1>1 DEF LoopInv, Places
  <2>2. /\ Places(turn', waiting', held, running')
        /\ \A u \in Turns \ {t} : turn'[u] = turn[u]
    BY <1>1, <1>3, <2>1, DeclinePlaces DEF LoopInv
  <2>3. UNCHANGED <<waiting, running>>
    BY <1>3 DEF Decline
  <2> QED BY <1>1, <1>3, <2>2, <2>3 DEF LoopInv
<1> QED BY <1>2, <1>3 DEF LoopSend

\* A cancelled turn leaves the queue.
LEMMA LoopCancelKeeps ==
  ASSUME LoopInv, NEW t \in Turns, LoopCancel(t), ending' = ending
  PROVE  /\ LoopInv'
         /\ \A u \in Turns : \/ turn'[u] = turn[u]
                             \/ turn[u] = "queued" /\ turn'[u] = "cancelled"
<1>1. /\ turn \in [Turns -> TurnStates]
      /\ waiting \in Seq(Turns) /\ IsInjective(waiting)
  BY DEF LoopInv, Places
<1>2. /\ waiting' \in Seq(Turns) /\ ToSet(waiting') = ToSet(waiting) \ {t} /\ IsInjective(waiting')
  BY <1>1, WithoutProps DEF LoopCancel
<1>3. /\ turn'[t] = IF turn[t] = "queued" THEN "cancelled" ELSE turn[t]
      /\ \A u \in Turns \ {t} : turn'[u] = turn[u]
      /\ turn' \in [Turns -> TurnStates]
      /\ UNCHANGED <<held, running, lease, disposing>>
  BY <1>1 DEF LoopCancel
<1>4. ASSUME NEW u \in Turns
      PROVE  /\ turn'[u] = "queued" <=> u \in ToSet(waiting')
             /\ turn'[u] = "held" <=> u \in ToSet(held')
             /\ turn'[u] = "running" <=> u = running'
  <2>1. CASE u = t
    BY <1>2, <1>3, <2>1 DEF LoopInv, Places
  <2>2. CASE u # t
    BY <1>2, <1>3, <2>2 DEF LoopInv, Places
  <2> QED BY <2>1, <2>2
<1>5. Places(turn', waiting', held', running')
  BY <1>2, <1>3, <1>4 DEF LoopInv, Places
<1>6. waiting = << >> => waiting' = << >>
  <2> SUFFICES ASSUME waiting = << >>, waiting' # << >> PROVE FALSE
    OBVIOUS
  <2>1. Head(waiting') \in ToSet(waiting')
    BY <1>2, HeadTailProps
  <2> QED BY <1>2, <2>1, EmptyListProps
<1> QED BY <1>3, <1>5, <1>6 DEF LoopInv

\* One that is withdrawn leaves the held ones.
LEMMA LoopWithdrawKeeps ==
  ASSUME LoopInv, NEW t \in Turns, LoopWithdraw(t), ending' = ending
  PROVE  LoopInv' /\ \A u \in Turns \ {t} : turn'[u] = turn[u]
<1>1. /\ turn[t] = "held" /\ held' = Without(held, {t}) /\ Decline(t)
      /\ UNCHANGED <<waiting, running, lease, disposing>>
  BY DEF LoopWithdraw, Decline
<1>2. held \in Seq(Turns) /\ IsInjective(held)
  BY DEF LoopInv, Places
<1>3. held' \in Seq(Turns) /\ IsInjective(held') /\ ToSet(held') = ToSet(held) \ {t}
  BY <1>1, <1>2, WithoutProps
<1>4. /\ Places(turn', waiting', held', running')
      /\ \A u \in Turns \ {t} : turn'[u] = turn[u]
  BY <1>1, <1>3, DeclinePlaces DEF LoopInv
<1> QED BY <1>1, <1>4 DEF LoopInv

\* What a lease held back is let in one by one.
LEMMA AdmitHeldKeeps ==
  ASSUME LoopInv, LoopAdmits, ending' = ending
  PROVE  /\ LoopInv'
         /\ \A t \in Turns :
              \/ turn'[t] = turn[t]
              \/ turn[t] = "queued" /\ turn'[t] = "running"
              \/ turn[t] = "held" /\ turn'[t] \in {"queued", "running"}
              \/ t \in MayJoin
<1> DEFINE h == Head(held)
<1>1. /\ held # << >> /\ ~ lease /\ held' = Tail(held)
      /\ OpenTurn(h) \/ (h \in MayJoin /\ Decline(h))
      /\ UNCHANGED <<lease, disposing>>
  BY DEF LoopAdmits, Admitting
<1>2. held \in Seq(Turns) /\ IsInjective(held) /\ disposing \in BOOLEAN
  BY DEF LoopInv, Places
<1>3. /\ h \in Turns /\ h \in ToSet(held) /\ h \notin ToSet(held')
      /\ held' \in Seq(Turns) /\ IsInjective(held')
      /\ ToSet(held) = {h} \cup ToSet(held')
  BY <1>1, <1>2, HeadTailProps
<1>4. turn[h] = "held" /\ ToSet(held') = ToSet(held) \ {h}
  BY <1>3 DEF LoopInv, Places
<1> HIDE DEF h
<1>5. CASE OpenTurn(h)
  <2>1. /\ Places(turn', waiting', held', running')
        /\ waiting' # << >> => running' # None \/ disposing
        /\ turn'[h] \in {"queued", "running"}
        /\ \A u \in Turns \ {h} : \/ turn'[u] = turn[u]
                                  \/ turn[u] = "queued" /\ turn'[u] = "running"
    BY <1>2, <1>3, <1>4, <1>5, OpenTurnPlaces DEF LoopInv
  <2> QED BY <1>1, <1>4, <2>1 DEF LoopInv
<1>6. CASE h \in MayJoin /\ Decline(h)
  <2>1. /\ Places(turn', waiting', held', running')
        /\ \A u \in Turns \ {h} : turn'[u] = turn[u]
    BY <1>3, <1>4, <1>6, DeclinePlaces DEF LoopInv
  <2>2. UNCHANGED <<waiting, running>>
    BY <1>6 DEF Decline
  <2> QED BY <1>1, <1>6, <2>1, <2>2 DEF LoopInv
<1> QED BY <1>1, <1>5, <1>6

\* The turn that ran is over, and nothing runs until the subscribers are done.
LEMMA EndTurnKeeps ==
  ASSUME LoopInv, LoopEnds, ending' = ending + 1
  PROVE  /\ LoopInv'
         /\ \A t \in Turns : \/ turn'[t] = turn[t]
                             \/ turn[t] = "running" /\ turn'[t] \in Outcomes
<1>1. /\ turn \in [Turns -> TurnStates]
      /\ running \in Turns /\ running # None /\ turn[running] = "running"
  BY DEF LoopInv, Places, LoopEnds
<1>2. PICK o \in Outcomes : turn' = [turn EXCEPT ![running] = o]
  BY DEF LoopEnds
<1>3. /\ running' = None /\ ending' \in Nat /\ ending' > 0
      /\ UNCHANGED <<waiting, held, lease, disposing>>
  BY DEF LoopEnds, LoopInv
<1>4. /\ turn'[running] = o /\ \A t \in Turns \ {running} : turn'[t] = turn[t]
      /\ turn' \in [Turns -> TurnStates]
  BY <1>1, <1>2
<1>5. ASSUME NEW t \in Turns
      PROVE  /\ turn'[t] = "queued" <=> t \in ToSet(waiting)
             /\ turn'[t] = "held" <=> t \in ToSet(held)
             /\ turn'[t] # "running" /\ t # None
  BY <1>1, <1>4 DEF LoopInv, Places
<1>6. Places(turn', waiting', held', running')
  BY <1>3, <1>4, <1>5 DEF LoopInv, Places
<1> QED BY <1>1, <1>3, <1>4, <1>6 DEF LoopInv

LEMMA EndedKeeps ==
  ASSUME LoopInv, ending > 0, ending' = ending - 1,
         IF running = None THEN LoopStarts ELSE UNCHANGED loopVars
  PROVE  /\ LoopInv'
         /\ \A t \in Turns : \/ turn'[t] = turn[t]
                             \/ turn[t] = "queued" /\ turn'[t] = "running"
<1>1. ending' \in Nat /\ UNCHANGED <<held, lease, disposing>>
  BY DEF LoopStarts, LoopInv
<1>2. CASE running = None
  <2>1. Pump(waiting, turn)
    BY <1>2 DEF LoopStarts
  <2>2. Places(turn, waiting, held, None)
    BY <1>2 DEF LoopInv
  <2>3. /\ Places(turn', waiting', held', running')
        /\ disposing \/ (waiting' # << >> => running' # None)
        /\ waiting' = << >> \/ waiting # << >>
        /\ \A t \in Turns : \/ turn'[t] = turn[t]
                            \/ turn[t] = "queued" /\ turn'[t] = "running"
    BY <1>1, <2>1, <2>2, PumpPlaces
  <2>4. lease => running' = None
    <3> SUFFICES ASSUME lease PROVE running' = None
      OBVIOUS
    <3>1. waiting = << >>
      BY DEF LoopInv
    <3> QED BY <2>1, <3>1 DEF Pump
  <2> QED BY <1>1, <2>3, <2>4 DEF LoopInv
<1>3. CASE running # None
  <2>1. UNCHANGED <<turn, waiting, running>>
    BY <1>3
  <2>2. LoopInv'
    BY <1>1, <1>3, <2>1 DEF LoopInv
  <2> QED BY <2>1, <2>2
<1> QED BY <1>2, <1>3

\* A loop that is disposed of lets go of what waits.
LEMMA DisposeKeeps ==
  ASSUME LoopInv, LoopDisposes, ending' = ending
  PROVE  /\ LoopInv'
         /\ \A t \in Turns : \/ turn'[t] = turn[t]
                             \/ turn[t] = "queued" /\ turn'[t] = "cancelled"
                             \/ turn[t] = "held" /\ turn'[t] = "declined"
<1>1. /\ disposing' = TRUE /\ waiting' = << >> /\ held' = << >>
      /\ UNCHANGED <<running, ending, lease>>
  BY DEF LoopDisposes
<1>2. turn' = [t \in Turns |-> CASE turn[t] = "queued" -> "cancelled"
                                 [] turn[t] = "held"   -> "declined"
                                 [] OTHER              -> turn[t]]
  BY DEF LoopDisposes
<1>3. \A t \in Turns : turn'[t] = IF turn[t] = "queued" THEN "cancelled"
                                  ELSE IF turn[t] = "held" THEN "declined" ELSE turn[t]
  BY <1>2
<1>4. turn \in [Turns -> TurnStates]
  BY DEF LoopInv, Places
<1>5. turn' \in [Turns -> TurnStates]
  BY <1>2, <1>3, <1>4
<1>6. Places(turn', waiting', held', running')
  BY <1>1, <1>3, <1>5, EmptyListProps DEF LoopInv, Places
<1> QED BY <1>1, <1>3, <1>6 DEF LoopInv

-----------------------------------------------------------------------------
\* The handles of the prompts.

\* What the loop may do to the turn of a prompt that has asked for one.
Moved(t) ==
  \/ turn'[t] = turn[t]
  \/ turn[t] = "held" /\ turn'[t] \in {"queued", "running", "declined"}
  \/ turn[t] \in {"queued", "running"} /\ turn'[t] \in {"queued", "running"} \cup Outcomes

LEMMA MovedKeepsHandles ==
  ASSUME NEW st, NEW queue, NEW act, NEW str, NEW lau, NEW at,
         Handles(st, queue, act, str, lau, at, turn), \A p \in Prompts : Moved(p)
  PROVE  Handles(st, queue, act, str, lau, at, turn')
<1>1. HandlesType(st, queue, act, str, lau, at)
  BY DEF Handles
<1>2. QueueInv(st, queue, lau, turn')
  BY DEF Handles, QueueInv, Moved
<1>3. LaunchInv(st, lau, at, turn')
  BY <1>1 DEF Handles, HandlesType, LaunchInv, Moved
<1>4. ActiveInv(st, act, str, turn')
  BY <1>1 DEF Handles, HandlesType, ActiveInv, Moved
<1>5. AloneInv(act, lau, turn')
  BY DEF Handles, AloneInv, Moved
<1> QED BY <1>1, <1>2, <1>3, <1>4, <1>5 DEF Handles

\* startNext takes the prompt that has waited longest, or leaves the queue as
\* it is because it is empty or held back.
LEMMA StartNextKeeps ==
  ASSUME NEW st, NEW queue, NEW str, NEW trn, NEW comp, NEW run, recursing \in BOOLEAN,
         Handles(st, queue, None, str, None, launchAt, trn), StartNext(queue, comp, run)
  PROVE  /\ Handles(st, pending', None, str, launching', launchAt', trn)
         /\ ToSet(queue) \subseteq ToSet(pending') \cup {launching'}
         /\ launching' = None \/ (queue # << >> /\ launching' = Head(queue))
         /\ pending' # << >> => launching' # None \/ recursing'
         /\ recursing' \in BOOLEAN
<1>1. CASE /\ pending' = queue /\ launching' = None
           /\ launchAt' = launchAt
           /\ (queue = << >> /\ recursing' = recursing) \/ recursing' = TRUE
  BY <1>1
<1>2. CASE /\ queue # << >>
           /\ launching' = Head(queue) /\ pending' = Tail(queue)
           /\ launchAt' = "hook" /\ recursing' = recursing
  <2>1. /\ queue \in Seq(Prompts) /\ IsInjective(queue)
    BY DEF Handles, HandlesType, QueueInv
  <2>2. /\ launching' \in Prompts
        /\ pending' \in Seq(Prompts)
        /\ ToSet(queue) = {launching'} \cup ToSet(pending')
        /\ IsInjective(pending') /\ launching' \notin ToSet(pending')
    BY <1>2, <2>1, HeadTailProps
  <2>3. launching' # None
    BY <2>2
  <2>4. HandlesType(st, pending', None, str, launching', launchAt')
    BY <1>2, <2>2 DEF Handles, HandlesType
  <2>5. QueueInv(st, pending', launching', trn)
    BY <2>2 DEF Handles, QueueInv
  <2>6. st[launching'] = "pending" /\ trn[launching'] = "none"
    BY <2>2, <2>3 DEF Handles, QueueInv
  <2>7. LaunchInv(st, launching', launchAt', trn)
    BY <1>2, <2>6 DEF LaunchInv
  <2>8. ActiveInv(st, None, str, trn)
    BY DEF Handles
  <2>9. AloneInv(None, launching', trn)
    BY DEF Handles, AloneInv
  <2> QED BY <1>2, <2>2, <2>3, <2>4, <2>5, <2>7, <2>8, <2>9 DEF Handles
<1> QED BY <1>1, <1>2 DEF StartNext, NextPrompt
-----------------------------------------------------------------------------
\* Every step keeps the invariant.

LEMMA InitInv == ASSUME Init PROVE Inv
<1>1. Places(turn, waiting, held, running)
  BY EmptyListProps DEF Init, LoopInit, Places
<1>2. LoopInv
  BY <1>1 DEF Init, LoopInit, LoopInv
<1>3. Handles(state, pending, active, steered, launching, launchAt, turn)
  BY EmptyListProps DEF Init, LoopInit, Handles, HandlesType, QueueInv, LaunchInv, ActiveInv, AloneInv
<1> QED BY <1>2, <1>3 DEF Init, Inv, PendingIsKept, WaitingIsServed

\* A step of the loop alone.
LEMMA LoopStepKeeps ==
  ASSUME Inv, LoopInv', \A t \in Prompts : Moved(t), disposing => disposing',
         UNCHANGED <<promptVars, launchVars, compaction>>
  PROVE  Inv'
<1>1. Handles(state, pending, active, steered, launching, launchAt, turn')
  BY MovedKeepsHandles DEF Inv
<1>2. PendingIsKept' /\ WaitingIsServed'
  BY DEF Inv, PendingIsKept, WaitingIsServed, Busy
<1> QED BY <1>1, <1>2 DEF Inv

LEMMA OthersKeep ==
  ASSUME Inv,
         \/ \E t \in Others : OtherSends(t) \/ OtherWithdraws(t)
         \/ \E t \in Turns : CancelTurn(t)
         \/ AbortActive \/ EndTurn \/ Ended \/ AdmitHeld
         \/ TakeLease \/ ReleaseLease \/ Dispose
  PROVE  Inv'
<1>1. LoopInv /\ \A p \in Prompts : p \in Turns /\ p \notin MayJoin
  BY DEF Inv
<1>2. ASSUME NEW t \in Others, OtherSends(t) PROVE Inv'
  <2>1. t \in Turns /\ t \notin Prompts /\ LoopSend(t) /\ disposing' = disposing
    BY <1>2 DEF OtherSends, Others, LoopSend
  <2>2. UNCHANGED <<promptVars, launchVars, ending, compaction>>
    BY <1>2 DEF OtherSends
  <2>3. /\ LoopInv'
        /\ \A u \in Turns \ {t} : \/ turn'[u] = turn[u]
                                  \/ turn[u] = "queued" /\ turn'[u] = "running"
    BY <1>1, <2>1, <2>2, LoopSendKeeps
  <2>4. \A p \in Prompts : Moved(p)
    BY <1>1, <2>1, <2>3 DEF Moved
  <2> QED BY <2>1, <2>2, <2>3, <2>4, LoopStepKeeps
<1>3. ASSUME NEW t \in Others, OtherWithdraws(t) PROVE Inv'
  <2>1. t \in Turns /\ t \notin Prompts /\ LoopWithdraw(t) /\ disposing' = disposing
    BY <1>3 DEF OtherWithdraws, Others, LoopWithdraw
  <2>2. UNCHANGED <<promptVars, launchVars, ending, compaction>>
    BY <1>3 DEF OtherWithdraws
  <2>3. LoopInv' /\ \A p \in Prompts : Moved(p)
    BY <1>1, <2>1, <2>2, LoopWithdrawKeeps DEF Moved
  <2> QED BY <2>1, <2>2, <2>3, LoopStepKeeps
<1>4. ASSUME NEW t \in Turns, LoopCancel(t), UNCHANGED <<promptVars, launchVars, ending, compaction>>
      PROVE  Inv'
  <2>1. LoopInv' /\ \A u \in Turns : \/ turn'[u] = turn[u]
                                     \/ turn[u] = "queued" /\ turn'[u] = "cancelled"
    BY <1>1, <1>4, LoopCancelKeeps
  <2>2. \A p \in Prompts : Moved(p)
    BY <1>1, <2>1 DEF Moved
  <2>3. disposing' = disposing
    BY <1>4 DEF LoopCancel
  <2> QED BY <1>4, <2>1, <2>2, <2>3, LoopStepKeeps
<1>5. ASSUME NEW t \in Turns, CancelTurn(t) PROVE Inv'
  BY <1>4, <1>5 DEF CancelTurn, LoopCancelQueued
<1>6. CASE AbortActive
  <2>1. active \in Turns
    BY <1>6 DEF Inv, Handles, HandlesType, AbortActive
  <2> QED BY <1>4, <1>6, <2>1 DEF AbortActive
<1>7. CASE EndTurn
  <2>1. LoopInv' /\ \A p \in Prompts : Moved(p)
    BY <1>1, <1>7, EndTurnKeeps DEF Moved, EndTurn
  <2>2. UNCHANGED <<promptVars, launchVars, disposing, compaction>>
    BY <1>7 DEF EndTurn, LoopEnds
  <2> QED BY <2>1, <2>2, LoopStepKeeps
<1>8. CASE Ended
  <2>1. LoopInv' /\ \A p \in Prompts : Moved(p)
    BY <1>1, <1>8, EndedKeeps DEF Moved, Ended
  <2>2. UNCHANGED <<promptVars, launchVars, disposing, compaction>>
    BY <1>8 DEF Ended, LoopStarts
  <2> QED BY <2>1, <2>2, LoopStepKeeps
<1>9. CASE AdmitHeld
  <2>1. LoopInv' /\ \A p \in Prompts : Moved(p)
    BY <1>1, <1>9, AdmitHeldKeeps DEF Moved, AdmitHeld
  <2>2. UNCHANGED <<promptVars, launchVars, disposing, compaction>>
    BY <1>9 DEF AdmitHeld, LoopAdmits
  <2> QED BY <2>1, <2>2, LoopStepKeeps
<1>10. CASE TakeLease \/ ReleaseLease
  <2>1. /\ UNCHANGED <<turnVars, disposing, ending, promptVars, launchVars, compaction>>
        /\ lease' \in BOOLEAN
        /\ lease' => running = None /\ waiting = << >>
    BY <1>10 DEF TakeLease, ReleaseLease, LoopLends, LoopReleased
  <2>2. UNCHANGED <<turn, waiting, held, running, disposing, ending>>
    BY <2>1
  <2>3. LoopInv' /\ \A p \in Prompts : Moved(p)
    BY <1>1, <2>1, <2>2 DEF LoopInv, Moved
  <2> QED BY <2>1, <2>3, LoopStepKeeps
<1>11. CASE Dispose
  <2>1. LoopInv' /\ \A p \in Prompts : Moved(p)
    BY <1>1, <1>11, DisposeKeeps DEF Moved, Dispose
  <2>2. disposing' /\ UNCHANGED <<promptVars, launchVars, compaction>>
    BY <1>11 DEF Dispose, LoopDisposes
  <2> QED BY <2>1, <2>2, LoopStepKeeps
<1> QED BY <1>2, <1>3, <1>5, <1>6, <1>7, <1>8, <1>9, <1>10, <1>11

LEMMA EnqueueKeeps ==
  ASSUME Inv, NEW p \in Prompts, Enqueue(p)
  PROVE  Inv'
<1> DEFINE queue == Append(pending, p)
<1>1. /\ state[p] = "new" /\ state' = [state EXCEPT ![p] = "pending"]
      /\ UNCHANGED <<active, steered, loopVars, ending, compaction>>
  BY DEF Enqueue
<1>2. HandlesType(state, pending, active, steered, launching, launchAt)
  BY DEF Inv, Handles
<1>3. /\ state' \in [Prompts -> {"new", "pending", "running", "steered", "blocked"} \cup Outcomes]
      /\ state'[p] = "pending" /\ \A q \in Prompts \ {p} : state'[q] = state[q]
  BY <1>1, <1>2 DEF HandlesType
<1>4. p \notin ToSet(pending) /\ p # launching /\ p # None
  BY <1>1 DEF Inv, Handles, QueueInv, LaunchInv
<1>5. /\ queue \in Seq(Prompts) /\ queue # << >> /\ IsInjective(queue)
      /\ ToSet(queue) = ToSet(pending) \cup {p}
  BY <1>2, <1>4, AppendProps DEF HandlesType, Inv, Handles, QueueInv
<1> HIDE DEF queue
<1>6. Handles(state', queue, active, steered, launching, launchAt, turn)
  <2>1. HandlesType(state', queue, active, steered, launching, launchAt)
    BY <1>2, <1>3, <1>5 DEF HandlesType
  <2>2. QueueInv(state', queue, launching, turn)
    BY <1>1, <1>3, <1>4, <1>5 DEF Inv, Handles, QueueInv
  <2>3. LaunchInv(state', launching, launchAt, turn)
    BY <1>2, <1>3, <1>4 DEF Inv, Handles, HandlesType, LaunchInv
  <2>4. ActiveInv(state', active, steered, turn)
    BY <1>1, <1>2, <1>3 DEF Inv, Handles, HandlesType, ActiveInv
  <2>5. AloneInv(active, launching, turn)
    BY DEF Inv, Handles
  <2> QED BY <2>1, <2>2, <2>3, <2>4, <2>5 DEF Handles
<1>7. disposing \/ \A q \in Prompts :
        state'[q] = "pending" => q \in ToSet(queue) \cup {launching}
  BY <1>3, <1>5 DEF Inv, PendingIsKept
<1>8. CASE /\ Busy \/ HeldBack(compaction, running)
           /\ pending' = queue
           /\ UNCHANGED <<launching, launchAt, recursing>>
  <2>1. PendingIsKept'
    BY <1>1, <1>7, <1>8 DEF PendingIsKept
  <2>2. WaitingIsServed'
    BY <1>1, <1>8 DEF WaitingIsServed, Busy, HeldBack
  <2> QED BY <1>1, <1>6, <1>8, <2>1, <2>2 DEF Inv, LoopInv
<1>9. CASE ~ Busy /\ StartNext(queue, compaction, running)
  <2>1. active = None /\ launching = None
    BY <1>9 DEF Busy
  <2>2. /\ Handles(state', pending', None, steered, launching', launchAt', turn)
        /\ ToSet(queue) \subseteq ToSet(pending') \cup {launching'}
        /\ pending' # << >> => launching' # None \/ recursing'
        /\ recursing' \in BOOLEAN
    BY <1>6, <1>9, <2>1, StartNextKeeps DEF Inv
  <2>3. PendingIsKept'
    BY <1>1, <1>4, <1>7, <2>1, <2>2 DEF PendingIsKept
  <2>4. WaitingIsServed'
    BY <2>2 DEF WaitingIsServed, Busy
  <2> QED BY <1>1, <2>1, <2>2, <2>3, <2>4 DEF Inv, LoopInv
<1> QED BY <1>8, <1>9 DEF Enqueue, queue
\* What the queue promises of the prompts that leave it.
LEMMA DropPendingProps ==
  ASSUME Inv, NEW S
  PROVE  /\ DropPending(S) \in Seq(Prompts)
         /\ IsInjective(DropPending(S))
         /\ ToSet(DropPending(S)) = ToSet(pending) \ S
         /\ DropPending(S) # << >> => pending # << >>
<1>1. pending \in Seq(Prompts) /\ IsInjective(pending)
  BY DEF Inv, Handles, HandlesType, QueueInv
<1>2. /\ DropPending(S) \in Seq(Prompts)
      /\ IsInjective(DropPending(S))
      /\ ToSet(DropPending(S)) = ToSet(pending) \ S
  BY <1>1, WithoutProps DEF DropPending
<1>3. ASSUME DropPending(S) # << >> PROVE pending # << >>
  <2>1. Head(DropPending(S)) \in ToSet(pending)
    BY <1>2, <1>3, HeadTailProps
  <2> QED BY <2>1, EmptyListProps
<1> QED BY <1>2, <1>3

\* A steered prompt is refused only by a loop that is being disposed of: while
\* a prompt is active and not settled its turn runs or waits.
LEMMA SteerKeeps ==
  ASSUME Inv, NEW S \in SUBSET Prompts, Steer(S)
  PROVE  Inv'
<1>1. /\ ending = 0 /\ ~ SettleDue /\ active # None /\ S \subseteq ToSet(pending)
      /\ pending' = DropPending(S)
      /\ UNCHANGED <<active, launching, launchAt, recursing, loopVars, ending, compaction>>
  BY DEF Steer, Request, Resume
<1>2. HandlesType(state, pending, active, steered, launching, launchAt) /\ active \in Prompts
  BY <1>1 DEF Inv, Handles, HandlesType
<1>3. /\ pending' \in Seq(Prompts) /\ IsInjective(pending')
      /\ ToSet(pending') = ToSet(pending) \ S
  BY <1>1, DropPendingProps
<1>4. \A p \in S : state[p] = "pending" /\ p # launching /\ p # active
  BY <1>1 DEF Inv, Handles, QueueInv, ActiveInv
<1>5. LoopInv' /\ WaitingIsServed'
  BY <1>1 DEF Inv, LoopInv, WaitingIsServed, Busy
<1>6. CASE /\ state' = [p \in Prompts |-> IF p \in S THEN "steered" ELSE state[p]]
           /\ steered' = [steered EXCEPT ![active] = @ \cup S]
  <2>1. /\ \A p \in S : state'[p] = "steered"
        /\ \A p \in Prompts \ S : state'[p] = state[p]
        /\ steered'[active] = steered[active] \cup S
        /\ \A p \in Prompts \ {active} : steered'[p] = steered[p]
    BY <1>2, <1>6 DEF HandlesType
  <2>2. HandlesType(state', pending', active, steered', launching, launchAt)
    BY <1>2, <1>3, <1>6 DEF HandlesType
  <2>3. QueueInv(state', pending', launching, turn)
    <3>1. \A p \in ToSet(pending') : p \in Prompts
      BY <1>3 DEF ToSet
    <3> QED BY <1>3, <1>4, <2>1, <3>1 DEF Inv, Handles, QueueInv
  <2>4. LaunchInv(state', launching, launchAt, turn)
    BY <1>2, <1>4, <2>1 DEF HandlesType, Inv, Handles, LaunchInv
  <2>5. ActiveInv(state', active, steered', turn)
    BY <1>1, <1>2, <1>4, <2>1 DEF HandlesType, Inv, Handles, ActiveInv
  <2>6. Handles(state', pending', active, steered', launching, launchAt, turn)
    BY <2>2, <2>3, <2>4, <2>5 DEF Inv, Handles
  <2>7. PendingIsKept'
    BY <1>1, <1>3, <2>1 DEF Inv, PendingIsKept
  <2> QED BY <1>1, <1>5, <2>6, <2>7 DEF Inv
<1>7. CASE (running = None \/ disposing) /\ UNCHANGED <<state, steered>>
  <2>1. disposing
    <3> SUFFICES ASSUME ~ disposing PROVE FALSE
      OBVIOUS
    <3>1. running = None
      BY <1>7
    <3>2. turn[active] \in {"queued", "running"} /\ active \in Turns
      BY <1>1, <1>2 DEF Inv, Handles, ActiveInv, SettleDue
    <3>3. active \in ToSet(waiting)
      BY <1>1, <3>1, <3>2 DEF Inv, LoopInv, Places
    <3>4. waiting # << >>
      BY <3>3, EmptyListProps
    <3> QED BY <1>1, <3>1, <3>4 DEF Inv, LoopInv
  <2>2. Handles(state, pending', active, steered, launching, launchAt, turn)
    <3>1. HandlesType(state, pending', active, steered, launching, launchAt)
      BY <1>2, <1>3 DEF HandlesType
    <3>2. QueueInv(state, pending', launching, turn)
      BY <1>3 DEF Inv, Handles, QueueInv
    <3> QED BY <3>1, <3>2 DEF Inv, Handles
  <2> QED BY <1>1, <1>5, <1>7, <2>1, <2>2 DEF Inv, PendingIsKept
<1> QED BY <1>6, <1>7 DEF Steer

LEMMA AbortPendingKeeps ==
  ASSUME Inv, NEW a \in Prompts, AbortPending(a)
  PROVE  Inv'
<1>1. /\ a \in ToSet(pending) /\ pending' = DropPending({a})
      /\ state' = [state EXCEPT ![a] = "cancelled"]
      /\ UNCHANGED <<active, steered, launching, launchAt, recursing, loopVars, ending, compaction>>
  BY DEF AbortPending
<1>2. HandlesType(state, pending, active, steered, launching, launchAt)
  BY DEF Inv, Handles
<1>3. /\ pending' \in Seq(Prompts) /\ IsInjective(pending')
      /\ ToSet(pending') = ToSet(pending) \ {a}
      /\ pending' # << >> => pending # << >>
  BY <1>1, DropPendingProps
<1>4. state[a] = "pending" /\ a # launching /\ a # active
  BY <1>1 DEF Inv, Handles, QueueInv, ActiveInv
<1>5. state'[a] = "cancelled" /\ \A p \in Prompts \ {a} : state'[p] = state[p]
  BY <1>1, <1>2 DEF HandlesType
<1>6. HandlesType(state', pending', active, steered, launching, launchAt)
  BY <1>1, <1>2, <1>3 DEF HandlesType
<1>7. QueueInv(state', pending', launching, turn)
  <2>1. \A p \in ToSet(pending') : p \in Prompts
    BY <1>3 DEF ToSet
  <2> QED BY <1>3, <1>5, <2>1 DEF Inv, Handles, QueueInv
<1>8. LaunchInv(state', launching, launchAt, turn)
  BY <1>2, <1>4, <1>5 DEF HandlesType, Inv, Handles, LaunchInv
<1>9. ActiveInv(state', active, steered, turn)
  BY <1>2, <1>4, <1>5 DEF HandlesType, Inv, Handles, ActiveInv
<1>10. Handles(state', pending', active, steered, launching, launchAt, turn)
  BY <1>6, <1>7, <1>8, <1>9 DEF Inv, Handles
<1>11. PendingIsKept'
  BY <1>1, <1>3, <1>5 DEF Inv, PendingIsKept
<1>12. LoopInv' /\ WaitingIsServed'
  BY <1>1, <1>3 DEF Inv, LoopInv, WaitingIsServed, Busy
<1> QED BY <1>1, <1>10, <1>11, <1>12 DEF Inv

LEMMA ClearKeeps ==
  ASSUME Inv, Clear
  PROVE  Inv'
<1>1. /\ pending' = << >>
      /\ state' = [p \in Prompts |-> IF p \in ToSet(pending) THEN "cancelled" ELSE state[p]]
      /\ IF active # None THEN LoopCancel(active) ELSE UNCHANGED loopVars
      /\ UNCHANGED <<active, steered, launching, launchAt, recursing, ending, compaction>>
  BY DEF Clear
<1>2. HandlesType(state, pending, active, steered, launching, launchAt)
  BY DEF Inv, Handles
<1>3. LoopInv' /\ \A p \in Prompts : Moved(p)
  <2>1. CASE active # None
    <3>1. active \in Turns /\ LoopCancel(active) /\ LoopInv
      BY <1>1, <1>2, <2>1 DEF HandlesType, Inv
    <3>2. /\ LoopInv'
          /\ \A u \in Turns : \/ turn'[u] = turn[u]
                              \/ turn[u] = "queued" /\ turn'[u] = "cancelled"
      BY <1>1, <3>1, LoopCancelKeeps
    <3> QED BY <3>2 DEF Moved
  <2>2. CASE active = None
    BY <1>1, <2>2 DEF Inv, LoopInv, Moved
  <2> QED BY <2>1, <2>2
<1>4. \A p \in ToSet(pending) : p \in Prompts /\ state[p] = "pending" /\ p # launching
  BY <1>2 DEF ToSet, HandlesType, Inv, Handles, QueueInv
<1>5. \A p \in Prompts : state'[p] = IF p \in ToSet(pending) THEN "cancelled" ELSE state[p]
  BY <1>1
<1>6. HandlesType(state', pending', active, steered, launching, launchAt)
  BY <1>1, <1>2, EmptyListProps DEF HandlesType
<1>7. QueueInv(state', pending', launching, turn)
  BY <1>1, <1>5, EmptyListProps DEF Inv, Handles, QueueInv
<1>8. LaunchInv(state', launching, launchAt, turn)
  BY <1>2, <1>4, <1>5 DEF HandlesType, Inv, Handles, LaunchInv
<1>9. ActiveInv(state', active, steered, turn)
  BY <1>2, <1>4, <1>5 DEF HandlesType, Inv, Handles, ActiveInv
<1>10. Handles(state', pending', active, steered, launching, launchAt, turn')
  BY <1>3, <1>6, <1>7, <1>8, <1>9, MovedKeepsHandles DEF Inv, Handles
<1>11. PendingIsKept' /\ WaitingIsServed'
  <2>1. UNCHANGED disposing
    BY <1>1 DEF LoopCancel
  <2> QED BY <1>1, <1>5, <2>1 DEF Inv, PendingIsKept, WaitingIsServed
<1> QED BY <1>1, <1>3, <1>10, <1>11 DEF Inv

\* The next prompt is up when the one being launched has settled.
LEMMA LaunchFailsKeeps ==
  ASSUME Inv, launching # None, NEW o \in {"blocked", "failed"},
         turn[launching] \in {"none", "declined"},
         state' = [state EXCEPT ![launching] = o],
         StartNext(pending, compaction, running),
         UNCHANGED <<active, steered, loopVars, ending, compaction>>
  PROVE  Inv'
<1>1. HandlesType(state, pending, active, steered, launching, launchAt)
  BY DEF Inv, Handles
<1>2. active = None /\ launching \in Prompts /\ state[launching] = "pending"
  BY <1>1 DEF Inv, Handles, HandlesType, AloneInv, LaunchInv
<1>3. /\ state'[launching] = o /\ \A p \in Prompts \ {launching} : state'[p] = state[p]
      /\ state' \in [Prompts -> {"new", "pending", "running", "steered", "blocked"} \cup Outcomes]
  BY <1>1, <1>2 DEF HandlesType
<1>4. Handles(state', pending, None, steered, None, launchAt, turn)
  <2>1. HandlesType(state', pending, None, steered, None, launchAt)
    BY <1>1, <1>3 DEF HandlesType
  <2>2. QueueInv(state', pending, None, turn)
    <3>1. \A p \in ToSet(pending) : p \in Prompts
      BY <1>1 DEF ToSet, HandlesType
    <3> QED BY <1>3, <3>1 DEF Inv, Handles, QueueInv
  <2>3. ActiveInv(state', None, steered, turn)
    BY <1>1, <1>2, <1>3 DEF HandlesType, Inv, Handles, ActiveInv
  <2>4. AloneInv(None, None, turn)
    BY <1>2 DEF Inv, Handles, AloneInv
  <2> QED BY <2>1, <2>2, <2>3, <2>4 DEF Handles, LaunchInv
<1>5. /\ Handles(state', pending', None, steered, launching', launchAt', turn)
      /\ ToSet(pending) \subseteq ToSet(pending') \cup {launching'}
      /\ pending' # << >> => launching' # None \/ recursing'
      /\ recursing' \in BOOLEAN
  BY <1>4, StartNextKeeps DEF Inv
<1>6. PendingIsKept'
  BY <1>2, <1>3, <1>5 DEF Inv, PendingIsKept
<1>7. LoopInv' /\ WaitingIsServed'
  BY <1>5 DEF Inv, LoopInv, WaitingIsServed, Busy
<1> QED BY <1>2, <1>5, <1>6, <1>7 DEF Inv

LEMMA HookStopsKeeps == ASSUME Inv, HookStops PROVE Inv'
<1>1. launching # None /\ turn[launching] = "none"
  BY DEF HookStops, Inv, Handles, LaunchInv
<1>2. PICK o \in {"blocked", "failed"} : state' = [state EXCEPT ![launching] = o]
  BY DEF HookStops
<1> QED BY <1>1, <1>2, LaunchFailsKeeps DEF HookStops

LEMMA RefusedKeeps == ASSUME Inv, Refused PROVE Inv'
  BY LaunchFailsKeeps DEF Refused

LEMMA HookPassesKeeps == ASSUME Inv, HookPasses PROVE Inv'
<1>1. /\ launching # None /\ launchAt = "hook" /\ ~ disposing /\ LoopEnqueue(launching)
      /\ launchAt' = "assign"
      /\ UNCHANGED <<promptVars, pending, launching, recursing, ending, lease, disposing,
                     compaction>>
  BY DEF HookPasses
<1>2. HandlesType(state, pending, active, steered, launching, launchAt)
  BY DEF Inv, Handles
<1>3. launching \in Prompts /\ turn[launching] = "none" /\ active = None
  BY <1>1, <1>2 DEF HandlesType, Inv, Handles, LaunchInv, AloneInv
<1>4. /\ LoopInv'
      /\ turn'[launching] \in {"held", "queued", "running"}
      /\ \A p \in Prompts \ {launching} : Moved(p)
  <2>1. /\ LoopInv'
        /\ turn'[launching] \in {"held", "queued", "running"}
        /\ \A u \in Turns \ {launching} : \/ turn'[u] = turn[u]
                                          \/ turn[u] = "queued" /\ turn'[u] = "running"
    BY <1>1, <1>3, LoopEnqueueKeeps DEF Inv
  <2> QED BY <2>1 DEF Moved
<1>5. HandlesType(state, pending, active, steered, launching, launchAt')
  BY <1>1, <1>2 DEF HandlesType
<1>6. QueueInv(state, pending, launching, turn')
  BY <1>4 DEF Inv, Handles, QueueInv, Moved
<1>7. LaunchInv(state, launching, launchAt', turn')
  BY <1>1, <1>4 DEF Inv, Handles, LaunchInv
<1>8. ActiveInv(state, active, steered, turn')
  BY <1>3 DEF Inv, Handles, ActiveInv
<1>9. AloneInv(active, launching, turn')
  BY <1>3, <1>4 DEF Inv, Handles, AloneInv, Moved
<1>10. Handles(state, pending, active, steered, launching, launchAt', turn')
  BY <1>5, <1>6, <1>7, <1>8, <1>9 DEF Handles
<1>11. PendingIsKept' /\ WaitingIsServed'
  BY <1>1 DEF Inv, PendingIsKept, WaitingIsServed, Busy
<1> QED BY <1>1, <1>4, <1>10, <1>11 DEF Inv

LEMMA AssignedKeeps == ASSUME Inv, Assigned PROVE Inv'
<1>1. /\ launching # None /\ launchAt = "assign" /\ HasTurn(launching)
      /\ state' = [state EXCEPT ![launching] = "running"]
      /\ active' = launching /\ launching' = None
      /\ UNCHANGED <<steered, pending, launchAt, recursing, loopVars, ending, compaction>>
  BY DEF Assigned
<1>2. HandlesType(state, pending, active, steered, launching, launchAt)
  BY DEF Inv, Handles
<1>3. /\ launching \in Prompts /\ active = None /\ state[launching] = "pending"
      /\ turn[launching] \in {"queued", "running"} \cup Outcomes
  <2>1. launching \in Prompts /\ active = None /\ state[launching] = "pending"
    BY <1>1, <1>2 DEF HandlesType, Inv, Handles, LaunchInv, AloneInv
  <2>2. turn[launching] \in TurnStates
    BY <2>1 DEF Inv, LoopInv, Places
  <2>3. turn[launching] \notin {"none", "held", "declined"}
    BY <1>1 DEF HasTurn, Inv, Handles, LaunchInv
  <2> QED BY <2>1, <2>2, <2>3
<1>4. /\ state'[launching] = "running"
      /\ \A p \in Prompts \ {launching} : state'[p] = state[p]
  BY <1>1, <1>2, <1>3 DEF HandlesType
<1>5. HandlesType(state', pending, active', steered, None, launchAt)
  BY <1>1, <1>2, <1>3 DEF HandlesType
<1>6. QueueInv(state', pending, None, turn)
  <2>1. \A p \in ToSet(pending) : p \in Prompts
    BY <1>2 DEF ToSet, HandlesType
  <2> QED BY <1>3, <1>4, <2>1 DEF Inv, Handles, QueueInv
<1>7. ActiveInv(state', active', steered, turn)
  BY <1>1, <1>2, <1>3, <1>4 DEF HandlesType, Inv, Handles, ActiveInv
<1>8. AloneInv(active', None, turn)
  BY <1>1, <1>3 DEF Inv, Handles, AloneInv
<1>9. Handles(state', pending, active', steered, None, launchAt, turn)
  BY <1>5, <1>6, <1>7, <1>8 DEF Handles, LaunchInv
<1>10. PendingIsKept'
  BY <1>1, <1>3, <1>4 DEF Inv, PendingIsKept
<1>11. LoopInv' /\ WaitingIsServed'
  BY <1>1, <1>3 DEF Inv, LoopInv, WaitingIsServed, Busy
<1> QED BY <1>1, <1>9, <1>10, <1>11 DEF Inv

LEMMA SettleKeeps == ASSUME Inv, Settle PROVE Inv'
<1>1. /\ active # None /\ turn[active] \in Outcomes
      /\ state' = [p \in Prompts |-> IF p \in SettledWith(active) THEN turn[active] ELSE state[p]]
      /\ steered' = [steered EXCEPT ![active] = {}]
      /\ active' = None
      /\ UNCHANGED <<loopVars, ending, compaction>>
  BY DEF Settle
<1>2. HandlesType(state, pending, active, steered, launching, launchAt)
  BY DEF Inv, Handles
<1>3. active \in Prompts /\ launching = None /\ StartNext(pending, compaction, running)
  BY <1>1, <1>2 DEF HandlesType, Inv, Handles, AloneInv, Settle
<1>4. /\ \A p \in Prompts : p = active \/ p \in steered[active] => state'[p] \in Outcomes
      /\ \A p \in Prompts : p # active /\ p \notin steered[active] => state'[p] = state[p]
      /\ steered'[active] = {}
      /\ \A p \in Prompts \ {active} : steered'[p] = steered[p]
  BY <1>1, <1>2, <1>3 DEF HandlesType, SettledWith
<1>5. \A p \in Prompts : p = active \/ p \in steered[active] => state[p] \in {"running", "steered"}
  BY <1>1, <1>3 DEF Inv, Handles, ActiveInv
<1>6. HandlesType(state', pending, None, steered', None, launchAt)
  <2>1. state' \in [Prompts -> {"new", "pending", "running", "steered", "blocked"} \cup Outcomes]
    BY <1>1, <1>2 DEF HandlesType
  <2> QED BY <1>1, <1>2, <1>3, <2>1 DEF HandlesType
<1>7. QueueInv(state', pending, None, turn)
  <2>1. \A p \in ToSet(pending) : p \in Prompts
    BY <1>2 DEF ToSet, HandlesType
  <2> QED BY <1>3, <1>4, <1>5, <2>1 DEF Inv, Handles, QueueInv
<1>8. ActiveInv(state', None, steered', turn)
  <2>1. \A p, q \in Prompts : q \notin steered'[p]
    BY <1>1, <1>3, <1>4 DEF Inv, Handles, ActiveInv
  <2>2. \A q \in Prompts : state'[q] # "steered"
    BY <1>1, <1>3, <1>4 DEF Inv, Handles, ActiveInv
  <2> QED BY <2>1, <2>2 DEF ActiveInv
<1>9. AloneInv(None, None, turn)
  BY <1>1, <1>3 DEF Inv, Handles, AloneInv
<1>10. Handles(state', pending, None, steered', None, launchAt, turn)
  BY <1>6, <1>7, <1>8, <1>9 DEF Handles, LaunchInv
<1>11. /\ Handles(state', pending', None, steered', launching', launchAt', turn)
       /\ ToSet(pending) \subseteq ToSet(pending') \cup {launching'}
       /\ pending' # << >> => launching' # None \/ recursing'
       /\ recursing' \in BOOLEAN
  BY <1>3, <1>10, StartNextKeeps DEF Inv
<1>12. PendingIsKept'
  BY <1>1, <1>3, <1>4, <1>11 DEF Inv, PendingIsKept
<1>13. LoopInv' /\ WaitingIsServed'
  BY <1>1, <1>11 DEF Inv, LoopInv, WaitingIsServed, Busy
<1> QED BY <1>1, <1>11, <1>12, <1>13 DEF Inv

LEMMA CompactionKeeps ==
  ASSUME Inv, NEW c \in Compactions,
         CompactionBegins(c) \/ CompactionCancelled(c) \/ WorkerEnds(c)
  PROVE  Inv'
<1>1. CASE CompactionBegins(c) \/ CompactionCancelled(c)
  <2>1. PICK s \in {"running", "cancelled"} : compaction' = [compaction EXCEPT ![c] = s]
    BY <1>1 DEF CompactionBegins, CompactionCancelled
  <2>2. UNCHANGED <<promptVars, launchVars, loopVars, ending>>
    BY <1>1 DEF CompactionBegins, CompactionCancelled
  <2>3. /\ compaction' \in [Compactions -> {"new", "running", "cancelled", "over"}]
        /\ compaction'[c] = s /\ \A d \in Compactions \ {c} : compaction'[d] = compaction[d]
    BY <2>1 DEF Inv
  <2>4. LoopInv' /\ PendingIsKept'
    BY <2>2 DEF Inv, LoopInv, PendingIsKept
  <2>5. WaitingIsServed'
    BY <2>2, <2>3 DEF Inv, WaitingIsServed, Busy
  <2> QED BY <2>2, <2>3, <2>4, <2>5 DEF Inv
<1>2. CASE WorkerEnds(c)
  <2>1. compaction' \in [Compactions -> {"new", "running", "cancelled", "over"}]
    BY <1>2 DEF Inv, WorkerEnds
  <2>2. UNCHANGED <<promptVars, loopVars, ending>>
    BY <1>2 DEF WorkerEnds
  <2>3. LoopInv'
    BY <2>2 DEF Inv, LoopInv
  <2>4. CASE Busy /\ UNCHANGED launchVars
    <3>1. PendingIsKept' /\ WaitingIsServed'
      BY <2>2, <2>4 DEF Inv, PendingIsKept, WaitingIsServed, Busy
    <3> QED BY <2>1, <2>2, <2>3, <2>4, <3>1 DEF Inv
  <2>5. CASE ~ Busy /\ StartNext(pending, compaction', running)
    <3>1. active = None /\ launching = None
      BY <2>5 DEF Busy
    <3>2. /\ Handles(state, pending', None, steered, launching', launchAt', turn)
          /\ ToSet(pending) \subseteq ToSet(pending') \cup {launching'}
          /\ pending' # << >> => launching' # None \/ recursing'
          /\ recursing' \in BOOLEAN
      BY <2>5, <3>1, StartNextKeeps DEF Inv
    <3>3. PendingIsKept' /\ WaitingIsServed'
      BY <2>2, <3>1, <3>2 DEF Inv, PendingIsKept, WaitingIsServed, Busy
    <3> QED BY <2>1, <2>2, <2>3, <3>1, <3>2, <3>3 DEF Inv
  <2> QED BY <1>2, <2>4, <2>5 DEF WorkerEnds, CompactionOver
<1> QED BY <1>1, <1>2

LEMMA StepInv == ASSUME Inv, [Next]_vars PROVE Inv'
<1>1. CASE UNCHANGED vars
  <2>1. LoopInv' /\ PendingIsKept' /\ WaitingIsServed'
    BY <1>1 DEF Inv, LoopInv, PendingIsKept, WaitingIsServed, Busy
  <2> QED BY <1>1, <2>1 DEF Inv
<1>2. CASE Call
  BY <1>2, EnqueueKeeps, AbortPendingKeeps, SteerKeeps, ClearKeeps, OthersKeep, CompactionKeeps
     DEF Call
<1>3. CASE Own
  BY <1>3, HookStopsKeeps, HookPassesKeeps, AssignedKeeps, RefusedKeeps, SettleKeeps,
     OthersKeep, CompactionKeeps
     DEF Own
<1>4. CASE ReleaseLease
  BY <1>4, OthersKeep
<1> QED BY <1>1, <1>2, <1>3, <1>4 DEF Next

LEMMA Invariant == Spec => []Inv
<1>1. Init => Inv
  BY InitInv
<1>2. Inv /\ [Next]_vars => Inv'
  BY StepInv
<1> QED BY <1>1, <1>2, PTL DEF Spec
-----------------------------------------------------------------------------
\* What no step does.

LEMMA SettlesOnceStep ==
  ASSUME Inv, [Next]_vars
  PROVE  \A p \in Prompts : Done(p) => state'[p] = state[p]
<1> SUFFICES ASSUME NEW p \in Prompts, Done(p) PROVE state'[p] = state[p]
  OBVIOUS
<1>1. HandlesType(state, pending, active, steered, launching, launchAt)
  BY DEF Inv, Handles
<1>2. state[p] \notin {"new", "pending", "running", "steered"}
  BY DEF Done
<1>3. ASSUME NEW q \in Prompts, NEW s, q # p, state' = [state EXCEPT ![q] = s]
      PROVE  state'[p] = state[p]
  BY <1>1, <1>3 DEF HandlesType
<1>4. /\ p # launching /\ p # active
      /\ p \notin ToSet(pending)
      /\ active # None => p \notin steered[active]
  BY <1>1, <1>2 DEF HandlesType, Inv, Handles, QueueInv, LaunchInv, ActiveInv
<1>5. CASE state' = state
  BY <1>5
<1>6. CASE \E q \in Prompts : Enqueue(q)
  BY <1>2, <1>3, <1>6 DEF Enqueue
<1>7. CASE \E q \in Prompts : AbortPending(q)
  BY <1>3, <1>4, <1>7 DEF AbortPending
<1>8. CASE \E S \in SUBSET Prompts : Steer(S)
  BY <1>4, <1>8 DEF Steer
<1>9. CASE Clear
  BY <1>4, <1>9 DEF Clear
<1>10. CASE HookStops \/ Assigned \/ Refused
  <2>1. launching \in Prompts
    BY <1>1, <1>10 DEF HandlesType, HookStops, Assigned, Refused
  <2> QED BY <1>3, <1>4, <1>10, <2>1 DEF HookStops, Assigned, Refused
<1>11. CASE Settle
  BY <1>4, <1>11 DEF Settle, SettledWith
<1>12. CASE Call /\ state' # state
  BY <1>6, <1>7, <1>8, <1>9, <1>12
     DEF Call, OtherSends, OtherWithdraws, CancelTurn, AbortActive, TakeLease, Dispose,
         CompactionBegins, CompactionCancelled
<1>13. CASE Own /\ state' # state
  BY <1>10, <1>11, <1>13 DEF Own, HookPasses, EndTurn, Ended, AdmitHeld, WorkerEnds
<1> QED BY <1>5, <1>12, <1>13 DEF Next, ReleaseLease

\* The prompt that is launched next is the one at the head of the queue.
LEMMA LaunchesTheHead ==
  ASSUME Inv, [Next]_vars, pending # << >>
  PROVE  launching' \in {None, launching, pending[1]}
<1>1. /\ HandlesType(state, pending, active, steered, launching, launchAt)
      /\ pending \in Seq(Prompts)
  BY DEF Inv, Handles, HandlesType
<1>2. ASSUME NEW queue \in Seq(Prompts), NEW comp, queue # << >>,
             StartNext(queue, comp, running)
      PROVE  launching' = None \/ launching' = Head(queue)
  BY <1>2 DEF StartNext, NextPrompt
<1>3. Head(pending) = pending[1]
  BY <1>1
<1>4. ASSUME NEW comp, StartNext(pending, comp, running)
      PROVE  launching' \in {None, pending[1]}
  BY <1>1, <1>2, <1>3, <1>4
<1>5. CASE \E p \in Prompts : Enqueue(p)
  <2>1. PICK p \in Prompts : Enqueue(p)
    BY <1>5
  <2>2. /\ Append(pending, p) \in Seq(Prompts) /\ Append(pending, p) # << >>
        /\ Head(Append(pending, p)) = pending[1]
    BY <1>1, AppendProps
  <2>3. launching' = launching \/ StartNext(Append(pending, p), compaction, running)
    BY <2>1 DEF Enqueue
  <2> QED BY <1>2, <2>2, <2>3
<1>6. CASE HookStops \/ Refused \/ Settle
  BY <1>4, <1>6 DEF HookStops, Refused, Settle
<1>7. CASE \E c \in Compactions : WorkerEnds(c)
  BY <1>4, <1>7 DEF WorkerEnds, CompactionOver
<1>8. CASE Call
  BY <1>5, <1>8
     DEF Call, AbortPending, Steer, Clear, OtherSends, OtherWithdraws, CancelTurn, AbortActive,
         TakeLease, Dispose, CompactionBegins, CompactionCancelled
<1>9. CASE Own
  BY <1>6, <1>7, <1>9 DEF Own, HookPasses, Assigned, EndTurn, Ended, AdmitHeld
<1> QED BY <1>8, <1>9 DEF Next, ReleaseLease

LEMMA NoOvertakingStep ==
  ASSUME Inv, [Next]_vars
  PROVE  \A i, j \in DOMAIN pending :
           i < j /\ launching' = pending[j] => pending[i] \notin ToSet(pending')
<1> SUFFICES ASSUME NEW i \in DOMAIN pending, NEW j \in DOMAIN pending,
                    i < j, launching' = pending[j]
             PROVE  FALSE
  OBVIOUS
<1>1. pending \in Seq(Prompts) /\ IsInjective(pending)
  BY DEF Inv, Handles, HandlesType, QueueInv
<1>2. /\ pending # << >> /\ 1 \in DOMAIN pending /\ j # 1
      /\ pending[j] \in ToSet(pending) /\ pending[j] \in Prompts
  BY <1>1 DEF ToSet
<1>3. pending[j] # pending[1]
  BY <1>1, <1>2 DEF IsInjective
<1>4. pending[j] # launching
  BY <1>2 DEF Inv, Handles, QueueInv
<1> QED BY <1>2, <1>3, <1>4, LaunchesTheHead

-----------------------------------------------------------------------------
\* The theorems.

\* Every variable keeps its type.
THEOREM PromptTypes == Spec => []TypeOK
<1>1. Inv => TypeOK
  BY DEF Inv, LoopInv, Places, Handles, HandlesType, TypeOK, LoopTypeOK
<1> QED BY <1>1, Invariant, PTL

\* User prompts are serialized: whatever is aborted, steered, held back by a
\* lease or a compaction, at most one of them has a turn in the loop.
THEOREM PromptsAreSerialized == Spec => []OnePromptAtATime
<1>1. Inv => OnePromptAtATime
  BY DEF Inv, Handles, AloneInv, OnePromptAtATime
<1> QED BY <1>1, Invariant, PTL

\* No handle is lost and none is in two places: the pending ones are in the
\* queue or being launched, as long as the loop is not disposed of.
THEOREM NoHandleIsLost == Spec => []QueueHoldsThePending
<1>1. Inv => QueueHoldsThePending
  BY DEF Inv, PendingIsKept, Handles, HandlesType, QueueInv, LaunchInv, QueueHoldsThePending
<1> QED BY <1>1, Invariant, PTL

\* No wake-up is lost: prompts wait behind another prompt or for a compaction
\* whose worker has yet to report.
THEOREM NoLostWakeUp == Spec => []WaitingIsServed
<1>1. Inv => WaitingIsServed
  BY DEF Inv
<1> QED BY <1>1, Invariant, PTL

\* A steered prompt is with the active prompt until both settle.
THEOREM SteeredPromptsFollow == Spec => []SteeredFollowsActive
<1>1. Inv => SteeredFollowsActive
  BY DEF Inv, Handles, ActiveInv, SteeredFollowsActive
<1> QED BY <1>1, Invariant, PTL

\* A handle settles once.
THEOREM HandlesSettleOnce == Spec => SettlesOnce
<1>1. Inv /\ [Next]_vars => [\A p \in Prompts : Done(p) => state'[p] = state[p]]_vars
  BY SettlesOnceStep
<1> QED BY <1>1, Invariant, PTL DEF Spec, SettlesOnce

\* No prompt overtakes one that waits.
THEOREM PromptsInOrder == Spec => NoOvertaking
<1>1. Inv /\ [Next]_vars =>
        [\A i, j \in DOMAIN pending :
           i < j /\ launching' = pending[j] => pending[i] \notin ToSet(pending')]_vars
  BY NoOvertakingStep
<1> QED BY <1>1, Invariant, PTL DEF Spec, NoOvertaking
=============================================================================
