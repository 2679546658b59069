---------------------------- MODULE MiniDbProofs ----------------------------
(****************************************************************************)
(* For every set of keys and frames and every bound: the rotation of the    *)
(* log never makes a write fail (NeverRefused, from RefusalInv), what a     *)
(* power loss or a backup leaves is the effect of a prefix of the writes    *)
(* (RecoveredIsPrefix and UndisturbedBackup, from RecoveryInv), and what    *)
(* was answered survives I/O errors too (AckedSurvive, from SurvivalInv).   *)
(****************************************************************************)
EXTENDS MiniDbInvariant, OperatorLemmas

-----------------------------------------------------------------------------
\* ToSet of the sequences of calls to roll back.

LEMMA ToSetAppend ==
  ASSUME NEW S, NEW s \in Seq(S), NEW x \in S
  PROVE  ToSet(Append(s, x)) = ToSet(s) \cup {x}
<1>1. DOMAIN s = 1 .. Len(s) /\ DOMAIN Append(s, x) = 1 .. Len(s) + 1
  OBVIOUS
<1>2. \A i \in 1 .. Len(s) : Append(s, x)[i] = s[i]
  OBVIOUS
<1>3. Append(s, x)[Len(s) + 1] = x /\ Len(s) \in Nat
  OBVIOUS
<1> QED BY <1>1, <1>2, <1>3 DEF ToSet

\* What is not the head is in the tail.
LEMMA ToSetTail ==
  ASSUME NEW S, NEW s \in Seq(S), s # <<>>, NEW x \in ToSet(s), x # Head(s)
  PROVE  x \in ToSet(Tail(s))
<1>1. PICK i \in DOMAIN s : s[i] = x
  BY DEF ToSet
<1>2. i \in 2 .. Len(s)
  BY <1>1
<1>3. i - 1 \in DOMAIN Tail(s) /\ Tail(s)[i - 1] = s[i]
  BY <1>2
<1> QED BY <1>1, <1>3 DEF ToSet

-----------------------------------------------------------------------------
\* The types hold at first.
LEMMA TypesInit == Init => RefusalTypes
<1> SUFFICES ASSUME Init PROVE RefusalTypes
  OBVIOUS
<1>1. op \in [Calls -> Stages]
  BY DEF Init, Stages
<1>2. undo \in Seq(Calls) /\ queue \in Seq(Calls) /\ inflight \in Seq(Calls)
  BY DEF Init
<1>3. failures \in Nat /\ disturbed \in BOOLEAN
  BY DEF Init
<1> QED BY <1>1, <1>2, <1>3 DEF RefusalTypes

\* The types of what the argument reads.
LEMMA TypesStep == RefusalTypes /\ [Next]_vars => RefusalTypes'
<1> SUFFICES ASSUME RefusalTypes, [Next]_vars PROVE RefusalTypes'
  OBVIOUS
<1> USE DEF RefusalTypes, callVars, walVars, backupVars, countVars
<1>1. ASSUME Call PROVE RefusalTypes'
  BY <1>1 DEF Call, PastGate, Stages
<1>2. ASSUME NEW n \in Calls, PassGate(n) PROVE RefusalTypes'
  BY <1>2 DEF PassGate, PastGate, Stages
<1>3. ASSUME NEW n \in Calls, Commit(n) PROVE RefusalTypes'
  <2>1. \/ queue' = Append(queue, n) /\ op' = [op EXCEPT ![n] = "logged"] /\ UNCHANGED undo
        \/ /\ undo' = Append(undo, n) /\ UNCHANGED queue
           /\ \E a \in {"refused", "broken"} : op' = [op EXCEPT ![n] = a]
    BY <1>3 DEF Commit
  <2>2. UNCHANGED <<inflight, failures, disturbed>>
    BY <1>3 DEF Commit
  <2>3. op' \in [Calls -> Stages]
    BY <2>1 DEF Stages
  <2>4. Append(queue, n) \in Seq(Calls) /\ Append(undo, n) \in Seq(Calls)
    OBVIOUS
  <2>5. undo' \in Seq(Calls) /\ queue' \in Seq(Calls)
    BY <2>1, <2>4
  <2> QED BY <2>2, <2>3, <2>5
<1>4. ASSUME RollBack PROVE RefusalTypes'
  BY <1>4 DEF RollBack, Stages
<1>5. ASSUME FlushBatch PROVE RefusalTypes'
  BY <1>5 DEF FlushBatch
<1>6. ASSUME BatchWritten PROVE RefusalTypes'
  BY <1>6 DEF BatchWritten
<1>7. ASSUME BatchSynced PROVE RefusalTypes'
  BY <1>7 DEF BatchSynced, Stages
<1>8. ASSUME BatchFails PROVE RefusalTypes'
  BY <1>8 DEF BatchFails, IOError, Stages
<1>9. ASSUME Compact PROVE RefusalTypes'
  BY <1>9 DEF Compact
<1>10. ASSUME Fence PROVE RefusalTypes'
  BY <1>10 DEF Fence
<1>11. ASSUME NEW k \in Keys, WriteRecord(k) PROVE RefusalTypes'
  BY <1>11 DEF WriteRecord
<1>12. ASSUME SnapshotWritten PROVE RefusalTypes'
  BY <1>12 DEF SnapshotWritten
<1>13. ASSUME PreCopy PROVE RefusalTypes'
  BY <1>13 DEF PreCopy
<1>14. ASSUME Rotate PROVE RefusalTypes'
  BY <1>14 DEF Rotate
<1>15. ASSUME Drain PROVE RefusalTypes'
  BY <1>15 DEF Drain
<1>16. ASSUME DrainedTail PROVE RefusalTypes'
  BY <1>16 DEF DrainedTail
<1>17. ASSUME Drained PROVE RefusalTypes'
  BY <1>17 DEF Drained
<1>18. ASSUME Close PROVE RefusalTypes'
  BY <1>18 DEF Close
<1>19. ASSUME RenameSnapshot PROVE RefusalTypes'
  BY <1>19 DEF RenameSnapshot
<1>20. ASSUME SyncDir PROVE RefusalTypes'
  BY <1>20 DEF SyncDir
<1>21. ASSUME RenameWal PROVE RefusalTypes'
  BY <1>21 DEF RenameWal
<1>22. ASSUME Reopen PROVE RefusalTypes'
  BY <1>22 DEF Reopen, Release, Stages
<1>23. ASSUME NEW s \in {"open", "closed"}, RecoverRotation(s) PROVE RefusalTypes'
  BY <1>23 DEF RecoverRotation, Release, Stages
<1>24. ASSUME CompactFails PROVE RefusalTypes'
  BY <1>24 DEF CompactFails, IOError
<1>25. ASSUME RotationFails PROVE RefusalTypes'
  BY <1>25 DEF RotationFails, IOError
<1>26. ASSUME Backup PROVE RefusalTypes'
  BY <1>26 DEF Backup
<1>27. ASSUME BackupFlushed PROVE RefusalTypes'
  BY <1>27 DEF BackupFlushed
<1>28. ASSUME CopySnapshot PROVE RefusalTypes'
  BY <1>28 DEF CopySnapshot
<1>29. ASSUME CopyWal PROVE RefusalTypes'
  BY <1>29 DEF CopyWal
<1>30. ASSUME BackupDone PROVE RefusalTypes'
  BY <1>30 DEF BackupDone, Release, Stages
<1>31. ASSUME Crash PROVE RefusalTypes'
  BY <1>31 DEF Crash, NoBackup, Stages
<1>32. CASE UNCHANGED vars
  BY <1>32 DEF vars
<1> QED
  BY <1>1, <1>2, <1>3, <1>4, <1>5, <1>6, <1>7, <1>8, <1>9, <1>10, <1>11, <1>12, <1>13, <1>14, <1>15, <1>16, <1>17, <1>18, <1>19, <1>20, <1>21, <1>22, <1>23, <1>24, <1>25, <1>26, <1>27, <1>28, <1>29, <1>30, <1>31, <1>32
     DEF Next, Progress, Write, Compacting, BackingUp

-----------------------------------------------------------------------------
\* Nothing is sealed or refused at first.
LEMMA RotationInit == Init => RotationInv
<1> SUFFICES ASSUME Init PROVE RotationInv
  OBVIOUS
<1>1. \A n \in Calls : op[n] = "none"
  BY DEF Init
<1>2. walState = "open" /\ phase = "idle" /\ backup = "none" /\ undo = <<>>
  BY DEF Init
<1> QED BY <1>1, <1>2 DEF RotationInv, Rotating

\* A step of a faultless behaviour, action by action.
LEMMA RotationStep ==
  ASSUME RefusalInv, [Next]_vars, Faultless'
  PROVE  RotationInv'
<1> USE DEF RefusalInv, RefusalTypes, RotationInv, Rotating, Faultless, callVars, walVars,
            compactVars, backupVars, countVars
<1>1. ASSUME Call PROVE RotationInv'
  BY <1>1 DEF Call, PastGate
<1>2. ASSUME NEW n \in Calls, PassGate(n) PROVE RotationInv'
  BY <1>2 DEF PassGate, PastGate
<1>3. ASSUME NEW n \in Calls, Commit(n) PROVE RotationInv'
  <2>1. RotationInv /\ UNCHANGED <<phase, walState, rotateLock, backup>>
    BY <1>3 DEF Commit
  <2>2. CASE walState = "open"
    <3>1. UNCHANGED undo /\ op' = [op EXCEPT ![n] = "logged"]
      BY <1>3, <2>2 DEF Commit
    <3> QED BY <2>1, <3>1
  <2>3. CASE walState # "open"
    <3>1. phase \in Rotating /\ rotateLock = "compaction" /\ op[n] # "retrying"
      BY <2>1, <2>3
    <3>2. Retries(n)
      BY <1>3, <3>1 DEF Commit, Retries
    <3>3. undo' = Append(undo, n) /\ op' = [op EXCEPT ![n] = "refused"]
      BY <1>3, <2>3, <3>2 DEF Commit
    <3>4. ToSet(undo') = ToSet(undo) \cup {n}
      BY <3>3, ToSetAppend
    <3> QED BY <2>1, <3>1, <3>3, <3>4
  <2> QED BY <2>2, <2>3
<1>4. ASSUME RollBack PROVE RotationInv'
  <2>1. RotationInv /\ phase \in Rotating /\ rotateLock = "compaction" /\ undo # <<>>
    BY <1>4 DEF RollBack
  <2>2. UNCHANGED <<phase, walState, rotateLock, backup>> /\ undo' = Tail(undo)
    BY <1>4 DEF RollBack
  <2>3. op' = [op EXCEPT ![Head(undo)] = "waiting"]
    BY <1>4, <2>1 DEF RollBack
  <2>4. ASSUME NEW n \in Calls, op'[n] = "refused" PROVE n \in ToSet(undo')
    <3>1. n # Head(undo) /\ op[n] = "refused"
      BY <2>3, <2>4
    <3> QED BY <2>1, <2>2, <3>1, ToSetTail
  <2> QED BY <2>1, <2>2, <2>3, <2>4
<1>5. ASSUME FlushBatch PROVE RotationInv'
  BY <1>5 DEF FlushBatch
<1>6. ASSUME BatchWritten PROVE RotationInv'
  BY <1>6 DEF BatchWritten
<1>7. ASSUME BatchSynced PROVE RotationInv'
  BY <1>7 DEF BatchSynced
<1>8. ASSUME BatchFails PROVE RotationInv'
  BY <1>8 DEF BatchFails, IOError
<1>9. ASSUME Compact PROVE RotationInv'
  BY <1>9 DEF Compact
<1>10. ASSUME Fence PROVE RotationInv'
  BY <1>10 DEF Fence
<1>11. ASSUME NEW k \in Keys, WriteRecord(k) PROVE RotationInv'
  BY <1>11 DEF WriteRecord
<1>12. ASSUME SnapshotWritten PROVE RotationInv'
  BY <1>12 DEF SnapshotWritten, Due
<1>13. ASSUME PreCopy PROVE RotationInv'
  BY <1>13 DEF PreCopy
<1>14. ASSUME Rotate PROVE RotationInv'
  BY <1>14 DEF Rotate
<1>15. ASSUME Drain PROVE RotationInv'
  BY <1>15 DEF Drain
<1>16. ASSUME DrainedTail PROVE RotationInv'
  BY <1>16 DEF DrainedTail
<1>17. ASSUME Drained PROVE RotationInv'
  BY <1>17 DEF Drained
<1>18. ASSUME Close PROVE RotationInv'
  BY <1>18 DEF Close
<1>19. ASSUME RenameSnapshot PROVE RotationInv'
  BY <1>19 DEF RenameSnapshot, AfterSnapshotRenamed
<1>20. ASSUME SyncDir PROVE RotationInv'
  BY <1>20 DEF SyncDir
<1>21. ASSUME RenameWal PROVE RotationInv'
  BY <1>21 DEF RenameWal
<1>22. ASSUME Reopen PROVE RotationInv'
  <2>1. RotationInv /\ undo = <<>> /\ UNCHANGED undo /\ phase' = "idle" /\ walState' = "open"
    BY <1>22 DEF Reopen, Due, Forget
  <2>2. \A n \in Calls : op[n] # "refused"
    BY <2>1 DEF ToSet
  <2>3. op' \in [Calls -> Stages] /\ \A n \in Calls : op'[n] = op[n] \/ op'[n] \in {"called", "retrying"}
    BY <1>22 DEF Reopen, Release, Stages
  <2>4. UNCHANGED backup
    BY <1>22 DEF Reopen
  <2> QED BY <2>1, <2>2, <2>3, <2>4
<1>23. ASSUME NEW s \in {"open", "closed"}, RecoverRotation(s) PROVE RotationInv'
  BY <1>23 DEF RecoverRotation, Release
<1>24. ASSUME CompactFails PROVE RotationInv'
  BY <1>24 DEF CompactFails, IOError
<1>25. ASSUME RotationFails PROVE RotationInv'
  BY <1>25 DEF RotationFails, IOError
<1>26. ASSUME Backup PROVE RotationInv'
  BY <1>26 DEF Backup, MayBackUp
<1>27. ASSUME BackupFlushed PROVE RotationInv'
  BY <1>27 DEF BackupFlushed
<1>28. ASSUME CopySnapshot PROVE RotationInv'
  BY <1>28 DEF CopySnapshot
<1>29. ASSUME CopyWal PROVE RotationInv'
  BY <1>29 DEF CopyWal
<1>30. ASSUME BackupDone PROVE RotationInv'
  BY <1>30 DEF BackupDone, Release
<1>31. ASSUME Crash PROVE RotationInv'
  BY <1>31 DEF Crash, NoBackup, Forget
<1>32. CASE UNCHANGED vars
  BY <1>32 DEF vars
<1> QED
  BY <1>1, <1>2, <1>3, <1>4, <1>5, <1>6, <1>7, <1>8, <1>9, <1>10, <1>11, <1>12, <1>13, <1>14, <1>15, <1>16, <1>17, <1>18, <1>19, <1>20, <1>21, <1>22, <1>23, <1>24, <1>25, <1>26, <1>27, <1>28, <1>29, <1>30, <1>31, <1>32
     DEF Next, Progress, Write, Compacting, BackingUp

-----------------------------------------------------------------------------
\* The invariant of every reachable state.
LEMMA RefusalInvariant == Spec => []RefusalInv
<1>1. Init => RefusalInv
  BY TypesInit, RotationInit DEF RefusalInv
<1>2. RefusalInv /\ [Next]_vars => RefusalInv'
  BY TypesStep, RotationStep DEF RefusalInv
<1> QED BY <1>1, <1>2, PTL DEF Spec

\* No call fails before an I/O error: the retry of a refused write suffices.
THEOREM NeverRefusedHolds == Spec => []NeverRefused
<1>1. RefusalInv => NeverRefused
  BY DEF RefusalInv, RotationInv, NeverRefused
<1> QED BY <1>1, RefusalInvariant, PTL

-----------------------------------------------------------------------------
\* The order of a log in which no call occurs twice.

\* The order of a log without repetitions is strict and total.
LEMMA OrderTotal ==
  ASSUME NEW T, NEW l \in Seq(T), IsInjective(l)
  PROVE  /\ \A n, m : Before(l, n, m) => n \in ToSet(l) /\ m \in ToSet(l)
         /\ \A n, m : Before(l, n, m) => ~ Before(l, m, n) /\ n # m
         /\ \A n, m, o : Before(l, n, m) /\ Before(l, m, o) => Before(l, n, o)
         /\ \A n, m \in ToSet(l) : n # m => Before(l, n, m) \/ Before(l, m, n)
<1>1. \A i, j \in DOMAIN l : l[i] = l[j] => i = j
  BY DEF IsInjective
<1>2. DOMAIN l \subseteq Int
  OBVIOUS
<1>3. \A n, m : Before(l, n, m) => n \in ToSet(l) /\ m \in ToSet(l)
  BY DEF Before, ToSet
<1>4. ASSUME NEW n, NEW m, Before(l, n, m) PROVE ~ Before(l, m, n) /\ n # m
  BY <1>1, <1>2, <1>4 DEF Before
<1>5. ASSUME NEW n, NEW m, NEW o, Before(l, n, m), Before(l, m, o) PROVE Before(l, n, o)
  <2>1. PICK i, j \in DOMAIN l : i < j /\ l[i] = n /\ l[j] = m
    BY <1>5 DEF Before
  <2>2. PICK h, g \in DOMAIN l : h < g /\ l[h] = m /\ l[g] = o
    BY <1>5 DEF Before
  <2>3. j = h
    BY <1>1, <2>1, <2>2
  <2>4. i < g
    BY <1>2, <2>1, <2>2, <2>3
  <2> QED BY <2>1, <2>2, <2>4 DEF Before
<1>6. ASSUME NEW n \in ToSet(l), NEW m \in ToSet(l), n # m
      PROVE  Before(l, n, m) \/ Before(l, m, n)
  <2>1. PICK i, j \in DOMAIN l : l[i] = n /\ l[j] = m
    BY DEF ToSet
  <2>2. i # j /\ i \in Int /\ j \in Int
    BY <1>2, <1>6, <2>1
  <2>3. i < j \/ j < i
    BY <2>2
  <2> QED BY <2>1, <2>3 DEF Before
<1> QED BY <1>3, <1>4, <1>5, <1>6

\* What a filter leaves of the order.
LEMMA OrderWithout ==
  ASSUME NEW T, NEW l \in Seq(T), NEW X
  PROVE  \A n, m : Before(Without(l, X), n, m) <=> Before(l, n, m) /\ n \notin X /\ m \notin X
<1> DEFINE K == {i \in DOMAIN l : l[i] \notin X}
           r == Without(l, X)
<1>1. /\ DOMAIN r = 1 .. Cardinality(K) /\ Cardinality(K) \in Nat
      /\ \A j \in DOMAIN r : Nth(K, j) \in K /\ r[j] = l[Nth(K, j)]
      /\ \A i, j \in DOMAIN r : i < j => Nth(K, i) < Nth(K, j)
  <2>1. r = Subsequence(l, K) /\ K \in SUBSET (DOMAIN l)
    BY DEF Without
  <2> HIDE DEF r, K
  <2> QED BY <2>1, SubsequenceProps
<1>2. \A k \in K : \E j \in DOMAIN r : Nth(K, j) = k
  <2>1. Len(l) \in Nat /\ K \in SUBSET (1 .. Len(l))
    OBVIOUS
  <2> HIDE DEF r, K
  <2> QED BY <1>1, <2>1, NthProps
<1>3. K \subseteq Int
  OBVIOUS
<1>4. \A i \in K : i \in DOMAIN l /\ l[i] \notin X
  OBVIOUS
<1>5. \A i \in DOMAIN l : l[i] \notin X => i \in K
  OBVIOUS
<1>6. DOMAIN r \subseteq Int
  BY <1>1
<1> HIDE DEF r, K
<1>7. ASSUME NEW n, NEW m, Before(r, n, m) PROVE Before(l, n, m) /\ n \notin X /\ m \notin X
  <2>1. PICK i, j \in DOMAIN r : i < j /\ r[i] = n /\ r[j] = m
    BY <1>7 DEF Before
  <2>2. Nth(K, i) < Nth(K, j) /\ Nth(K, i) \in K /\ Nth(K, j) \in K
    BY <1>1, <2>1
  <2>3. n = l[Nth(K, i)] /\ m = l[Nth(K, j)]
    BY <1>1, <2>1
  <2> QED BY <1>4, <2>2, <2>3 DEF Before
<1>8. ASSUME NEW n, NEW m, Before(l, n, m), n \notin X, m \notin X PROVE Before(r, n, m)
  <2>1. PICK i, j \in DOMAIN l : i < j /\ l[i] = n /\ l[j] = m
    BY <1>8 DEF Before
  <2>2. i \in K /\ j \in K
    BY <1>5, <1>8, <2>1
  <2>3. PICK h, g \in DOMAIN r : Nth(K, h) = i /\ Nth(K, g) = j
    BY <1>2, <2>2
  <2>4. ~ (g < h) /\ g # h
    BY <1>1, <1>3, <2>1, <2>2, <2>3
  <2>5. h < g
    BY <1>6, <2>4
  <2>6. r[h] = n /\ r[g] = m
    BY <1>1, <2>1, <2>3
  <2> QED BY <2>5, <2>6 DEF Before
<1> QED BY <1>7, <1>8 DEF r

\* What is appended comes last.
LEMMA OrderAppend ==
  ASSUME NEW T, NEW l \in Seq(T), NEW e \in T
  PROVE  \A n, m : Before(Append(l, e), n, m) <=> Before(l, n, m) \/ (m = e /\ n \in ToSet(l))
<1> DEFINE r == Append(l, e)
           c == Len(l)
<1>1. c \in Nat /\ DOMAIN l = 1 .. c /\ DOMAIN r = 1 .. (c + 1)
  OBVIOUS
<1>2. \A i \in 1 .. c : r[i] = l[i]
  OBVIOUS
<1>3. r[c + 1] = e
  OBVIOUS
<1> HIDE DEF r, c
<1>4. ASSUME NEW n, NEW m, Before(r, n, m) PROVE Before(l, n, m) \/ (m = e /\ n \in ToSet(l))
  <2>1. PICK i, j \in 1 .. (c + 1) : i < j /\ r[i] = n /\ r[j] = m
    BY <1>1, <1>4 DEF Before
  <2>2. i \in 1 .. c
    BY <1>1, <2>1
  <2>3. CASE j = c + 1
    BY <1>1, <1>2, <1>3, <2>1, <2>2, <2>3 DEF ToSet
  <2>4. CASE j \in 1 .. c
    BY <1>1, <1>2, <2>1, <2>2, <2>4 DEF Before
  <2> QED BY <1>1, <2>3, <2>4
<1>5. ASSUME NEW n, NEW m, Before(l, n, m) PROVE Before(r, n, m)
  <2>1. PICK i, j \in 1 .. c : i < j /\ l[i] = n /\ l[j] = m
    BY <1>1, <1>5 DEF Before
  <2>2. i \in 1 .. (c + 1) /\ j \in 1 .. (c + 1)
    BY <1>1
  <2> QED BY <1>1, <1>2, <2>1, <2>2 DEF Before
<1>6. ASSUME NEW n \in ToSet(l) PROVE Before(r, n, e)
  <2>1. PICK i \in 1 .. c : l[i] = n
    BY <1>1 DEF ToSet
  <2>2. i \in 1 .. (c + 1) /\ c + 1 \in 1 .. (c + 1) /\ i < c + 1
    BY <1>1
  <2> QED BY <1>1, <1>2, <1>3, <2>1, <2>2 DEF Before
<1> QED BY <1>4, <1>5, <1>6 DEF r

-----------------------------------------------------------------------------
\* Holds

\* It depends on the calls that write k and on their order, on nothing else.
LEMMA HoldsMove ==
  ASSUME NEW c, NEW l, NEW S, NEW d, NEW m, NEW R, NEW k, NEW v,
         \A a \in S \cap R : d[a] = c[a],
         \A a \in S : k \in DOMAIN c[a] => a \in R,
         \A a \in R : k \in DOMAIN d[a] => a \in S,
         \A a, b \in S \cap R : Before(l, a, b) => Before(m, a, b),
         Holds(c, l, S, k, v)
  PROVE  Holds(d, m, R, k, v)
<1>1. CASE Untouched(c, S, k) /\ v = Absent
  <2>1. Untouched(d, R, k)
    BY <1>1 DEF Untouched
  <2> QED BY <1>1, <2>1 DEF Holds
<1>2. CASE \E n \in S : LastWriter(c, l, S, k, n) /\ v = IF c[n][k] THEN n ELSE Absent
  <2>1. PICK n \in S : LastWriter(c, l, S, k, n) /\ v = IF c[n][k] THEN n ELSE Absent
    BY <1>2
  <2>2. n \in R /\ d[n] = c[n]
    BY <2>1 DEF LastWriter
  <2>3. LastWriter(d, m, R, k, n)
    BY <2>1, <2>2 DEF LastWriter
  <2> QED BY <2>1, <2>2, <2>3 DEF Holds
<1> QED BY <1>1, <1>2 DEF Holds

\* The last word on k is in one part or in the other.
LEMMA HoldsSplit ==
  ASSUME NEW c, NEW l, NEW S, NEW R, NEW W, NEW k, NEW v,
         R \subseteq S, S \subseteq R \cup W,
         Holds(c, l, S, k, v), Untouched(c, W, k)
  PROVE  Holds(c, l, R, k, v)
<1>1. \A a \in S : k \in DOMAIN c[a] => a \in R
  BY DEF Untouched
<1> QED BY <1>1, HoldsMove

\* One value of a key at most is what some calls made of it.
LEMMA HoldsUnique ==
  ASSUME NEW T, NEW c, NEW l \in Seq(T), IsInjective(l), NEW S, NEW k, NEW u, NEW v,
         Holds(c, l, S, k, u), Holds(c, l, S, k, v)
  PROVE  u = v
<1>1. \A n, m : Before(l, n, m) => ~ Before(l, m, n)
  BY OrderTotal
<1>2. \A n, m : LastWriter(c, l, S, k, n) /\ LastWriter(c, l, S, k, m) => n = m
  BY <1>1 DEF LastWriter
<1>3. \A n : LastWriter(c, l, S, k, n) => ~ Untouched(c, S, k)
  BY DEF LastWriter, Untouched
<1> QED BY <1>2, <1>3 DEF Holds

\* A call that comes last has the last word.
LEMMA HoldsLast ==
  ASSUME NEW c, NEW l, NEW S, NEW n \in S, NEW k \in DOMAIN c[n],
         \A m \in S : m = n \/ Before(l, m, n)
  PROVE  Holds(c, l, S, k, IF c[n][k] THEN n ELSE Absent)
BY DEF Holds, LastWriter

\* More frames complete a snapshot as well.
LEMMA CompletesMore ==
  ASSUME NEW c, NEW l, NEW s, NEW S, NEW W, NEW V, W \subseteq V, Completes(c, l, s, S, W)
  PROVE  Completes(c, l, s, S, V)
<1>1. \A k : Untouched(c, V, k) => Untouched(c, W, k)
  BY DEF Untouched
<1> QED BY <1>1 DEF Completes

\* Positions have a largest.
LEMMA MaxPosition ==
  ASSUME NEW n \in Nat, NEW S \in SUBSET (1 .. n), S # {}
  PROVE  Max(S) \in S /\ \A i \in S : i <= Max(S)
<1> DEFINE D == {n - i : i \in S}
<1>0. \A i \in S : i \in Int /\ n - i \in Nat
  OBVIOUS
<1>1. D \in SUBSET Nat /\ D # {}
  BY <1>0
<1>2. PICK d \in D : \A e \in D : d <= e
  <2> HIDE DEF D
  <2> QED BY <1>1, LeastNat
<1>3. PICK m \in S : d = n - m
  OBVIOUS
<1>4. \A i \in S : n - m <= n - i
  BY <1>2, <1>3
<1>5. \A i \in S : m >= i
  BY <1>0, <1>4
<1>6. Max(S) \in S /\ \A i \in S : Max(S) >= i
  <2>1. Max(S) = CHOOSE x \in S : \A y \in S : x >= y
    BY DEF Max
  <2> HIDE DEF D
  <2> QED BY <1>5, <2>1
<1> HIDE DEF D
<1>7. Max(S) \in Int
  BY <1>0, <1>6
<1>8. \A i \in S : i <= Max(S)
  BY <1>0, <1>6, <1>7
<1> QED BY <1>6, <1>8

\* Recovery: a snapshot with all that came before the frames, and the frames.
LEMMA ReplayHolds ==
  ASSUME NEW l, NEW s, NEW w \in Seq(Calls), NEW S, NEW k \in Keys,
         Chain(l, w), Precede(l, S, ToSet(w)), Completes(calls, l, s, S, ToSet(w))
  PROVE  Holds(calls, l, S \cup ToSet(w), k, Replay(s, w)[k])
<1> DEFINE later == {i \in DOMAIN w : k \in Writes(w[i])}
<1>1. Replay(s, w)[k] = IF later = {} THEN s[k] ELSE ValueOf(w[Max(later)], k)
  BY DEF Replay
<1>2. CASE later = {}
  <2>1. Untouched(calls, ToSet(w), k)
    BY <1>2 DEF Untouched, ToSet, Writes
  <2>2. Holds(calls, l, S, k, s[k])
    BY <2>1 DEF Completes
  <2>3. Holds(calls, l, S \cup ToSet(w), k, s[k])
    BY <2>1, <2>2, HoldsMove DEF Untouched
  <2> QED BY <1>1, <1>2, <2>3
<1>3. CASE later # {}
  <2> DEFINE i == Max(later)
  <2>1. Len(w) \in Nat /\ DOMAIN w = 1 .. Len(w)
    OBVIOUS
  <2>2. i \in later /\ \A j \in later : j <= i
    <3>1. later \in SUBSET (1 .. Len(w))
      BY <2>1
    <3> HIDE DEF later
    <3> QED BY <1>3, <2>1, <3>1, MaxPosition
  <2>3. i \in DOMAIN w /\ k \in DOMAIN calls[w[i]]
    BY <2>2 DEF Writes
  <2>4. ASSUME NEW m \in S \cup ToSet(w), k \in DOMAIN calls[m]
        PROVE  m = w[i] \/ Before(l, m, w[i])
    <3>1. CASE m \in S
      BY <2>3, <3>1 DEF Precede, ToSet
    <3>2. CASE m \in ToSet(w)
      <4>1. PICK j \in DOMAIN w : m = w[j]
        BY <3>2 DEF ToSet
      <4>2. j \in later
        BY <2>4, <4>1 DEF Writes
      <4>3. j <= i
        BY <2>2, <4>2
      <4>4. j = i \/ j < i
        BY <2>1, <2>3, <4>3
      <4> QED BY <2>3, <4>1, <4>4 DEF Chain
    <3> QED BY <3>1, <3>2
  <2>5. w[i] \in S \cup ToSet(w)
    BY <2>3 DEF ToSet
  <2>6. LastWriter(calls, l, S \cup ToSet(w), k, w[i])
    <3> HIDE DEF i
    <3> QED BY <2>3, <2>4, <2>5 DEF LastWriter
  <2>7. Replay(s, w)[k] = IF calls[w[i]][k] THEN w[i] ELSE Absent
    BY <1>1, <1>3 DEF ValueOf
  <2> HIDE DEF i, later
  <2> QED BY <2>5, <2>6, <2>7 DEF Holds
<1> QED BY <1>2, <1>3

-----------------------------------------------------------------------------
\* A power loss

\* No call is framed twice, and none that was rejected.
LEMMA FramesApart ==
  ASSUME DataTypes, FlowInv, WalInv
  PROVE  /\ \A n \in ToSet(wal) : n \notin ToSet(Unwritten) /\ n \notin ToSet(queue)
         /\ \A n \in Framed : n \notin Rejected
         /\ \A i, j \in DOMAIN wal : i < j => wal[i] # wal[j]
<1>1. \A n, m : Before(log, n, m) => n # m
  BY OrderTotal DEF DataTypes
<1>2. \A n \in ToSet(wal) : n \notin ToSet(Unwritten) /\ n \notin ToSet(queue)
  BY <1>1 DEF WalInv, Precede
<1>3. \A n \in Framed : n \notin Rejected
  <2>1. ToSet(Unwritten) \subseteq ToSet(inflight)
    BY DEF Unwritten, ToSet
  <2>2. \A n \in Framed : n \in ToSet(log)
    BY DEF FlowInv
  <2>3. ToSet(log) \subseteq Calls
    BY DEF DataTypes, ToSet
  <2>4. \A n \in Framed : op[n] \in {"logged", "done", "lost"}
    BY <2>1, <2>2, <2>3 DEF FlowInv, Framed
  <2> QED BY <2>4 DEF Rejected
<1>4. \A i, j \in DOMAIN wal : i < j => wal[i] # wal[j]
  BY <1>1 DEF WalInv, Chain
<1> QED BY <1>2, <1>3, <1>4

\* Whatever is left, recovery finds a prefix: the frames that are left, and a
\* snapshot that has what came before them; and no answered write is lost.
LEMMA SurvivorProps ==
  ASSUME DataInv, NEW left \in Survivors
  PROVE  LET W == ToSet(left.wal)
             R == ToSet(log) \ Lost(left)
         IN  /\ left.wal \in Seq(Calls) /\ W \subseteq R /\ Chain(log, left.wal)
             /\ Precede(log, R \ W, W)
             /\ Completes(calls, log, left.snapshot, R \ W, W)
             /\ acked \cap Lost(left) = {}
<1> DEFINE W == ToSet(left.wal)
           R == ToSet(log) \ Lost(left)
           Tl == IF oldWal = None THEN ToSet(SubSeq(wal, Len(left.wal) + 1, Len(wal))) ELSE {}
<1>a. DataTypes /\ FlowInv /\ WalInv
  BY DEF DataInv, CoreInv
<1>b. Len(wal) \in Nat /\ DOMAIN wal = 1 .. Len(wal) /\ wal \in Seq(Calls) /\ synced \in 0 .. Len(wal)
  BY <1>a DEF DataTypes
<1>c. Lost(left) = ToSet(queue) \cup ToSet(Unwritten) \cup Rejected \cup Tl
  BY DEF Lost, Rejected
<1>d. ToSet(log) \subseteq Calls
  BY <1>a DEF DataTypes, ToSet
<1>1. /\ left.snapshot = snapshot \/ (oldSnapshot # None /\ left.snapshot = oldSnapshot)
      /\ \/ \E n \in synced .. Len(wal) : left.wal = SubSeq(wal, 1, n)
         \/ (oldWal # None /\ left.wal = oldWal)
  BY DEF Survivors
<1>2. Completes(calls, log, left.snapshot, Base, Platter)
  BY <1>1 DEF DataInv, SnapInv
<1>3. \A n \in acked : n \in ToSet(log) /\ op[n] = "done"
  BY <1>a DEF FlowInv
<1>4. \A n \in acked : n \notin ToSet(queue) /\ n \notin ToSet(inflight) /\ n \notin Rejected
  <2>1. \A n \in acked : n \in Calls /\ op[n] # "logged"
    BY <1>3, <1>d
  <2> QED BY <1>a, <1>3, <2>1 DEF FlowInv, Rejected
<1>5. ToSet(Unwritten) \subseteq ToSet(inflight)
  BY DEF Unwritten, ToSet
<1>6. oldWal # None => /\ phase = "syncWal" /\ Flushed /\ synced = Len(wal) /\ OldWalInv
                       /\ ToSet(queue) = {} /\ ToSet(Unwritten) = {} /\ ToSet(inflight) = {}
  <2> SUFFICES ASSUME oldWal # None
               PROVE  /\ phase = "syncWal" /\ Flushed /\ synced = Len(wal) /\ OldWalInv
                      /\ ToSet(queue) = {} /\ ToSet(Unwritten) = {} /\ ToSet(inflight) = {}
    OBVIOUS
  <2>1. phase = "syncWal" /\ OldWalInv
    BY DEF DataInv, SnapInv
  <2>2. Flushed
    BY <2>1 DEF DataInv, SealInv, Rotating
  <2>3. synced = Len(wal)
    BY <1>a, <2>2 DEF WalInv, Flushed
  <2>4. ToSet(queue) = {} /\ ToSet(inflight) = {}
    BY <2>2 DEF Flushed, ToSet
  <2> QED BY <1>5, <2>1, <2>2, <2>3, <2>4
<1>7. /\ \A n \in ToSet(wal) : n \notin ToSet(Unwritten) /\ n \notin ToSet(queue)
      /\ \A n \in Framed : n \notin Rejected
      /\ \A i, j \in DOMAIN wal : i < j => wal[i] # wal[j]
  BY <1>a, FramesApart
<1>8. ASSUME NEW n \in synced .. Len(wal), left.wal = SubSeq(wal, 1, n)
      PROVE  /\ left.wal \in Seq(Calls) /\ W \subseteq R /\ Chain(log, left.wal)
             /\ Precede(log, R \ W, W)
             /\ Completes(calls, log, left.snapshot, R \ W, W)
             /\ acked \cap Lost(left) = {}
  <2>1. n \in Nat /\ n <= Len(wal) /\ 1 \in Nat \ {0} /\ n + 1 \in Nat \ {0}
    BY <1>b
  <2>2. left.wal \in Seq(Calls) /\ W = {wal[i] : i \in 1 .. n}
    BY <1>b, <1>8, <2>1, SubSeqProps
  <2>3. Len(left.wal) = n /\ \A i \in 1 .. n : left.wal[i] = wal[i]
    BY <1>b, <1>8, <2>1
  <2>4. Tl = {wal[i] : i \in n + 1 .. Len(wal)}
    <3>1. CASE oldWal = None
      <4>1. ToSet(SubSeq(wal, n + 1, Len(wal))) = {wal[i] : i \in n + 1 .. Len(wal)}
        BY <1>b, <2>1, SubSeqProps
      <4> QED BY <2>3, <3>1, <4>1
    <3>2. CASE oldWal # None
      <4>1. n + 1 .. Len(wal) = {}
        BY <1>6, <1>b, <3>2
      <4> QED BY <3>2, <4>1
    <3> QED BY <3>1, <3>2
  <2> HIDE DEF W, R, Tl
  <2>5. ToSet(wal) = W \cup Tl
    <3>1. \A i \in 1 .. Len(wal) : i \in 1 .. n \/ i \in n + 1 .. Len(wal)
      BY <1>b, <2>1
    <3>2. 1 .. n \subseteq 1 .. Len(wal) /\ n + 1 .. Len(wal) \subseteq 1 .. Len(wal)
      BY <1>b, <2>1
    <3> QED BY <1>b, <2>2, <2>4, <3>1, <3>2 DEF ToSet
  <2>6. W \cap Tl = {}
    <3>1. ASSUME NEW i \in 1 .. n, NEW j \in n + 1 .. Len(wal) PROVE wal[i] # wal[j]
      <4>1. i < j /\ i \in 1 .. Len(wal) /\ j \in 1 .. Len(wal)
        BY <1>b, <2>1
      <4> QED BY <1>b, <1>7, <4>1
    <3> QED BY <2>2, <2>4, <3>1
  <2>7. R \ W = Base /\ W \subseteq R
    <3>1. Framed = W \cup Tl \cup ToSet(Unwritten) \cup ToSet(queue)
      BY <2>5 DEF Framed
    <3>2. W \subseteq ToSet(log)
      BY <1>a, <3>1 DEF FlowInv
    <3>3. \A x \in W : x \notin ToSet(queue) /\ x \notin ToSet(Unwritten) /\ x \notin Rejected
      BY <1>7, <2>5, <3>1
    <3> QED BY <1>c, <2>6, <3>1, <3>2, <3>3 DEF Base, R
  <2>8. Chain(log, left.wal)
    <3>1. DOMAIN left.wal = 1 .. n
      BY <2>2, <2>3
    <3>2. 1 .. n \subseteq 1 .. Len(wal)
      BY <1>b, <2>1
    <3> QED BY <1>a, <1>b, <2>3, <3>1, <3>2 DEF WalInv, Chain
  <2>9. Precede(log, Base, W)
    BY <1>a, <2>5 DEF WalInv, Precede, Framed
  <2>10. Platter \subseteq W
    <3>1. 1 .. synced \subseteq 1 .. n
      BY <1>b, <2>1
    <3> QED BY <2>2, <3>1 DEF Platter
  <2>11. Completes(calls, log, left.snapshot, Base, W)
    BY <1>2, <2>10, CompletesMore
  <2>12. ASSUME NEW x \in acked PROVE x \notin Tl
    <3> SUFFICES ASSUME x \in Tl PROVE FALSE
      OBVIOUS
    <3>1. PICK i \in n + 1 .. Len(wal) : x = wal[i]
      BY <2>4
    <3>2. i \in synced + 1 .. Len(wal) /\ synced # Len(wal)
      <4>1. synced \in Int /\ synced <= n /\ i \in Int /\ n + 1 <= i /\ i <= Len(wal)
        BY <1>b, <2>1
      <4>2. n \in Int /\ Len(wal) \in Int
        BY <1>b, <2>1
      <4>3. synced + 1 <= i /\ synced < Len(wal)
        BY <4>1, <4>2
      <4> QED BY <4>1, <4>2, <4>3
    <3>3. wal[i] \in ToSet(inflight)
      BY <1>a, <3>2 DEF WalInv
    <3> QED BY <1>4, <3>1, <3>3
  <2>13. acked \cap Lost(left) = {}
    BY <1>4, <1>5, <1>c, <2>12
  <2> QED BY <2>2, <2>7, <2>8, <2>9, <2>11, <2>13 DEF W, R
<1>9. ASSUME oldWal # None, left.wal = oldWal
      PROVE  /\ left.wal \in Seq(Calls) /\ W \subseteq R /\ Chain(log, left.wal)
             /\ Precede(log, R \ W, W)
             /\ Completes(calls, log, left.snapshot, R \ W, W)
             /\ acked \cap Lost(left) = {}
  <2>1. OldWalInv /\ Tl = {} /\ ToSet(queue) = {} /\ ToSet(Unwritten) = {} /\ synced = Len(wal)
    BY <1>6, <1>9
  <2>2. /\ left.wal \in Seq(Calls) /\ Chain(log, left.wal)
        /\ ToSet(wal) \subseteq W /\ W \subseteq ToSet(log)
        /\ \A n \in W : op[n] \in {"done", "lost"}
        /\ Precede(log, Base \ W, W)
    BY <1>9, <2>1 DEF OldWalInv
  <2> HIDE DEF W, R, Tl
  <2>3. Lost(left) = Rejected /\ Framed = ToSet(wal)
    BY <1>c, <2>1 DEF Framed
  <2>4. W \subseteq R
    BY <2>2, <2>3 DEF R, Rejected
  <2>5. R \ W = Base \ W
    BY <2>2, <2>3 DEF R, Base
  <2>6. Platter \subseteq W
    BY <1>b, <2>1, <2>2 DEF Platter, ToSet
  <2>7. Completes(calls, log, left.snapshot, Base \ W, W)
    <3> SUFFICES ASSUME NEW k \in Keys, Untouched(calls, W, k)
                 PROVE  Holds(calls, log, Base \ W, k, left.snapshot[k])
      BY DEF Completes
    <3>1. Untouched(calls, Platter, k)
      BY <2>6 DEF Untouched
    <3>2. Holds(calls, log, Base, k, left.snapshot[k])
      BY <1>2, <3>1 DEF Completes
    <3>3. Base \ W \subseteq Base /\ Base \subseteq (Base \ W) \cup W
      OBVIOUS
    <3> QED BY <3>2, <3>3, HoldsSplit
  <2>8. acked \cap Lost(left) = {}
    BY <1>4, <2>3
  <2> QED BY <2>2, <2>4, <2>5, <2>7, <2>8 DEF W, R
<1> QED BY <1>1, <1>8, <1>9

\* What recovery reads is the effect of the calls that are left.
LEMMA RecoveredHolds ==
  ASSUME DataInv, NEW left \in Survivors, NEW k \in Keys
  PROVE  Holds(calls, log, ToSet(log) \ Lost(left), k, Replay(left.snapshot, left.wal)[k])
<1> DEFINE W == ToSet(left.wal)
           R == ToSet(log) \ Lost(left)
<1>1. /\ left.wal \in Seq(Calls) /\ W \subseteq R /\ Chain(log, left.wal)
      /\ Precede(log, R \ W, W)
      /\ Completes(calls, log, left.snapshot, R \ W, W)
  BY SurvivorProps
<1> HIDE DEF R
<1>2. R = (R \ W) \cup W
  BY <1>1
<1>3. Holds(calls, log, (R \ W) \cup W, k, Replay(left.snapshot, left.wal)[k])
  BY <1>1, ReplayHolds
<1> QED BY <1>2, <1>3 DEF R

\* The effect of some of the log, all of it replayed over nothing.
LEMMA FreshReplayHolds ==
  ASSUME DataTypes, NEW w \in Seq(Calls), Chain(log, w), NEW k \in Keys
  PROVE  Holds(calls, log, ToSet(w), k, Replay(Nothing, w)[k])
<1>1. Precede(log, {}, ToSet(w))
  BY DEF Precede
<1>2. Completes(calls, log, Nothing, {}, ToSet(w))
  BY DEF Completes, Holds, Untouched, Nothing
<1>3. Holds(calls, log, {} \cup ToSet(w), k, Replay(Nothing, w)[k])
  BY <1>1, <1>2, ReplayHolds
<1>4. {} \cup ToSet(w) = ToSet(w)
  OBVIOUS
<1> QED BY <1>3, <1>4

\* What is left of the log is in its order.
LEMMA WithoutChain ==
  ASSUME DataTypes, NEW X
  PROVE  /\ Without(log, X) \in Seq(Calls) /\ IsInjective(Without(log, X))
         /\ ToSet(Without(log, X)) = ToSet(log) \ X
         /\ Chain(log, Without(log, X))
<1>1. log \in Seq(Calls) /\ IsInjective(log)
  BY DEF DataTypes
<1>2. /\ Without(log, X) \in Seq(Calls) /\ IsInjective(Without(log, X))
      /\ ToSet(Without(log, X)) = ToSet(log) \ X
  BY <1>1, WithoutProps
<1>3. Chain(Without(log, X), Without(log, X))
  BY DEF Chain, Before
<1>4. \A n, m : Before(Without(log, X), n, m) => Before(log, n, m)
  BY <1>1, OrderWithout
<1>5. Chain(log, Without(log, X))
  BY <1>3, <1>4 DEF Chain
<1> QED BY <1>2, <1>5

\* A power loss at any moment leaves a prefix.
LEMMA PrefixRecovered ==
  ASSUME DataInv, NEW left \in Survivors
  PROVE  /\ Replay(left.snapshot, left.wal) = Replay(Nothing, Without(log, Lost(left)))
         /\ acked \cap Lost(left) = {}
<1> DEFINE w == Without(log, Lost(left))
<1>1. DataTypes /\ log \in Seq(Calls) /\ IsInjective(log)
  BY DEF DataInv, CoreInv, DataTypes
<1>2. w \in Seq(Calls) /\ ToSet(w) = ToSet(log) \ Lost(left) /\ Chain(log, w)
  BY <1>1, WithoutChain
<1> HIDE DEF w
<1>3. ASSUME NEW k \in Keys
      PROVE  Replay(left.snapshot, left.wal)[k] = Replay(Nothing, w)[k]
  <2>1. Holds(calls, log, ToSet(w), k, Replay(left.snapshot, left.wal)[k])
    BY <1>2, RecoveredHolds
  <2>2. Holds(calls, log, ToSet(w), k, Replay(Nothing, w)[k])
    BY <1>1, <1>2, FreshReplayHolds
  <2> QED BY <1>1, <2>1, <2>2, HoldsUnique
<1>4. Replay(left.snapshot, left.wal) = Replay(Nothing, w)
  <2>1. /\ Replay(left.snapshot, left.wal) = [k \in Keys |-> Replay(left.snapshot, left.wal)[k]]
        /\ Replay(Nothing, w) = [k \in Keys |-> Replay(Nothing, w)[k]]
    BY DEF Replay
  <2> QED BY <1>3, <2>1
<1>5. acked \cap Lost(left) = {}
  BY SurvivorProps
<1> QED BY <1>4, <1>5 DEF w

-----------------------------------------------------------------------------
\* A backup

\* A set of calls that has all that came before its members is a prefix.
LEMMA DownwardClosed ==
  ASSUME NEW T, NEW l \in Seq(T), NEW S,
         S \subseteq ToSet(l), Leading(l, S)
  PROVE  \E n \in 0 .. Len(l) : SubSeq(l, 1, n) \in Seq(T) /\ ToSet(SubSeq(l, 1, n)) = S
<1> DEFINE c == Len(l)
           P == {i \in 1 .. c + 1 : i = c + 1 \/ l[i] \notin S}
<1>1. c \in Nat /\ DOMAIN l = 1 .. c
  OBVIOUS
<1> HIDE DEF c
<1>2. P \in SUBSET Nat /\ c + 1 \in P
  BY <1>1
<1>3. PICK p \in P : \A i \in P : p <= i
  <2> HIDE DEF P
  <2> QED BY <1>2, LeastNat
<1>4. p \in 1 .. c + 1
  OBVIOUS
<1>5. \A i \in 1 .. p - 1 : i \in 1 .. c /\ l[i] \in S
  <2> TAKE i \in 1 .. p - 1
  <2>1. i \in 1 .. c /\ i \in 1 .. c + 1 /\ ~ (p <= i)
    BY <1>1, <1>4
  <2> QED BY <1>3, <2>1
<1>6. ASSUME NEW x \in S PROVE \E i \in 1 .. p - 1 : x = l[i]
  <2>1. PICK j \in 1 .. c : x = l[j]
    BY <1>1 DEF ToSet
  <2>2. j < p
    <3> SUFFICES ASSUME ~ (j < p) PROVE FALSE
      OBVIOUS
    <3>1. p \in 1 .. c
      BY <1>1, <1>4
    <3>2. l[p] \notin S
      BY <1>1, <3>1
    <3>3. p # j
      BY <2>1, <3>2
    <3>4. p < j
      BY <1>4, <3>3
    <3>5. Before(l, l[p], x) /\ l[p] \in ToSet(l)
      BY <1>1, <2>1, <3>1, <3>4 DEF Before, ToSet
    <3> QED BY <3>2, <3>5 DEF Leading
  <2>3. j \in 1 .. p - 1
    BY <1>4, <2>2
  <2> QED BY <2>1, <2>3
<1> HIDE DEF P
<1>7. p - 1 \in 0 .. c /\ p - 1 \in Nat /\ p - 1 <= Len(l) /\ 1 \in Nat \ {0}
  BY <1>1, <1>4 DEF c
<1>8. /\ SubSeq(l, 1, p - 1) \in Seq(T)
      /\ ToSet(SubSeq(l, 1, p - 1)) = {l[i] : i \in 1 .. p - 1}
  BY <1>7, SubSeqProps
<1>9. {l[i] : i \in 1 .. p - 1} = S
  BY <1>5, <1>6
<1> QED BY <1>7, <1>8, <1>9 DEF c

\* A prefix of a log is in its order.
LEMMA PrefixChain ==
  ASSUME NEW T, NEW l \in Seq(T), NEW n \in 0 .. Len(l)
  PROVE  Chain(l, SubSeq(l, 1, n))
<1>1. Len(l) \in Nat /\ DOMAIN l = 1 .. Len(l)
  OBVIOUS
<1>2. Len(SubSeq(l, 1, n)) = n /\ DOMAIN SubSeq(l, 1, n) = 1 .. n
  BY <1>1
<1>3. \A i \in 1 .. n : SubSeq(l, 1, n)[i] = l[i] /\ i \in DOMAIN l
  BY <1>1
<1> QED BY <1>2, <1>3 DEF Chain, Before

\* A backup during which no compaction began is the effect of a prefix.
LEMMA PrefixBackedUp ==
  ASSUME DataInv, BothCopied
  PROVE  BackupIsPrefix
<1> DEFINE K == Base \cup ToSet(copied.wal)
<1>1. DataTypes /\ log \in Seq(Calls) /\ IsInjective(log) /\ WalInv /\ FlowInv
  BY DEF DataInv, CoreInv, DataTypes
<1>2. CopiedWalInv /\ copied.snapshot = snapshot
  BY DEF DataInv, BackupInv, BothCopied
<1>3. K \subseteq ToSet(log)
  BY <1>1, <1>2 DEF CopiedWalInv, Base, Framed, FlowInv
<1>4. Leading(log, K)
  BY <1>2 DEF CopiedWalInv
<1> HIDE DEF K
<1>5. PICK n \in 0 .. Len(log) : SubSeq(log, 1, n) \in Seq(Calls) /\ ToSet(SubSeq(log, 1, n)) = K
  BY <1>1, <1>3, <1>4, DownwardClosed
<1>6. Chain(log, SubSeq(log, 1, n))
  BY <1>1, PrefixChain
<1>7. Precede(log, Base, ToSet(copied.wal))
  BY <1>1, <1>2 DEF WalInv, CopiedWalInv, Precede, Framed
<1>8. ASSUME NEW k \in Keys
      PROVE  Replay(copied.snapshot, copied.wal)[k] = Replay(Nothing, SubSeq(log, 1, n))[k]
  <2>1. /\ copied.wal \in Seq(Calls) /\ Chain(log, copied.wal)
        /\ Completes(calls, log, snapshot, Base, ToSet(copied.wal))
    BY <1>2 DEF CopiedWalInv
  <2>2. Holds(calls, log, Base \cup ToSet(copied.wal), k, Replay(snapshot, copied.wal)[k])
    BY <1>7, <2>1, ReplayHolds
  <2>3. Holds(calls, log, K, k, Replay(copied.snapshot, copied.wal)[k])
    BY <1>2, <2>2 DEF K
  <2>4. Holds(calls, log, K, k, Replay(Nothing, SubSeq(log, 1, n))[k])
    BY <1>1, <1>5, <1>6, FreshReplayHolds
  <2> QED BY <1>1, <2>3, <2>4, HoldsUnique
<1>9. Replay(copied.snapshot, copied.wal) = Replay(Nothing, SubSeq(log, 1, n))
  <2>1. /\ Replay(copied.snapshot, copied.wal) = [k \in Keys |-> Replay(copied.snapshot, copied.wal)[k]]
        /\ Replay(Nothing, SubSeq(log, 1, n)) = [k \in Keys |-> Replay(Nothing, SubSeq(log, 1, n))[k]]
    BY DEF Replay
  <2> QED BY <1>8, <2>1
<1>10. ackedBefore \subseteq K
  BY <1>2 DEF CopiedWalInv, K
<1> QED BY <1>5, <1>9, <1>10 DEF BackupIsPrefix

-----------------------------------------------------------------------------
\* Steps that leave the calls, the store and the log alone.

\* What the calls, the store and the log are made of.
coreVars == <<calls, op, undo, store, queue, inflight, flushing, wal, synced, log, acked>>

\* Such a step keeps what is known of them.
LEMMA CoreFrame ==
  ASSUME CoreInv, UNCHANGED coreVars
  PROVE  /\ CoreInv'
         /\ Rejected' = Rejected /\ Base' = Base /\ Framed' = Framed /\ Platter' = Platter
         /\ Unwritten' = Unwritten
<1>1. Rejected' = Rejected /\ Unwritten' = Unwritten /\ Platter' = Platter
  BY DEF coreVars, Rejected, Unwritten, Platter
<1>2. Framed' = Framed
  BY <1>1 DEF coreVars, Framed
<1>3. Base' = Base
  BY <1>1, <1>2 DEF coreVars, Base
<1>4. DataTypes'
  BY DEF coreVars, CoreInv, DataTypes
<1>5. FlowInv'
  BY <1>2 DEF coreVars, CoreInv, FlowInv
<1>6. WalInv'
  BY <1>1, <1>2, <1>3 DEF coreVars, CoreInv, WalInv
<1>7. StoreInv'
  BY <1>1 DEF coreVars, CoreInv, StoreInv
<1> QED BY <1>1, <1>2, <1>3, <1>4, <1>5, <1>6, <1>7 DEF CoreInv

\* ... of the snapshots, when no file is renamed or confirmed,
LEMMA SnapFrame ==
  ASSUME CoreInv, SnapInv, UNCHANGED coreVars, UNCHANGED <<snapshot, oldSnapshot, oldWal>>,
         phase' = phase \/ phase \notin {"syncSnapshot", "syncWal"}
  PROVE  SnapInv'
<1>1. Base' = Base /\ Platter' = Platter
  BY CoreFrame
<1>2. OldWalInv => OldWalInv'
  BY <1>1 DEF OldWalInv, coreVars
<1> QED BY <1>1, <1>2 DEF SnapInv, coreVars

\* ... of the files a compaction writes,
LEMMA CopyFrame ==
  ASSUME CoreInv, CopyInv, UNCHANGED coreVars, UNCHANGED <<copiedUpTo, walTmp, snapTmp>>,
         phase' \in Copying =>
           phase \in Copying /\ (phase = "snapshot" => phase' = "snapshot" /\ visited' = visited),
         phase' \in {"close", "rename", "syncSnapshot", "renameWal"} => copiedUpTo = Len(wal),
         phase' \in {"syncSnapshot", "renameWal"} => snapshot' = snapTmp
  PROVE  CopyInv'
<1>1. Base' = Base /\ Unwritten' = Unwritten
  BY CoreFrame
<1>2. Start' = Start
  BY DEF Start
<1>3. Early' = Early /\ Late' = Late
  BY <1>1, <1>2 DEF Early, Late, coreVars
<1>4. \A k \in Keys : TmpHolds(k) => TmpHolds(k)'
  BY <1>3 DEF TmpHolds, coreVars
<1>5. walTmp' \in Seq(Calls) /\ copiedUpTo' \in Nat /\ snapTmp' = [k \in Keys |-> snapTmp'[k]]
  BY DEF CopyInv
<1>6. ASSUME phase' \in Copying
      PROVE  /\ Len(walTmp') <= copiedUpTo' /\ copiedUpTo' <= Len(wal')
             /\ \A i \in DOMAIN walTmp' : walTmp'[i] = wal'[Start' + i]
  BY <1>2, <1>6 DEF CopyInv, coreVars
<1>7. ASSUME phase' \in Copying, NEW k \in Keys
      PROVE  TmpHolds(k)' \/ (phase' = "snapshot" /\ k \notin visited' /\ snapTmp'[k] = Absent)
  BY <1>4, <1>7 DEF CopyInv
<1>8. wal' = wal
  BY DEF coreVars
<1> QED BY <1>5, <1>6, <1>7, <1>8 DEF CopyInv

\* ... and of a backup.
LEMMA BackupFrame ==
  ASSUME CoreInv, BackupInv, UNCHANGED coreVars, UNCHANGED <<backup, copied, ackedBefore, snapshot>>
  PROVE  BackupInv'
<1>1. Base' = Base /\ Rejected' = Rejected
  BY CoreFrame
<1>2. CopiedWalInv => CopiedWalInv'
  BY <1>1 DEF CopiedWalInv, coreVars
<1> QED BY <1>2 DEF BackupInv, coreVars

\* No backup runs.
LEMMA NoCopies ==
  ASSUME BackupInv, backup # "copy"
  PROVE  copied.snapshot = None /\ copied.wal = None
BY DEF BackupInv

\* ... and none does then, when the snapshot is replaced.
LEMMA BackupIdle ==
  ASSUME BackupInv, backup # "copy", backup' # "copy", UNCHANGED copied, ackedBefore' \subseteq acked'
  PROVE  BackupInv'
BY NoCopies DEF BackupInv

-----------------------------------------------------------------------------
\* The compaction, but for the rename of the log and the end.

\* The steps that only move a compaction or a backup on.
LEMMA QuietStep ==
  ASSUME RotationInv, DataInv, ~ disturbed',
         \/ Compact \/ Rotate \/ Drain \/ Drained \/ Close \/ SyncDir
         \/ Backup \/ BackupFlushed \/ CopySnapshot
  PROVE  DataInv'
<1> USE DEF callVars, storeVars, walVars, diskVars, compactVars, backupVars, historyVars, countVars
<1>a. CoreInv /\ CopyInv /\ SealInv /\ SnapInv /\ BackupInv /\ DataTypes /\ WalInv
  BY DEF DataInv, CoreInv
<1>b. ASSUME UNCHANGED coreVars PROVE CoreInv'
  BY <1>a, <1>b, CoreFrame
<1>1. ASSUME Compact PROVE DataInv'
  <2>1. /\ UNCHANGED coreVars /\ UNCHANGED <<snapshot, oldSnapshot, oldWal, rotateLock, awaits, walState>>
        /\ UNCHANGED <<copiedUpTo, walTmp, snapTmp, backup, copied, ackedBefore>>
        /\ phase = "idle" /\ phase' = "fence"
    BY <1>1 DEF Compact, coreVars
  <2>2. SnapInv'
    BY <1>a, <2>1, SnapFrame
  <2>3. CopyInv'
    BY <1>a, <2>1, CopyFrame DEF Copying
  <2>4. BackupInv'
    BY <1>a, <2>1, BackupFrame
  <2>5. SealInv'
    BY <1>a, <2>1 DEF SealInv, Rotating, coreVars
  <2> QED BY <1>b, <2>1, <2>2, <2>3, <2>4, <2>5 DEF DataInv
<1>2. ASSUME Rotate PROVE DataInv'
  <2>1. /\ UNCHANGED coreVars /\ UNCHANGED <<snapshot, oldSnapshot, oldWal, awaits>>
        /\ UNCHANGED <<copiedUpTo, walTmp, snapTmp, backup, copied, ackedBefore>>
        /\ phase = "precopy" /\ phase' = "drain"
        /\ rotateLock' = "compaction" /\ walState' # "open"
    BY <1>2 DEF Rotate, coreVars, Sealed
  <2>2. SnapInv'
    BY <1>a, <2>1, SnapFrame
  <2>3. CopyInv'
    BY <1>a, <2>1, CopyFrame DEF Copying
  <2>4. BackupInv'
    BY <1>a, <2>1, BackupFrame
  <2>5. SealInv'
    BY <1>a, <2>1 DEF SealInv, Rotating, coreVars
  <2> QED BY <1>b, <2>1, <2>2, <2>3, <2>4, <2>5 DEF DataInv
<1>3. ASSUME Drain PROVE DataInv'
  <2>1. /\ UNCHANGED coreVars /\ UNCHANGED <<snapshot, oldSnapshot, oldWal, rotateLock, awaits, walState>>
        /\ UNCHANGED <<copiedUpTo, walTmp, snapTmp, backup, copied, ackedBefore>>
        /\ phase = "drain" /\ phase' = "drained" /\ Flushed
    BY <1>3 DEF Drain, coreVars
  <2>2. SnapInv'
    BY <1>a, <2>1, SnapFrame
  <2>3. CopyInv'
    BY <1>a, <2>1, CopyFrame DEF Copying
  <2>4. BackupInv'
    BY <1>a, <2>1, BackupFrame
  <2>5. SealInv'
    BY <1>a, <2>1 DEF SealInv, Rotating, coreVars, Flushed
  <2> QED BY <1>b, <2>1, <2>2, <2>3, <2>4, <2>5 DEF DataInv
<1>4. ASSUME Drained PROVE DataInv'
  <2>1. /\ UNCHANGED coreVars /\ UNCHANGED <<snapshot, oldSnapshot, oldWal, rotateLock, awaits>>
        /\ UNCHANGED <<copiedUpTo, walTmp, snapTmp, backup, copied, ackedBefore>>
        /\ phase = "drained" /\ phase' = "close" /\ walState' = "closed" /\ Len(wal) = copiedUpTo
    BY <1>4 DEF Drained, coreVars
  <2>2. SnapInv'
    BY <1>a, <2>1, SnapFrame
  <2>3. CopyInv'
    BY <1>a, <2>1, CopyFrame DEF Copying
  <2>4. BackupInv'
    BY <1>a, <2>1, BackupFrame
  <2>5. SealInv'
    BY <1>a, <2>1 DEF SealInv, Rotating, coreVars, Flushed
  <2> QED BY <1>b, <2>1, <2>2, <2>3, <2>4, <2>5 DEF DataInv
<1>5. ASSUME Close PROVE DataInv'
  <2>0. synced = Len(wal)
    BY <1>a, <1>5 DEF Close, Flushed, WalInv
  <2>1. /\ UNCHANGED coreVars /\ UNCHANGED <<snapshot, oldSnapshot, oldWal, rotateLock, awaits, walState>>
        /\ UNCHANGED <<copiedUpTo, walTmp, snapTmp, backup, copied, ackedBefore>>
        /\ phase = "close" /\ phase' = "rename"
    BY <1>5, <2>0 DEF Close, coreVars
  <2>2. SnapInv'
    BY <1>a, <2>1, SnapFrame
  <2>3. CopyInv'
    <3>1. copiedUpTo = Len(wal)
      BY <1>a, <2>1 DEF CopyInv
    <3> QED BY <1>a, <2>1, <3>1, CopyFrame DEF Copying
  <2>4. BackupInv'
    BY <1>a, <2>1, BackupFrame
  <2>5. SealInv'
    BY <1>a, <2>1 DEF SealInv, Rotating, coreVars, Flushed
  <2> QED BY <1>b, <2>1, <2>2, <2>3, <2>4, <2>5 DEF DataInv
<1>6. ASSUME SyncDir PROVE DataInv'
  <2>1. /\ UNCHANGED coreVars /\ UNCHANGED <<snapshot, rotateLock, awaits, walState>>
        /\ UNCHANGED <<copiedUpTo, walTmp, snapTmp, backup, copied, ackedBefore>>
        /\ oldSnapshot' = None /\ oldWal' = None
        /\ \/ phase = "syncSnapshot" /\ phase' = "renameWal"
           \/ phase = "syncWal" /\ phase' = "reopen"
    BY <1>6 DEF SyncDir, coreVars
  <2>2. SnapInv'
    <3>1. Base' = Base /\ Platter' = Platter
      BY <1>a, <2>1, CoreFrame
    <3> QED BY <1>a, <2>1, <3>1 DEF SnapInv, coreVars
  <2>3. CopyInv'
    <3>1. phase' = "renameWal" => copiedUpTo = Len(wal) /\ snapshot = snapTmp
      BY <1>a, <2>1 DEF CopyInv
    <3> QED BY <1>a, <2>1, <3>1, CopyFrame DEF Copying
  <2>4. BackupInv'
    BY <1>a, <2>1, BackupFrame
  <2>5. SealInv'
    BY <1>a, <2>1 DEF SealInv, Rotating, coreVars, Flushed
  <2> QED BY <1>b, <2>1, <2>2, <2>3, <2>4, <2>5 DEF DataInv
<1>7. ASSUME Backup PROVE DataInv'
  <2>1. /\ UNCHANGED coreVars /\ UNCHANGED <<snapshot, oldSnapshot, oldWal, phase, awaits, walState>>
        /\ UNCHANGED <<copiedUpTo, walTmp, snapTmp, visited, copied>>
        /\ rotateLock' = "backup" /\ backup = "none" /\ backup' = "flush" /\ ackedBefore' = acked
        /\ phase = "idle"
    BY <1>7 DEF Backup, coreVars, MayBackUp
  <2>2. SnapInv'
    BY <1>a, <2>1, SnapFrame
  <2>3. CopyInv'
    BY <1>a, <2>1, CopyFrame DEF Copying
  <2>4. BackupInv'
    BY <1>a, <2>1, BackupIdle DEF coreVars
  <2>5. SealInv'
    BY <1>a, <2>1 DEF SealInv, Rotating, coreVars
  <2> QED BY <1>b, <2>1, <2>2, <2>3, <2>4, <2>5 DEF DataInv
<1>8. ASSUME BackupFlushed PROVE DataInv'
  <2>1. /\ UNCHANGED coreVars
        /\ UNCHANGED <<snapshot, oldSnapshot, oldWal, phase, awaits, walState, rotateLock>>
        /\ UNCHANGED <<copiedUpTo, walTmp, snapTmp, visited, copied, ackedBefore>>
        /\ backup = "flush" /\ phase = "idle"
    BY <1>8 DEF BackupFlushed, coreVars, RotationInv
  <2>2. SnapInv'
    BY <1>a, <2>1, SnapFrame
  <2>3. CopyInv'
    BY <1>a, <2>1, CopyFrame DEF Copying
  <2>4. BackupInv'
    BY <1>a, <2>1, NoCopies DEF BackupInv, coreVars
  <2>5. SealInv'
    BY <1>a, <2>1 DEF SealInv, Rotating, coreVars
  <2> QED BY <1>b, <2>1, <2>2, <2>3, <2>4, <2>5 DEF DataInv
<1>9. ASSUME CopySnapshot PROVE DataInv'
  <2>1. /\ UNCHANGED coreVars
        /\ UNCHANGED <<snapshot, oldSnapshot, oldWal, phase, awaits, walState, rotateLock>>
        /\ UNCHANGED <<copiedUpTo, walTmp, snapTmp, visited, backup, ackedBefore>>
        /\ backup = "copy" /\ phase = "idle"
        /\ copied' = [copied EXCEPT !.snapshot = snapshot]
    BY <1>9 DEF CopySnapshot, coreVars, RotationInv
  <2>2. SnapInv'
    BY <1>a, <2>1, SnapFrame
  <2>3. CopyInv'
    BY <1>a, <2>1, CopyFrame DEF Copying
  <2>4. BackupInv'
    <3>1. copied = [snapshot |-> copied.snapshot, wal |-> copied.wal]
      BY <1>a DEF BackupInv
    <3>2. copied' = [snapshot |-> snapshot, wal |-> copied.wal]
      BY <2>1, <3>1
    <3>3. copied'.snapshot = snapshot' /\ copied'.wal = copied.wal
      BY <2>1, <3>2
    <3>4. Base' = Base /\ Rejected' = Rejected
      BY <1>a, <2>1, CoreFrame
    <3>5. CopiedWalInv => CopiedWalInv'
      BY <2>1, <3>3, <3>4 DEF CopiedWalInv, coreVars
    <3>6. copied' = [snapshot |-> copied'.snapshot, wal |-> copied'.wal]
      BY <3>2
    <3>7. ackedBefore' \subseteq acked' /\ backup' = "copy" /\ (copied.wal # None => CopiedWalInv)
      BY <1>a, <2>1 DEF BackupInv, coreVars
    <3> QED BY <3>3, <3>5, <3>6, <3>7 DEF BackupInv
  <2>5. SealInv'
    BY <1>a, <2>1 DEF SealInv, Rotating, coreVars
  <2> QED BY <1>b, <2>1, <2>2, <2>3, <2>4, <2>5 DEF DataInv
<1> QED BY <1>1, <1>2, <1>3, <1>4, <1>5, <1>6, <1>7, <1>8, <1>9

-----------------------------------------------------------------------------
\* The new snapshot and the new log

\* Nothing is rejected once the callbacks have run, unless a rotation goes on.
LEMMA NoneRejected ==
  ASSUME RotationInv, SealInv, ~ Due, phase \notin Rotating
  PROVE  Rejected = {}
<1>1. undo = <<>> /\ \A n \in Calls : op[n] # "retrying"
  BY DEF Due
<1>2. ToSet(undo) = {}
  BY <1>1 DEF ToSet
<1>3. \A n \in Calls : op[n] # "refused" /\ op[n] # "waiting"
  BY <1>2 DEF RotationInv, SealInv
<1> QED BY <1>1, <1>3 DEF Rejected

\* Every call of the log is for the new snapshot or for the new log.
LEMMA EarlyOrLate ==
  ASSUME CoreInv, Rejected = {}, CopyInv, phase \in Copying
  PROVE  ToSet(log) = Early \cup Late
<1>1. /\ Len(wal) \in Nat /\ DOMAIN wal = 1 .. Len(wal) /\ Len(walTmp) \in Nat /\ copiedUpTo \in Nat
      /\ Len(walTmp) <= copiedUpTo /\ copiedUpTo <= Len(wal)
  BY DEF CoreInv, DataTypes, CopyInv
<1>2. Start \in Nat /\ Start <= Len(wal)
  BY <1>1 DEF Start
<1>3. ToSet(wal) = {wal[i] : i \in 1 .. Start} \cup {wal[i] : i \in Start + 1 .. Len(wal)}
  <2>1. \A i \in 1 .. Len(wal) : i \in 1 .. Start \/ i \in Start + 1 .. Len(wal)
    BY <1>1, <1>2
  <2>2. 1 .. Start \subseteq 1 .. Len(wal) /\ Start + 1 .. Len(wal) \subseteq 1 .. Len(wal)
    BY <1>1, <1>2
  <2> QED BY <1>1, <2>1, <2>2 DEF ToSet
<1>4. Framed \subseteq ToSet(log)
  BY DEF CoreInv, FlowInv
<1>5. ToSet(log) = Base \cup Framed
  BY <1>4 DEF Base
<1> QED BY <1>3, <1>5 DEF Early, Late, Framed

\* What the store has of a key then is what a new snapshot has to have.
LEMMA StoreRecords ==
  ASSUME RotationInv, DataInv, ~ Due, phase = "snapshot", NEW k \in Keys
  PROVE  Holds(calls, log, Early, k, store[k]) \/ ~ Untouched(calls, Late, k)
<1>1. Rejected = {}
  BY NoneRejected DEF DataInv, Rotating
<1>2. ToSet(log) = Early \cup Late
  BY <1>1, EarlyOrLate DEF DataInv, Copying
<1>3. Untouched(calls, Rejected, k)
  BY <1>1 DEF Untouched
<1>4. Holds(calls, log, ToSet(log), k, store[k])
  BY <1>3 DEF DataInv, CoreInv, StoreInv
<1>5. Early \subseteq ToSet(log) /\ ToSet(log) \subseteq Early \cup Late
  BY <1>2
<1> QED BY <1>4, <1>5, HoldsSplit

\* The frames that are copied continue the new log.
LEMMA TailCopied ==
  ASSUME CoreInv, CopyInv, UNCHANGED coreVars, UNCHANGED <<snapTmp, visited>>,
         phase \in {"precopy", "drained"}, phase' \in {"precopy", "drain"}, CopyTail
  PROVE  CopyInv'
<1> DEFINE t == SubSeq(wal, copiedUpTo + 1, Len(wal))
<1>1. /\ Len(wal) \in Nat /\ wal \in Seq(Calls) /\ Len(walTmp) \in Nat /\ copiedUpTo \in Nat
      /\ walTmp \in Seq(Calls) /\ DOMAIN walTmp = 1 .. Len(walTmp)
      /\ Len(walTmp) <= copiedUpTo /\ copiedUpTo <= Len(wal)
      /\ \A i \in DOMAIN walTmp : walTmp[i] = wal[Start + i]
      /\ \A k \in Keys : TmpHolds(k)
      /\ snapTmp = [k \in Keys |-> snapTmp[k]]
  BY DEF CoreInv, DataTypes, CopyInv, Copying
<1>2. walTmp' = walTmp \o t /\ copiedUpTo' = Len(wal)
  BY DEF CopyTail
<1>3. /\ t \in Seq(Calls) /\ Len(t) = Len(wal) - copiedUpTo
      /\ \A i \in 1 .. Len(t) : t[i] = wal[copiedUpTo + i]
  <2>1. t \in Seq(Calls)
    <3>1. copiedUpTo + 1 \in Nat \ {0} /\ Len(wal) <= Len(wal)
      BY <1>1
    <3> QED BY <1>1, <3>1, SubSeqProps
  <2>2. Len(t) = Len(wal) - copiedUpTo /\ \A i \in 1 .. Len(t) : t[i] = wal[copiedUpTo + i]
    BY <1>1
  <2> QED BY <2>1, <2>2
<1> HIDE DEF t
<1>4. /\ walTmp' \in Seq(Calls) /\ Len(walTmp') = Len(walTmp) + Len(t)
      /\ DOMAIN walTmp' = 1 .. Len(walTmp) + Len(t)
      /\ \A i \in 1 .. Len(walTmp) + Len(t) :
           walTmp'[i] = IF i <= Len(walTmp) THEN walTmp[i] ELSE t[i - Len(walTmp)]
  <2>1. /\ walTmp \o t \in Seq(Calls) /\ Len(walTmp \o t) = Len(walTmp) + Len(t)
        /\ \A i \in 1 .. Len(walTmp) + Len(t) :
             (walTmp \o t)[i] = IF i <= Len(walTmp) THEN walTmp[i] ELSE t[i - Len(walTmp)]
    BY <1>1, <1>3, ConcatProperties
  <2>2. DOMAIN (walTmp \o t) = 1 .. Len(walTmp) + Len(t)
    BY <2>1
  <2> QED BY <1>2, <2>1, <2>2
<1>5. Start \in Nat /\ Start = copiedUpTo - Len(walTmp)
  BY <1>1 DEF Start
<1>6. Start' = Start
  <2>1. Start' = copiedUpTo' - Len(walTmp')
    BY DEF Start
  <2>2. copiedUpTo' - Len(walTmp') = copiedUpTo - Len(walTmp)
    BY <1>1, <1>2, <1>3, <1>4
  <2> QED BY <1>5, <2>1, <2>2
<1>7. ASSUME NEW i \in DOMAIN walTmp' PROVE walTmp'[i] = wal[Start + i]
  <2>1. i \in Int /\ 1 <= i /\ i <= Len(walTmp) + Len(t)
    BY <1>1, <1>3, <1>4
  <2>2. CASE i <= Len(walTmp)
    BY <1>1, <1>4, <2>1, <2>2
  <2>3. CASE ~ (i <= Len(walTmp))
    <3>1. i - Len(walTmp) \in 1 .. Len(t)
      BY <1>1, <1>3, <2>1, <2>3
    <3>2. copiedUpTo + (i - Len(walTmp)) = Start + i
      BY <1>1, <1>5, <2>1
    <3>3. t[i - Len(walTmp)] = wal[copiedUpTo + (i - Len(walTmp))]
      BY <1>3, <3>1
    <3> QED BY <1>4, <2>3, <3>2, <3>3
  <2> QED BY <2>2, <2>3
<1>8. Base' = Base /\ Unwritten' = Unwritten /\ wal' = wal
  BY CoreFrame DEF coreVars
<1>9. Early' = Early /\ Late' = Late
  BY <1>6, <1>8 DEF Early, Late, coreVars
<1>10. \A k \in Keys : TmpHolds(k)'
  BY <1>1, <1>9 DEF TmpHolds, coreVars
<1>11. Len(walTmp') <= copiedUpTo' /\ copiedUpTo' <= Len(wal') /\ copiedUpTo' \in Nat
  BY <1>1, <1>2, <1>3, <1>4, <1>8
<1>12. snapTmp' = [k \in Keys |-> snapTmp'[k]]
  BY <1>1
<1> QED BY <1>4, <1>6, <1>7, <1>8, <1>10, <1>11, <1>12 DEF CopyInv

\* The steps that write or rename the files of a compaction, and the copy of
\* the log for a backup.
LEMMA CopyStep ==
  ASSUME RotationInv, DataInv,
         \/ Fence \/ (\E k \in Keys : WriteRecord(k)) \/ SnapshotWritten \/ PreCopy \/ DrainedTail
         \/ RenameSnapshot \/ CopyWal
  PROVE  DataInv'
<1> USE DEF callVars, storeVars, walVars, diskVars, compactVars, backupVars, historyVars, countVars
<1>a. CoreInv /\ CopyInv /\ SealInv /\ SnapInv /\ BackupInv /\ DataTypes /\ WalInv
  BY DEF DataInv, CoreInv
<1>b. ASSUME UNCHANGED coreVars PROVE CoreInv'
  BY <1>a, <1>b, CoreFrame
<1>1. ASSUME Fence PROVE DataInv'
  <2>1. /\ UNCHANGED coreVars /\ UNCHANGED <<snapshot, oldSnapshot, oldWal, rotateLock, awaits, walState>>
        /\ UNCHANGED <<backup, copied, ackedBefore>>
        /\ phase = "fence" /\ phase' = "snapshot"
        /\ copiedUpTo' = Len(wal) /\ snapTmp' = Nothing /\ visited' = {} /\ walTmp' = <<>>
    BY <1>1 DEF Fence, coreVars
  <2>2. SnapInv'
    BY <1>a, <2>1, SnapFrame
  <2>3. CopyInv'
    <3>1. walTmp' \in Seq(Calls) /\ Len(walTmp') = 0 /\ DOMAIN walTmp' = {}
      BY <2>1
    <3>2. copiedUpTo' \in Nat /\ Len(wal') \in Nat /\ copiedUpTo' = Len(wal')
      BY <1>a, <2>1 DEF DataTypes, coreVars
    <3>3. snapTmp' = [k \in Keys |-> Absent]
      BY <2>1 DEF Nothing
    <3>4. Len(walTmp') <= copiedUpTo' /\ copiedUpTo' <= Len(wal')
      BY <3>1, <3>2
    <3>5. snapTmp' = [k \in Keys |-> snapTmp'[k]] /\ \A k \in Keys : snapTmp'[k] = Absent
      BY <3>3
    <3> QED BY <2>1, <3>1, <3>2, <3>4, <3>5 DEF CopyInv
  <2>4. BackupInv'
    BY <1>a, <2>1, BackupFrame
  <2>5. SealInv'
    BY <1>a, <2>1 DEF SealInv, Rotating, coreVars
  <2> QED BY <1>b, <2>1, <2>2, <2>3, <2>4, <2>5 DEF DataInv
<1>2. ASSUME NEW k \in Keys, WriteRecord(k) PROVE DataInv'
  <2>1. /\ UNCHANGED coreVars /\ UNCHANGED <<snapshot, oldSnapshot, oldWal, rotateLock, awaits, walState>>
        /\ UNCHANGED <<copiedUpTo, walTmp, backup, copied, ackedBefore, phase>>
        /\ phase = "snapshot" /\ ~ Due
        /\ snapTmp' = [snapTmp EXCEPT ![k] = store[k]] /\ visited' = visited \cup {k}
    BY <1>2 DEF WriteRecord, coreVars
  <2>2. SnapInv'
    BY <1>a, <2>1, SnapFrame
  <2>3. CopyInv'
    <3>1. Base' = Base /\ Unwritten' = Unwritten /\ wal' = wal
      BY <1>a, <2>1, CoreFrame DEF coreVars
    <3>2. Start' = Start
      BY <2>1 DEF Start
    <3>3. Early' = Early /\ Late' = Late
      BY <2>1, <3>1, <3>2 DEF Early, Late, coreVars
    <3>4. snapTmp = [j \in Keys |-> snapTmp[j]]
      BY <1>a DEF CopyInv
    <3>5. /\ snapTmp' = [j \in Keys |-> IF j = k THEN store[k] ELSE snapTmp[j]]
          /\ snapTmp'[k] = store[k] /\ \A j \in Keys : j # k => snapTmp'[j] = snapTmp[j]
      BY <2>1, <3>4
    <3>6. TmpHolds(k)'
      BY <2>1, <3>3, <3>5, StoreRecords DEF TmpHolds, coreVars
    <3>7. \A j \in Keys : TmpHolds(j) /\ j # k => TmpHolds(j)'
      BY <2>1, <3>3, <3>5 DEF TmpHolds, coreVars
    <3>8. ASSUME NEW j \in Keys
          PROVE  TmpHolds(j)' \/ (phase' = "snapshot" /\ j \notin visited' /\ snapTmp'[j] = Absent)
      BY <1>a, <2>1, <3>5, <3>6, <3>7, <3>8 DEF CopyInv, Copying
    <3>9. snapTmp' = [j \in Keys |-> snapTmp'[j]]
      BY <3>5
    <3> QED BY <1>a, <2>1, <3>1, <3>2, <3>8, <3>9 DEF CopyInv, Copying
  <2>4. BackupInv'
    BY <1>a, <2>1, BackupFrame
  <2>5. SealInv'
    BY <1>a, <2>1 DEF SealInv, Rotating, coreVars
  <2> QED BY <1>b, <2>1, <2>2, <2>3, <2>4, <2>5 DEF DataInv
<1>3. ASSUME SnapshotWritten PROVE DataInv'
  <2>1. /\ UNCHANGED coreVars /\ UNCHANGED <<snapshot, oldSnapshot, oldWal, rotateLock, awaits, walState>>
        /\ UNCHANGED <<copiedUpTo, walTmp, snapTmp, visited, backup, copied, ackedBefore>>
        /\ phase = "snapshot" /\ ~ Due /\ phase' = "precopy"
        /\ \A k \in Keys : k \in visited \/ store[k] = Absent
    BY <1>3 DEF SnapshotWritten, coreVars
  <2>2. SnapInv'
    BY <1>a, <2>1, SnapFrame
  <2>3. CopyInv'
    <3>1. Base' = Base /\ Unwritten' = Unwritten /\ wal' = wal
      BY <1>a, <2>1, CoreFrame DEF coreVars
    <3>2. Start' = Start
      BY <2>1 DEF Start
    <3>3. Early' = Early /\ Late' = Late
      BY <2>1, <3>1, <3>2 DEF Early, Late, coreVars
    <3>4. \A k \in Keys : TmpHolds(k) => TmpHolds(k)'
      BY <2>1, <3>3 DEF TmpHolds, coreVars
    <3>5. ASSUME NEW k \in Keys PROVE TmpHolds(k)
      <4>1. CASE k \notin visited /\ snapTmp[k] = Absent
        <5>1. store[k] = snapTmp[k]
          BY <2>1, <4>1
        <5> QED BY <2>1, <5>1, StoreRecords DEF TmpHolds
      <4> QED BY <1>a, <2>1, <4>1 DEF CopyInv, Copying
    <3> QED BY <1>a, <2>1, <3>1, <3>2, <3>4, <3>5 DEF CopyInv, Copying
  <2>4. BackupInv'
    BY <1>a, <2>1, BackupFrame
  <2>5. SealInv'
    BY <1>a, <2>1 DEF SealInv, Rotating, coreVars
  <2> QED BY <1>b, <2>1, <2>2, <2>3, <2>4, <2>5 DEF DataInv
<1>4. ASSUME PreCopy \/ DrainedTail PROVE DataInv'
  <2>1. /\ UNCHANGED coreVars /\ UNCHANGED <<snapshot, oldSnapshot, oldWal, rotateLock, awaits, walState>>
        /\ UNCHANGED <<snapTmp, visited, backup, copied, ackedBefore>> /\ CopyTail
        /\ \/ phase = "precopy" /\ phase' = "precopy"
           \/ phase = "drained" /\ phase' = "drain"
    BY <1>4 DEF PreCopy, DrainedTail, coreVars
  <2>2. SnapInv'
    BY <1>a, <2>1, SnapFrame
  <2>3. CopyInv'
    BY <1>a, <2>1, TailCopied
  <2>4. BackupInv'
    BY <1>a, <2>1, BackupFrame
  <2>5. SealInv'
    BY <1>a, <2>1 DEF SealInv, Rotating, coreVars
  <2> QED BY <1>b, <2>1, <2>2, <2>3, <2>4, <2>5 DEF DataInv
<1>5. ASSUME RenameSnapshot PROVE DataInv'
  <2>1. /\ UNCHANGED coreVars /\ UNCHANGED <<oldWal, rotateLock, awaits, walState>>
        /\ UNCHANGED <<copiedUpTo, walTmp, snapTmp, visited, backup, copied, ackedBefore>>
        /\ phase = "rename" /\ phase' = "syncSnapshot"
        /\ oldSnapshot' = snapshot /\ snapshot' = snapTmp
    BY <1>5 DEF RenameSnapshot, AfterSnapshotRenamed, coreVars
  <2>2. Base' = Base /\ Platter' = Platter
    BY <1>a, <2>1, CoreFrame
  <2>3. Flushed /\ copiedUpTo = Len(wal) /\ \A k \in Keys : TmpHolds(k)
    BY <1>a, <2>1 DEF SealInv, CopyInv, Copying, Rotating
  <2>4. synced = Len(wal) /\ ToSet(queue) = {} /\ ToSet(Unwritten) = {}
    BY <1>a, <2>3 DEF WalInv, Flushed, Unwritten, ToSet
  <2>5. Completes(calls, log, snapTmp, Base, Platter)
    <3> SUFFICES ASSUME NEW k \in Keys, Untouched(calls, Platter, k)
                 PROVE  Holds(calls, log, Base, k, snapTmp[k])
      BY DEF Completes
    <3>1. Len(wal) \in Nat /\ Len(walTmp) \in Nat /\ Len(walTmp) <= copiedUpTo
      BY <1>a, <2>1 DEF DataTypes, CopyInv, Copying
    <3>2. Start \in Nat /\ Start <= Len(wal)
      BY <2>3, <3>1 DEF Start
    <3>3. 1 .. Start \subseteq 1 .. synced /\ Start + 1 .. Len(wal) \subseteq 1 .. synced
      BY <2>4, <3>1, <3>2
    <3>4. Late \subseteq Platter /\ Base \subseteq Early /\ Early \subseteq Base \cup Platter
      BY <2>4, <3>3 DEF Late, Early, Platter
    <3>5. Untouched(calls, Late, k)
      BY <3>4 DEF Untouched
    <3>6. Holds(calls, log, Early, k, snapTmp[k])
      BY <2>3, <3>5 DEF TmpHolds
    <3> QED BY <3>4, <3>6, HoldsSplit
  <2>6. SnapInv'
    BY <1>a, <2>1, <2>2, <2>5 DEF SnapInv, coreVars
  <2>7. CopyInv'
    BY <1>a, <2>1, <2>3, CopyFrame DEF Copying
  <2>8. BackupInv'
    <3>1. backup # "copy"
      BY <2>1 DEF RotationInv
    <3>2. ackedBefore \subseteq acked
      BY <1>a DEF BackupInv
    <3> QED BY <1>a, <2>1, <3>1, <3>2, BackupIdle DEF coreVars
  <2>9. SealInv'
    BY <1>a, <2>1 DEF SealInv, Rotating, coreVars, Flushed
  <2> QED BY <1>b, <2>1, <2>6, <2>7, <2>8, <2>9 DEF DataInv
<1>6. ASSUME CopyWal PROVE DataInv'
  <2>1. /\ UNCHANGED coreVars
        /\ UNCHANGED <<snapshot, oldSnapshot, oldWal, phase, awaits, walState, rotateLock>>
        /\ UNCHANGED <<copiedUpTo, walTmp, snapTmp, visited, backup, ackedBefore>>
        /\ backup = "copy" /\ phase = "idle" /\ ~ Due
        /\ copied' = [copied EXCEPT !.wal = wal]
    BY <1>6 DEF CopyWal, coreVars, RotationInv
  <2>2. SnapInv'
    BY <1>a, <2>1, SnapFrame
  <2>3. CopyInv'
    BY <1>a, <2>1, CopyFrame DEF Copying
  <2>4. BackupInv'
    <3>1. copied' = [snapshot |-> copied.snapshot, wal |-> wal]
      BY <1>a, <2>1 DEF BackupInv
    <3>2. copied'.snapshot = copied.snapshot /\ copied'.wal = wal
      BY <3>1
    <3>3. Rejected = {}
      BY <1>a, <2>1, NoneRejected DEF Rotating
    <3>4. Base' = Base /\ Rejected' = Rejected /\ wal' = wal
      BY <1>a, <2>1, CoreFrame DEF coreVars
    <3>5. Platter \subseteq ToSet(wal)
      BY <1>a DEF Platter, ToSet, DataTypes
    <3>6. Completes(calls, log, snapshot, Base, ToSet(wal))
      BY <1>a, <3>5, CompletesMore DEF SnapInv
    <3>7. ToSet(log) = Base \cup Framed
      BY <1>a, <3>3 DEF Base, CoreInv, FlowInv
    <3>8. ackedBefore \subseteq Base \cup ToSet(wal)
      <4> SUFFICES ASSUME NEW n \in ackedBefore, n \notin Base, n \notin ToSet(wal) PROVE FALSE
        OBVIOUS
      <4>1. n \in ToSet(log) /\ op[n] = "done" /\ n \in Calls
        BY <1>a DEF BackupInv, CoreInv, FlowInv, DataTypes, ToSet
      <4>2. n \in ToSet(queue) \/ n \in ToSet(inflight)
        BY <3>7, <4>1 DEF Framed, Unwritten, ToSet
      <4> QED BY <1>a, <4>1, <4>2 DEF CoreInv, FlowInv
    <3>9. Leading(log, Base \cup ToSet(wal))
      <4> SUFFICES ASSUME NEW n \in ToSet(log), NEW m \in Base \cup ToSet(wal), Before(log, n, m),
                          n \notin Base, n \notin ToSet(wal)
                   PROVE  FALSE
        BY DEF Leading
      <4>1. n \in Framed /\ n \in ToSet(Unwritten) \cup ToSet(queue)
        BY <3>7 DEF Framed
      <4>2. Before(log, m, n)
        BY <1>a, <4>1 DEF WalInv, Precede
      <4> QED BY <1>a, <4>2, OrderTotal DEF DataTypes
    <3>10. Chain(log, wal) /\ wal \in Seq(Calls)
      BY <1>a DEF WalInv, DataTypes
    <3>11. CopiedWalInv'
      BY <2>1, <3>2, <3>3, <3>4, <3>6, <3>8, <3>9, <3>10 DEF CopiedWalInv, coreVars
    <3>12. /\ ackedBefore' \subseteq acked'
           /\ copied' = [snapshot |-> copied'.snapshot, wal |-> copied'.wal]
           /\ copied'.snapshot # None => copied'.snapshot = snapshot'
      BY <1>a, <2>1, <3>1, <3>2 DEF BackupInv, coreVars
    <3> QED BY <2>1, <3>11, <3>12 DEF BackupInv
  <2>5. SealInv'
    BY <1>a, <2>1 DEF SealInv, Rotating, coreVars
  <2> QED BY <1>b, <2>1, <2>2, <2>3, <2>4, <2>5 DEF DataInv
<1> QED BY <1>1, <1>2, <1>3, <1>4, <1>5, <1>6

-----------------------------------------------------------------------------
\* Steps that change where calls are.

\* The frames and the order of the calls in A stay what they are.
Kept(c, l, d, m, A) ==
  /\ \A a \in A : d[a] = c[a]
  /\ \A a, b \in A : Before(l, a, b) => Before(m, a, b)

\* What such calls make of a key is what they made of it,
LEMMA KeptHolds ==
  ASSUME NEW c, NEW l, NEW d, NEW m, NEW A, Kept(c, l, d, m, A),
         NEW S, S \subseteq A, NEW k, NEW v, Holds(c, l, S, k, v)
  PROVE  Holds(d, m, S, k, v)
<1>1. \A a \in S \cap S : d[a] = c[a]
  BY DEF Kept
<1>2. \A a, b \in S \cap S : Before(l, a, b) => Before(m, a, b)
  BY DEF Kept
<1>3. \A a \in S : k \in DOMAIN d[a] => a \in S
  OBVIOUS
<1> QED BY <1>1, <1>2, <1>3, HoldsMove

\* ... a snapshot that frames among them complete stays complete,
LEMMA KeptCompletes ==
  ASSUME NEW c, NEW l, NEW d, NEW m, NEW A, Kept(c, l, d, m, A),
         NEW S, S \subseteq A, NEW W, W \subseteq A, NEW s, Completes(c, l, s, S, W)
  PROVE  Completes(d, m, s, S, W)
<1> SUFFICES ASSUME NEW k \in Keys, Untouched(d, W, k) PROVE Holds(d, m, S, k, s[k])
  BY DEF Completes
<1>1. Untouched(c, W, k)
  BY DEF Kept, Untouched
<1>2. Holds(c, l, S, k, s[k])
  BY <1>1 DEF Completes
<1> QED BY <1>2, KeptHolds

\* ... and they stay in order.
LEMMA KeptChain ==
  ASSUME NEW c, NEW l, NEW d, NEW m, NEW A, Kept(c, l, d, m, A)
  PROVE  /\ \A s : ToSet(s) \subseteq A /\ Chain(l, s) => Chain(m, s)
         /\ \A S, T : S \subseteq A /\ T \subseteq A /\ Precede(l, S, T) => Precede(m, S, T)
<1>1. ASSUME NEW s, ToSet(s) \subseteq A, Chain(l, s) PROVE Chain(m, s)
  <2>1. \A i \in DOMAIN s : s[i] \in A
    BY <1>1 DEF ToSet
  <2> QED BY <1>1, <2>1 DEF Chain, Kept
<1>2. ASSUME NEW S, NEW T, S \subseteq A, T \subseteq A, Precede(l, S, T) PROVE Precede(m, S, T)
  BY <1>2 DEF Precede, Kept
<1> QED BY <1>1, <1>2

\* A step that leaves the log alone keeps all of it.
LEMMA KeptSame ==
  ASSUME UNCHANGED <<calls, log>>
  PROVE  Kept(calls, log, calls', log', ToSet(log))
BY DEF Kept

\* The snapshots, when calls change and the files do not shrink.
LEMMA SnapKept ==
  ASSUME CoreInv, SnapInv, NEW A, Kept(calls, log, calls', log', A),
         Base' = Base, Base \subseteq A, ToSet(wal) \subseteq A, Platter \subseteq Platter',
         oldWal # None => /\ wal' = wal /\ ToSet(oldWal) \subseteq A /\ ToSet(log) \subseteq ToSet(log')
                          /\ \A n \in ToSet(oldWal) : op'[n] = op[n],
         UNCHANGED <<snapshot, oldSnapshot, oldWal>>,
         phase' = phase \/ phase \notin {"syncSnapshot", "syncWal"}
  PROVE  SnapInv'
<1>1. Platter \subseteq A
  BY DEF Platter, CoreInv, DataTypes, ToSet
<1>2. ASSUME NEW s, Completes(calls, log, s, Base, Platter)
      PROVE  Completes(calls', log', s, Base', Platter')
  <2>1. Completes(calls', log', s, Base, Platter)
    BY <1>1, <1>2, KeptCompletes
  <2>2. Completes(calls', log', s, Base, Platter')
    BY <2>1, CompletesMore
  <2> QED BY <2>2
<1>3. ASSUME oldWal # None, OldWalInv PROVE OldWalInv'
  <2>1. Chain(log', oldWal)
    BY <1>3, KeptChain DEF OldWalInv
  <2>2. Base \ ToSet(oldWal) \subseteq A /\ ToSet(oldWal) \subseteq A
    BY <1>3
  <2>3. Precede(log', Base \ ToSet(oldWal), ToSet(oldWal))
    BY <1>3, <2>2, KeptChain DEF OldWalInv
  <2> QED BY <1>3, <2>1, <2>3 DEF OldWalInv
<1>4. Completes(calls', log', snapshot', Base', Platter')
  BY <1>2 DEF SnapInv
<1>5. oldSnapshot' # None => phase' = "syncSnapshot" /\ Completes(calls', log', oldSnapshot', Base', Platter')
  BY <1>2 DEF SnapInv
<1>6. oldWal' # None => phase' = "syncWal" /\ OldWalInv'
  BY <1>3 DEF SnapInv
<1> QED BY <1>4, <1>5, <1>6 DEF SnapInv

\* The files a compaction writes, when calls change and the log does not shrink.
LEMMA CopyKept ==
  ASSUME CopyInv, NEW A, Kept(calls, log, calls', log', A),
         phase \in Copying => /\ Early' = Early /\ Early \subseteq A
                              /\ Late \subseteq Late' /\ Late \subseteq A
                              /\ \A i \in 1 .. Len(wal) : wal'[i] = wal[i]
                              /\ wal \in Seq(Calls) /\ Len(wal') \in Nat /\ Len(wal) <= Len(wal'),
         phase \in {"close", "rename", "syncSnapshot", "renameWal"} => Len(wal') = Len(wal),
         visited' \subseteq visited,
         UNCHANGED <<copiedUpTo, walTmp, snapTmp, phase, snapshot>>
  PROVE  CopyInv'
<1>1. Start' = Start
  BY DEF Start
<1>2. ASSUME phase \in Copying, NEW k \in Keys, TmpHolds(k) PROVE TmpHolds(k)'
  <2>1. CASE Holds(calls, log, Early, k, snapTmp[k])
    <3>1. Holds(calls', log', Early, k, snapTmp[k])
      BY <1>2, <2>1, KeptHolds
    <3> QED BY <1>2, <3>1 DEF TmpHolds
  <2>2. CASE ~ Untouched(calls, Late, k)
    <3>1. ~ Untouched(calls', Late', k)
      BY <1>2, <2>2 DEF Untouched, Kept
    <3> QED BY <3>1 DEF TmpHolds
  <2> QED BY <1>2, <2>1, <2>2 DEF TmpHolds
<1>3. ASSUME phase \in Copying
      PROVE  /\ Len(walTmp') <= copiedUpTo' /\ copiedUpTo' <= Len(wal')
             /\ \A i \in DOMAIN walTmp' : walTmp'[i] = wal'[Start' + i]
             /\ \A k \in Keys : \/ TmpHolds(k)'
                                \/ phase' = "snapshot" /\ k \notin visited' /\ snapTmp'[k] = Absent
  <2>1. /\ Len(walTmp) <= copiedUpTo /\ copiedUpTo <= Len(wal) /\ copiedUpTo \in Nat /\ walTmp \in Seq(Calls)
        /\ \A i \in DOMAIN walTmp : walTmp[i] = wal[Start + i]
        /\ \A k \in Keys : \/ TmpHolds(k)
                           \/ phase = "snapshot" /\ k \notin visited /\ snapTmp[k] = Absent
    BY <1>3 DEF CopyInv
  <2>2. Len(wal) \in Nat /\ Len(walTmp) \in Nat /\ DOMAIN walTmp = 1 .. Len(walTmp)
    BY <1>3, <2>1
  <2>3. copiedUpTo <= Len(wal')
    BY <1>3, <2>1, <2>2
  <2>4. \A i \in DOMAIN walTmp : Start + i \in 1 .. Len(wal)
    BY <2>1, <2>2 DEF Start
  <2>5. \A i \in DOMAIN walTmp : walTmp[i] = wal'[Start + i]
    BY <1>3, <2>1, <2>4
  <2>6. ASSUME NEW k \in Keys
        PROVE  TmpHolds(k)' \/ (phase' = "snapshot" /\ k \notin visited' /\ snapTmp'[k] = Absent)
    BY <1>2, <1>3, <2>1
  <2> QED BY <1>1, <2>1, <2>3, <2>5, <2>6
<1>4. walTmp' \in Seq(Calls) /\ copiedUpTo' \in Nat /\ snapTmp' = [k \in Keys |-> snapTmp'[k]]
  BY DEF CopyInv
<1>5. phase' \in {"close", "rename", "syncSnapshot", "renameWal"} => copiedUpTo' = Len(wal')
  BY DEF CopyInv
<1>6. phase' \in {"syncSnapshot", "renameWal"} => snapshot' = snapTmp'
  BY DEF CopyInv
<1> QED BY <1>3, <1>4, <1>5, <1>6 DEF CopyInv

\* The copies of a backup, when nothing comes before what they have.
LEMMA BackupKept ==
  ASSUME BackupInv, NEW A, Kept(calls, log, calls', log', A),
         Base' = Base, Base \subseteq A, ToSet(wal) \subseteq A, ToSet(wal) \subseteq ToSet(wal'),
         \A n, m : m \in A /\ Before(log', n, m) => Before(log, n, m) /\ n \in ToSet(log),
         backup = "copy" /\ Rejected = {} => Rejected' = {},
         acked \subseteq acked',
         UNCHANGED <<backup, copied, ackedBefore, snapshot>>
  PROVE  BackupInv'
<1>1. ASSUME backup = "copy", CopiedWalInv PROVE CopiedWalInv'
  <2> DEFINE K == Base \cup ToSet(copied.wal)
  <2>1. /\ copied.wal \in Seq(Calls) /\ Chain(log, copied.wal)
        /\ ToSet(copied.wal) \subseteq ToSet(wal) /\ Rejected = {}
        /\ Completes(calls, log, snapshot, Base, ToSet(copied.wal))
        /\ ackedBefore \subseteq K /\ Leading(log, K)
    BY <1>1 DEF CopiedWalInv
  <2>2. ToSet(copied.wal) \subseteq A /\ K \subseteq A
    BY <2>1
  <2>3. Chain(log', copied.wal)
    BY <2>1, <2>2, KeptChain
  <2>4. Completes(calls', log', snapshot, Base, ToSet(copied.wal))
    BY <2>1, <2>2, KeptCompletes
  <2> HIDE DEF K
  <2>5. Leading(log', K)
    BY <2>1, <2>2 DEF Leading
  <2>6. Rejected' = {} /\ ToSet(copied.wal) \subseteq ToSet(wal')
    BY <1>1, <2>1
  <2> QED BY <2>1, <2>3, <2>4, <2>5, <2>6 DEF CopiedWalInv, K
<1>2. ackedBefore' \subseteq acked'
  BY DEF BackupInv
<1>3. copied' = [snapshot |-> copied'.snapshot, wal |-> copied'.wal]
  BY DEF BackupInv
<1>4. copied'.snapshot # None => backup' = "copy" /\ copied'.snapshot = snapshot'
  BY DEF BackupInv
<1>5. copied'.wal # None => backup' = "copy" /\ CopiedWalInv'
  BY <1>1 DEF BackupInv
<1> QED BY <1>2, <1>3, <1>4, <1>5 DEF BackupInv

\* The case of a step that leaves the log alone.
LEMMA KeptRest ==
  ASSUME DataInv, UNCHANGED <<calls, log, wal, synced, queue, inflight, flushing>>,
         Rejected' = Rejected, Base' = Base,
         \A n \in ToSet(log) : op[n] \in {"done", "lost"} => op'[n] = op[n],
         acked \subseteq acked', visited' \subseteq visited,
         UNCHANGED <<copiedUpTo, walTmp, snapTmp, phase, snapshot, oldSnapshot, oldWal>>,
         UNCHANGED <<backup, copied, ackedBefore>>
  PROVE  SnapInv' /\ CopyInv' /\ BackupInv'
<1>1. Kept(calls, log, calls', log', ToSet(log))
  BY KeptSame
<1>2. CoreInv /\ CopyInv /\ SnapInv /\ BackupInv /\ DataTypes
  BY DEF DataInv, CoreInv
<1>3. Base \subseteq ToSet(log) /\ ToSet(wal) \subseteq ToSet(log) /\ Framed \subseteq ToSet(log)
  BY <1>2 DEF Base, CoreInv, FlowInv, Framed
<1>4. Platter' = Platter /\ Unwritten' = Unwritten
  BY DEF Platter, Unwritten
<1>5. SnapInv'
  <2>1. oldWal # None => /\ ToSet(oldWal) \subseteq ToSet(log)
                         /\ \A n \in ToSet(oldWal) : op'[n] = op[n]
    BY <1>2 DEF SnapInv, OldWalInv
  <2> QED BY <1>1, <1>2, <1>3, <1>4, <2>1, SnapKept
<1>6. CopyInv'
  <2>1. Early' = Early /\ Late' = Late
    BY <1>4 DEF Early, Late, Start
  <2>2. wal \in Seq(Calls) /\ Len(wal) \in Nat /\ DOMAIN wal = 1 .. Len(wal)
    BY <1>2 DEF DataTypes
  <2>3. ASSUME phase \in Copying PROVE Early \subseteq ToSet(log) /\ Late \subseteq ToSet(log)
    <3>1. /\ Len(walTmp) \in Nat /\ copiedUpTo \in Nat /\ Len(walTmp) <= copiedUpTo /\ copiedUpTo <= Len(wal)
      BY <1>2, <2>3 DEF CopyInv
    <3>2. Start \in Nat /\ Start <= Len(wal)
      BY <2>2, <3>1 DEF Start
    <3>3. 1 .. Start \subseteq 1 .. Len(wal) /\ Start + 1 .. Len(wal) \subseteq 1 .. Len(wal)
      BY <2>2, <3>2
    <3>4. {wal[i] : i \in 1 .. Start} \subseteq ToSet(wal) /\ {wal[i] : i \in Start + 1 .. Len(wal)} \subseteq ToSet(wal)
      BY <2>2, <3>3 DEF ToSet
    <3> QED BY <1>3, <3>4 DEF Early, Late, Framed
  <2>4. Len(wal) <= Len(wal')
    BY <2>2
  <2> QED BY <1>1, <1>2, <2>1, <2>2, <2>3, <2>4, CopyKept
<1>7. BackupInv'
  <2>1. \A n, m : m \in ToSet(log) /\ Before(log', n, m) => Before(log, n, m) /\ n \in ToSet(log)
    BY <1>2, OrderTotal DEF DataTypes
  <2> QED BY <1>1, <1>2, <1>3, <2>1, BackupKept
<1> QED BY <1>5, <1>6, <1>7

-----------------------------------------------------------------------------
\* Calls go on.

\* A call that passes the gate, or whose lock is free, changes nothing else.
LEMMA CallsGoOn ==
  ASSUME RefusalTypes, CoreInv,
         UNCHANGED <<calls, undo, store, queue, inflight, flushing, wal, synced, log, acked>>,
         \A n \in Calls : \/ op'[n] = op[n]
                          \/ op[n] \in {"called", "parked"} /\ op'[n] \in {"called", "ready", "done"}
                          \/ op[n] = "waiting" /\ op'[n] = "retrying"
  PROVE  /\ CoreInv' /\ Rejected' = Rejected /\ Base' = Base
         /\ \A n \in ToSet(log) : op[n] \in {"done", "lost"} => op'[n] = op[n]
<1>a. DataTypes /\ FlowInv /\ WalInv /\ StoreInv
  BY DEF CoreInv
<1>b. ToSet(log) \subseteq Calls /\ ToSet(wal) \subseteq Calls /\ ToSet(undo) \subseteq Calls
  BY <1>a DEF DataTypes, RefusalTypes, ToSet
<1>1. Rejected' = Rejected
  BY DEF Rejected
<1>2. Unwritten' = Unwritten
  BY DEF Unwritten
<1>3. Framed' = Framed
  BY <1>2 DEF Framed
<1>4. Base' = Base
  BY <1>1, <1>3 DEF Base
<1>5. DataTypes'
  BY <1>a DEF DataTypes
<1>6. FlowInv'
  <2>1. \A n \in Calls : op'[n] # "none" => n <= Len(calls')
    BY <1>a DEF FlowInv
  <2>2. \A n \in ToSet(log') : op'[n] \in {"logged", "refused", "waiting", "retrying", "done", "lost"}
    BY <1>a, <1>b DEF FlowInv
  <2>3. \A n \in Calls : op'[n] = "logged" <=> n \in ToSet(queue') \cup ToSet(inflight')
    BY <1>a DEF FlowInv
  <2>4. \A n \in ToSet(wal') : op'[n] \in {"logged", "done", "lost"}
    BY <1>a, <1>b DEF FlowInv
  <2>5. \A n \in acked' : n \in ToSet(log') /\ op'[n] = "done"
    BY <1>a, <1>b DEF FlowInv
  <2>6. \A n \in ToSet(undo') : op'[n] = "refused"
    BY <1>a, <1>b DEF FlowInv
  <2>7. Framed' \subseteq ToSet(log') /\ IsInjective(undo')
    BY <1>a, <1>3 DEF FlowInv
  <2> QED BY <2>1, <2>2, <2>3, <2>4, <2>5, <2>6, <2>7 DEF FlowInv
<1>7. WalInv'
  BY <1>a, <1>2, <1>3, <1>4 DEF WalInv
<1>8. StoreInv'
  BY <1>a, <1>1 DEF StoreInv
<1>9. \A n \in ToSet(log) : op[n] \in {"done", "lost"} => op'[n] = op[n]
  BY <1>b
<1> QED BY <1>1, <1>4, <1>5, <1>6, <1>7, <1>8, <1>9 DEF CoreInv

\* The steps that let calls go on.
LEMMA OpStep ==
  ASSUME RefusalTypes, RotationInv, DataInv,
         (\E n \in Calls : PassGate(n)) \/ Reopen \/ BackupDone
  PROVE  DataInv'
<1> USE DEF callVars, storeVars, walVars, diskVars, compactVars, backupVars, historyVars, countVars
<1>a. CoreInv /\ CopyInv /\ SealInv /\ SnapInv /\ BackupInv
  BY DEF DataInv
<1>b. op \in [Calls -> Stages]
  BY DEF RefusalTypes
<1>1. ASSUME NEW n \in Calls, PassGate(n) PROVE DataInv'
  <2>1. /\ UNCHANGED <<calls, undo, store, queue, inflight, flushing, wal, synced, log, acked>>
        /\ UNCHANGED <<copiedUpTo, walTmp, snapTmp, visited, phase, snapshot, oldSnapshot, oldWal>>
        /\ UNCHANGED <<backup, copied, ackedBefore, awaits, rotateLock, walState>>
        /\ op[n] = "called"
    BY <1>1 DEF PassGate
  <2>2. \E x \in {"done", "ready"} : op' = [op EXCEPT ![n] = x]
    BY <1>1 DEF PassGate, PastGate
  <2>3. \A m \in Calls : op'[m] = op[m] \/ (op[m] \in {"called", "parked"} /\ op'[m] \in {"called", "ready", "done"})
    BY <1>b, <2>1, <2>2
  <2>4. /\ CoreInv' /\ Rejected' = Rejected /\ Base' = Base
        /\ \A m \in ToSet(log) : op[m] \in {"done", "lost"} => op'[m] = op[m]
    BY <1>a, <2>1, <2>3, CallsGoOn
  <2>5. SnapInv' /\ CopyInv' /\ BackupInv'
    BY <2>1, <2>4, KeptRest
  <2>6. SealInv'
    BY <1>a, <2>1, <2>3 DEF SealInv, Flushed
  <2> QED BY <2>4, <2>5, <2>6 DEF DataInv
<1>2. ASSUME Reopen PROVE DataInv'
  <2>1. /\ UNCHANGED <<calls, undo, store, queue, inflight, flushing, wal, synced, log, acked>>
        /\ UNCHANGED <<snapshot, oldSnapshot, oldWal, backup, copied, ackedBefore, awaits>>
        /\ phase = "reopen" /\ Release("compaction") /\ Forget /\ rotateLock' = "none"
    BY <1>2 DEF Reopen
  <2>2. \A m \in Calls : \/ op'[m] = op[m]
                         \/ op[m] \in {"called", "parked"} /\ op'[m] \in {"called", "ready", "done"}
                         \/ op[m] = "waiting" /\ op'[m] = "retrying"
    BY <2>1 DEF Release
  <2>3. /\ CoreInv' /\ Rejected' = Rejected /\ Base' = Base
        /\ \A m \in ToSet(log) : op[m] \in {"done", "lost"} => op'[m] = op[m]
    BY <1>a, <2>1, <2>2, CallsGoOn
  <2>4. oldSnapshot = None /\ oldWal = None
    BY <1>a, <2>1 DEF SnapInv
  <2>5. SnapInv'
    BY <1>a, <2>1, <2>3, <2>4 DEF SnapInv, Platter
  <2>6. CopyInv'
    BY <2>1 DEF CopyInv, Copying, Forget, Nothing
  <2>7. BackupInv'
    <3>1. backup # "copy" /\ ackedBefore \subseteq acked
      BY <1>a, <2>1 DEF RotationInv, BackupInv
    <3> QED BY <1>a, <2>1, <3>1, BackupIdle
  <2>8. SealInv'
    <3>1. phase' = "idle"
      BY <2>1 DEF Forget
    <3>2. \A m \in Calls : op'[m] # "waiting"
      <4> TAKE m \in Calls
      <4>1. op[m] = "waiting" => awaits[m] = "compaction"
        BY <1>a DEF SealInv
      <4> QED BY <2>1, <4>1 DEF Release
    <3> QED BY <1>a, <2>1, <3>1, <3>2 DEF SealInv, Rotating
  <2> QED BY <2>3, <2>5, <2>6, <2>7, <2>8 DEF DataInv
<1>3. ASSUME BackupDone PROVE DataInv'
  <2>1. /\ UNCHANGED <<calls, undo, store, queue, inflight, flushing, wal, synced, log, acked>>
        /\ UNCHANGED <<copiedUpTo, walTmp, snapTmp, visited, phase, snapshot, oldSnapshot, oldWal>>
        /\ UNCHANGED <<awaits, walState>> /\ backup = "copy"
        /\ Release("backup") /\ rotateLock' = "none" /\ NoBackup
    BY <1>3 DEF BackupDone
  <2>2. \A m \in Calls : \/ op'[m] = op[m]
                         \/ op[m] \in {"called", "parked"} /\ op'[m] \in {"called", "ready", "done"}
                         \/ op[m] = "waiting" /\ op'[m] = "retrying"
    BY <2>1 DEF Release
  <2>3. /\ CoreInv' /\ Rejected' = Rejected /\ Base' = Base
        /\ \A m \in ToSet(log) : op[m] \in {"done", "lost"} => op'[m] = op[m]
    BY <1>a, <2>1, <2>2, CallsGoOn
  <2>4. phase = "idle"
    BY <2>1 DEF RotationInv
  <2>5. SnapInv'
    BY <1>a, <2>1, <2>3, <2>4 DEF SnapInv, Platter
  <2>6. CopyInv'
    BY <1>a, <2>1, <2>4 DEF CopyInv, Copying
  <2>7. BackupInv'
    BY <2>1 DEF BackupInv, NoBackup, NoFiles
  <2>8. SealInv'
    <3>1. \A m \in Calls : op'[m] # "waiting"
      BY <1>a, <2>2, <2>4 DEF SealInv, Rotating
    <3> QED BY <1>a, <2>1, <2>4, <3>1 DEF SealInv, Rotating
  <2> QED BY <2>3, <2>5, <2>6, <2>7, <2>8 DEF DataInv
<1> QED BY <1>1, <1>2, <1>3

\* A rejected call is rolled back; its keys are not spoken for meanwhile.
LEMMA RollBackStep ==
  ASSUME RefusalTypes, RotationInv, DataInv, RollBack
  PROVE  DataInv'
<1> USE DEF callVars, storeVars, walVars, diskVars, compactVars, backupVars, historyVars, countVars
<1> DEFINE n == Head(undo)
<1>a. CoreInv /\ CopyInv /\ SealInv /\ SnapInv /\ BackupInv /\ DataTypes /\ FlowInv /\ WalInv /\ StoreInv
  BY DEF DataInv, CoreInv
<1>b. op \in [Calls -> Stages] /\ undo \in Seq(Calls) /\ undo # <<>>
  BY DEF RefusalTypes, RollBack
<1>c. phase \in Rotating /\ rotateLock = "compaction"
  BY <1>b DEF RotationInv
<1>1. /\ n \in Calls /\ n \in ToSet(undo) /\ op[n] = "refused"
      /\ Tail(undo) \in Seq(Calls) /\ IsInjective(Tail(undo)) /\ n \notin ToSet(Tail(undo))
      /\ ToSet(Tail(undo)) \subseteq ToSet(undo)
  <2>1. /\ n \in Calls /\ n \in ToSet(undo) /\ Tail(undo) \in Seq(Calls)
        /\ ToSet(undo) = {n} \cup ToSet(Tail(undo))
        /\ IsInjective(undo) => IsInjective(Tail(undo)) /\ n \notin ToSet(Tail(undo))
    BY <1>b, HeadTailProps
  <2> HIDE DEF n
  <2> QED BY <1>a, <2>1 DEF FlowInv
<1>2. /\ UNCHANGED <<calls, queue, inflight, flushing, wal, synced, log, acked>>
      /\ UNCHANGED <<copiedUpTo, walTmp, snapTmp, phase, snapshot, oldSnapshot, oldWal>>
      /\ UNCHANGED <<backup, copied, ackedBefore, rotateLock, walState>>
      /\ undo' = Tail(undo) /\ awaits' = [awaits EXCEPT ![n] = rotateLock]
  BY DEF RollBack
<1>3. op' = [op EXCEPT ![n] = "waiting"]
  BY <1>1, <1>b, <1>c DEF RollBack
<1>4. visited' \subseteq visited
  BY DEF RollBack, Put, Revisit
<1>5. \A k \in Keys : k \notin DOMAIN calls[n] => store'[k] = store[k]
  BY DEF RollBack, Put, Writes
<1> HIDE DEF n
<1>6. op'[n] = "waiting" /\ \A m \in Calls : m # n => op'[m] = op[m]
  BY <1>1, <1>3, <1>b
<1>7. Rejected' = Rejected /\ n \in Rejected
  BY <1>1, <1>6 DEF Rejected
<1>8. Unwritten' = Unwritten /\ Framed' = Framed
  BY <1>2 DEF Unwritten, Framed
<1>9. Base' = Base
  BY <1>2, <1>7, <1>8 DEF Base
<1>10. ToSet(log) \subseteq Calls /\ ToSet(wal) \subseteq Calls
  BY <1>a DEF DataTypes, ToSet
<1>11. DataTypes'
  BY <1>a, <1>2 DEF DataTypes
<1>12. FlowInv'
  <2>1. \A m \in Calls : op'[m] # "none" => m <= Len(calls')
    BY <1>a, <1>1, <1>2, <1>6 DEF FlowInv
  <2>2. \A m \in ToSet(log') : op'[m] \in {"logged", "refused", "waiting", "retrying", "done", "lost"}
    BY <1>a, <1>2, <1>6, <1>10 DEF FlowInv
  <2>3. \A m \in Calls : op'[m] = "logged" <=> m \in ToSet(queue') \cup ToSet(inflight')
    BY <1>a, <1>1, <1>2, <1>6 DEF FlowInv
  <2>4. \A m \in ToSet(wal') : op'[m] \in {"logged", "done", "lost"}
    BY <1>a, <1>1, <1>2, <1>6, <1>10 DEF FlowInv
  <2>5. \A m \in acked' : m \in ToSet(log') /\ op'[m] = "done"
    BY <1>a, <1>1, <1>2, <1>6, <1>10 DEF FlowInv
  <2>6. \A m \in ToSet(undo') : op'[m] = "refused"
    <3>1. ToSet(undo) \subseteq Calls
      BY <1>b DEF ToSet
    <3> QED BY <1>a, <1>1, <1>2, <1>6, <3>1 DEF FlowInv
  <2>7. Framed' \subseteq ToSet(log') /\ IsInjective(undo')
    BY <1>a, <1>1, <1>2, <1>8 DEF FlowInv
  <2> QED BY <2>1, <2>2, <2>3, <2>4, <2>5, <2>6, <2>7 DEF FlowInv
<1>13. WalInv'
  BY <1>a, <1>2, <1>8, <1>9 DEF WalInv
<1>14. StoreInv'
  <2> SUFFICES ASSUME NEW k \in Keys, Untouched(calls, Rejected, k)
               PROVE  Holds(calls, log, ToSet(log), k, store'[k])
    BY <1>2, <1>7 DEF StoreInv
  <2>1. k \notin DOMAIN calls[n]
    BY <1>7 DEF Untouched
  <2>2. store'[k] = store[k]
    BY <1>5, <2>1
  <2> QED BY <1>a, <2>2 DEF StoreInv
<1>15. SnapInv' /\ CopyInv' /\ BackupInv'
  <2>1. \A m \in ToSet(log) : op[m] \in {"done", "lost"} => op'[m] = op[m]
    BY <1>1, <1>6, <1>10
  <2> QED BY <1>2, <1>4, <1>7, <1>9, <2>1, KeptRest
<1>16. SealInv'
  <2>1. awaits'[n] = "compaction" /\ \A m \in Calls : m # n => awaits'[m] = awaits[m]
    BY <1>a, <1>1, <1>2, <1>c DEF SealInv
  <2>2. awaits' \in [Calls -> {"none", "compaction", "backup"}]
    BY <1>a, <1>1, <1>2, <1>c DEF SealInv
  <2>3. \A m \in Calls : op'[m] = "waiting" => phase' \in Rotating /\ awaits'[m] = "compaction"
    BY <1>a, <1>2, <1>6, <1>c, <2>1 DEF SealInv
  <2> QED BY <1>a, <1>2, <2>2, <2>3 DEF SealInv, Flushed
<1> QED BY <1>11, <1>12, <1>13, <1>14, <1>15, <1>16 DEF DataInv, CoreInv

-----------------------------------------------------------------------------
\* The frames on their way

\* Two parts in the order of the log, one before the other, make one.
LEMMA ConcatChain ==
  ASSUME NEW l, NEW s \in Seq(Calls), NEW t \in Seq(Calls),
         Chain(l, s), Chain(l, t), Precede(l, ToSet(s), ToSet(t))
  PROVE  Chain(l, s \o t)
<1> DEFINE n == Len(s)
           m == Len(t)
           r == s \o t
<1>1. n \in Nat /\ m \in Nat /\ DOMAIN s = 1 .. n /\ DOMAIN t = 1 .. m
  OBVIOUS
<1>2. /\ r \in Seq(Calls) /\ Len(r) = n + m
      /\ \A i \in 1 .. (n + m) : r[i] = IF i <= n THEN s[i] ELSE t[i - n]
  BY ConcatProperties
<1>3. DOMAIN r = 1 .. (n + m)
  BY <1>2
<1> HIDE DEF n, m, r
<1> SUFFICES ASSUME NEW i \in 1 .. (n + m), NEW j \in 1 .. (n + m), i < j
             PROVE  Before(l, r[i], r[j])
  BY <1>3 DEF Chain, r
<1>4. CASE j <= n
  <2>1. i <= n /\ i \in 1 .. n /\ j \in 1 .. n
    BY <1>1, <1>4
  <2> QED BY <1>1, <1>2, <1>4, <2>1 DEF Chain
<1>5. CASE i <= n /\ ~ (j <= n)
  <2>1. i \in 1 .. n /\ j - n \in 1 .. m
    BY <1>1, <1>5
  <2>2. s[i] \in ToSet(s) /\ t[j - n] \in ToSet(t)
    BY <1>1, <2>1 DEF ToSet
  <2> QED BY <1>2, <1>5, <2>2 DEF Precede
<1>6. CASE ~ (i <= n)
  <2>1. i - n \in 1 .. m /\ j - n \in 1 .. m /\ i - n < j - n /\ ~ (j <= n)
    BY <1>1, <1>6
  <2>2. Before(l, t[i - n], t[j - n])
    BY <1>1, <2>1 DEF Chain
  <2> QED BY <1>2, <1>6, <2>1, <2>2
<1> QED BY <1>1, <1>4, <1>5, <1>6

\* The queue becomes the batch: its frames are as far from the platter as before.
LEMMA FlushBatchStep ==
  ASSUME RefusalTypes, DataInv, FlushBatch
  PROVE  DataInv'
<1> USE DEF callVars, storeVars, walVars, diskVars, compactVars, backupVars, historyVars, countVars
<1>a. CoreInv /\ CopyInv /\ SealInv /\ SnapInv /\ BackupInv /\ DataTypes /\ FlowInv /\ WalInv /\ StoreInv
  BY DEF DataInv, CoreInv
<1>1. /\ UNCHANGED <<calls, op, undo, store, wal, synced, log, acked>>
      /\ UNCHANGED <<copiedUpTo, walTmp, snapTmp, visited, phase, snapshot, oldSnapshot, oldWal>>
      /\ UNCHANGED <<backup, copied, ackedBefore, awaits, rotateLock, walState>>
      /\ flushing = "no" /\ queue # <<>> /\ inflight' = queue /\ queue' = <<>> /\ flushing' = "write"
  BY DEF FlushBatch
<1>2. inflight = <<>> /\ Unwritten = <<>> /\ Unwritten' = queue /\ ToSet(<<>>) = {}
  BY <1>a, <1>1 DEF WalInv, Unwritten, ToSet
<1>3. Framed' = Framed /\ Rejected' = Rejected /\ Platter' = Platter
  BY <1>1, <1>2 DEF Framed, Rejected, Platter
<1>4. Base' = Base
  BY <1>1, <1>3 DEF Base
<1>5. DataTypes'
  BY <1>a, <1>1 DEF DataTypes
<1>6. FlowInv'
  BY <1>a, <1>1, <1>2, <1>3 DEF FlowInv
<1>7. WalInv'
  <2>1. Precede(log, ToSet(wal), ToSet(queue)) /\ Precede(log, Base, Framed) /\ synced = Len(wal)
    BY <1>a, <1>1, <1>2 DEF WalInv, Precede
  <2>2. ToSet(Unwritten') = ToSet(queue) /\ ToSet(queue') = {} /\ ToSet(queue) \cup {} = ToSet(queue)
    BY <1>1, <1>2
  <2>3. Precede(log, ToSet(queue), {}) /\ Chain(log, <<>>)
    BY DEF Precede, Chain
  <2> QED BY <1>a, <1>1, <1>3, <1>4, <2>1, <2>2, <2>3 DEF WalInv
<1>8. StoreInv'
  BY <1>a, <1>1, <1>3 DEF StoreInv
<1>9. SnapInv'
  <2>1. OldWalInv => OldWalInv'
    BY <1>1, <1>4 DEF OldWalInv
  <2> QED BY <1>a, <1>1, <1>3, <1>4, <2>1 DEF SnapInv
<1>10. CopyInv'
  <2>1. ToSet(Unwritten') \cup ToSet(queue') = ToSet(Unwritten) \cup ToSet(queue)
    BY <1>1, <1>2
  <2>2. Early' = Early /\ Late' = Late /\ Start' = Start
    <3>1. Start' = Start
      BY <1>1 DEF Start
    <3> QED BY <1>1, <1>4, <2>1, <3>1 DEF Early, Late
  <2>3. \A k \in Keys : TmpHolds(k) => TmpHolds(k)'
    BY <1>1, <2>2 DEF TmpHolds
  <2> QED BY <1>a, <1>1, <2>2, <2>3 DEF CopyInv
<1>11. BackupInv'
  <2>1. CopiedWalInv => CopiedWalInv'
    BY <1>1, <1>3, <1>4 DEF CopiedWalInv
  <2> QED BY <1>a, <1>1, <2>1 DEF BackupInv
<1>12. SealInv'
  BY <1>a, <1>1 DEF SealInv, Flushed
<1> QED BY <1>5, <1>6, <1>7, <1>8, <1>9, <1>10, <1>11, <1>12 DEF DataInv, CoreInv

\* The batch follows the log, and the platter does not have it yet.
LEMMA BatchWrittenStep ==
  ASSUME RefusalTypes, DataInv, BatchWritten
  PROVE  DataInv'
<1> USE DEF callVars, storeVars, walVars, diskVars, compactVars, backupVars, historyVars, countVars
<1>a. CoreInv /\ CopyInv /\ SealInv /\ SnapInv /\ BackupInv /\ DataTypes /\ FlowInv /\ WalInv /\ StoreInv
  BY DEF DataInv, CoreInv
<1>1. /\ UNCHANGED <<calls, op, undo, store, queue, inflight, synced, log, acked>>
      /\ UNCHANGED <<copiedUpTo, walTmp, snapTmp, visited, phase, snapshot, oldSnapshot, oldWal>>
      /\ UNCHANGED <<backup, copied, ackedBefore, awaits, rotateLock, walState>>
      /\ flushing = "write" /\ wal' = wal \o inflight /\ flushing' = "sync"
  BY DEF BatchWritten
<1>2. inflight # <<>> /\ synced = Len(wal) /\ Unwritten = inflight /\ Unwritten' = <<>> /\ ToSet(<<>>) = {}
  BY <1>a, <1>1 DEF WalInv, Unwritten, ToSet
<1>3. /\ wal \in Seq(Calls) /\ inflight \in Seq(Calls) /\ Len(wal) \in Nat /\ Len(inflight) \in Nat
      /\ DOMAIN wal = 1 .. Len(wal) /\ DOMAIN inflight = 1 .. Len(inflight)
  BY <1>a DEF DataTypes, RefusalTypes
<1>4. /\ wal' \in Seq(Calls) /\ Len(wal') = Len(wal) + Len(inflight)
      /\ ToSet(wal') = ToSet(wal) \cup ToSet(inflight)
      /\ \A i \in 1 .. Len(wal) + Len(inflight) :
           wal'[i] = IF i <= Len(wal) THEN wal[i] ELSE inflight[i - Len(wal)]
  <2>1. /\ wal \o inflight \in Seq(Calls) /\ Len(wal \o inflight) = Len(wal) + Len(inflight)
        /\ \A i \in 1 .. Len(wal) + Len(inflight) :
             (wal \o inflight)[i] = IF i <= Len(wal) THEN wal[i] ELSE inflight[i - Len(wal)]
    BY <1>3, ConcatProperties
  <2>2. ToSet(wal \o inflight) = ToSet(wal) \cup ToSet(inflight)
    BY <1>3, ConcatProps
  <2> QED BY <1>1, <2>1, <2>2
<1>5. /\ \A i \in 1 .. Len(wal) : wal'[i] = wal[i]
      /\ \A i \in Len(wal) + 1 .. Len(wal') : i - Len(wal) \in DOMAIN inflight /\ wal'[i] = inflight[i - Len(wal)]
      /\ \A i \in DOMAIN inflight : Len(wal) + i \in Len(wal) + 1 .. Len(wal') /\ wal'[Len(wal) + i] = inflight[i]
  <2>1. ASSUME NEW i \in 1 .. Len(wal) PROVE wal'[i] = wal[i]
    BY <1>3, <1>4
  <2>2. ASSUME NEW i \in Len(wal) + 1 .. Len(wal')
        PROVE  i - Len(wal) \in 1 .. Len(inflight) /\ wal'[i] = inflight[i - Len(wal)]
    BY <1>3, <1>4
  <2>3. ASSUME NEW i \in 1 .. Len(inflight)
        PROVE  Len(wal) + i \in Len(wal) + 1 .. Len(wal') /\ wal'[Len(wal) + i] = inflight[i]
    <3>1. Len(wal) + i \in Len(wal) + 1 .. Len(wal') /\ (Len(wal) + i) - Len(wal) = i
      BY <1>3, <1>4
    <3> QED BY <2>2, <3>1
  <2> QED BY <1>3, <2>1, <2>2, <2>3
<1>6. Framed' = Framed /\ Rejected' = Rejected
  BY <1>1, <1>2, <1>4 DEF Framed, Rejected
<1>7. Base' = Base
  BY <1>1, <1>6 DEF Base
<1>8. DataTypes'
  <2>1. synced' \in 0 .. Len(wal')
    BY <1>1, <1>2, <1>3, <1>4
  <2> QED BY <1>a, <1>1, <1>4, <2>1 DEF DataTypes
<1>9. FlowInv'
  <2>1. \A n \in ToSet(inflight) : op[n] = "logged"
    BY <1>a, <1>3 DEF FlowInv, ToSet
  <2>2. \A n \in ToSet(wal') : op[n] \in {"logged", "done", "lost"}
    BY <1>a, <1>4, <2>1 DEF FlowInv
  <2> QED BY <1>a, <1>1, <1>6, <2>2 DEF FlowInv
<1>10. WalInv'
  <2>1. /\ Chain(log, wal) /\ Chain(log, inflight) /\ Chain(log, queue)
        /\ Precede(log, ToSet(wal), ToSet(inflight)) /\ Precede(log, ToSet(wal), ToSet(queue))
        /\ Precede(log, ToSet(inflight), ToSet(queue)) /\ Precede(log, Base, Framed)
    BY <1>a, <1>2 DEF WalInv, Precede
  <2>2. Chain(log, wal')
    BY <1>1, <1>3, <2>1, ConcatChain
  <2>3. Precede(log, ToSet(wal'), ToSet(queue))
    BY <1>4, <2>1 DEF Precede
  <2>4. \A i \in synced + 1 .. Len(wal') : wal'[i] \in ToSet(inflight)
    BY <1>2, <1>5 DEF ToSet
  <2>5. Precede(log, {}, ToSet(queue)) /\ {} \cup ToSet(queue) = ToSet(queue)
    BY DEF Precede
  <2> QED BY <1>1, <1>2, <1>4, <1>6, <1>7, <2>1, <2>2, <2>3, <2>4, <2>5 DEF WalInv
<1>11. StoreInv'
  BY <1>a, <1>1, <1>6 DEF StoreInv
<1>12. Kept(calls, log, calls', log', ToSet(log))
  BY <1>1, KeptSame
<1>13. Base \subseteq ToSet(log) /\ ToSet(wal) \subseteq ToSet(log) /\ Framed \subseteq ToSet(log)
  BY <1>a DEF Base, FlowInv, Framed
<1>14. SnapInv'
  <2>1. oldWal = None
    BY <1>a, <1>2 DEF SnapInv, SealInv, Flushed, Rotating
  <2>2. Platter \subseteq Platter'
    BY <1>1, <1>2, <1>5 DEF Platter
  <2> QED BY <1>a, <1>1, <1>7, <1>12, <1>13, <2>1, <2>2, SnapKept
<1>15. CopyInv'
  <2>1. ASSUME phase \in Copying
        PROVE  /\ Early' = Early /\ Early \subseteq ToSet(log)
               /\ Late \subseteq Late' /\ Late \subseteq ToSet(log)
    <3>1. /\ Len(walTmp) \in Nat /\ copiedUpTo \in Nat /\ Len(walTmp) <= copiedUpTo /\ copiedUpTo <= Len(wal)
      BY <1>a, <2>1 DEF CopyInv
    <3>2. Start \in Nat /\ Start <= Len(wal) /\ Start' = Start
      BY <1>1, <1>3, <3>1 DEF Start
    <3>3. 1 .. Start \subseteq 1 .. Len(wal) /\ Start + 1 .. Len(wal) \subseteq 1 .. Len(wal)
      BY <1>3, <3>2
    <3>4. {wal[i] : i \in 1 .. Start} \subseteq ToSet(wal) /\ {wal[i] : i \in Start + 1 .. Len(wal)} \subseteq ToSet(wal)
      BY <1>3, <3>3 DEF ToSet
    <3>5. Early \subseteq ToSet(log) /\ Late \subseteq ToSet(log)
      BY <1>13, <3>4 DEF Early, Late, Framed
    <3>6. {wal'[i] : i \in 1 .. Start} = {wal[i] : i \in 1 .. Start}
      BY <1>5, <3>3
    <3>7. Early' = Early
      BY <1>7, <3>2, <3>6 DEF Early
    <3>8. Start + 1 .. Len(wal) \subseteq Start + 1 .. Len(wal') /\ Len(wal) + 1 .. Len(wal') \subseteq Start + 1 .. Len(wal')
      BY <1>3, <1>4, <3>2
    <3>9. {wal[i] : i \in Start + 1 .. Len(wal)} \subseteq {wal'[i] : i \in Start + 1 .. Len(wal')}
      BY <1>5, <3>3, <3>8
    <3>10. ToSet(inflight) \subseteq {wal'[i] : i \in Start + 1 .. Len(wal')}
      BY <1>5, <3>8 DEF ToSet
    <3>11. Late \subseteq Late'
      BY <1>1, <1>2, <3>2, <3>9, <3>10 DEF Late
    <3> QED BY <3>5, <3>7, <3>11
  <2>2. phase \notin {"close", "rename", "syncSnapshot", "renameWal"}
    BY <1>a, <1>2 DEF SealInv, Flushed, Rotating
  <2>3. Len(wal') \in Nat /\ Len(wal) <= Len(wal')
    BY <1>3, <1>4
  <2>4. visited' \subseteq visited
    BY <1>1
  <2> QED BY <1>a, <1>1, <1>3, <1>5, <1>12, <2>1, <2>2, <2>3, <2>4, CopyKept
<1>16. BackupInv'
  <2>1. \A n, m : m \in ToSet(log) /\ Before(log', n, m) => Before(log, n, m) /\ n \in ToSet(log)
    BY <1>a, <1>1, OrderTotal DEF DataTypes
  <2>2. acked \subseteq acked' /\ ToSet(wal) \subseteq ToSet(wal')
    BY <1>1, <1>4
  <2> QED BY <1>a, <1>1, <1>6, <1>7, <1>12, <1>13, <2>1, <2>2, BackupKept
<1>17. SealInv'
  BY <1>a, <1>1 DEF SealInv, Flushed
<1> QED BY <1>8, <1>9, <1>10, <1>11, <1>14, <1>15, <1>16, <1>17 DEF DataInv, CoreInv

\* The platter has the batch, whose calls are answered.
LEMMA BatchSyncedStep ==
  ASSUME RefusalTypes, DataInv, BatchSynced
  PROVE  DataInv'
<1> USE DEF callVars, storeVars, walVars, diskVars, compactVars, backupVars, historyVars, countVars
<1>a. CoreInv /\ CopyInv /\ SealInv /\ SnapInv /\ BackupInv /\ DataTypes /\ FlowInv /\ WalInv /\ StoreInv
  BY DEF DataInv, CoreInv
<1>b. /\ wal \in Seq(Calls) /\ Len(wal) \in Nat /\ ToSet(wal) \subseteq Calls /\ ToSet(log) \subseteq Calls
      /\ ToSet(inflight) \subseteq Calls /\ ToSet(undo) \subseteq Calls
  BY <1>a DEF DataTypes, RefusalTypes, ToSet
<1>1. /\ UNCHANGED <<calls, undo, store, queue, wal, log>>
      /\ UNCHANGED <<copiedUpTo, walTmp, snapTmp, visited, phase, snapshot, oldSnapshot, oldWal>>
      /\ UNCHANGED <<backup, copied, ackedBefore, awaits, rotateLock, walState>>
      /\ flushing = "sync" /\ inflight' = <<>> /\ flushing' = "no" /\ synced' = Len(wal)
      /\ acked' = acked \cup ToSet(inflight)
      /\ op' = [n \in Calls |-> IF n \in ToSet(inflight) THEN "done" ELSE op[n]]
  BY DEF BatchSynced
<1>2. inflight # <<>> /\ Unwritten = <<>> /\ Unwritten' = <<>> /\ ToSet(<<>>) = {}
  BY <1>a, <1>1 DEF WalInv, Unwritten, ToSet
<1>3. \A n \in Calls : op'[n] = IF n \in ToSet(inflight) THEN "done" ELSE op[n]
  BY <1>1
<1>4. \A n \in ToSet(inflight) : op[n] = "logged" /\ n \in ToSet(wal) /\ n \in ToSet(log)
  BY <1>a, <1>1, <1>b DEF FlowInv, WalInv, Framed
<1>5. Framed' = Framed /\ Rejected' = Rejected
  BY <1>1, <1>2, <1>3, <1>4 DEF Framed, Rejected
<1>6. Base' = Base
  BY <1>1, <1>5 DEF Base
<1>7. DataTypes'
  BY <1>a, <1>1, <1>b DEF DataTypes
<1>8. FlowInv'
  <2>1. \A n \in Calls : op'[n] # "none" => n <= Len(calls')
    BY <1>a, <1>1, <1>3, <1>4 DEF FlowInv
  <2>2. \A n \in ToSet(log') : op'[n] \in {"logged", "refused", "waiting", "retrying", "done", "lost"}
    BY <1>a, <1>1, <1>3, <1>b DEF FlowInv
  <2>3. \A n \in Calls : op'[n] = "logged" <=> n \in ToSet(queue') \cup ToSet(inflight')
    <3>1. \A n \in ToSet(queue) : n \notin ToSet(inflight)
      BY <1>a, <1>4, FramesApart
    <3> QED BY <1>a, <1>1, <1>2, <1>3, <3>1 DEF FlowInv
  <2>4. \A n \in ToSet(wal') : op'[n] \in {"logged", "done", "lost"}
    BY <1>a, <1>1, <1>3, <1>b DEF FlowInv
  <2>5. \A n \in acked' : n \in ToSet(log') /\ op'[n] = "done"
    BY <1>a, <1>1, <1>3, <1>4, <1>b DEF FlowInv
  <2>6. \A n \in ToSet(undo') : op'[n] = "refused"
    BY <1>a, <1>1, <1>3, <1>4, <1>b DEF FlowInv
  <2>7. Framed' \subseteq ToSet(log') /\ IsInjective(undo')
    BY <1>a, <1>1, <1>5 DEF FlowInv
  <2> QED BY <2>1, <2>2, <2>3, <2>4, <2>5, <2>6, <2>7 DEF FlowInv
<1>9. WalInv'
  <2>1. Chain(log, <<>>)
    BY DEF Chain
  <2> QED BY <1>a, <1>1, <1>2, <1>5, <1>6, <2>1 DEF WalInv
<1>10. StoreInv'
  BY <1>a, <1>1, <1>5 DEF StoreInv
<1>11. Kept(calls, log, calls', log', ToSet(log))
  BY <1>1, KeptSame
<1>12. Base \subseteq ToSet(log) /\ ToSet(wal) \subseteq ToSet(log) /\ Framed \subseteq ToSet(log)
  BY <1>a DEF Base, FlowInv, Framed
<1>13. SnapInv'
  <2>1. oldWal # None => /\ ToSet(oldWal) \subseteq ToSet(log)
                         /\ \A n \in ToSet(oldWal) : op'[n] = op[n]
    <3> SUFFICES ASSUME oldWal # None
                 PROVE  /\ ToSet(oldWal) \subseteq ToSet(log)
                        /\ \A n \in ToSet(oldWal) : op'[n] = op[n]
      OBVIOUS
    <3>1. ToSet(oldWal) \subseteq ToSet(log) /\ \A n \in ToSet(oldWal) : op[n] \in {"done", "lost"}
      BY <1>a DEF SnapInv, OldWalInv
    <3> QED BY <1>3, <1>4, <1>b, <3>1
  <2>2. Platter \subseteq Platter'
    <3>1. 1 .. synced \subseteq 1 .. Len(wal)
      BY <1>a, <1>b DEF DataTypes
    <3> QED BY <1>1, <3>1 DEF Platter
  <2> QED BY <1>a, <1>1, <1>6, <1>11, <1>12, <2>1, <2>2, SnapKept
<1>14. CopyInv'
  <2>1. Start' = Start
    BY <1>1 DEF Start
  <2>2. Early' = Early /\ Late' = Late
    BY <1>1, <1>2, <1>6, <2>1 DEF Early, Late
  <2>3. \A k \in Keys : TmpHolds(k) => TmpHolds(k)'
    BY <1>1, <2>2 DEF TmpHolds
  <2> QED BY <1>a, <1>1, <2>1, <2>2, <2>3 DEF CopyInv
<1>15. BackupInv'
  <2>1. \A n, m : m \in ToSet(log) /\ Before(log', n, m) => Before(log, n, m) /\ n \in ToSet(log)
    BY <1>a, <1>1, OrderTotal DEF DataTypes
  <2>2. acked \subseteq acked' /\ ToSet(wal) \subseteq ToSet(wal')
    BY <1>1
  <2> QED BY <1>a, <1>1, <1>5, <1>6, <1>11, <1>12, <2>1, <2>2, BackupKept
<1>16. SealInv'
  <2>1. \A n \in Calls : op'[n] = "waiting" => op[n] = "waiting"
    BY <1>3
  <2> QED BY <1>a, <1>1, <2>1 DEF SealInv, Flushed
<1> QED BY <1>7, <1>8, <1>9, <1>10, <1>13, <1>14, <1>15, <1>16 DEF DataInv, CoreInv

-----------------------------------------------------------------------------
\* A call is made

\* A new call is in no file and in no log.
LEMMA CallStep ==
  ASSUME RefusalTypes, RotationInv, DataInv, Call
  PROVE  DataInv'
<1> USE DEF callVars, storeVars, walVars, diskVars, compactVars, backupVars, historyVars, countVars
<1> DEFINE e == Len(calls) + 1
<1>a. CoreInv /\ CopyInv /\ SealInv /\ SnapInv /\ BackupInv /\ DataTypes /\ FlowInv /\ WalInv /\ StoreInv
  BY DEF DataInv, CoreInv
<1>b. /\ op \in [Calls -> Stages] /\ calls \in Seq(Frames) /\ Len(calls) \in Nat /\ e \in Nat
      /\ ToSet(log) \subseteq Calls /\ ToSet(wal) \subseteq Calls /\ ToSet(undo) \subseteq Calls
      /\ DOMAIN calls = 1 .. Len(calls)
  BY <1>a DEF RefusalTypes, DataTypes, ToSet
<1>1. /\ UNCHANGED <<undo, store, queue, inflight, flushing, wal, synced, log, acked>>
      /\ UNCHANGED <<copiedUpTo, walTmp, snapTmp, visited, phase, snapshot, oldSnapshot, oldWal>>
      /\ UNCHANGED <<backup, copied, ackedBefore, rotateLock, walState>>
      /\ awaits' = [awaits EXCEPT ![e] = rotateLock] /\ Len(calls) < MaxCalls
  BY DEF Call
<1>2. PICK f \in Frames : calls' = Append(calls, f)
  BY DEF Call
<1>3. PICK x \in {"done", "ready", "parked"} : op' = [op EXCEPT ![e] = x]
  BY DEF Call, PastGate
<1>4. e \in Calls /\ op[e] = "none"
  <2>1. e \in Calls
    BY <1>1, <1>b, ConstantsAssumption DEF Calls
  <2>2. ~ (e <= Len(calls))
    BY <1>b
  <2> QED BY <1>a, <2>1, <2>2 DEF FlowInv
<1>5. /\ calls' \in Seq(Frames) /\ Len(calls') = e /\ Len(calls') <= MaxCalls
      /\ \A n \in 1 .. Len(calls) : calls'[n] = calls[n]
  BY <1>1, <1>2, <1>b, ConstantsAssumption
<1> HIDE DEF e
<1>6. op'[e] = x /\ \A n \in Calls : n # e => op'[n] = op[n]
  BY <1>3, <1>4, <1>b
<1>7. \A n \in Calls : op[n] # "none" => n # e /\ op'[n] = op[n] /\ n \in 1 .. Len(calls)
  <2>1. \A n \in Calls : op[n] # "none" => n <= Len(calls)
    BY <1>a DEF FlowInv
  <2>2. \A n \in Calls : n <= Len(calls) => n \in 1 .. Len(calls)
    BY <1>b DEF Calls
  <2> QED BY <1>4, <1>6, <2>1, <2>2
<1>8. \A n \in ToSet(log) : n # e /\ op'[n] = op[n] /\ calls'[n] = calls[n]
  <2>1. \A n \in ToSet(log) : n \in Calls /\ op[n] # "none"
    BY <1>a, <1>b DEF FlowInv
  <2> QED BY <1>5, <1>7, <2>1
<1>9. Rejected' = Rejected
  BY <1>4, <1>6 DEF Rejected
<1>10. Unwritten' = Unwritten /\ Framed' = Framed /\ Platter' = Platter
  BY <1>1 DEF Unwritten, Framed, Platter
<1>11. Base' = Base
  BY <1>1, <1>9, <1>10 DEF Base
<1>12. Base \subseteq ToSet(log) /\ ToSet(wal) \subseteq ToSet(log) /\ Framed \subseteq ToSet(log)
  BY <1>a DEF Base, FlowInv, Framed
<1>13. DataTypes'
  BY <1>a, <1>1, <1>5 DEF DataTypes
<1>14. FlowInv'
  <2>1. \A n \in Calls : op'[n] # "none" => n <= Len(calls')
    <3> TAKE n \in Calls
    <3>1. CASE n = e
      BY <1>5, <1>b, <3>1 DEF e
    <3>2. CASE n # e /\ op[n] # "none"
      <4>1. n <= Len(calls) /\ n \in Int /\ Len(calls') = Len(calls) + 1
        BY <1>5, <1>7, <1>b, <3>2 DEF e
      <4> QED BY <1>b, <4>1
    <3> QED BY <1>6, <3>1, <3>2
  <2>2. \A n \in ToSet(log') : op'[n] \in {"logged", "refused", "waiting", "retrying", "done", "lost"}
    BY <1>a, <1>1, <1>8 DEF FlowInv
  <2>3. \A n \in Calls : op'[n] = "logged" <=> n \in ToSet(queue') \cup ToSet(inflight')
    BY <1>a, <1>1, <1>4, <1>6 DEF FlowInv
  <2>4. \A n \in ToSet(wal') : op'[n] \in {"logged", "done", "lost"}
    BY <1>a, <1>1, <1>8, <1>12 DEF FlowInv
  <2>5. \A n \in acked' : n \in ToSet(log') /\ op'[n] = "done"
    BY <1>a, <1>1, <1>8 DEF FlowInv
  <2>6. \A n \in ToSet(undo') : op'[n] = "refused"
    BY <1>a, <1>1, <1>7, <1>b DEF FlowInv
  <2>7. Framed' \subseteq ToSet(log') /\ IsInjective(undo')
    BY <1>a, <1>1, <1>10 DEF FlowInv
  <2> QED BY <2>1, <2>2, <2>3, <2>4, <2>5, <2>6, <2>7 DEF FlowInv
<1>15. WalInv'
  BY <1>a, <1>1, <1>10, <1>11 DEF WalInv
<1>16. Kept(calls, log, calls', log', ToSet(log))
  BY <1>1, <1>8 DEF Kept
<1>17. StoreInv'
  <2> SUFFICES ASSUME NEW k \in Keys, Untouched(calls', Rejected, k)
               PROVE  Holds(calls', log', ToSet(log), k, store[k])
    BY <1>1, <1>9 DEF StoreInv
  <2>1. \A n \in Rejected : calls'[n] = calls[n]
    <3>1. \A n \in Rejected : n \in 1 .. Len(calls)
      BY <1>7 DEF Rejected
    <3> QED BY <1>5, <3>1
  <2>2. Untouched(calls, Rejected, k)
    BY <2>1 DEF Untouched
  <2> QED BY <1>a, <1>16, <2>2, KeptHolds DEF StoreInv
<1>18. SnapInv'
  <2>1. oldWal # None => /\ ToSet(oldWal) \subseteq ToSet(log)
                         /\ \A n \in ToSet(oldWal) : op'[n] = op[n]
    BY <1>a, <1>8 DEF SnapInv, OldWalInv
  <2> QED BY <1>a, <1>1, <1>10, <1>11, <1>12, <1>16, <2>1, SnapKept
<1>19. CopyInv'
  <2>1. Early' = Early /\ Late' = Late
    BY <1>1, <1>10, <1>11 DEF Early, Late, Start
  <2>2. wal \in Seq(Calls) /\ Len(wal) \in Nat /\ DOMAIN wal = 1 .. Len(wal)
    BY <1>a DEF DataTypes
  <2>3. ASSUME phase \in Copying PROVE Early \subseteq ToSet(log) /\ Late \subseteq ToSet(log)
    <3>1. /\ Len(walTmp) \in Nat /\ copiedUpTo \in Nat /\ Len(walTmp) <= copiedUpTo /\ copiedUpTo <= Len(wal)
      BY <1>a, <2>3 DEF CopyInv
    <3>2. Start \in Nat /\ Start <= Len(wal)
      BY <2>2, <3>1 DEF Start
    <3>3. 1 .. Start \subseteq 1 .. Len(wal) /\ Start + 1 .. Len(wal) \subseteq 1 .. Len(wal)
      BY <2>2, <3>2
    <3>4. {wal[i] : i \in 1 .. Start} \subseteq ToSet(wal) /\ {wal[i] : i \in Start + 1 .. Len(wal)} \subseteq ToSet(wal)
      BY <2>2, <3>3 DEF ToSet
    <3> QED BY <1>12, <3>4 DEF Early, Late, Framed
  <2>4. Len(wal) <= Len(wal') /\ visited' \subseteq visited
    BY <1>1, <2>2
  <2> QED BY <1>a, <1>1, <1>16, <2>1, <2>2, <2>3, <2>4, CopyKept
<1>20. BackupInv'
  <2>1. \A n, m : m \in ToSet(log) /\ Before(log', n, m) => Before(log, n, m) /\ n \in ToSet(log)
    BY <1>a, <1>1, OrderTotal DEF DataTypes
  <2> QED BY <1>a, <1>1, <1>9, <1>11, <1>12, <1>16, <2>1, BackupKept
<1>21. SealInv'
  <2>1. awaits' \in [Calls -> {"none", "compaction", "backup"}]
    BY <1>a, <1>1, <1>4 DEF SealInv
  <2>2. \A n \in Calls : n # e => awaits'[n] = awaits[n]
    BY <1>a, <1>1, <1>4 DEF SealInv
  <2>3. \A n \in Calls : op'[n] = "waiting" => phase' \in Rotating /\ awaits'[n] = "compaction"
    BY <1>a, <1>1, <1>6, <2>2 DEF SealInv
  <2> QED BY <1>a, <1>1, <2>1, <2>3 DEF SealInv, Flushed
<1> QED BY <1>13, <1>14, <1>15, <1>17, <1>18, <1>19, <1>20, <1>21 DEF DataInv, CoreInv

-----------------------------------------------------------------------------
\* The new log takes the place of the old one.

\* The new log has what the snapshot, which the directory holds now, lacks.
LEMMA RenameWalStep ==
  ASSUME RefusalTypes, RotationInv, DataInv, RenameWal
  PROVE  DataInv'
<1> USE DEF callVars, storeVars, walVars, diskVars, compactVars, backupVars, historyVars, countVars
<1>a. CoreInv /\ CopyInv /\ SealInv /\ SnapInv /\ BackupInv /\ DataTypes /\ FlowInv /\ WalInv /\ StoreInv
  BY DEF DataInv, CoreInv
<1>1. /\ UNCHANGED <<calls, op, undo, store, queue, inflight, flushing, log, acked>>
      /\ UNCHANGED <<copiedUpTo, walTmp, snapTmp, visited, snapshot, oldSnapshot>>
      /\ UNCHANGED <<backup, copied, ackedBefore, awaits, rotateLock, walState>>
      /\ phase = "renameWal" /\ phase' = "syncWal"
      /\ oldWal' = wal /\ wal' = walTmp /\ synced' = Len(walTmp)
  BY DEF RenameWal
<1>2. /\ Flushed /\ flushing = "no" /\ inflight = <<>> /\ queue = <<>>
      /\ ToSet(queue) = {} /\ ToSet(inflight) = {} /\ ToSet(Unwritten) = {} /\ Unwritten' = Unwritten
  <2>1. Flushed
    BY <1>a, <1>1 DEF SealInv, Rotating
  <2> QED BY <1>a, <1>1, <2>1 DEF WalInv, Flushed, Unwritten, ToSet
<1>3. /\ wal \in Seq(Calls) /\ Len(wal) \in Nat /\ DOMAIN wal = 1 .. Len(wal) /\ ToSet(log) \subseteq Calls
      /\ walTmp \in Seq(Calls) /\ Len(walTmp) \in Nat /\ DOMAIN walTmp = 1 .. Len(walTmp)
      /\ copiedUpTo = Len(wal) /\ Len(walTmp) <= Len(wal) /\ snapshot = snapTmp
      /\ \A i \in DOMAIN walTmp : walTmp[i] = wal[Start + i]
      /\ \A k \in Keys : TmpHolds(k)
  BY <1>a, <1>1 DEF DataTypes, CopyInv, Copying, ToSet
<1>4. Start \in Nat /\ Start <= Len(wal) /\ Start + Len(walTmp) = Len(wal)
  BY <1>3 DEF Start
<1>5. /\ \A i \in 1 .. Len(walTmp) : Start + i \in Start + 1 .. Len(wal)
      /\ \A j \in Start + 1 .. Len(wal) : j - Start \in 1 .. Len(walTmp) /\ Start + (j - Start) = j
      /\ 1 .. Start \subseteq 1 .. Len(wal) /\ Start + 1 .. Len(wal) \subseteq 1 .. Len(wal)
      /\ \A j \in 1 .. Len(wal) : j \in 1 .. Start \/ j \in Start + 1 .. Len(wal)
      /\ \A i \in 1 .. Start, j \in Start + 1 .. Len(wal) : i < j
  BY <1>3, <1>4
<1>6. ToSet(walTmp) = {wal[j] : j \in Start + 1 .. Len(wal)}
  <2>1. \A i \in 1 .. Len(walTmp) : walTmp[i] \in {wal[j] : j \in Start + 1 .. Len(wal)}
    BY <1>3, <1>5
  <2>2. \A j \in Start + 1 .. Len(wal) : wal[j] = walTmp[j - Start]
    BY <1>3, <1>5
  <2> QED BY <1>3, <1>5, <2>1, <2>2 DEF ToSet
<1> DEFINE Done == {wal[j] : j \in 1 .. Start}
<1>7. ToSet(wal) = Done \cup ToSet(walTmp)
  BY <1>3, <1>5, <1>6 DEF ToSet
<1>8. Late = ToSet(walTmp) /\ Early = Base \cup Done
  BY <1>2, <1>6 DEF Late, Early
<1>9. \A n, m : n \in Done /\ m \in ToSet(walTmp) => Before(log, n, m)
  BY <1>a, <1>3, <1>5, <1>6 DEF WalInv, Chain
<1> HIDE DEF Done
<1>10. \A n \in Done : n \notin ToSet(walTmp)
  BY <1>a, <1>9, OrderTotal DEF DataTypes
<1>11. Framed = ToSet(wal) /\ Framed' = ToSet(walTmp) /\ Rejected' = Rejected
  BY <1>1, <1>2 DEF Framed, Rejected
<1>12. \A n \in ToSet(wal) : n \notin Rejected /\ n \in ToSet(log)
  BY <1>a, <1>11, FramesApart DEF FlowInv
<1>13. Base' = Early
  BY <1>1, <1>7, <1>8, <1>10, <1>11, <1>12 DEF Base
<1>14. DataTypes'
  BY <1>a, <1>1, <1>3 DEF DataTypes
<1>15. FlowInv'
  BY <1>a, <1>1, <1>7, <1>11, <1>12 DEF FlowInv
<1>16. Precede(log, Base, ToSet(wal))
  BY <1>a, <1>11 DEF WalInv
<1>17. WalInv'
  <2>1. Chain(log, walTmp)
    <3> SUFFICES ASSUME NEW i \in 1 .. Len(walTmp), NEW j \in 1 .. Len(walTmp), i < j
                 PROVE  Before(log, walTmp[i], walTmp[j])
      BY <1>3 DEF Chain
    <3>1. Start + i \in 1 .. Len(wal) /\ Start + j \in 1 .. Len(wal) /\ Start + i < Start + j
      BY <1>3, <1>4
    <3>2. Before(log, wal[Start + i], wal[Start + j])
      BY <1>a, <1>3, <3>1 DEF WalInv, Chain
    <3> QED BY <1>3, <3>2
  <2>2. Precede(log, Early, ToSet(walTmp))
    BY <1>7, <1>8, <1>9, <1>16 DEF Precede
  <2>3. Precede(log, ToSet(walTmp), {}) /\ {} \cup {} = {} /\ Chain(log, <<>>) /\ Precede(log, {}, {})
    BY DEF Precede, Chain
  <2> QED BY <1>1, <1>2, <1>11, <1>13, <2>1, <2>2, <2>3 DEF WalInv
<1>18. StoreInv'
  BY <1>a, <1>1, <1>11 DEF StoreInv
<1>19. SnapInv'
  <2>1. Platter' = ToSet(walTmp)
    BY <1>1, <1>3 DEF Platter, ToSet
  <2>2. Completes(calls, log, snapshot, Early, ToSet(walTmp))
    BY <1>3, <1>8 DEF Completes, TmpHolds
  <2>3. oldSnapshot = None
    BY <1>a, <1>1 DEF SnapInv
  <2>4. OldWalInv'
    <3>1. \A n \in ToSet(wal) : op[n] \in {"done", "lost"}
      BY <1>a, <1>2, <1>3, <1>12 DEF FlowInv
    <3>2. Precede(log, Early \ ToSet(wal), ToSet(wal))
      BY <1>7, <1>8, <1>16 DEF Precede
    <3>3. Chain(log, wal)
      BY <1>a DEF WalInv
    <3> QED BY <1>1, <1>3, <1>7, <1>12, <1>13, <3>1, <3>2, <3>3 DEF OldWalInv
  <2> QED BY <1>1, <1>13, <2>1, <2>2, <2>3, <2>4 DEF SnapInv
<1>20. CopyInv'
  BY <1>a, <1>1 DEF CopyInv, Copying
<1>21. BackupInv'
  <2>1. backup # "copy" /\ ackedBefore \subseteq acked
    BY <1>a, <1>1 DEF RotationInv, BackupInv
  <2> QED BY <1>a, <1>1, <2>1, BackupIdle
<1>22. SealInv'
  BY <1>a, <1>1, <1>2 DEF SealInv, Rotating, Flushed
<1> QED BY <1>14, <1>15, <1>17, <1>18, <1>19, <1>20, <1>21, <1>22 DEF DataInv, CoreInv

-----------------------------------------------------------------------------
\* A call commits, for the first time or again.

\* A list in order stays so when what comes last is appended.
LEMMA AppendChain ==
  ASSUME NEW l, NEW s \in Seq(Calls), NEW e \in Calls,
         Chain(l, s), \A x \in ToSet(s) : Before(l, x, e)
  PROVE  Chain(l, Append(s, e))
<1> DEFINE r == Append(s, e)
           n == Len(s)
<1>1. n \in Nat /\ DOMAIN s = 1 .. n /\ DOMAIN r = 1 .. (n + 1)
  OBVIOUS
<1>2. r[n + 1] = e /\ \A i \in 1 .. n : r[i] = s[i]
  OBVIOUS
<1> HIDE DEF r, n
<1> SUFFICES ASSUME NEW i \in 1 .. (n + 1), NEW j \in 1 .. (n + 1), i < j
             PROVE  Before(l, r[i], r[j])
  BY <1>1 DEF Chain, r
<1>3. i \in 1 .. n
  BY <1>1
<1>4. CASE j = n + 1
  BY <1>1, <1>2, <1>3, <1>4 DEF ToSet
<1>5. CASE j \in 1 .. n
  BY <1>1, <1>2, <1>3, <1>5 DEF Chain
<1> QED BY <1>1, <1>4, <1>5

\* The call is the last of the log then, whether it was in it or not.
LEMMA CommitOrder ==
  ASSUME RefusalTypes, DataInv, NEW n \in Calls, op[n] \in {"ready", "retrying"},
         log' = Applied(n), calls' = calls
  PROVE  LET A == ToSet(log) \ {n} IN
         /\ log' \in Seq(Calls) /\ IsInjective(log')
         /\ ToSet(log') = A \cup {n}
         /\ Kept(calls, log, calls', log', A)
         /\ \A a \in A : Before(log', a, n)
         /\ \A a, m : m \in A /\ Before(log', a, m) => Before(log, a, m) /\ a \in ToSet(log)
         /\ Base \subseteq A /\ Framed \subseteq A /\ n \notin acked
         /\ n \in ToSet(log) => n \in Rejected
<1> DEFINE A == ToSet(log) \ {n}
           L == Without(log, {n})
<1>a. DataTypes /\ FlowInv /\ WalInv /\ log \in Seq(Calls) /\ IsInjective(log)
  BY DEF DataInv, CoreInv, DataTypes
<1>1. L \in Seq(Calls) /\ ToSet(L) = A /\ IsInjective(L)
  BY <1>a, WithoutProps
<1>2. \A a, b : Before(L, a, b) <=> Before(log, a, b) /\ a \notin {n} /\ b \notin {n}
  BY <1>a, OrderWithout
<1>3. log' = Append(L, n)
  BY DEF Applied
<1> HIDE DEF L
<1>4. /\ log' \in Seq(Calls) /\ ToSet(log') = ToSet(L) \cup {n}
      /\ IsInjective(L) /\ n \notin ToSet(L) => IsInjective(log')
  BY <1>1, <1>3, AppendProps
<1>5. \A a, b : Before(log', a, b) <=> Before(L, a, b) \/ (b = n /\ a \in ToSet(L))
  BY <1>1, <1>3, OrderAppend
<1>6. Kept(calls, log, calls', log', A)
  BY <1>2, <1>5 DEF Kept
<1>7. \A a \in A : Before(log', a, n)
  BY <1>1, <1>5
<1>8. \A a, m : m \in A /\ Before(log', a, m) => Before(log, a, m) /\ a \in ToSet(log)
  <2>1. \A a, m : Before(log, a, m) => a \in ToSet(log)
    BY <1>a, OrderTotal
  <2> QED BY <1>2, <1>5, <2>1
<1>9. n \in ToSet(log) => n \in Rejected
  BY <1>a DEF FlowInv, Rejected
<1>10. Base \subseteq A
  BY <1>9 DEF Base
<1>11. Framed \subseteq A
  <2>1. n \notin ToSet(wal) /\ n \notin ToSet(queue) /\ n \notin ToSet(inflight)
    BY <1>a DEF FlowInv
  <2>2. ToSet(Unwritten) \subseteq ToSet(inflight)
    BY DEF Unwritten, ToSet
  <2> QED BY <1>a, <2>1, <2>2 DEF FlowInv, Framed
<1>12. n \notin acked
  BY <1>a DEF FlowInv
<1> QED BY <1>1, <1>4, <1>6, <1>7, <1>8, <1>9, <1>10, <1>11, <1>12

\* What the store has after it.
LEMMA CommitStore ==
  ASSUME RefusalTypes, DataInv, NEW n \in Calls, op[n] \in {"ready", "retrying"},
         log' = Applied(n), calls' = calls,
         \A k \in Keys : store'[k] = IF k \in Writes(n) THEN ValueOf(n, k) ELSE store[k],
         Rejected \subseteq Rejected' \cup {n}
  PROVE  StoreInv'
<1> DEFINE A == ToSet(log) \ {n}
<1>1. /\ ToSet(log') = A \cup {n} /\ Kept(calls, log, calls', log', A)
      /\ \A a \in A : Before(log', a, n)
  BY CommitOrder
<1>2. StoreInv
  BY DEF DataInv, CoreInv
<1> SUFFICES ASSUME NEW k \in Keys, Untouched(calls, Rejected', k)
             PROVE  Holds(calls, log', ToSet(log'), k, store'[k])
  BY DEF StoreInv
<1>3. CASE k \in DOMAIN calls[n]
  <2>1. store'[k] = IF calls[n][k] THEN n ELSE Absent
    BY <1>3 DEF Writes, ValueOf
  <2>2. n \in ToSet(log') /\ \A m \in ToSet(log') : m = n \/ Before(log', m, n)
    BY <1>1
  <2>3. Holds(calls, log', ToSet(log'), k, IF calls[n][k] THEN n ELSE Absent)
    BY <1>3, <2>2, HoldsLast
  <2> QED BY <2>1, <2>3
<1>4. CASE k \notin DOMAIN calls[n]
  <2>1. store'[k] = store[k]
    BY <1>4 DEF Writes
  <2>2. Untouched(calls, Rejected, k) /\ Untouched(calls, {n}, k)
    BY <1>4 DEF Untouched
  <2>3. Holds(calls, log, ToSet(log), k, store[k])
    BY <1>2, <2>2 DEF StoreInv
  <2>4. A \subseteq ToSet(log) /\ ToSet(log) \subseteq A \cup {n}
    OBVIOUS
  <2> HIDE DEF A
  <2>5. Holds(calls, log, A, k, store[k])
    BY <2>2, <2>3, <2>4, HoldsSplit
  <2>6. Holds(calls, log', A, k, store[k])
    BY <1>1, <2>5, KeptHolds
  <2>7. A \subseteq ToSet(log') /\ \A a \in ToSet(log') : k \in DOMAIN calls[a] => a \in A
    BY <1>1, <1>4
  <2>8. Holds(calls, log', ToSet(log'), k, store[k])
    BY <2>6, <2>7, HoldsMove
  <2> QED BY <2>1, <2>8
<1> QED BY <1>3, <1>4

\* A call is applied: it comes after every other, and waits in the queue or is
\* rejected by a sealed log.
LEMMA CommitStep ==
  ASSUME RefusalTypes, RotationInv, DataInv, NEW n \in Calls, Commit(n)
  PROVE  DataInv'
<1> USE DEF callVars, storeVars, walVars, diskVars, compactVars, backupVars, historyVars, countVars
<1> DEFINE A == ToSet(log) \ {n}
<1>a. CoreInv /\ CopyInv /\ SealInv /\ SnapInv /\ BackupInv /\ DataTypes /\ FlowInv /\ WalInv /\ StoreInv
  BY DEF DataInv, CoreInv
<1>b. /\ op \in [Calls -> Stages] /\ queue \in Seq(Calls) /\ undo \in Seq(Calls) /\ inflight \in Seq(Calls)
      /\ wal \in Seq(Calls) /\ Len(wal) \in Nat /\ DOMAIN wal = 1 .. Len(wal)
      /\ ToSet(log) \subseteq Calls
  BY <1>a DEF RefusalTypes, DataTypes, ToSet
<1>1. /\ UNCHANGED <<calls, inflight, flushing, wal, synced, acked>>
      /\ UNCHANGED <<copiedUpTo, walTmp, snapTmp, phase, snapshot, oldSnapshot, oldWal>>
      /\ UNCHANGED <<backup, copied, ackedBefore, awaits, rotateLock, walState>>
      /\ op[n] \in {"ready", "retrying"} /\ log' = Applied(n)
  BY DEF Commit
<1>2. visited' \subseteq visited
  BY DEF Commit, Put, Revisit
<1>3. \A k \in Keys : store'[k] = IF k \in Writes(n) THEN ValueOf(n, k) ELSE store[k]
  BY DEF Commit, Put
<1>4. /\ log' \in Seq(Calls) /\ IsInjective(log')
      /\ ToSet(log') = A \cup {n}
      /\ Kept(calls, log, calls', log', A)
      /\ \A a \in A : Before(log', a, n)
      /\ \A a, m : m \in A /\ Before(log', a, m) => Before(log, a, m) /\ a \in ToSet(log)
      /\ Base \subseteq A /\ Framed \subseteq A /\ n \notin acked
      /\ n \in ToSet(log) => n \in Rejected
  BY <1>1, CommitOrder
<1>5. A \subseteq ToSet(log) /\ n \notin A /\ ToSet(log) \subseteq A \cup {n}
  OBVIOUS
<1> HIDE DEF A
<1>6. Unwritten' = Unwritten /\ Platter' = Platter /\ ToSet(wal) \subseteq A
  BY <1>1, <1>4 DEF Unwritten, Platter, Framed
<1>7. n <= Len(calls)
  BY <1>a, <1>1 DEF FlowInv
<1>8. DataTypes'
  BY <1>a, <1>1, <1>4 DEF DataTypes
<1>9. /\ Chain(log', wal) /\ Chain(log', inflight) /\ Chain(log', queue)
      /\ Precede(log', ToSet(wal), ToSet(Unwritten) \cup ToSet(queue))
      /\ Precede(log', ToSet(Unwritten), ToSet(queue))
      /\ Precede(log', Base, Framed)
  <2>1. ToSet(inflight) \subseteq A
    <3>1. n \notin ToSet(inflight)
      BY <1>a, <1>1 DEF FlowInv
    <3>2. ToSet(inflight) \subseteq ToSet(log)
      BY <1>a, <1>b, <1>4, <1>5 DEF FlowInv, WalInv, Unwritten, Framed
    <3> QED BY <1>5, <3>1, <3>2
  <2>2. /\ ToSet(queue) \subseteq A /\ ToSet(Unwritten) \subseteq A
        /\ ToSet(Unwritten) \cup ToSet(queue) \subseteq A
    BY <1>4 DEF Framed
  <2>3. /\ \A s : ToSet(s) \subseteq A /\ Chain(log, s) => Chain(log', s)
        /\ \A S, T : S \subseteq A /\ T \subseteq A /\ Precede(log, S, T) => Precede(log', S, T)
    BY <1>4, KeptChain
  <2>4. Chain(log', wal) /\ Chain(log', inflight) /\ Chain(log', queue)
    BY <1>a, <1>6, <2>1, <2>2, <2>3 DEF WalInv
  <2>5. /\ Precede(log', ToSet(wal), ToSet(Unwritten) \cup ToSet(queue))
        /\ Precede(log', ToSet(Unwritten), ToSet(queue))
    BY <1>a, <1>6, <2>2, <2>3 DEF WalInv
  <2>6. Precede(log', Base, Framed)
    BY <1>a, <1>4, <2>3 DEF WalInv
  <2> QED BY <2>4, <2>5, <2>6
<1>10. oldWal # None => /\ ToSet(oldWal) \subseteq A /\ n \notin ToSet(oldWal)
                        /\ ToSet(oldWal) \subseteq Calls
  <2> SUFFICES ASSUME oldWal # None
               PROVE  ToSet(oldWal) \subseteq A /\ n \notin ToSet(oldWal) /\ ToSet(oldWal) \subseteq Calls
    OBVIOUS
  <2>1. ToSet(oldWal) \subseteq ToSet(log) /\ \A m \in ToSet(oldWal) : op[m] \in {"done", "lost"}
    BY <1>a DEF SnapInv, OldWalInv
  <2> QED BY <1>1, <1>5, <1>b, <2>1
<1>11. ASSUME phase \in Copying PROVE Early \subseteq A /\ Late \subseteq A
  <2>1. /\ Len(walTmp) \in Nat /\ copiedUpTo \in Nat /\ Len(walTmp) <= copiedUpTo /\ copiedUpTo <= Len(wal)
    BY <1>a, <1>11 DEF CopyInv
  <2>2. Start \in Nat /\ Start <= Len(wal)
    BY <1>b, <2>1 DEF Start
  <2>3. 1 .. Start \subseteq 1 .. Len(wal) /\ Start + 1 .. Len(wal) \subseteq 1 .. Len(wal)
    BY <1>b, <2>2
  <2>4. {wal[i] : i \in 1 .. Start} \subseteq ToSet(wal) /\ {wal[i] : i \in Start + 1 .. Len(wal)} \subseteq ToSet(wal)
    BY <1>b, <2>3 DEF ToSet
  <2> QED BY <1>4, <1>6, <2>4 DEF Early, Late, Framed
<1>12. CASE walState = "open"
  <2>1. queue' = Append(queue, n) /\ op' = [op EXCEPT ![n] = "logged"] /\ UNCHANGED undo
    BY <1>12 DEF Commit
  <2>2. op'[n] = "logged" /\ \A m \in Calls : m # n => op'[m] = op[m]
    BY <1>b, <2>1
  <2>3. ToSet(queue') = ToSet(queue) \cup {n}
    BY <1>b, <2>1, AppendProps
  <2>4. Rejected' = Rejected \ {n} /\ Framed' = Framed \cup {n}
    BY <1>1, <1>6, <2>2, <2>3 DEF Rejected, Framed
  <2>5. Base' = Base
    BY <1>4, <1>5, <2>4 DEF Base
  <2>6. FlowInv'
    <3>1. \A m \in Calls : op'[m] # "none" => m <= Len(calls')
      BY <1>a, <1>1, <1>7, <2>2 DEF FlowInv
    <3>2. \A m \in ToSet(log') : op'[m] \in {"logged", "refused", "waiting", "retrying", "done", "lost"}
      BY <1>a, <1>b, <1>4, <1>5, <2>2 DEF FlowInv
    <3>3. \A m \in Calls : op'[m] = "logged" <=> m \in ToSet(queue') \cup ToSet(inflight')
      BY <1>a, <1>1, <2>2, <2>3 DEF FlowInv
    <3>4. \A m \in ToSet(wal') : op'[m] \in {"logged", "done", "lost"}
      BY <1>a, <1>b, <1>1, <1>5, <1>6, <2>2 DEF FlowInv
    <3>5. \A m \in acked' : m \in ToSet(log') /\ op'[m] = "done"
      BY <1>a, <1>b, <1>1, <1>4, <1>5, <2>2 DEF FlowInv
    <3>6. \A m \in ToSet(undo') : op'[m] = "refused"
      <4>1. ToSet(undo) \subseteq Calls
        BY <1>b DEF ToSet
      <4> QED BY <1>a, <1>1, <2>1, <2>2, <4>1 DEF FlowInv
    <3>7. Framed' \subseteq ToSet(log') /\ IsInjective(undo')
      BY <1>a, <1>4, <2>1, <2>4 DEF FlowInv
    <3> QED BY <3>1, <3>2, <3>3, <3>4, <3>5, <3>6, <3>7 DEF FlowInv
  <2>7. WalInv'
    <3>1. ToSet(queue) \subseteq A /\ ToSet(Unwritten) \subseteq A /\ ToSet(wal) \subseteq A
      BY <1>4 DEF Framed
    <3>2. Chain(log', queue')
      BY <1>9, <1>4, <1>b, <2>1, <3>1, AppendChain
    <3>3. Precede(log', ToSet(wal), ToSet(Unwritten) \cup (ToSet(queue) \cup {n}))
      BY <1>4, <1>9, <3>1 DEF Precede
    <3>4. Precede(log', ToSet(Unwritten), ToSet(queue) \cup {n})
      BY <1>4, <1>9, <3>1 DEF Precede
    <3>5. Precede(log', Base, Framed \cup {n})
      BY <1>4, <1>9 DEF Precede
    <3>6. /\ flushing = "no" <=> inflight = <<>>
          /\ flushing # "sync" => synced = Len(wal)
          /\ flushing = "sync" => /\ ToSet(inflight) \subseteq ToSet(wal)
                                  /\ \A i \in synced + 1 .. Len(wal) : wal[i] \in ToSet(inflight)
      BY <1>a DEF WalInv
    <3> QED BY <1>1, <1>6, <1>9, <2>3, <2>4, <2>5, <3>2, <3>3, <3>4, <3>5, <3>6 DEF WalInv
  <2>8. StoreInv'
    <3>1. Rejected \subseteq Rejected' \cup {n}
      BY <2>4
    <3> QED BY <1>1, <1>3, <3>1, CommitStore
  <2>9. SnapInv'
    <3>1. \A m \in Calls : m # n => op'[m] = op[m]
      BY <2>2
    <3>2. ToSet(log) \subseteq ToSet(log')
      BY <1>4, <1>5
    <3> QED BY <1>a, <1>1, <1>4, <1>6, <1>10, <2>5, <3>1, <3>2, SnapKept
  <2>10. CopyInv'
    <3>1. Early' = Early /\ Late' = Late \cup {n}
      BY <1>1, <1>6, <2>3, <2>5 DEF Early, Late, Start
    <3>2. Len(wal) <= Len(wal') /\ Len(wal') \in Nat
      BY <1>1, <1>b
    <3> QED BY <1>a, <1>b, <1>1, <1>2, <1>4, <1>11, <3>1, <3>2, CopyKept
  <2>11. BackupInv'
    <3>1. Rejected = {} => Rejected' = {}
      BY <2>4
    <3> QED BY <1>a, <1>1, <1>4, <1>6, <2>5, <3>1, BackupKept
  <2>12. SealInv'
    <3>1. phase \notin Rotating
      BY <1>a, <1>12 DEF SealInv
    <3>2. \A m \in Calls : op'[m] # "waiting"
      BY <1>a, <2>2, <3>1 DEF SealInv
    <3> QED BY <1>a, <1>1, <3>1, <3>2 DEF SealInv
  <2> QED BY <1>8, <2>6, <2>7, <2>8, <2>9, <2>10, <2>11, <2>12 DEF DataInv, CoreInv
<1>13. CASE walState # "open"
  <2>0. phase \in Rotating /\ rotateLock = "compaction" /\ op[n] = "ready" /\ backup = "none"
    BY <1>1, <1>13 DEF RotationInv, Rotating
  <2>1. undo' = Append(undo, n) /\ op' = [op EXCEPT ![n] = "refused"] /\ UNCHANGED queue
    BY <1>13, <2>0 DEF Commit, Retries
  <2>2. op'[n] = "refused" /\ \A m \in Calls : m # n => op'[m] = op[m]
    BY <1>b, <2>1
  <2>3. /\ ToSet(undo') = ToSet(undo) \cup {n} /\ IsInjective(undo')
        /\ ToSet(undo) \subseteq Calls /\ n \notin ToSet(undo)
    <3>1. n \notin ToSet(undo) /\ IsInjective(undo)
      BY <1>a, <2>0 DEF FlowInv
    <3>2. ToSet(undo) \subseteq Calls
      BY <1>b DEF ToSet
    <3> QED BY <1>b, <2>1, <3>1, <3>2, AppendProps
  <2>4. Rejected' = Rejected \cup {n} /\ Framed' = Framed
    BY <1>1, <1>6, <2>1, <2>2 DEF Rejected, Framed
  <2>5. Base' = Base
    BY <1>4, <1>5, <2>4 DEF Base
  <2>6. FlowInv'
    <3>1. \A m \in Calls : op'[m] # "none" => m <= Len(calls')
      BY <1>a, <1>1, <1>7, <2>2 DEF FlowInv
    <3>2. \A m \in ToSet(log') : op'[m] \in {"logged", "refused", "waiting", "retrying", "done", "lost"}
      BY <1>a, <1>b, <1>4, <1>5, <2>2 DEF FlowInv
    <3>3. \A m \in Calls : op'[m] = "logged" <=> m \in ToSet(queue') \cup ToSet(inflight')
      BY <1>a, <1>1, <2>0, <2>1, <2>2 DEF FlowInv
    <3>4. \A m \in ToSet(wal') : op'[m] \in {"logged", "done", "lost"}
      BY <1>a, <1>b, <1>1, <1>5, <1>6, <2>2 DEF FlowInv
    <3>5. \A m \in acked' : m \in ToSet(log') /\ op'[m] = "done"
      BY <1>a, <1>b, <1>1, <1>4, <1>5, <2>2 DEF FlowInv
    <3>6. \A m \in ToSet(undo') : op'[m] = "refused"
      BY <1>a, <2>2, <2>3 DEF FlowInv
    <3>7. Framed' \subseteq ToSet(log') /\ IsInjective(undo')
      BY <1>a, <1>4, <2>3, <2>4 DEF FlowInv
    <3> QED BY <3>1, <3>2, <3>3, <3>4, <3>5, <3>6, <3>7 DEF FlowInv
  <2>7. WalInv'
    <3>1. /\ flushing = "no" <=> inflight = <<>>
          /\ flushing # "sync" => synced = Len(wal)
          /\ flushing = "sync" => /\ ToSet(inflight) \subseteq ToSet(wal)
                                  /\ \A i \in synced + 1 .. Len(wal) : wal[i] \in ToSet(inflight)
      BY <1>a DEF WalInv
    <3> QED BY <1>1, <1>6, <1>9, <2>1, <2>4, <2>5, <3>1 DEF WalInv
  <2>8. StoreInv'
    <3>1. Rejected \subseteq Rejected' \cup {n}
      BY <2>4
    <3> QED BY <1>1, <1>3, <3>1, CommitStore
  <2>9. SnapInv'
    <3>1. \A m \in Calls : m # n => op'[m] = op[m]
      BY <2>2
    <3>2. ToSet(log) \subseteq ToSet(log')
      BY <1>4, <1>5
    <3> QED BY <1>a, <1>1, <1>4, <1>6, <1>10, <2>5, <3>1, <3>2, SnapKept
  <2>10. CopyInv'
    <3>1. Early' = Early /\ Late' = Late
      BY <1>1, <1>6, <2>1, <2>5 DEF Early, Late, Start
    <3>2. Len(wal) <= Len(wal') /\ Len(wal') \in Nat
      BY <1>1, <1>b
    <3> QED BY <1>a, <1>b, <1>1, <1>2, <1>4, <1>11, <3>1, <3>2, CopyKept
  <2>11. BackupInv'
    BY <1>a, <1>1, <1>4, <1>6, <2>0, <2>5, BackupKept
  <2>12. SealInv'
    BY <1>a, <1>1, <2>0, <2>1, <2>2 DEF SealInv, Flushed
  <2> QED BY <1>8, <2>6, <2>7, <2>8, <2>9, <2>10, <2>11, <2>12 DEF DataInv, CoreInv
<1> QED BY <1>12, <1>13

-----------------------------------------------------------------------------
\* The power fails: what is left is as if nothing else had been called.
LEMMA CrashStep ==
  ASSUME RefusalTypes, DataInv, Faultless, Crash
  PROVE  DataInv'
<1> USE DEF callVars, storeVars, walVars, diskVars, compactVars, backupVars, historyVars, countVars
<1>a. CoreInv /\ DataTypes /\ FlowInv /\ BackupInv
  BY DEF DataInv, CoreInv
<1>b. op \in [Calls -> Stages]
  BY DEF RefusalTypes
<1>1. PICK left \in Survivors :
        /\ wal' = left.wal /\ synced' = Len(left.wal) /\ snapshot' = left.snapshot
        /\ store' = Replay(left.snapshot, left.wal)
        /\ log' = Without(log, Lost(left))
  BY DEF Crash
<1> DEFINE W == ToSet(left.wal)
           R == ToSet(log) \ Lost(left)
<1>2. /\ op' = [n \in Calls |-> IF op[n] \in {"none", "done", "failed"} THEN op[n] ELSE "lost"]
      /\ awaits' = [n \in Calls |-> "none"] /\ undo' = <<>>
      /\ queue' = <<>> /\ inflight' = <<>> /\ flushing' = "no" /\ walState' = "open"
      /\ oldSnapshot' = None /\ oldWal' = None /\ rotateLock' = "none"
      /\ Forget /\ NoBackup /\ UNCHANGED <<calls, acked>>
  BY DEF Crash
<1>3. /\ left.wal \in Seq(Calls) /\ W \subseteq R /\ Chain(log, left.wal)
      /\ Precede(log, R \ W, W)
      /\ Completes(calls, log, left.snapshot, R \ W, W)
      /\ acked \cap Lost(left) = {}
  BY SurvivorProps
<1>4. log' \in Seq(Calls) /\ IsInjective(log') /\ ToSet(log') = R
  BY <1>a, <1>1, WithoutChain
<1>5. Kept(calls, log, calls', log', R)
  <2>1. log \in Seq(Calls)
    BY <1>a DEF DataTypes
  <2>2. \A n, m : Before(log', n, m) <=> Before(log, n, m) /\ n \notin Lost(left) /\ m \notin Lost(left)
    BY <1>1, <2>1, OrderWithout
  <2> QED BY <1>2, <2>2 DEF Kept
<1>6. \A k \in Keys : Holds(calls, log, R, k, store'[k])
  BY <1>1, RecoveredHolds
<1> HIDE DEF R
<1>7. ToSet(queue') = {} /\ ToSet(inflight') = {} /\ ToSet(Unwritten') = {} /\ ToSet(undo') = {}
  BY <1>2 DEF Unwritten, ToSet
<1>8. Rejected' = {}
  BY <1>2 DEF Rejected
<1>9. Framed' = W
  BY <1>1, <1>7 DEF Framed
<1>10. Base' = R \ W
  BY <1>4, <1>8, <1>9 DEF Base
<1>11. Platter' = W
  <2>1. Len(left.wal) \in Nat /\ DOMAIN left.wal = 1 .. Len(left.wal)
    BY <1>3
  <2> QED BY <1>1, <2>1 DEF Platter, ToSet
<1> HIDE DEF W
<1>12. \A n \in R : n \in Calls /\ op'[n] \in {"done", "lost"}
  <2>1. R \subseteq ToSet(log) /\ ToSet(log) \subseteq Calls
    BY <1>a DEF R, DataTypes, ToSet
  <2>2. \A n \in ToSet(log) : op[n] # "none" /\ op[n] # "failed"
    BY <1>a DEF FlowInv
  <2> QED BY <1>2, <2>1, <2>2
<1>13. DataTypes'
  <2>1. Len(left.wal) \in 0 .. Len(left.wal)
    BY <1>3
  <2> QED BY <1>a, <1>1, <1>2, <1>3, <1>4, <2>1 DEF DataTypes
<1>14. FlowInv'
  <2>1. \A n \in Calls : op'[n] # "none" => n <= Len(calls')
    BY <1>a, <1>2 DEF FlowInv
  <2>2. \A n \in ToSet(log') : op'[n] \in {"logged", "refused", "waiting", "retrying", "done", "lost"}
    BY <1>4, <1>12
  <2>3. \A n \in Calls : op'[n] = "logged" <=> n \in ToSet(queue') \cup ToSet(inflight')
    BY <1>2, <1>7
  <2>4. \A n \in ToSet(wal') : op'[n] \in {"logged", "done", "lost"}
    BY <1>1, <1>3, <1>12 DEF W
  <2>5. \A n \in acked' : n \in ToSet(log') /\ op'[n] = "done"
    <3>1. \A n \in acked : n \in ToSet(log) /\ op[n] = "done" /\ n \in R
      BY <1>a, <1>3 DEF FlowInv, R
    <3> QED BY <1>2, <1>4, <1>12, <3>1
  <2>6. IsInjective(undo')
    BY <1>2, EmptyListProps
  <2>7. \A n \in ToSet(undo') : op'[n] = "refused"
    BY <1>7
  <2>8. Framed' \subseteq ToSet(log')
    BY <1>3, <1>4, <1>9
  <2> QED BY <2>1, <2>2, <2>3, <2>4, <2>5, <2>6, <2>7, <2>8 DEF FlowInv
<1>15. Chain(log', left.wal) /\ Precede(log', R \ W, W)
  <2>1. R \ W \subseteq R /\ ToSet(left.wal) \subseteq R
    BY <1>3 DEF W
  <2> QED BY <1>3, <1>5, <2>1, KeptChain DEF W
<1>16. WalInv'
  <2>1. \A l : Chain(l, <<>>)
    BY DEF Chain
  <2>2. Precede(log', ToSet(wal'), ToSet(Unwritten') \cup ToSet(queue')) /\ Precede(log', ToSet(Unwritten'), ToSet(queue'))
    BY <1>7 DEF Precede
  <2>3. Precede(log', Base', Framed')
    BY <1>9, <1>10, <1>15
  <2> QED BY <1>1, <1>2, <1>15, <2>1, <2>2, <2>3 DEF WalInv
<1>17. StoreInv'
  <2> SUFFICES ASSUME NEW k \in Keys PROVE Holds(calls', log', ToSet(log'), k, store'[k])
    BY DEF StoreInv
  <2> QED BY <1>4, <1>5, <1>6, KeptHolds
<1>18. CopyInv'
  BY <1>2, EmptyListProps DEF CopyInv, Copying, Forget, Nothing
<1>19. SealInv'
  <2>1. phase' \notin Rotating
    BY <1>2 DEF Forget, Rotating
  <2>2. \A n \in Calls : op'[n] # "waiting"
    BY <1>2
  <2> QED BY <1>2, <2>1, <2>2 DEF SealInv
<1>20. SnapInv'
  <2>1. Completes(calls', log', left.snapshot, R \ W, W)
    <3>1. R \ W \subseteq R
      OBVIOUS
    <3> QED BY <1>3, <1>5, <3>1, KeptCompletes
  <2> QED BY <1>1, <1>2, <1>10, <1>11, <2>1 DEF SnapInv
<1>21. BackupInv'
  BY <1>2 DEF BackupInv, NoBackup, NoFiles
<1> QED BY <1>13, <1>14, <1>16, <1>17, <1>18, <1>19, <1>20, <1>21 DEF DataInv, CoreInv

-----------------------------------------------------------------------------
\* Nothing is stored at first.
LEMMA DataInit == Init => DataInv
<1> SUFFICES ASSUME Init PROVE DataInv
  OBVIOUS
<1> USE DEF Init
<1>1. ToSet(wal) = {} /\ ToSet(queue) = {} /\ ToSet(inflight) = {} /\ ToSet(log) = {} /\ ToSet(undo) = {}
  BY DEF ToSet
<1>2. Rejected = {} /\ Unwritten = <<>> /\ ToSet(Unwritten) = {}
  BY DEF Rejected, Unwritten, ToSet
<1>3. Framed = {} /\ Base = {}
  BY <1>1, <1>2 DEF Framed, Base
<1>4. IsInjective(<<>>) /\ <<>> \in Seq(Calls)
  BY EmptyListProps
<1>5. DataTypes
  <2>1. MaxCalls \in Nat
    BY ConstantsAssumption
  <2>2. calls \in Seq(Frames) /\ Len(calls) = 0 /\ Len(wal) = 0
    OBVIOUS
  <2> QED BY <1>4, <2>1, <2>2 DEF DataTypes
<1>6. FlowInv
  BY <1>1, <1>3, <1>4 DEF FlowInv
<1>7. \A l : Chain(l, <<>>) /\ Precede(l, {}, {})
  BY DEF Chain, Precede
<1>8. WalInv
  <2>1. Precede(log, ToSet(wal), ToSet(Unwritten) \cup ToSet(queue)) /\ Precede(log, ToSet(Unwritten), ToSet(queue))
    BY <1>1, <1>2 DEF Precede
  <2>2. Precede(log, Base, Framed)
    BY <1>3, <1>7
  <2> QED BY <1>7, <2>1, <2>2 DEF WalInv
<1>9. \A k \in Keys : Holds(calls, log, {}, k, Nothing[k])
  BY DEF Holds, Untouched, Nothing
<1>10. StoreInv
  BY <1>1, <1>9 DEF StoreInv
<1>11. CopyInv
  BY <1>4 DEF CopyInv, Copying, Nothing
<1>12. SealInv
  BY DEF SealInv, Rotating
<1>13. SnapInv
  BY <1>3, <1>9 DEF SnapInv, Completes
<1>14. BackupInv
  BY DEF BackupInv, NoFiles
<1> QED BY <1>5, <1>6, <1>8, <1>10, <1>11, <1>12, <1>13, <1>14 DEF DataInv, CoreInv

-----------------------------------------------------------------------------
\* Faults are for good.
LEMMA FaultlessBefore ==
  ASSUME RefusalTypes, [Next]_vars, Faultless'
  PROVE  Faultless
<1> USE DEF RefusalTypes, Faultless, callVars, storeVars, walVars, diskVars, compactVars, backupVars,
            historyVars, countVars
<1>1. (failures' = failures \/ failures' = failures + 1) /\ (disturbed => disturbed')
  <2>1. CASE Call \/ Compact \/ Backup \/ Crash
    BY <2>1 DEF Call, Compact, Backup, Crash
  <2>2. CASE Write \/ RollBack \/ FlushBatch \/ BatchWritten \/ BatchSynced
    BY <2>2 DEF Write, PassGate, Commit, RollBack, FlushBatch, BatchWritten, BatchSynced
  <2>3. CASE Compacting
    BY <2>3 DEF Compacting, Fence, WriteRecord, SnapshotWritten, PreCopy, Rotate, Drain, DrainedTail,
                Drained, Close, RenameSnapshot, SyncDir, RenameWal, Reopen, RecoverRotation
  <2>4. CASE BackingUp
    BY <2>4 DEF BackingUp, BackupFlushed, CopySnapshot, CopyWal, BackupDone
  <2>5. CASE BatchFails \/ CompactFails \/ RotationFails
    BY <2>5 DEF BatchFails, CompactFails, RotationFails, IOError
  <2>6. CASE UNCHANGED vars
    BY <2>6 DEF vars
  <2> QED BY <2>1, <2>2, <2>3, <2>4, <2>5, <2>6 DEF Next, Progress
<1> QED BY <1>1

\* A step of a faultless behaviour keeps what recovery relies on.
LEMMA DataStep ==
  ASSUME RecoveryInv, [Next]_vars, Faultless'
  PROVE  DataInv'
<1>1. RefusalTypes /\ RotationInv /\ DataInv /\ Faultless
  <2>1. RefusalTypes /\ Faultless
    BY FaultlessBefore DEF RecoveryInv, RefusalInv
  <2> QED BY <2>1 DEF RecoveryInv, RefusalInv
<1>2. ~ disturbed' /\ failures' = 0 /\ failures \in Nat
  BY <1>1 DEF Faultless, RefusalTypes
<1>3. CASE Call \/ Crash
  BY <1>1, <1>3, CallStep, CrashStep
<1>4. CASE Compact \/ Backup
  BY <1>1, <1>2, <1>4, QuietStep
<1>5. CASE Write
  BY <1>1, <1>5, OpStep, CommitStep DEF Write
<1>6. CASE RollBack \/ FlushBatch \/ BatchWritten \/ BatchSynced
  BY <1>1, <1>6, RollBackStep, FlushBatchStep, BatchWrittenStep, BatchSyncedStep
<1>7. CASE Compacting
  <2>1. CASE Rotate \/ Drain \/ Drained \/ Close \/ SyncDir
    BY <1>1, <1>2, <2>1, QuietStep
  <2>2. CASE Fence \/ (\E k \in Keys : WriteRecord(k)) \/ SnapshotWritten \/ PreCopy \/ DrainedTail
             \/ RenameSnapshot
    BY <1>1, <2>2, CopyStep
  <2>3. CASE RenameWal \/ Reopen
    BY <1>1, <2>3, RenameWalStep, OpStep
  <2>4. ASSUME NEW s \in {"open", "closed"} PROVE ~ RecoverRotation(s)
    BY <1>1 DEF RotationInv, RecoverRotation
  <2> QED BY <1>7, <2>1, <2>2, <2>3, <2>4 DEF Compacting
<1>8. CASE BackingUp
  <2>1. CASE BackupFlushed \/ CopySnapshot
    BY <1>1, <1>2, <2>1, QuietStep
  <2>2. CASE CopyWal
    BY <1>1, <2>2, CopyStep
  <2>3. CASE BackupDone
    BY <1>1, <2>3, OpStep
  <2> QED BY <1>8, <2>1, <2>2, <2>3 DEF BackingUp
<1>9. ~ BatchFails /\ ~ CompactFails /\ ~ RotationFails
  BY <1>2 DEF BatchFails, CompactFails, RotationFails, IOError
<1>10. CASE UNCHANGED vars
  <2> USE DEF vars, callVars, storeVars, walVars, diskVars, compactVars, backupVars, historyVars, countVars
  <2>1. CoreInv /\ CopyInv /\ SealInv /\ SnapInv /\ BackupInv
    BY <1>1 DEF DataInv
  <2>2. UNCHANGED coreVars
    BY <1>10 DEF coreVars
  <2>3. CoreInv'
    BY <2>1, <2>2, CoreFrame
  <2>4. SnapInv'
    BY <1>10, <2>1, <2>2, SnapFrame
  <2>5. BackupInv'
    BY <1>10, <2>1, <2>2, BackupFrame
  <2>6. CopyInv'
    <3>1. phase \in {"close", "rename", "syncSnapshot", "renameWal"} => copiedUpTo = Len(wal)
      BY <2>1 DEF CopyInv
    <3>2. phase \in {"syncSnapshot", "renameWal"} => snapshot = snapTmp
      BY <2>1 DEF CopyInv
    <3> QED BY <1>10, <2>1, <2>2, <3>1, <3>2, CopyFrame
  <2>7. SealInv'
    BY <1>10, <2>1 DEF SealInv, Flushed
  <2> QED BY <2>3, <2>4, <2>5, <2>6, <2>7 DEF DataInv
<1> QED BY <1>3, <1>4, <1>5, <1>6, <1>7, <1>8, <1>9, <1>10 DEF Next, Progress

\* The invariant of every reachable state, data and all.
LEMMA RecoveryInvariant == Spec => []RecoveryInv
<1>1. Init => RecoveryInv
  BY TypesInit, RotationInit, DataInit DEF RecoveryInv, RefusalInv
<1>2. RecoveryInv /\ [Next]_vars => RecoveryInv'
  <2> SUFFICES ASSUME RecoveryInv, [Next]_vars PROVE RecoveryInv'
    OBVIOUS
  <2>1. RefusalInv'
    BY TypesStep, RotationStep DEF RecoveryInv, RefusalInv
  <2> QED BY <2>1, DataStep DEF RecoveryInv
<1> QED BY <1>1, <1>2, PTL DEF Spec

\* Before the first I/O error, and until a compaction begins in a backup, a power
\* loss at any moment leaves the effect of a prefix of the frames, with all that
\* was answered.
THEOREM RecoveredIsPrefixHolds == Spec => []RecoveredIsPrefix
<1>1. RecoveryInv => RecoveredIsPrefix
  BY PrefixRecovered DEF RecoveryInv, RecoveredIsPrefix
<1> QED BY <1>1, RecoveryInvariant, PTL

\* A backup that no compaction joined is the effect of a prefix of the frames,
\* with all that was answered when the backup began.
THEOREM UndisturbedBackupHolds == Spec => []UndisturbedBackup
<1>1. RecoveryInv => UndisturbedBackup
  BY PrefixBackedUp DEF RecoveryInv, UndisturbedBackup
<1> QED BY <1>1, RecoveryInvariant, PTL
-----------------------------------------------------------------------------
\* Fresh

\* It depends on the calls of S that write k and on what comes after them.
LEMMA FreshMove ==
  ASSUME NEW c, NEW l, NEW S, NEW d, NEW m, NEW R, NEW k, NEW v,
         \A a \in R : k \in DOMAIN d[a] => a \in S /\ k \in DOMAIN c[a],
         \A a \in ToSet(l) : a \in ToSet(m) /\ d[a] = c[a],
         \A a \in R, b \in ToSet(l) : Before(l, a, b) => Before(m, a, b),
         Fresh(c, l, S, k, v)
  PROVE  Fresh(d, m, R, k, v)
<1>1. CASE Untouched(c, S, k) /\ v = Absent
  <2>1. Untouched(d, R, k)
    BY <1>1 DEF Untouched
  <2> QED BY <1>1, <2>1 DEF Fresh
<1>2. CASE \E n \in ToSet(l) : /\ k \in DOMAIN c[n] /\ v = IF c[n][k] THEN n ELSE Absent
                               /\ \A a \in S : k \in DOMAIN c[a] => a = n \/ Before(l, a, n)
  <2>1. PICK n \in ToSet(l) : /\ k \in DOMAIN c[n] /\ v = IF c[n][k] THEN n ELSE Absent
                              /\ \A a \in S : k \in DOMAIN c[a] => a = n \/ Before(l, a, n)
    BY <1>2
  <2>2. n \in ToSet(m) /\ d[n] = c[n]
    OBVIOUS
  <2>3. \A a \in R : k \in DOMAIN d[a] => a = n \/ Before(m, a, n)
    BY <2>1
  <2> QED BY <2>1, <2>2, <2>3 DEF Fresh
<1> QED BY <1>1, <1>2 DEF Fresh

\* Fewer calls are easier to follow.
LEMMA FreshLess ==
  ASSUME NEW c, NEW l, NEW S, NEW R, NEW k, NEW v,
         \A a \in R : k \in DOMAIN c[a] => a \in S,
         Fresh(c, l, S, k, v)
  PROVE  Fresh(c, l, R, k, v)
BY FreshMove

\* What the last call wrote follows them all.
LEMMA FreshLast ==
  ASSUME NEW c, NEW l, NEW S, NEW n \in ToSet(l), NEW k \in DOMAIN c[n],
         \A m \in S : m = n \/ Before(l, m, n)
  PROVE  Fresh(c, l, S, k, IF c[n][k] THEN n ELSE Absent)
BY DEF Fresh

\* What some calls made of k follows all of them.
LEMMA FreshHolds ==
  ASSUME NEW c, NEW l, NEW S, NEW R, NEW k, NEW v, S \subseteq R, R \subseteq ToSet(l),
         Holds(c, l, R, k, v)
  PROVE  Fresh(c, l, S, k, v)
<1>1. CASE Untouched(c, R, k) /\ v = Absent
  <2>1. Untouched(c, S, k)
    BY <1>1 DEF Untouched
  <2> QED BY <1>1, <2>1 DEF Fresh
<1>2. CASE \E n \in R : LastWriter(c, l, R, k, n) /\ v = IF c[n][k] THEN n ELSE Absent
  <2>1. PICK n \in R : LastWriter(c, l, R, k, n) /\ v = IF c[n][k] THEN n ELSE Absent
    BY <1>2
  <2>2. n \in ToSet(l) /\ k \in DOMAIN c[n] /\ \A m \in S : k \in DOMAIN c[m] => m = n \/ Before(l, m, n)
    BY <2>1 DEF LastWriter
  <2> QED BY <2>1, <2>2 DEF Fresh
<1> QED BY <1>1, <1>2 DEF Holds

\* Recovery: a snapshot that follows the calls which the frames lack, unless
\* they write the key themselves, and the frames.
LEMMA ReplayFresh ==
  ASSUME NEW l, NEW s, NEW w \in Seq(Calls), NEW S, NEW W, NEW k \in Keys,
         Chain(l, w), ToSet(w) \subseteq ToSet(l), W \subseteq ToSet(w),
         Precede(l, S \ ToSet(w), ToSet(w)),
         Fresh(calls, l, S \ ToSet(w), k, s[k]) \/ ~ Untouched(calls, W, k)
  PROVE  Fresh(calls, l, S, k, Replay(s, w)[k])
<1> DEFINE later == {i \in DOMAIN w : k \in Writes(w[i])}
<1>1. Replay(s, w)[k] = IF later = {} THEN s[k] ELSE ValueOf(w[Max(later)], k)
  BY DEF Replay
<1>2. CASE later = {}
  <2>1. \A m \in ToSet(w) : k \notin DOMAIN calls[m]
    BY <1>2 DEF ToSet, Writes
  <2>2. Fresh(calls, l, S \ ToSet(w), k, s[k])
    BY <2>1 DEF Untouched
  <2>3. \A a \in S : k \in DOMAIN calls[a] => a \in S \ ToSet(w)
    BY <2>1
  <2>4. Fresh(calls, l, S, k, s[k])
    BY <2>2, <2>3, FreshLess
  <2> QED BY <1>1, <1>2, <2>4
<1>3. CASE later # {}
  <2> DEFINE i == Max(later)
  <2>1. Len(w) \in Nat /\ DOMAIN w = 1 .. Len(w)
    OBVIOUS
  <2>2. i \in later /\ \A j \in later : j <= i
    <3>1. later \in SUBSET (1 .. Len(w))
      BY <2>1
    <3> HIDE DEF later
    <3> QED BY <1>3, <2>1, <3>1, MaxPosition
  <2>3. i \in DOMAIN w /\ k \in DOMAIN calls[w[i]]
    BY <2>2 DEF Writes
  <2>4. ASSUME NEW m \in S, k \in DOMAIN calls[m]
        PROVE  m = w[i] \/ Before(l, m, w[i])
    <3>1. CASE m \notin ToSet(w)
      BY <2>3, <3>1 DEF Precede, ToSet
    <3>2. CASE m \in ToSet(w)
      <4>1. PICK j \in DOMAIN w : m = w[j]
        BY <3>2 DEF ToSet
      <4>2. j \in later
        BY <2>4, <4>1 DEF Writes
      <4>3. j <= i
        BY <2>2, <4>2
      <4>4. j = i \/ j < i
        BY <2>1, <2>3, <4>3
      <4> QED BY <2>3, <4>1, <4>4 DEF Chain
    <3> QED BY <3>1, <3>2
  <2>5. w[i] \in ToSet(l)
    BY <2>3 DEF ToSet
  <2>6. Replay(s, w)[k] = IF calls[w[i]][k] THEN w[i] ELSE Absent
    BY <1>1, <1>3 DEF ValueOf
  <2> HIDE DEF i, later
  <2> QED BY <2>3, <2>4, <2>5, <2>6 DEF Fresh
<1> QED BY <1>2, <1>3

\* It is what AckedSurvive asks for.
LEMMA FreshNotOlder ==
  ASSUME log \in Seq(Calls), IsInjective(log), acked \subseteq ToSet(log),
         NEW s, NEW k, Fresh(calls, log, acked, k, s[k])
  PROVE  NotOlder(s, k)
<1> DEFINE A == {i \in DOMAIN log : log[i] \in acked /\ k \in Writes(log[i])}
<1>1. LastAcked(k) = Max({0} \cup A)
  BY DEF LastAcked
<1>2. Len(log) \in Nat /\ DOMAIN log = 1 .. Len(log) /\ A \subseteq 1 .. Len(log)
  OBVIOUS
<1>3. LastAcked(k) \in {0} \cup A
  <2> DEFINE D == {i + 1 : i \in {0} \cup A}
  <2>0. \A i \in {0} \cup A : i \in 0 .. Len(log)
    BY <1>2
  <2> HIDE DEF A
  <2>1. CASE A = {}
    <3>1. Max({0}) = 0
      BY DEF Max
    <3> QED BY <1>1, <2>1, <3>1
  <2>2. CASE A # {}
    <3>1. A \in SUBSET (1 .. Len(log))
      BY <1>2
    <3>2. Max(A) \in A /\ \A i \in A : i <= Max(A)
      BY <1>2, <2>2, <3>1, MaxPosition
    <3>3. Max(A) \in {0} \cup A /\ \A i \in {0} \cup A : Max(A) >= i
      <4>1. \A i \in A : i \in 1 .. Len(log)
        BY <1>2
      <4>2. Max(A) \in 1 .. Len(log)
        BY <3>2, <4>1
      <4>3. \A i \in A : Max(A) >= i
        BY <1>2, <3>2, <4>1, <4>2
      <4> QED BY <1>2, <3>2, <4>2, <4>3
    <3>4. LastAcked(k) = CHOOSE x \in {0} \cup A : \A y \in {0} \cup A : x >= y
      BY <1>1 DEF Max
    <3> QED BY <3>3, <3>4
  <2> QED BY <2>1, <2>2
<1>4. CASE Untouched(calls, acked, k) /\ s[k] = Absent
  <2>1. A = {}
    BY <1>4 DEF Untouched, Writes
  <2>2. LastAcked(k) = 0
    BY <1>3, <2>1
  <2> QED BY <1>4, <2>2 DEF NotOlder
<1>5. CASE \E n \in ToSet(log) :
             /\ k \in DOMAIN calls[n] /\ s[k] = IF calls[n][k] THEN n ELSE Absent
             /\ \A m \in acked : k \in DOMAIN calls[m] => m = n \/ Before(log, m, n)
  <2>1. PICK n \in ToSet(log) :
               /\ k \in DOMAIN calls[n] /\ s[k] = IF calls[n][k] THEN n ELSE Absent
               /\ \A m \in acked : k \in DOMAIN calls[m] => m = n \/ Before(log, m, n)
    BY <1>5
  <2>2. PICK i \in DOMAIN log : log[i] = n
    BY <2>1 DEF ToSet
  <2>3. ASSUME NEW j \in A PROVE i >= j
    <3>1. j \in DOMAIN log /\ log[j] \in acked /\ k \in DOMAIN calls[log[j]]
      BY DEF Writes
    <3>2. log[j] = log[i] \/ Before(log, log[j], log[i])
      BY <2>1, <2>2, <3>1
    <3>3. CASE log[j] = log[i]
      <4>1. j = i
        BY <2>2, <3>1, <3>3 DEF IsInjective
      <4> QED BY <1>2, <2>2, <4>1
    <3>4. CASE Before(log, log[j], log[i])
      <4>1. PICK a, b \in DOMAIN log : a < b /\ log[a] = log[j] /\ log[b] = log[i]
        BY <3>4 DEF Before
      <4>2. a = j /\ b = i
        BY <2>2, <3>1, <4>1 DEF IsInjective
      <4> QED BY <1>2, <4>1, <4>2
    <3> QED BY <3>2, <3>3, <3>4
  <2>4. i >= LastAcked(k)
    <3>1. i >= 0
      BY <1>2, <2>2
    <3> QED BY <1>3, <2>3, <3>1
  <2>5. k \in Writes(log[i]) /\ ValueOf(log[i], k) = s[k]
    BY <2>1, <2>2 DEF Writes, ValueOf
  <2> QED BY <2>2, <2>4, <2>5 DEF NotOlder
<1> QED BY <1>4, <1>5 DEF Fresh
-----------------------------------------------------------------------------
\* AckedSurvive

\* What a power loss leaves lacks only answers that came before its frames.
LEMMA SurvivorAnswers ==
  ASSUME AnswerInv, NEW left \in Survivors
  PROVE  LET W == ToSet(left.wal)
         IN  /\ left.wal \in Seq(Calls) /\ Chain(log, left.wal) /\ W \subseteq ToSet(log)
             /\ \A n \in W : op[n] \in Fixed
             /\ Precede(log, acked \ W, W) /\ acked \ W \subseteq acked \ ToSet(wal)
             /\ Platter \subseteq W
             /\ \A k \in Keys : DeletedOnce(k) => AnswerSnap(k, left.snapshot)
<1> DEFINE W == ToSet(left.wal)
<1>a. DataTypes /\ AnswerFlow /\ AnswerWal /\ AnswerOld
  BY DEF AnswerInv, AnswerCore, AnswerDisk
<1>b. Len(wal) \in Nat /\ DOMAIN wal = 1 .. Len(wal) /\ wal \in Seq(Calls) /\ synced \in 0 .. Len(wal)
  BY <1>a DEF DataTypes
<1>1. /\ left.snapshot = snapshot \/ (oldSnapshot # None /\ left.snapshot = oldSnapshot)
      /\ \/ \E n \in synced .. Len(wal) : left.wal = SubSeq(wal, 1, n)
         \/ (oldWal # None /\ left.wal = oldWal)
  BY DEF Survivors
<1>2. ASSUME NEW k \in Keys, DeletedOnce(k) PROVE AnswerSnap(k, left.snapshot)
  BY <1>1, <1>2 DEF AnswerInv, AnswerDisk, AnswerFiles
<1>3. 1 .. synced \subseteq 1 .. Len(wal)
  BY <1>b
<1>4. ASSUME NEW n \in synced .. Len(wal), left.wal = SubSeq(wal, 1, n)
      PROVE  /\ left.wal \in Seq(Calls) /\ Chain(log, left.wal) /\ W \subseteq ToSet(wal)
             /\ acked \ W \subseteq acked \ ToSet(wal) /\ Platter \subseteq W
  <2>1. n \in Nat /\ n <= Len(wal) /\ 1 \in Nat \ {0} /\ 1 .. n \subseteq 1 .. Len(wal) /\ 1 .. synced \subseteq 1 .. n
    BY <1>b
  <2>2. left.wal \in Seq(Calls) /\ W = {wal[i] : i \in 1 .. n}
    BY <1>b, <1>4, <2>1, SubSeqProps
  <2>3. Len(left.wal) = n /\ \A i \in 1 .. n : left.wal[i] = wal[i]
    BY <1>b, <1>4, <2>1
  <2>4. Chain(log, left.wal)
    <3>1. DOMAIN left.wal = 1 .. n
      BY <2>2, <2>3
    <3> QED BY <1>a, <1>b, <2>1, <2>3, <3>1 DEF AnswerWal, Chain
  <2>5. W \subseteq ToSet(wal)
    BY <1>b, <2>1, <2>2 DEF ToSet
  <2>6. ASSUME NEW m \in acked, m \in ToSet(wal) PROVE m \in W
    <3>1. PICK i \in 1 .. Len(wal) : wal[i] = m
      BY <1>b, <2>6 DEF ToSet
    <3>2. i \notin synced + 1 .. Len(wal)
      BY <1>a, <2>6, <3>1 DEF AnswerWal
    <3>3. i \in 1 .. n
      BY <1>b, <2>1, <3>2
    <3> QED BY <2>2, <3>1, <3>3
  <2>7. Platter \subseteq W
    BY <2>1, <2>2 DEF Platter
  <2> QED BY <2>2, <2>4, <2>5, <2>6, <2>7
<1>5. CASE \E n \in synced .. Len(wal) : left.wal = SubSeq(wal, 1, n)
  <2>1. /\ left.wal \in Seq(Calls) /\ Chain(log, left.wal) /\ W \subseteq ToSet(wal)
        /\ acked \ W \subseteq acked \ ToSet(wal) /\ Platter \subseteq W
    BY <1>4, <1>5
  <2> HIDE DEF W
  <2>2. W \subseteq ToSet(log) /\ \A n \in W : op[n] \in Fixed
    BY <1>a, <2>1 DEF AnswerFlow, Framed
  <2>3. Precede(log, acked \ W, W)
    BY <1>a, <2>1 DEF AnswerWal, Precede, Framed
  <2> QED BY <1>2, <2>1, <2>2, <2>3 DEF W
<1>6. CASE oldWal # None /\ left.wal = oldWal
  <2>1. ToSet(wal) \subseteq W
    BY <1>a, <1>6 DEF AnswerOld
  <2>2. Platter \subseteq W
    BY <1>b, <1>3, <2>1 DEF Platter, ToSet
  <2> QED BY <1>2, <1>a, <1>6, <2>1, <2>2 DEF AnswerOld
<1> QED BY <1>1, <1>5, <1>6

\* What it recovers to follows all that was answered.
LEMMA SurvivorFresh ==
  ASSUME AnswerInv, NEW left \in Survivors, NEW k \in Keys, DeletedOnce(k)
  PROVE  Fresh(calls, log, acked, k, Replay(left.snapshot, left.wal)[k])
<1> DEFINE W == ToSet(left.wal)
<1>1. /\ left.wal \in Seq(Calls) /\ Chain(log, left.wal) /\ W \subseteq ToSet(log)
      /\ Precede(log, acked \ W, W) /\ acked \ W \subseteq acked \ ToSet(wal)
      /\ Platter \subseteq W
      /\ AnswerSnap(k, left.snapshot)
  BY SurvivorAnswers
<1>2. Fresh(calls, log, acked \ ToSet(wal), k, left.snapshot[k]) => Fresh(calls, log, acked \ W, k, left.snapshot[k])
  <2>1. \A a \in acked \ W : a \in acked \ ToSet(wal)
    BY <1>1
  <2> HIDE DEF W
  <2> QED BY <2>1, FreshLess
<1>3. Fresh(calls, log, acked \ W, k, left.snapshot[k]) \/ ~ Untouched(calls, Platter, k)
  BY <1>1, <1>2 DEF AnswerSnap
<1> QED BY <1>1, <1>3, ReplayFresh

LEMMA AnswersSurvive == AnswerInv => AckedSurvive
<1> SUFFICES ASSUME AnswerInv, NEW k \in Keys, DeletedOnce(k)
             PROVE  /\ NotOlder(store, k)
                    /\ \A left \in Survivors : NotOlder(Replay(left.snapshot, left.wal), k)
  BY DEF AckedSurvive
<1>1. log \in Seq(Calls) /\ IsInjective(log) /\ acked \subseteq ToSet(log)
  BY DEF AnswerInv, AnswerCore, DataTypes, AnswerFlow
<1>2. Fresh(calls, log, Answerable, k, store[k])
  BY DEF AnswerInv, AnswerCore, AnswerStore
<1>3. Fresh(calls, log, acked, k, store[k])
  <2>1. \A a \in acked : a \in Answerable
    BY DEF Answerable
  <2> QED BY <1>2, <2>1, FreshLess
<1>4. NotOlder(store, k)
  BY <1>1, <1>3, FreshNotOlder
<1>5. ASSUME NEW left \in Survivors PROVE NotOlder(Replay(left.snapshot, left.wal), k)
  <2>1. Fresh(calls, log, acked, k, Replay(left.snapshot, left.wal)[k])
    BY SurvivorFresh
  <2> QED BY <1>1, <2>1, FreshNotOlder
<1> QED BY <1>4, <1>5

-----------------------------------------------------------------------------
\* Steps that leave the calls, the store and the log alone.

\* Calls may go on that have no frames.
LEMMA AnswerSame ==
  ASSUME AnswerCore,
         UNCHANGED <<calls, log, acked, queue, inflight, flushing, wal, undo, prev, seq, store>>,
         synced' \in synced .. Len(wal),
         \A n \in Calls : \/ op'[n] = op[n]
                          \/ op[n] \in {"called", "parked", "waiting"} /\ op'[n] \in {"called", "ready", "done", "retrying"}
  PROVE  /\ AnswerCore' /\ Framed' = Framed /\ Unwritten' = Unwritten /\ Platter \subseteq Platter'
         /\ \A n \in ToSet(log) : op[n] \in Fixed => op'[n] \in Fixed
<1>a. DataTypes /\ AnswerFlow /\ AnswerWal /\ SeqInv
  BY DEF AnswerCore
<1>b. Len(wal) \in Nat /\ synced \in 0 .. Len(wal) /\ ToSet(log) \subseteq Calls
  BY <1>a DEF DataTypes, ToSet
<1>c. synced' \in 0 .. Len(wal) /\ 1 .. synced \subseteq 1 .. synced' /\ synced' + 1 .. Len(wal) \subseteq synced + 1 .. Len(wal)
  BY <1>b
<1>1. Unwritten' = Unwritten /\ Framed' = Framed
  BY DEF Unwritten, Framed
<1>2. Platter \subseteq Platter'
  BY <1>c DEF Platter
<1>3. \A n \in ToSet(log) : op[n] \in Fixed => op'[n] \in Fixed
  BY <1>b DEF Fixed
<1>4. DataTypes'
  BY <1>a, <1>c DEF DataTypes
<1>5. AnswerFlow'
  <2>1. ToSet(queue) \cup ToSet(inflight) \subseteq ToSet(log) /\ ToSet(undo) \subseteq ToSet(log) /\ acked \subseteq ToSet(log)
        /\ ToSet(wal) \subseteq ToSet(log)
    BY <1>a DEF AnswerFlow, Framed
  <2>2. \A n \in Calls : op'[n] # "none" => n <= Len(calls')
    BY <1>a DEF AnswerFlow
  <2>3. \A n \in ToSet(log') : op'[n] # "none"
    BY <1>a, <1>b DEF AnswerFlow
  <2>4. \A n \in ToSet(queue') \cup ToSet(inflight') : op'[n] = "logged"
    BY <1>a, <1>b, <2>1 DEF AnswerFlow
  <2>5. \A n \in ToSet(undo') : op'[n] \in {"refused", "broken"}
    BY <1>a, <1>b, <2>1 DEF AnswerFlow
  <2>6. \A n \in ToSet(wal') : op'[n] \in Fixed
    BY <1>a, <1>3, <2>1 DEF AnswerFlow
  <2>7. \A n \in acked' : op'[n] = "done"
    BY <1>a, <1>b, <2>1 DEF AnswerFlow
  <2> QED BY <1>a, <1>1, <2>2, <2>3, <2>4, <2>5, <2>6, <2>7 DEF AnswerFlow
<1>6. AnswerWal'
  BY <1>a, <1>1, <1>c DEF AnswerWal
<1>7. SeqInv'
  BY <1>a DEF SeqInv, Writes
<1>8. ASSUME NEW k \in Keys, DeletedOnce(k)' PROVE AnswerStore(k)'
  <2>1. DeletedOnce(k)
    BY <1>8 DEF DeletedOnce, Writes
  <2>2. Answerable' = Answerable /\ \A n : Earlier(n)' = Earlier(n)
    BY DEF Answerable, Earlier
  <2> QED BY <2>1, <2>2 DEF AnswerCore, AnswerStore
<1> QED BY <1>1, <1>2, <1>3, <1>4, <1>5, <1>6, <1>7, <1>8 DEF AnswerCore

\* The files stay good while a compaction or a backup only moves on.
LEMMA DiskQuiet ==
  ASSUME AnswerCore, AnswerDisk,
         UNCHANGED <<calls, log, acked, queue, inflight, flushing, wal, snapshot>>,
         Platter \subseteq Platter',
         \A n \in ToSet(log) : op[n] \in Fixed => op'[n] \in Fixed,
         oldSnapshot' # None => oldSnapshot' = oldSnapshot /\ phase' = "syncSnapshot",
         oldWal' # None => oldWal' = oldWal /\ phase' = "syncWal",
         phase' \in Copying =>
           /\ phase \in Copying /\ UNCHANGED <<copiedUpTo, walTmp, snapTmp>>
           /\ phase = "snapshot" => phase' = "snapshot" /\ visited' = visited,
         walTmp' \in Seq(Calls) /\ copiedUpTo' \in Nat /\ snapTmp' = [k \in Keys |-> snapTmp'[k]],
         phase' \in {"close", "rename", "syncSnapshot", "renameWal"} => copiedUpTo = Len(wal),
         phase' \in {"syncSnapshot", "renameWal"} => snapshot = snapTmp,
         phase' \in Rotating => walState' # "open",
         phase' \in Rotating \ {"drain"} => Flushed
  PROVE  AnswerDisk'
<1>a. AnswerCopy /\ AnswerOld
  BY DEF AnswerDisk
<1>1. Unwritten' = Unwritten /\ Flushed' = Flushed
  BY DEF Unwritten, Flushed
<1>2. ASSUME phase' \in Copying PROVE Start' = Start /\ Late' = Late
  BY <1>1, <1>2 DEF Start, Late
<1>3. AnswerCopy'
  <2>1. ASSUME phase' \in Copying
        PROVE  /\ Len(walTmp') <= copiedUpTo' /\ copiedUpTo' <= Len(wal')
               /\ \A i \in DOMAIN walTmp' : walTmp'[i] = wal'[Start' + i]
               /\ ToSet(inflight') \subseteq Late'
    BY <1>a, <1>2, <2>1 DEF AnswerCopy
  <2>2. phase' \in {"close", "rename", "syncSnapshot", "renameWal"} => phase' \in Copying
    BY DEF Copying
  <2> QED BY <1>1, <2>1, <2>2 DEF AnswerCopy
<1>4. AnswerOld'
  <2>1. oldWal' # None => \A n \in ToSet(oldWal) : op'[n] \in Fixed
    BY <1>a DEF AnswerOld
  <2> QED BY <1>a, <2>1 DEF AnswerOld
<1>5. ASSUME NEW k \in Keys, DeletedOnce(k)' PROVE AnswerFiles(k)'
  <2>1. DeletedOnce(k)
    BY <1>5 DEF DeletedOnce, Writes
  <2>2. AnswerFiles(k)
    BY <2>1 DEF AnswerDisk
  <2>3. ~ Untouched(calls, Platter, k) => ~ Untouched(calls, Platter', k)
    BY DEF Untouched
  <2>4. AnswerSnap(k, snapshot)'
    BY <2>2, <2>3 DEF AnswerFiles, AnswerSnap
  <2>5. oldSnapshot' # None => AnswerSnap(k, oldSnapshot)'
    BY <2>2, <2>3 DEF AnswerFiles, AnswerSnap
  <2>6. ASSUME phase' \in Copying
        PROVE  AnswerTmp(k)' \/ (phase' = "snapshot" /\ k \notin visited' /\ snapTmp'[k] = Absent)
    <3>1. AnswerTmp(k) => AnswerTmp(k)'
      BY <1>2, <2>6 DEF AnswerTmp
    <3> QED BY <2>2, <2>6, <3>1 DEF AnswerFiles
  <2> QED BY <2>4, <2>5, <2>6 DEF AnswerFiles
<1> QED BY <1>3, <1>4, <1>5 DEF AnswerDisk

\* The steps that write no file and log no call.
LEMMA AnswerQuietStep ==
  ASSUME RefusalTypes, AnswerInv,
         \/ Compact \/ Rotate \/ Drain \/ Drained \/ Close \/ SyncDir
         \/ Backup \/ BackupFlushed \/ CopySnapshot \/ CopyWal
         \/ CompactFails \/ RotationFails \/ UNCHANGED vars
  PROVE  AnswerInv'
<1> USE DEF callVars, storeVars, walVars, diskVars, compactVars, backupVars, historyVars, countVars
<1>a. AnswerCore /\ AnswerDisk /\ AnswerCopy /\ AnswerOld
  BY DEF AnswerInv, AnswerDisk
<1>b. Len(wal) \in Nat /\ synced \in 0 .. Len(wal)
  BY <1>a DEF AnswerCore, DataTypes
<1>c. synced \in synced .. Len(wal) /\ Len(wal) \in synced .. Len(wal)
  BY <1>b
<1>d. walTmp \in Seq(Calls) /\ copiedUpTo \in Nat /\ snapTmp = [k \in Keys |-> snapTmp[k]]
  BY <1>a DEF AnswerCopy
<1>e. oldSnapshot # None => phase = "syncSnapshot"
  BY <1>a DEF AnswerOld
<1>f. oldWal # None => phase = "syncWal"
  BY <1>a DEF AnswerOld
<1>g. <<>> \in Seq(Calls) /\ 0 \in Nat /\ Nothing = [k \in Keys |-> Nothing[k]]
  BY EmptyListProps DEF Nothing
<1>h. /\ phase \in {"close", "rename", "syncSnapshot", "renameWal"} => copiedUpTo = Len(wal)
      /\ phase \in {"syncSnapshot", "renameWal"} => snapshot = snapTmp
      /\ phase \in Rotating => walState # "open"
      /\ phase \in Rotating \ {"drain"} => Flushed
  BY <1>a DEF AnswerCopy
<1>0. UNCHANGED <<calls, op, log, acked, queue, inflight, flushing, wal, undo, prev, seq, store, snapshot>>
  <2>1. CASE Compact \/ Rotate \/ Drain \/ Drained
    BY <2>1 DEF Compact, Rotate, Drain, Drained
  <2>2. CASE Close \/ SyncDir \/ CompactFails \/ RotationFails
    BY <2>2 DEF Close, SyncDir, CompactFails, RotationFails, IOError, Incident
  <2>3. CASE Backup \/ BackupFlushed \/ CopySnapshot \/ CopyWal
    BY <2>3 DEF Backup, BackupFlushed, CopySnapshot, CopyWal
  <2>4. CASE UNCHANGED vars
    BY <2>4 DEF vars
  <2> QED BY <2>1, <2>2, <2>3, <2>4
<1>1. synced' \in synced .. Len(wal)
  <2>1. CASE Compact \/ Rotate \/ Drain \/ Drained
    BY <1>c, <2>1 DEF Compact, Rotate, Drain, Drained
  <2>2. CASE Close \/ SyncDir \/ CompactFails \/ RotationFails
    BY <1>c, <2>2 DEF Close, SyncDir, CompactFails, RotationFails, IOError, Incident
  <2>3. CASE Backup \/ BackupFlushed \/ CopySnapshot \/ CopyWal
    BY <1>c, <2>3 DEF Backup, BackupFlushed, CopySnapshot, CopyWal
  <2>4. CASE UNCHANGED vars
    BY <1>c, <2>4 DEF vars
  <2> QED BY <2>1, <2>2, <2>3, <2>4
<1>2. /\ AnswerCore' /\ Platter \subseteq Platter'
      /\ \A n \in ToSet(log) : op[n] \in Fixed => op'[n] \in Fixed
  <2>1. \A n \in Calls : op'[n] = op[n]
    BY <1>0
  <2> QED BY <1>0, <1>1, <1>a, <2>1, AnswerSame
<1>3. AnswerDisk'
  <2>1. CASE Compact
    <3>1. UNCHANGED <<copiedUpTo, walTmp, snapTmp, oldSnapshot, oldWal>> /\ phase = "idle" /\ phase' = "fence"
      BY <2>1 DEF Compact
    <3> QED BY <1>0, <1>2, <1>a, <1>d, <1>e, <1>f, <3>1, DiskQuiet DEF Copying, Rotating
  <2>2. CASE Rotate
    <3>1. /\ UNCHANGED <<copiedUpTo, walTmp, snapTmp, oldSnapshot, oldWal>>
          /\ phase = "precopy" /\ phase' = "drain" /\ walState' # "open"
      BY <2>2 DEF Rotate, Sealed
    <3> QED BY <1>0, <1>2, <1>a, <1>d, <1>e, <1>f, <3>1, DiskQuiet DEF Copying, Rotating
  <2>3. CASE Drain
    <3>1. /\ UNCHANGED <<copiedUpTo, walTmp, snapTmp, oldSnapshot, oldWal, walState>>
          /\ phase = "drain" /\ phase' = "drained" /\ Flushed
      BY <2>3 DEF Drain
    <3> QED BY <1>0, <1>2, <1>a, <1>d, <1>e, <1>f, <1>h, <3>1, DiskQuiet DEF Copying, Rotating
  <2>4. CASE Drained
    <3>1. /\ UNCHANGED <<copiedUpTo, walTmp, snapTmp, oldSnapshot, oldWal>> /\ walState' = "closed"
          /\ phase = "drained" /\ phase' = "close" /\ copiedUpTo = Len(wal)
      BY <2>4 DEF Drained
    <3> QED BY <1>0, <1>2, <1>a, <1>d, <1>e, <1>f, <1>h, <3>1, DiskQuiet DEF Copying, Rotating
  <2>5. CASE Close
    <3>1. /\ UNCHANGED <<copiedUpTo, walTmp, snapTmp, oldSnapshot, oldWal, walState>>
          /\ phase = "close" /\ phase' = "rename"
      BY <2>5 DEF Close
    <3> QED BY <1>0, <1>2, <1>a, <1>d, <1>e, <1>f, <1>h, <3>1, DiskQuiet DEF Copying, Rotating
  <2>6. CASE SyncDir
    <3>1. /\ UNCHANGED <<copiedUpTo, walTmp, snapTmp, walState>> /\ oldSnapshot' = None /\ oldWal' = None
          /\ \/ phase = "syncSnapshot" /\ phase' = "renameWal"
             \/ phase = "syncWal" /\ phase' = "reopen"
      BY <2>6 DEF SyncDir
    <3> QED BY <1>0, <1>2, <1>a, <1>d, <1>e, <1>f, <1>h, <3>1, DiskQuiet DEF Copying, Rotating
  <2>7. CASE Backup \/ BackupFlushed \/ CopySnapshot \/ CopyWal \/ UNCHANGED vars
    <3>1. UNCHANGED <<copiedUpTo, walTmp, snapTmp, visited, oldSnapshot, oldWal, walState, phase>>
      BY <2>7 DEF Backup, BackupFlushed, CopySnapshot, CopyWal, vars
    <3> QED BY <1>0, <1>2, <1>a, <1>d, <1>e, <1>f, <1>h, <3>1, DiskQuiet DEF Copying, Rotating
  <2>8. CASE CompactFails
    <3>1. /\ UNCHANGED <<oldSnapshot, oldWal, walState>> /\ phase \in {"snapshot", "precopy"}
          /\ phase' = "idle" /\ copiedUpTo' = 0 /\ walTmp' = <<>> /\ snapTmp' = Nothing
      BY <2>8 DEF CompactFails, Forget
    <3> QED BY <1>0, <1>2, <1>a, <1>e, <1>f, <1>g, <3>1, DiskQuiet DEF Copying, Rotating
  <2>9. CASE RotationFails
    <3>1. /\ UNCHANGED <<copiedUpTo, walTmp, snapTmp, oldSnapshot, oldWal>> /\ phase' = "recover"
          /\ phase \in {"drained", "close", "rename", "renameWal", "reopen"}
      BY <2>9 DEF RotationFails
    <3> QED BY <1>0, <1>2, <1>a, <1>d, <1>e, <1>f, <3>1, DiskQuiet DEF Copying, Rotating
  <2> QED BY <2>1, <2>2, <2>3, <2>4, <2>5, <2>6, <2>7, <2>8, <2>9
<1> QED BY <1>2, <1>3 DEF AnswerInv

\* The steps that let calls go on, and the ends of a rotation.
LEMMA AnswerOpStep ==
  ASSUME RefusalTypes, AnswerInv,
         \/ \E n \in Calls : PassGate(n)
         \/ Reopen \/ BackupDone \/ \E s \in {"open", "closed"} : RecoverRotation(s)
  PROVE  AnswerInv'
<1> USE DEF callVars, storeVars, walVars, diskVars, compactVars, backupVars, historyVars, countVars
<1>a. AnswerCore /\ AnswerDisk /\ AnswerCopy /\ AnswerOld
  BY DEF AnswerInv, AnswerDisk
<1>b. Len(wal) \in Nat /\ synced \in 0 .. Len(wal)
  BY <1>a DEF AnswerCore, DataTypes
<1>c. synced \in synced .. Len(wal)
  BY <1>b
<1>d. op \in [Calls -> Stages]
  BY DEF RefusalTypes
<1>0. /\ UNCHANGED <<calls, log, acked, queue, inflight, flushing, wal, synced, undo, prev, seq, store>>
      /\ UNCHANGED <<snapshot, oldSnapshot, oldWal>>
  BY DEF PassGate, Reopen, BackupDone, RecoverRotation
<1>1. ASSUME NEW n \in Calls
      PROVE  \/ op'[n] = op[n]
             \/ op[n] \in {"called", "parked", "waiting"} /\ op'[n] \in {"called", "ready", "done", "retrying"}
  <2>1. CASE \E m \in Calls : PassGate(m)
    <3>1. PICK m \in Calls : PassGate(m)
      BY <2>1
    <3>2. op[m] = "called" /\ \E x \in {"done", "ready"} : op' = [op EXCEPT ![m] = x]
      BY <3>1 DEF PassGate, PastGate
    <3> QED BY <1>d, <3>2
  <2>2. CASE Release("compaction") \/ Release("backup")
    BY <2>2 DEF Release
  <2> QED BY <2>1, <2>2 DEF Reopen, BackupDone, RecoverRotation
<1>2. /\ AnswerCore' /\ Platter \subseteq Platter'
      /\ \A n \in ToSet(log) : op[n] \in Fixed => op'[n] \in Fixed
  <2>1. synced' \in synced .. Len(wal)
    BY <1>0, <1>c
  <2> QED BY <1>0, <1>1, <1>a, <2>1, AnswerSame
<1>3. AnswerDisk'
  <2>1. CASE (\E n \in Calls : PassGate(n)) \/ BackupDone
    <3>1. UNCHANGED <<copiedUpTo, walTmp, snapTmp, visited, walState, phase>>
      BY <2>1 DEF PassGate, BackupDone
    <3>2. walTmp \in Seq(Calls) /\ copiedUpTo \in Nat /\ snapTmp = [k \in Keys |-> snapTmp[k]]
      BY <1>a DEF AnswerCopy
    <3>3. (oldSnapshot # None => phase = "syncSnapshot") /\ (oldWal # None => phase = "syncWal")
      BY <1>a DEF AnswerOld
    <3>4. /\ phase \in {"close", "rename", "syncSnapshot", "renameWal"} => copiedUpTo = Len(wal)
          /\ phase \in {"syncSnapshot", "renameWal"} => snapshot = snapTmp
          /\ phase \in Rotating => walState # "open"
          /\ phase \in Rotating \ {"drain"} => Flushed
      BY <1>a DEF AnswerCopy
    <3> QED BY <1>0, <1>2, <1>a, <3>1, <3>2, <3>3, <3>4, DiskQuiet
  <2>2. CASE Reopen \/ \E s \in {"open", "closed"} : RecoverRotation(s)
    <3>1. /\ phase \in {"reopen", "recover"}
          /\ phase' = "idle" /\ copiedUpTo' = 0 /\ walTmp' = <<>> /\ snapTmp' = Nothing
      BY <2>2 DEF Reopen, RecoverRotation, Forget
    <3>2. oldSnapshot = None /\ oldWal = None
      BY <1>a, <3>1 DEF AnswerOld
    <3>3. <<>> \in Seq(Calls) /\ 0 \in Nat /\ Nothing = [k \in Keys |-> Nothing[k]]
      BY EmptyListProps DEF Nothing
    <3> QED BY <1>0, <1>2, <1>a, <3>1, <3>2, <3>3, DiskQuiet DEF Copying, Rotating
  <2> QED BY <2>1, <2>2
<1> QED BY <1>2, <1>3 DEF AnswerInv
-----------------------------------------------------------------------------
\* Steps that write the files of a compaction.

\* Copying the tail leaves what the snapshot is to have.
LEMMA TailGrows ==
  ASSUME wal \in Seq(Calls), walTmp \in Seq(Calls), copiedUpTo \in Nat,
         Len(walTmp) <= copiedUpTo, copiedUpTo <= Len(wal),
         \A i \in DOMAIN walTmp : walTmp[i] = wal[Start + i],
         wal' = wal, CopyTail
  PROVE  /\ Start' = Start /\ walTmp' \in Seq(Calls) /\ copiedUpTo' \in Nat
         /\ Len(walTmp') <= copiedUpTo' /\ copiedUpTo' <= Len(wal')
         /\ \A i \in DOMAIN walTmp' : walTmp'[i] = wal'[Start' + i]
<1> DEFINE t == SubSeq(wal, copiedUpTo + 1, Len(wal))
<1>1. Len(wal) \in Nat /\ Len(walTmp) \in Nat /\ DOMAIN walTmp = 1 .. Len(walTmp)
  OBVIOUS
<1>2. walTmp' = walTmp \o t /\ copiedUpTo' = Len(wal)
  BY DEF CopyTail
<1>3. /\ t \in Seq(Calls) /\ Len(t) = Len(wal) - copiedUpTo
      /\ \A i \in 1 .. Len(t) : t[i] = wal[copiedUpTo + i]
  <2>1. t \in Seq(Calls)
    <3>1. copiedUpTo + 1 \in Nat \ {0} /\ Len(wal) <= Len(wal)
      BY <1>1
    <3> QED BY <1>1, <3>1, SubSeqProps
  <2>2. Len(t) = Len(wal) - copiedUpTo /\ \A i \in 1 .. Len(t) : t[i] = wal[copiedUpTo + i]
    BY <1>1
  <2> QED BY <2>1, <2>2
<1> HIDE DEF t
<1>4. /\ walTmp' \in Seq(Calls) /\ Len(walTmp') = Len(walTmp) + Len(t)
      /\ DOMAIN walTmp' = 1 .. Len(walTmp) + Len(t)
      /\ \A i \in 1 .. Len(walTmp) + Len(t) :
           walTmp'[i] = IF i <= Len(walTmp) THEN walTmp[i] ELSE t[i - Len(walTmp)]
  <2>1. /\ walTmp \o t \in Seq(Calls) /\ Len(walTmp \o t) = Len(walTmp) + Len(t)
        /\ \A i \in 1 .. Len(walTmp) + Len(t) :
             (walTmp \o t)[i] = IF i <= Len(walTmp) THEN walTmp[i] ELSE t[i - Len(walTmp)]
    BY <1>1, <1>3, ConcatProperties
  <2>2. DOMAIN (walTmp \o t) = 1 .. Len(walTmp) + Len(t)
    BY <2>1
  <2> QED BY <1>2, <2>1, <2>2
<1>5. Start \in Nat /\ Start = copiedUpTo - Len(walTmp)
  BY <1>1 DEF Start
<1>6. Start' = Start
  <2>1. Start' = copiedUpTo' - Len(walTmp')
    BY DEF Start
  <2>2. copiedUpTo' - Len(walTmp') = copiedUpTo - Len(walTmp)
    BY <1>1, <1>2, <1>3, <1>4
  <2> QED BY <1>5, <2>1, <2>2
<1>7. ASSUME NEW i \in DOMAIN walTmp' PROVE walTmp'[i] = wal[Start + i]
  <2>1. i \in Int /\ 1 <= i /\ i <= Len(walTmp) + Len(t)
    BY <1>1, <1>3, <1>4
  <2>2. CASE i <= Len(walTmp)
    BY <1>1, <1>4, <2>1, <2>2
  <2>3. CASE ~ (i <= Len(walTmp))
    <3>1. i - Len(walTmp) \in 1 .. Len(t)
      BY <1>1, <1>3, <2>1, <2>3
    <3>2. copiedUpTo + (i - Len(walTmp)) = Start + i
      BY <1>1, <1>5, <2>1
    <3>3. t[i - Len(walTmp)] = wal[copiedUpTo + (i - Len(walTmp))]
      BY <1>3, <3>1
    <3> QED BY <1>4, <2>3, <3>2, <3>3
  <2> QED BY <2>2, <2>3
<1>8. Len(walTmp') <= copiedUpTo' /\ copiedUpTo' <= Len(wal') /\ copiedUpTo' \in Nat
  BY <1>1, <1>2, <1>3, <1>4
<1> QED BY <1>4, <1>6, <1>7, <1>8

\* The old log is what the snapshot has and then the new log.
LEMMA TailParts ==
  ASSUME wal \in Seq(Calls), walTmp \in Seq(Calls), copiedUpTo = Len(wal), Len(walTmp) <= Len(wal),
         \A i \in DOMAIN walTmp : walTmp[i] = wal[Start + i], Chain(log, wal)
  PROVE  LET Done == {wal[i] : i \in 1 .. Start}
         IN  /\ ToSet(walTmp) = {wal[i] : i \in Start + 1 .. Len(wal)}
             /\ ToSet(wal) = Done \cup ToSet(walTmp)
             /\ \A n, m : n \in Done /\ m \in ToSet(walTmp) => Before(log, n, m)
             /\ Chain(log, walTmp)
<1> DEFINE Done == {wal[i] : i \in 1 .. Start}
<1>1. /\ Len(wal) \in Nat /\ DOMAIN wal = 1 .. Len(wal)
      /\ Len(walTmp) \in Nat /\ DOMAIN walTmp = 1 .. Len(walTmp)
  OBVIOUS
<1>2. Start \in Nat /\ Start <= Len(wal) /\ Start + Len(walTmp) = Len(wal)
  BY <1>1 DEF Start
<1>3. /\ \A i \in 1 .. Len(walTmp) : Start + i \in Start + 1 .. Len(wal)
      /\ \A j \in Start + 1 .. Len(wal) : j - Start \in 1 .. Len(walTmp) /\ Start + (j - Start) = j
      /\ 1 .. Start \subseteq 1 .. Len(wal) /\ Start + 1 .. Len(wal) \subseteq 1 .. Len(wal)
      /\ \A j \in 1 .. Len(wal) : j \in 1 .. Start \/ j \in Start + 1 .. Len(wal)
      /\ \A i \in 1 .. Start, j \in Start + 1 .. Len(wal) : i < j
  BY <1>1, <1>2
<1>4. ToSet(walTmp) = {wal[j] : j \in Start + 1 .. Len(wal)}
  <2>1. \A i \in 1 .. Len(walTmp) : walTmp[i] \in {wal[j] : j \in Start + 1 .. Len(wal)}
    BY <1>1, <1>3
  <2>2. \A j \in Start + 1 .. Len(wal) : wal[j] = walTmp[j - Start]
    BY <1>1, <1>3
  <2> QED BY <1>1, <1>3, <2>1, <2>2 DEF ToSet
<1>5. ToSet(wal) = Done \cup ToSet(walTmp)
  BY <1>1, <1>3, <1>4 DEF ToSet
<1>6. ASSUME NEW n \in Done, NEW m \in ToSet(walTmp) PROVE Before(log, n, m)
  <2>1. PICK i \in 1 .. Start : n = wal[i]
    OBVIOUS
  <2>2. PICK j \in Start + 1 .. Len(wal) : m = wal[j]
    BY <1>4
  <2>3. i \in DOMAIN wal /\ j \in DOMAIN wal /\ i < j
    BY <1>1, <1>3
  <2> QED BY <2>1, <2>2, <2>3 DEF Chain
<1>7. Chain(log, walTmp)
  <2> SUFFICES ASSUME NEW i \in 1 .. Len(walTmp), NEW j \in 1 .. Len(walTmp), i < j
               PROVE  Before(log, walTmp[i], walTmp[j])
    BY <1>1 DEF Chain
  <2>1. Start + i \in 1 .. Len(wal) /\ Start + j \in 1 .. Len(wal) /\ Start + i < Start + j
    BY <1>1, <1>2
  <2>2. Before(log, wal[Start + i], wal[Start + j])
    BY <1>1, <2>1 DEF Chain
  <2> QED BY <1>1, <2>2
<1> QED BY <1>4, <1>5, <1>6, <1>7

\* What the store has of a key will do for the new snapshot.
LEMMA StoreAnswers ==
  ASSUME AnswerCore, NEW k \in Keys, DeletedOnce(k)
  PROVE  Fresh(calls, log, acked \ Late, k, store[k])
<1>1. Fresh(calls, log, Answerable, k, store[k])
  BY DEF AnswerCore, AnswerStore
<1>2. \A a \in acked \ Late : a \in Answerable
  BY DEF Answerable
<1> QED BY <1>1, <1>2, FreshLess

LEMMA AnswerCopyStep ==
  ASSUME RefusalTypes, AnswerInv,
         \/ Fence \/ (\E k \in Keys : WriteRecord(k)) \/ SnapshotWritten \/ PreCopy \/ DrainedTail
         \/ RenameSnapshot
  PROVE  AnswerInv'
<1> USE DEF callVars, storeVars, walVars, diskVars, compactVars, backupVars, historyVars, countVars
<1>a. AnswerCore /\ AnswerDisk /\ AnswerCopy /\ AnswerOld
  BY DEF AnswerInv, AnswerDisk
<1>b. wal \in Seq(Calls) /\ Len(wal) \in Nat /\ synced \in 0 .. Len(wal)
  BY <1>a DEF AnswerCore, DataTypes
<1>c. synced \in synced .. Len(wal)
  BY <1>b
<1>0. /\ UNCHANGED <<calls, op, log, acked, queue, inflight, flushing, wal, synced, undo, prev, seq, store>>
      /\ UNCHANGED <<oldWal, walState>> /\ phase \in {"fence", "snapshot", "precopy", "drained", "rename"}
  BY DEF Fence, WriteRecord, SnapshotWritten, PreCopy, DrainedTail, RenameSnapshot
<1>1. oldSnapshot = None /\ oldWal = None
  BY <1>0, <1>a DEF AnswerOld
<1>2. /\ AnswerCore' /\ Framed' = Framed /\ Unwritten' = Unwritten
  <2>1. \A n \in Calls : op'[n] = op[n]
    BY <1>0
  <2> QED BY <1>0, <1>c, <1>a, <2>1, AnswerSame
<1>3. Platter' = Platter /\ Flushed' = Flushed
  BY <1>0 DEF Platter, Flushed
<1>4. \A k \in Keys : DeletedOnce(k)' => DeletedOnce(k)
  BY <1>0 DEF DeletedOnce, Writes
<1>5. \A k \in Keys : DeletedOnce(k) => AnswerFiles(k) /\ (AnswerSnap(k, snapshot) /\ snapshot' = snapshot => AnswerSnap(k, snapshot)')
  BY <1>0, <1>3, <1>a DEF AnswerDisk, AnswerSnap
<1>6. /\ phase \in Copying =>
           /\ walTmp \in Seq(Calls) /\ copiedUpTo \in Nat /\ snapTmp = [k \in Keys |-> snapTmp[k]]
           /\ Len(walTmp) <= copiedUpTo /\ copiedUpTo <= Len(wal)
           /\ \A i \in DOMAIN walTmp : walTmp[i] = wal[Start + i]
           /\ ToSet(inflight) \subseteq Late
      /\ phase \in Rotating => walState # "open"
      /\ phase \in Rotating \ {"drain"} => Flushed
  BY <1>a DEF AnswerCopy
<1>7. ASSUME Fence PROVE AnswerDisk'
  <2>1. /\ UNCHANGED <<snapshot, oldSnapshot>> /\ Flushed /\ phase = "fence" /\ phase' = "snapshot"
        /\ copiedUpTo' = Len(wal) /\ snapTmp' = Nothing /\ visited' = {} /\ walTmp' = <<>>
    BY <1>7 DEF Fence
  <2>2. AnswerCopy'
    <3>1. walTmp' \in Seq(Calls) /\ Len(walTmp') = 0 /\ DOMAIN walTmp' = {}
      BY <2>1
    <3>2. Len(walTmp') <= copiedUpTo' /\ copiedUpTo' <= Len(wal') /\ copiedUpTo' \in Nat
      BY <1>0, <1>b, <2>1, <3>1
    <3>3. ToSet(inflight') = {}
      BY <1>0, <2>1 DEF Flushed, ToSet
    <3>4. snapTmp' = [k \in Keys |-> snapTmp'[k]]
      BY <2>1 DEF Nothing
    <3> QED BY <2>1, <3>1, <3>2, <3>3, <3>4 DEF AnswerCopy, Rotating
  <2>3. \A k \in Keys : snapTmp'[k] = Absent
    BY <2>1 DEF Nothing
  <2>4. AnswerOld'
    BY <1>0, <1>1, <2>1 DEF AnswerOld
  <2> QED BY <1>1, <1>4, <1>5, <2>1, <2>2, <2>3, <2>4 DEF AnswerDisk, AnswerFiles
<1>8. ASSUME NEW k \in Keys, WriteRecord(k) PROVE AnswerDisk'
  <2>1. /\ UNCHANGED <<snapshot, oldSnapshot, copiedUpTo, walTmp>> /\ phase = "snapshot" /\ phase' = "snapshot"
        /\ snapTmp' = [snapTmp EXCEPT ![k] = store[k]] /\ visited' = visited \cup {k}
    BY <1>8 DEF WriteRecord
  <2>2. Start' = Start /\ Late' = Late
    BY <1>0, <1>2, <2>1 DEF Start, Late
  <2>3. /\ snapTmp' = [j \in Keys |-> IF j = k THEN store[k] ELSE snapTmp[j]]
        /\ snapTmp'[k] = store[k] /\ \A j \in Keys : j # k => snapTmp'[j] = snapTmp[j]
    BY <1>6, <2>1 DEF Copying
  <2>4. AnswerCopy'
    <3>1. snapTmp' = [j \in Keys |-> snapTmp'[j]]
      BY <2>3
    <3> QED BY <1>0, <1>6, <2>1, <2>2, <3>1 DEF AnswerCopy, Rotating, Copying
  <2>5. AnswerOld'
    BY <1>0, <1>1, <2>1 DEF AnswerOld
  <2>6. ASSUME NEW j \in Keys, DeletedOnce(j)
        PROVE  AnswerTmp(j)' \/ (phase' = "snapshot" /\ j \notin visited' /\ snapTmp'[j] = Absent)
    <3>1. CASE j = k
      <4>1. Fresh(calls, log, acked \ Late, k, store[k])
        BY <1>a, <2>6, <3>1, StoreAnswers
      <4> QED BY <1>0, <2>2, <2>3, <3>1, <4>1 DEF AnswerTmp
    <3>2. CASE j # k
      <4>1. AnswerTmp(j) => AnswerTmp(j)'
        BY <1>0, <2>2, <2>3, <3>2 DEF AnswerTmp
      <4> QED BY <1>5, <2>1, <2>3, <2>6, <3>2, <4>1 DEF AnswerFiles, Copying
    <3> QED BY <3>1, <3>2
  <2> QED BY <1>1, <1>4, <1>5, <2>1, <2>4, <2>5, <2>6 DEF AnswerDisk, AnswerFiles
<1>9. ASSUME SnapshotWritten PROVE AnswerDisk'
  <2>1. /\ UNCHANGED <<snapshot, oldSnapshot, copiedUpTo, walTmp, snapTmp>>
        /\ phase = "snapshot" /\ phase' = "precopy"
        /\ \A k \in Keys : k \in visited \/ store[k] = Absent
    BY <1>9 DEF SnapshotWritten
  <2>2. Start' = Start /\ Late' = Late
    BY <1>0, <1>2, <2>1 DEF Start, Late
  <2>3. AnswerCopy'
    BY <1>0, <1>6, <2>1, <2>2 DEF AnswerCopy, Rotating, Copying
  <2>4. AnswerOld'
    BY <1>0, <1>1, <2>1 DEF AnswerOld
  <2>5. ASSUME NEW k \in Keys, DeletedOnce(k) PROVE AnswerTmp(k)'
    <3>1. AnswerTmp(k) => AnswerTmp(k)'
      BY <1>0, <2>1, <2>2 DEF AnswerTmp
    <3>2. CASE k \notin visited /\ snapTmp[k] = Absent
      <4>1. store[k] = snapTmp[k]
        BY <2>1, <3>2
      <4>2. Fresh(calls, log, acked \ Late, k, store[k])
        BY <1>a, <2>5, StoreAnswers
      <4> QED BY <3>1, <4>1, <4>2 DEF AnswerTmp
    <3> QED BY <1>5, <2>1, <2>5, <3>1, <3>2 DEF AnswerFiles, Copying
  <2> QED BY <1>1, <1>4, <1>5, <2>1, <2>3, <2>4, <2>5 DEF AnswerDisk, AnswerFiles
<1>10. ASSUME PreCopy \/ DrainedTail PROVE AnswerDisk'
  <2>1. /\ UNCHANGED <<snapshot, oldSnapshot, snapTmp>> /\ CopyTail
        /\ \/ phase = "precopy" /\ phase' = "precopy"
           \/ phase = "drained" /\ phase' = "drain"
    BY <1>10 DEF PreCopy, DrainedTail
  <2>2. phase \in Copying /\ wal' = wal
    BY <1>0, <2>1 DEF Copying
  <2>3. /\ Start' = Start /\ walTmp' \in Seq(Calls) /\ copiedUpTo' \in Nat
        /\ Len(walTmp') <= copiedUpTo' /\ copiedUpTo' <= Len(wal')
        /\ \A i \in DOMAIN walTmp' : walTmp'[i] = wal'[Start' + i]
    BY <1>6, <1>b, <2>1, <2>2, TailGrows
  <2>4. Late' = Late
    BY <1>0, <1>2, <2>3 DEF Late
  <2>5. AnswerCopy'
    BY <1>0, <1>6, <2>1, <2>2, <2>3, <2>4 DEF AnswerCopy, Rotating
  <2>6. AnswerOld'
    BY <1>0, <1>1, <2>1 DEF AnswerOld
  <2>7. \A k \in Keys : DeletedOnce(k) => AnswerTmp(k)'
    <3>1. \A k \in Keys : AnswerTmp(k) => AnswerTmp(k)'
      BY <1>0, <2>1, <2>4 DEF AnswerTmp
    <3> QED BY <1>5, <2>1, <2>2, <3>1 DEF AnswerFiles
  <2> QED BY <1>1, <1>4, <1>5, <2>1, <2>5, <2>6, <2>7 DEF AnswerDisk, AnswerFiles
<1>11. ASSUME RenameSnapshot PROVE AnswerDisk'
  <2>1. /\ UNCHANGED <<copiedUpTo, walTmp, snapTmp>> /\ phase = "rename" /\ phase' = "syncSnapshot"
        /\ oldSnapshot' = snapshot /\ snapshot' = snapTmp
    BY <1>11 DEF RenameSnapshot, AfterSnapshotRenamed
  <2>2. Start' = Start /\ Late' = Late
    BY <1>0, <1>2, <2>1 DEF Start, Late
  <2>3. Flushed /\ copiedUpTo = Len(wal) /\ phase \in Copying
    BY <1>a, <2>1 DEF AnswerCopy, Rotating, Copying
  <2>4. AnswerCopy'
    BY <1>0, <1>3, <1>6, <2>1, <2>2, <2>3 DEF AnswerCopy, Rotating, Copying
  <2>5. AnswerOld'
    BY <1>0, <1>1, <2>1 DEF AnswerOld
  <2>6. \A a \in acked \ ToSet(wal) : a \in acked \ Late
    <3>1. ToSet(queue) = {} /\ ToSet(Unwritten) = {}
      BY <2>3 DEF Flushed, Unwritten, ToSet
    <3>2. Start \in Nat
      BY <1>6, <2>3 DEF Start
    <3>3. Start + 1 .. Len(wal) \subseteq 1 .. Len(wal)
      BY <1>b, <3>2
    <3>4. Late \subseteq ToSet(wal)
      BY <1>b, <3>1, <3>3 DEF Late, ToSet
    <3> QED BY <3>4
  <2>7. ASSUME NEW k \in Keys, DeletedOnce(k)
        PROVE  AnswerTmp(k)' /\ AnswerSnap(k, snapshot)' /\ AnswerSnap(k, oldSnapshot)'
    <3>1. AnswerTmp(k)
      BY <1>5, <2>1, <2>3, <2>7 DEF AnswerFiles
    <3>2. AnswerTmp(k)'
      BY <1>0, <2>1, <2>2, <3>1 DEF AnswerTmp
    <3>3. Fresh(calls, log, acked \ ToSet(wal), k, snapTmp[k])
      BY <2>6, <3>1, FreshLess DEF AnswerTmp
    <3>4. AnswerSnap(k, snapshot)
      BY <1>5, <2>7 DEF AnswerFiles
    <3> QED BY <1>0, <1>3, <2>1, <3>2, <3>3, <3>4 DEF AnswerSnap
  <2> QED BY <1>4, <2>4, <2>5, <2>7 DEF AnswerDisk, AnswerFiles
<1>12. AnswerDisk'
  BY <1>7, <1>8, <1>9, <1>10, <1>11
<1> QED BY <1>2, <1>12 DEF AnswerInv

LEMMA AnswerRenameWalStep ==
  ASSUME AnswerInv, RenameWal
  PROVE  AnswerInv'
<1> USE DEF callVars, storeVars, walVars, diskVars, compactVars, backupVars, historyVars, countVars
<1>a. AnswerCore /\ AnswerDisk /\ AnswerCopy /\ AnswerOld /\ DataTypes /\ AnswerFlow /\ AnswerWal /\ SeqInv
  BY DEF AnswerInv, AnswerDisk, AnswerCore
<1>0. /\ UNCHANGED <<calls, op, undo, store, seq, prev, queue, inflight, flushing, walState, log, acked>>
      /\ UNCHANGED <<copiedUpTo, walTmp, snapTmp, visited, snapshot, oldSnapshot>>
      /\ phase = "renameWal" /\ phase' = "syncWal"
      /\ oldWal' = wal /\ wal' = walTmp /\ synced' = Len(walTmp)
  BY DEF RenameWal
<1>1. /\ Flushed /\ flushing = "no" /\ ToSet(queue) = {} /\ ToSet(inflight) = {}
      /\ ToSet(Unwritten) = {} /\ Unwritten' = Unwritten
  <2>1. Flushed
    BY <1>a, <1>0 DEF AnswerCopy, Rotating
  <2> QED BY <1>a, <1>0, <2>1 DEF AnswerWal, Flushed, Unwritten, ToSet
<1>2. /\ wal \in Seq(Calls) /\ walTmp \in Seq(Calls) /\ Len(walTmp) \in Nat
      /\ copiedUpTo = Len(wal) /\ Len(walTmp) <= Len(wal) /\ snapshot = snapTmp
      /\ \A i \in DOMAIN walTmp : walTmp[i] = wal[Start + i]
      /\ Chain(log, wal)
  BY <1>a, <1>0 DEF DataTypes, AnswerCopy, AnswerWal, Copying
<1> DEFINE Done == {wal[i] : i \in 1 .. Start}
<1>3. /\ ToSet(walTmp) = {wal[i] : i \in Start + 1 .. Len(wal)}
      /\ ToSet(wal) = Done \cup ToSet(walTmp)
      /\ \A n, m : n \in Done /\ m \in ToSet(walTmp) => Before(log, n, m)
      /\ Chain(log, walTmp)
  BY <1>2, TailParts
<1>4. Late = ToSet(walTmp)
  BY <1>1, <1>3 DEF Late
<1> HIDE DEF Done
<1>5. Framed = ToSet(wal) /\ Framed' = ToSet(walTmp)
  BY <1>0, <1>1 DEF Framed
<1>6. DataTypes'
  BY <1>a, <1>0, <1>2 DEF DataTypes
<1>7. AnswerFlow'
  <2>1. Framed' \subseteq Framed /\ ToSet(wal') \subseteq ToSet(wal)
    BY <1>0, <1>3, <1>5
  <2>2. Framed' \cup ToSet(inflight') \cup ToSet(undo') \cup acked' \subseteq ToSet(log')
    BY <1>a, <1>0, <2>1 DEF AnswerFlow
  <2>3. \A n \in ToSet(wal') : op'[n] \in Fixed
    BY <1>a, <1>0, <2>1 DEF AnswerFlow
  <2> QED BY <1>a, <1>0, <2>2, <2>3 DEF AnswerFlow
<1>8. Precede(log, acked \ ToSet(wal), ToSet(wal))
  BY <1>a, <1>5 DEF AnswerWal
<1>9. AnswerWal'
  <2>1. Precede(log, acked \ ToSet(walTmp), ToSet(walTmp))
    BY <1>3, <1>8 DEF Precede
  <2>2. Precede(log, ToSet(walTmp), {}) /\ {} \cup {} = {} /\ Precede(log, {}, {})
    BY DEF Precede
  <2>3. synced' + 1 .. Len(wal') = {}
    BY <1>0, <1>2
  <2>4. Chain(log, inflight) /\ Chain(log, queue) /\ (flushing = "no" <=> inflight = <<>>)
    BY <1>a DEF AnswerWal
  <2> QED BY <1>0, <1>1, <1>3, <1>5, <2>1, <2>2, <2>3, <2>4 DEF AnswerWal
<1>10. SeqInv'
  BY <1>a, <1>0 DEF SeqInv, Writes
<1>11. \A k \in Keys : DeletedOnce(k)' => DeletedOnce(k)
  BY <1>0 DEF DeletedOnce, Writes
<1>12. AnswerCore'
  <2>1. Answerable' = Answerable /\ \A n : Earlier(n)' = Earlier(n)
    BY <1>0 DEF Answerable, Earlier
  <2>2. \A k \in Keys : AnswerStore(k) => AnswerStore(k)'
    BY <1>0, <2>1 DEF AnswerStore
  <2>3. \A k \in Keys : DeletedOnce(k) => AnswerStore(k)
    BY <1>a DEF AnswerCore
  <2> QED BY <1>6, <1>7, <1>9, <1>10, <1>11, <2>2, <2>3 DEF AnswerCore
<1>13. AnswerCopy'
  BY <1>a, <1>0, <1>1 DEF AnswerCopy, Copying, Rotating, Flushed
<1>14. AnswerOld'
  <2>1. oldSnapshot = None
    BY <1>a, <1>0 DEF AnswerOld
  <2>2. ToSet(wal) \subseteq ToSet(log) /\ \A n \in ToSet(wal) : op[n] \in Fixed
    BY <1>a, <1>5 DEF AnswerFlow
  <2> QED BY <1>0, <1>2, <1>3, <1>8, <2>1, <2>2 DEF AnswerOld
<1>15. ASSUME NEW k \in Keys, DeletedOnce(k) PROVE AnswerFiles(k)'
  <2>1. AnswerTmp(k) /\ oldSnapshot = None
    BY <1>a, <1>0, <1>15 DEF AnswerDisk, AnswerFiles, Copying, AnswerOld
  <2>2. Fresh(calls, log, acked \ ToSet(walTmp), k, snapshot[k])
    BY <1>2, <1>4, <2>1 DEF AnswerTmp
  <2> QED BY <1>0, <2>1, <2>2 DEF AnswerFiles, AnswerSnap, Copying
<1> QED BY <1>11, <1>12, <1>13, <1>14, <1>15 DEF AnswerInv, AnswerDisk
-----------------------------------------------------------------------------
\* Steps that leave the files of a compaction alone.

\* The calls l stay and write what they wrote, and what follows a call of A goes
\* on to follow it.
Followed(c, l, d, m, A) ==
  /\ A \subseteq ToSet(l)
  /\ \A b \in ToSet(l) : b \in ToSet(m) /\ d[b] = c[b]
  /\ \A a \in A, b \in ToSet(l) : Before(l, a, b) => Before(m, a, b)

LEMMA FollowedSame ==
  ASSUME UNCHANGED <<calls, log>>
  PROVE  Followed(calls, log, calls', log', ToSet(log))
BY DEF Followed

\* A value that was new enough stays so for the calls of A.
LEMMA FollowedFresh ==
  ASSUME NEW c, NEW l, NEW d, NEW m, NEW A, Followed(c, l, d, m, A),
         NEW S, NEW R, R \subseteq A, R \subseteq S, NEW k, NEW v, Fresh(c, l, S, k, v)
  PROVE  Fresh(d, m, R, k, v)
<1>1. \A a \in R : k \in DOMAIN d[a] => a \in S /\ k \in DOMAIN c[a]
  BY DEF Followed
<1>2. \A a \in ToSet(l) : a \in ToSet(m) /\ d[a] = c[a]
  BY DEF Followed
<1>3. \A a \in R, b \in ToSet(l) : Before(l, a, b) => Before(m, a, b)
  BY DEF Followed
<1> QED BY <1>1, <1>2, <1>3, FreshMove

\* The calls of A stay in order with those that come after them.
LEMMA FollowedOrder ==
  ASSUME NEW c, NEW l, NEW d, NEW m, NEW A, Followed(c, l, d, m, A)
  PROVE  /\ \A s : ToSet(s) \subseteq A /\ Chain(l, s) => Chain(m, s)
         /\ \A S, T : S \subseteq A /\ T \subseteq ToSet(l) /\ Precede(l, S, T) => Precede(m, S, T)
<1>1. ASSUME NEW s, ToSet(s) \subseteq A, Chain(l, s) PROVE Chain(m, s)
  <2>1. \A i \in DOMAIN s : s[i] \in A
    BY <1>1 DEF ToSet
  <2> QED BY <1>1, <2>1 DEF Chain, Followed
<1>2. ASSUME NEW S, NEW T, S \subseteq A, T \subseteq ToSet(l), Precede(l, S, T) PROVE Precede(m, S, T)
  BY <1>2 DEF Precede, Followed
<1> QED BY <1>1, <1>2

\* What is in the files follows the answers that it has to follow, when no
\* answer leaves the log and none is new that it lacks.
LEMMA DiskKept ==
  ASSUME AnswerCore, AnswerDisk, NEW A, Followed(calls, log, calls', log', A),
         \A n \in ToSet(log) : op[n] \in Fixed => n \in A /\ op'[n] \in Fixed,
         acked' \ ToSet(wal') \subseteq acked \ ToSet(wal), Platter \subseteq Platter',
         \A k \in Keys : DeletedOnce(k)' => DeletedOnce(k),
         phase \in Copying => acked' \ Late' \subseteq acked \ Late /\ ToSet(inflight') \subseteq Late',
         phase \in Rotating \ {"drain"} => wal' = wal /\ acked' = acked /\ Flushed',
         \A i \in 1 .. Len(wal) : wal'[i] = wal[i], Len(wal') \in Nat, Len(wal) <= Len(wal'),
         visited' \subseteq visited,
         UNCHANGED <<copiedUpTo, walTmp, snapTmp, phase, snapshot, oldSnapshot, oldWal, walState>>
  PROVE  AnswerDisk'
<1>a. AnswerCopy /\ AnswerOld /\ AnswerFlow /\ DataTypes
  BY DEF AnswerDisk, AnswerCore
<1>b. wal \in Seq(Calls) /\ Len(wal) \in Nat
  BY <1>a DEF DataTypes
<1>1. /\ walTmp \in Seq(Calls) /\ copiedUpTo \in Nat /\ snapTmp = [k \in Keys |-> snapTmp[k]]
      /\ phase \in {"close", "rename", "syncSnapshot", "renameWal"} => copiedUpTo = Len(wal)
      /\ phase \in {"syncSnapshot", "renameWal"} => snapshot = snapTmp
      /\ phase \in Rotating => walState # "open"
  BY <1>a DEF AnswerCopy
<1>2. ASSUME phase \in Copying
      PROVE  /\ Len(walTmp') <= copiedUpTo' /\ copiedUpTo' <= Len(wal')
             /\ \A i \in DOMAIN walTmp' : walTmp'[i] = wal'[Start' + i]
  <2>1. /\ Len(walTmp) <= copiedUpTo /\ copiedUpTo <= Len(wal)
        /\ \A i \in DOMAIN walTmp : walTmp[i] = wal[Start + i]
    BY <1>a, <1>2 DEF AnswerCopy
  <2>2. Len(walTmp) \in Nat /\ DOMAIN walTmp = 1 .. Len(walTmp)
    BY <1>1
  <2>3. copiedUpTo <= Len(wal')
    BY <1>1, <1>b, <2>1, <2>2
  <2>4. \A i \in DOMAIN walTmp : Start + i \in 1 .. Len(wal)
    BY <1>1, <1>b, <2>1, <2>2 DEF Start
  <2>5. \A i \in DOMAIN walTmp : walTmp[i] = wal'[Start + i]
    BY <2>1, <2>4
  <2>6. Start' = Start
    BY DEF Start
  <2> QED BY <2>1, <2>3, <2>5, <2>6
<1>3. AnswerCopy'
  <2>1. phase' \in {"close", "rename", "syncSnapshot", "renameWal"} => copiedUpTo' = Len(wal')
    BY <1>1 DEF Rotating
  <2> QED BY <1>1, <1>2, <2>1 DEF AnswerCopy
<1>4. AnswerOld'
  <2>1. oldSnapshot' # None => phase' = "syncSnapshot"
    BY <1>a DEF AnswerOld
  <2>2. ASSUME oldWal # None
        PROVE  /\ phase' = "syncWal"
               /\ oldWal' \in Seq(Calls) /\ Chain(log', oldWal')
               /\ ToSet(wal') \subseteq ToSet(oldWal') /\ ToSet(oldWal') \subseteq ToSet(log')
               /\ \A n \in ToSet(oldWal') : op'[n] \in Fixed
               /\ Precede(log', acked' \ ToSet(oldWal'), ToSet(oldWal'))
    <3>1. /\ phase = "syncWal" /\ oldWal \in Seq(Calls) /\ Chain(log, oldWal)
          /\ ToSet(wal) \subseteq ToSet(oldWal) /\ ToSet(oldWal) \subseteq ToSet(log)
          /\ \A n \in ToSet(oldWal) : op[n] \in Fixed
          /\ Precede(log, acked \ ToSet(oldWal), ToSet(oldWal))
      BY <1>a, <2>2 DEF AnswerOld
    <3>2. wal' = wal /\ acked' = acked
      BY <3>1 DEF Rotating
    <3>3. ToSet(oldWal) \subseteq A /\ \A n \in ToSet(oldWal) : op'[n] \in Fixed
      BY <3>1
    <3>4. acked \subseteq A
      BY <1>a DEF AnswerFlow, Fixed
    <3>5. ToSet(oldWal) \subseteq ToSet(log')
      BY <3>1 DEF Followed
    <3>6. acked \ ToSet(oldWal) \subseteq A
      BY <3>4
    <3>7. Chain(log', oldWal) /\ Precede(log', acked \ ToSet(oldWal), ToSet(oldWal))
      BY <3>1, <3>3, <3>6, FollowedOrder
    <3> QED BY <3>1, <3>2, <3>3, <3>5, <3>7
  <2> QED BY <2>1, <2>2 DEF AnswerOld
<1>5. ASSUME NEW k \in Keys, DeletedOnce(k)' PROVE AnswerFiles(k)'
  <2>1. AnswerFiles(k)
    BY <1>5 DEF AnswerDisk
  <2>2. acked \subseteq A /\ ToSet(wal) \subseteq A
    BY <1>a DEF AnswerFlow, Fixed, Framed
  <2>3. Platter \subseteq ToSet(log)
    <3>1. 1 .. synced \subseteq 1 .. Len(wal)
      BY <1>a, <1>b DEF DataTypes
    <3>2. Platter \subseteq ToSet(wal)
      BY <1>b, <3>1 DEF Platter, ToSet
    <3> QED BY <1>a, <3>2 DEF AnswerFlow, Framed
  <2>4. ~ Untouched(calls, Platter, k) => ~ Untouched(calls', Platter', k)
    BY <2>3 DEF Untouched, Followed
  <2>5. ASSUME NEW s, AnswerSnap(k, s)
        PROVE  Fresh(calls', log', acked' \ ToSet(wal'), k, s[k]) \/ ~ Untouched(calls', Platter', k)
    <3>1. acked' \ ToSet(wal') \subseteq A
      BY <2>2
    <3>2. Fresh(calls, log, acked \ ToSet(wal), k, s[k]) => Fresh(calls', log', acked' \ ToSet(wal'), k, s[k])
      BY <3>1, FollowedFresh
    <3> QED BY <2>4, <2>5, <3>2 DEF AnswerSnap
  <2>6. AnswerSnap(k, snapshot)'
    <3>1. AnswerSnap(k, snapshot)
      BY <2>1 DEF AnswerFiles
    <3> QED BY <2>5, <3>1 DEF AnswerSnap
  <2>7. oldSnapshot' # None => AnswerSnap(k, oldSnapshot)'
    <3>1. oldSnapshot # None => AnswerSnap(k, oldSnapshot)
      BY <2>1 DEF AnswerFiles
    <3> QED BY <2>5, <3>1 DEF AnswerSnap
  <2>8. ASSUME phase \in Copying, AnswerTmp(k) PROVE AnswerTmp(k)'
    <3>1. acked' \ Late' \subseteq acked \ Late /\ acked' \ Late' \subseteq A
      BY <2>2, <2>8
    <3>2. Fresh(calls', log', acked' \ Late', k, snapTmp[k])
      BY <2>8, <3>1, FollowedFresh DEF AnswerTmp
    <3> QED BY <3>2 DEF AnswerTmp
  <2> QED BY <2>1, <2>6, <2>7, <2>8 DEF AnswerFiles
<1> QED BY <1>3, <1>4, <1>5 DEF AnswerDisk

\* The frames that follow those of the log.
LEMMA LogGrows ==
  ASSUME wal \in Seq(Calls), NEW x \in Seq(Calls), wal' = wal \o x
  PROVE  /\ wal' \in Seq(Calls) /\ Len(wal) \in Nat /\ Len(wal') \in Nat /\ Len(wal) <= Len(wal')
         /\ ToSet(wal') = ToSet(wal) \cup ToSet(x)
         /\ \A i \in 1 .. Len(wal) : wal'[i] = wal[i]
         /\ \A i \in Len(wal) + 1 .. Len(wal') : wal'[i] \in ToSet(x)
         /\ ToSet(x) \subseteq {wal'[i] : i \in Len(wal) + 1 .. Len(wal')}
<1>1. /\ Len(wal) \in Nat /\ Len(x) \in Nat /\ DOMAIN wal = 1 .. Len(wal) /\ DOMAIN x = 1 .. Len(x)
  OBVIOUS
<1>2. /\ wal' \in Seq(Calls) /\ Len(wal') = Len(wal) + Len(x)
      /\ \A i \in 1 .. Len(wal) + Len(x) :
           wal'[i] = IF i <= Len(wal) THEN wal[i] ELSE x[i - Len(wal)]
  BY ConcatProperties
<1>3. ToSet(wal') = ToSet(wal) \cup ToSet(x)
  BY ConcatProps
<1>4. ASSUME NEW i \in 1 .. Len(wal) PROVE wal'[i] = wal[i]
  BY <1>1, <1>2
<1>5. ASSUME NEW i \in Len(wal) + 1 .. Len(wal')
      PROVE  i - Len(wal) \in 1 .. Len(x) /\ wal'[i] = x[i - Len(wal)]
  BY <1>1, <1>2
<1>6. ASSUME NEW i \in 1 .. Len(x)
      PROVE  Len(wal) + i \in Len(wal) + 1 .. Len(wal') /\ wal'[Len(wal) + i] = x[i]
  <2>1. Len(wal) + i \in Len(wal) + 1 .. Len(wal') /\ (Len(wal) + i) - Len(wal) = i
    BY <1>1, <1>2
  <2> QED BY <1>5, <2>1
<1>7. Len(wal') \in Nat /\ Len(wal) <= Len(wal')
  BY <1>1, <1>2
<1> QED BY <1>1, <1>2, <1>3, <1>4, <1>5, <1>6, <1>7 DEF ToSet

\* Frames that are appended while a compaction copies are for the new log.
LEMMA LateGrows ==
  ASSUME AnswerCopy, phase \in Copying, UNCHANGED <<copiedUpTo, walTmp>>,
         wal \in Seq(Calls), NEW x \in Seq(Calls), wal' = wal \o x
  PROVE  {wal[i] : i \in Start + 1 .. Len(wal)} \cup ToSet(x) \subseteq {wal'[i] : i \in Start' + 1 .. Len(wal')}
<1>1. /\ Len(walTmp) \in Nat /\ copiedUpTo \in Nat /\ Len(walTmp) <= copiedUpTo /\ copiedUpTo <= Len(wal)
  BY DEF AnswerCopy
<1>2. Start \in Nat /\ Start <= Len(wal) /\ Start' = Start /\ Len(wal) \in Nat
  BY <1>1 DEF Start
<1>3. /\ Len(wal') \in Nat /\ Len(wal) <= Len(wal')
      /\ \A i \in 1 .. Len(wal) : wal'[i] = wal[i]
      /\ ToSet(x) \subseteq {wal'[i] : i \in Len(wal) + 1 .. Len(wal')}
  BY LogGrows
<1>4. /\ Start + 1 .. Len(wal) \subseteq 1 .. Len(wal) /\ Start + 1 .. Len(wal) \subseteq Start + 1 .. Len(wal')
      /\ Len(wal) + 1 .. Len(wal') \subseteq Start + 1 .. Len(wal')
  BY <1>2, <1>3
<1> QED BY <1>2, <1>3, <1>4

\* Of two calls that delete a key, one did not.
LEMMA OnlyDeleter ==
  ASSUME DataTypes, NEW k, DeletedOnce(k),
         NEW a \in DOMAIN calls, NEW b \in DOMAIN calls,
         k \in Writes(a) /\ ~ calls[a][k], k \in Writes(b) /\ ~ calls[b][k]
  PROVE  a = b
<1> DEFINE D == {n \in DOMAIN calls : k \in Writes(n) /\ ~ calls[n][k]}
<1>1. IsFiniteSet(D)
  <2>1. Len(calls) \in Nat /\ DOMAIN calls = 1 .. Len(calls)
    BY DEF DataTypes
  <2>2. IsFiniteSet(DOMAIN calls)
    BY <2>1, FS_Interval
  <2> QED BY <2>2, FS_Subset
<1>2. Cardinality(D) <= 1
  BY DEF DeletedOnce
<1>3. a \in D /\ b \in D
  OBVIOUS
<1> HIDE DEF D
<1>4. /\ IsFiniteSet(D \ {a}) /\ Cardinality(D \ {a}) = Cardinality(D) - 1
      /\ Cardinality(D) \in Nat /\ Cardinality(D \ {a}) \in Nat
  BY <1>1, <1>3, FS_RemoveElement, FS_CardinalityType
<1>5. Cardinality(D \ {a}) = 0
  BY <1>2, <1>4
<1>6. D \ {a} = {}
  BY <1>4, <1>5, FS_EmptySet
<1> QED BY <1>3, <1>6
-----------------------------------------------------------------------------
\* Calls and rollbacks

\* A new call is in no log.
LEMMA AnswerCallStep ==
  ASSUME RefusalTypes, AnswerInv, Call
  PROVE  AnswerInv'
<1> USE DEF callVars, storeVars, walVars, diskVars, compactVars, backupVars, historyVars, countVars
<1> DEFINE e == Len(calls) + 1
<1>a. AnswerCore /\ AnswerDisk /\ DataTypes /\ AnswerFlow /\ AnswerWal /\ SeqInv
  BY DEF AnswerInv, AnswerCore
<1>b. /\ op \in [Calls -> Stages] /\ calls \in Seq(Frames) /\ Len(calls) \in Nat /\ e \in Nat
      /\ ToSet(log) \subseteq Calls /\ DOMAIN calls = 1 .. Len(calls)
      /\ wal \in Seq(Calls) /\ Len(wal) \in Nat
  BY <1>a DEF RefusalTypes, DataTypes, ToSet
<1>1. /\ UNCHANGED <<prev, undo, store, seq, queue, inflight, flushing, walState, wal, synced, log, acked>>
      /\ UNCHANGED <<copiedUpTo, walTmp, snapTmp, visited, phase, snapshot, oldSnapshot, oldWal>>
      /\ Len(calls) < MaxCalls
  BY DEF Call
<1>2. PICK f \in Frames : calls' = Append(calls, f)
  BY DEF Call
<1>3. PICK x \in {"done", "ready", "parked"} : op' = [op EXCEPT ![e] = x]
  BY DEF Call, PastGate
<1>4. e \in Calls /\ op[e] = "none"
  <2>1. e \in Calls
    BY <1>1, <1>b, ConstantsAssumption DEF Calls
  <2>2. ~ (e <= Len(calls))
    BY <1>b
  <2> QED BY <1>a, <2>1, <2>2 DEF AnswerFlow
<1>5. /\ calls' \in Seq(Frames) /\ Len(calls') = e /\ Len(calls') <= MaxCalls
      /\ DOMAIN calls' = 1 .. e /\ e \in Nat /\ 1 .. Len(calls) \subseteq 1 .. e
      /\ \A n \in 1 .. Len(calls) : calls'[n] = calls[n]
  BY <1>1, <1>2, <1>b, ConstantsAssumption
<1>6. e <= e /\ \A n \in Nat : n <= Len(calls) => n <= e
  BY <1>b
<1> HIDE DEF e
<1>7. op'[e] = x /\ \A n \in Calls : n # e => op'[n] = op[n]
  BY <1>3, <1>4, <1>b
<1>8. \A n \in ToSet(log) : n # e /\ op'[n] = op[n] /\ n \in 1 .. Len(calls) /\ calls'[n] = calls[n]
  <2>1. \A n \in ToSet(log) : n \in Calls /\ op[n] # "none" /\ n <= Len(calls)
    BY <1>a, <1>b DEF AnswerFlow
  <2>2. \A n \in Calls : n <= Len(calls) => n \in 1 .. Len(calls)
    BY <1>b DEF Calls
  <2> QED BY <1>4, <1>5, <1>7, <2>1, <2>2
<1>9. Unwritten' = Unwritten /\ Framed' = Framed /\ Platter' = Platter /\ Answerable' = Answerable
  BY <1>1 DEF Unwritten, Framed, Platter, Answerable
<1>10. /\ ToSet(queue) \cup ToSet(inflight) \subseteq ToSet(log) /\ ToSet(undo) \subseteq ToSet(log)
       /\ acked \subseteq ToSet(log) /\ ToSet(wal) \subseteq ToSet(log)
  BY <1>a DEF AnswerFlow, Framed
<1>11. DataTypes'
  BY <1>a, <1>1, <1>5 DEF DataTypes
<1>12. AnswerFlow'
  <2>1. \A n \in Calls : op'[n] # "none" => n <= Len(calls')
    <3> SUFFICES ASSUME NEW n \in Calls, op'[n] # "none" PROVE n <= e
      BY <1>5
    <3>1. n \in Nat
      BY DEF Calls
    <3>2. n # e => n <= Len(calls)
      BY <1>a, <1>7 DEF AnswerFlow
    <3> QED BY <1>6, <3>1, <3>2
  <2>2. \A n \in ToSet(log') : op'[n] # "none"
    BY <1>a, <1>1, <1>8 DEF AnswerFlow
  <2>3. \A n \in ToSet(queue') \cup ToSet(inflight') : op'[n] = "logged"
    BY <1>a, <1>1, <1>8, <1>10 DEF AnswerFlow
  <2>4. \A n \in ToSet(undo') : op'[n] \in {"refused", "broken"}
    BY <1>a, <1>1, <1>8, <1>10 DEF AnswerFlow
  <2>5. \A n \in ToSet(wal') : op'[n] \in Fixed
    BY <1>a, <1>1, <1>8, <1>10 DEF AnswerFlow
  <2>6. \A n \in acked' : op'[n] = "done"
    BY <1>a, <1>1, <1>8, <1>10 DEF AnswerFlow
  <2> QED BY <1>a, <1>1, <1>9, <2>1, <2>2, <2>3, <2>4, <2>5, <2>6 DEF AnswerFlow
<1>13. AnswerWal'
  BY <1>a, <1>1, <1>9 DEF AnswerWal
<1>14. SeqInv'
  BY <1>a, <1>1, <1>8 DEF SeqInv, Writes
<1>15. Followed(calls, log, calls', log', ToSet(log))
  BY <1>1, <1>8 DEF Followed
<1>16. ASSUME NEW k \in Keys, DeletedOnce(k)' PROVE DeletedOnce(k)
  <2> DEFINE D == {n \in DOMAIN calls : k \in Writes(n) /\ ~ calls[n][k]}
             E == {n \in DOMAIN calls' : k \in DOMAIN calls'[n] /\ ~ calls'[n][k]}
  <2>1. D \subseteq E
    BY <1>5, <1>b DEF Writes
  <2>2. Cardinality(E) <= 1
    BY <1>16 DEF DeletedOnce, Writes
  <2>3. IsFiniteSet(E)
    <3>1. IsFiniteSet(1 .. e)
      BY <1>5, FS_Interval
    <3> QED BY <1>5, <3>1, FS_Subset
  <2> HIDE DEF D, E
  <2>4. Cardinality(D) <= Cardinality(E) /\ Cardinality(D) \in Nat /\ Cardinality(E) \in Nat
    BY <2>1, <2>3, FS_Subset, FS_CardinalityType
  <2>5. Cardinality(D) <= 1
    BY <2>2, <2>4
  <2> QED BY <2>5 DEF DeletedOnce, D
<1>17. ASSUME NEW k \in Keys, AnswerStore(k) PROVE AnswerStore(k)'
  <2>1. Answerable \subseteq ToSet(log)
    BY <1>10 DEF Answerable
  <2>2. \A n : Earlier(n)' = Earlier(n) /\ Earlier(n) \subseteq Answerable
    BY <1>1, <1>9 DEF Earlier
  <2>3. Fresh(calls', log', Answerable, k, store[k])
    BY <1>15, <1>17, <2>1, FollowedFresh DEF AnswerStore
  <2>4. ASSUME NEW n \in ToSet(queue) \cup ToSet(inflight) \cup ToSet(undo)
        PROVE  Fresh(calls', log', Earlier(n), k, prev[n][k])
    <3>1. Fresh(calls, log, Earlier(n), k, prev[n][k]) /\ Earlier(n) \subseteq ToSet(log)
      BY <1>17, <2>1, <2>2 DEF AnswerStore
    <3> QED BY <1>15, <3>1, FollowedFresh
  <2> QED BY <1>1, <1>9, <2>2, <2>3, <2>4 DEF AnswerStore
<1>18. AnswerCore'
  BY <1>a, <1>11, <1>12, <1>13, <1>14, <1>16, <1>17 DEF AnswerCore
<1>19. AnswerDisk'
  <2>1. \A n \in ToSet(log) : op[n] \in Fixed => n \in ToSet(log) /\ op'[n] \in Fixed
    BY <1>8
  <2>2. Late' = Late
    BY <1>1, <1>9 DEF Late, Start
  <2>3. phase \in Copying => ToSet(inflight') \subseteq Late'
    BY <1>a, <1>1, <2>2 DEF AnswerDisk, AnswerCopy
  <2>4. phase \in Rotating \ {"drain"} => Flushed'
    BY <1>a, <1>1 DEF AnswerDisk, AnswerCopy, Flushed
  <2>5. Len(wal') \in Nat /\ Len(wal) <= Len(wal') /\ visited' \subseteq visited
    BY <1>1, <1>b
  <2>6. Platter \subseteq Platter' /\ wal' = wal /\ acked' = acked
    BY <1>1, <1>9
  <2> QED BY <1>1, <1>15, <1>16, <1>a, <2>1, <2>2, <2>3, <2>4, <2>5, <2>6, DiskKept
<1> QED BY <1>18, <1>19 DEF AnswerInv

\* What a rollback puts back: the record is its own, so all that wrote the key
\* came before it.
LEMMA AnswerRollBackStep ==
  ASSUME RefusalTypes, AnswerInv, RollBack
  PROVE  AnswerInv'
<1> USE DEF callVars, storeVars, walVars, diskVars, compactVars, backupVars, historyVars, countVars
<1> DEFINE n == Head(undo)
<1>a. AnswerCore /\ AnswerDisk /\ DataTypes /\ AnswerFlow /\ AnswerWal /\ SeqInv
  BY DEF AnswerInv, AnswerCore
<1>b. /\ op \in [Calls -> Stages] /\ undo \in Seq(Calls) /\ undo # <<>>
      /\ calls \in Seq(Frames) /\ DOMAIN calls = 1 .. Len(calls) /\ Len(calls) \in Nat
      /\ log \in Seq(Calls) /\ IsInjective(log) /\ ToSet(log) \subseteq Calls /\ Len(wal) \in Nat
  BY <1>a DEF RefusalTypes, RollBack, DataTypes, ToSet
<1>1. /\ n \in Calls /\ n \in ToSet(undo) /\ n \in ToSet(log) /\ op[n] \in {"refused", "broken"}
      /\ Tail(undo) \in Seq(Calls) /\ IsInjective(Tail(undo)) /\ n \notin ToSet(Tail(undo))
      /\ ToSet(Tail(undo)) \subseteq ToSet(undo)
  <2>1. /\ n \in Calls /\ n \in ToSet(undo) /\ Tail(undo) \in Seq(Calls)
        /\ ToSet(undo) = {n} \cup ToSet(Tail(undo))
        /\ IsInjective(undo) => IsInjective(Tail(undo)) /\ n \notin ToSet(Tail(undo))
    BY <1>b, HeadTailProps
  <2> HIDE DEF n
  <2> QED BY <1>a, <2>1 DEF AnswerFlow
<1>2. /\ UNCHANGED <<calls, queue, inflight, flushing, wal, synced, log, acked>>
      /\ UNCHANGED <<copiedUpTo, walTmp, snapTmp, phase, snapshot, oldSnapshot, oldWal, walState>>
      /\ undo' = Tail(undo) /\ prev' = [prev EXCEPT ![n] = Nothing]
  BY DEF RollBack
<1>3. PICK x \in {"failed", "retrying", "waiting"} :
        op' = [op EXCEPT ![n] = x] /\ (op[n] = "broken" => x = "failed")
  BY <1>1, <1>b DEF RollBack
<1>4. visited' \subseteq visited
  BY DEF RollBack, Put, Revisit
<1>5. \A k \in Keys :
        /\ store'[k] = IF k \in Writes(n) /\ Own(n, k) THEN prev[n][k] ELSE store[k]
        /\ seq'[k] = IF k \in Writes(n) /\ Own(n, k) THEN 0 ELSE seq[k]
  BY DEF RollBack, Put
<1> HIDE DEF n
<1>6. op'[n] = x /\ \A m \in Calls : m # n => op'[m] = op[m]
  BY <1>1, <1>3, <1>b
<1>7. /\ ToSet(queue) \cup ToSet(inflight) \subseteq ToSet(log) /\ ToSet(undo) \subseteq ToSet(log)
      /\ acked \subseteq ToSet(log) /\ ToSet(wal) \subseteq ToSet(log)
  BY <1>a DEF AnswerFlow, Framed
<1>8. n \notin ToSet(queue) \cup ToSet(inflight) /\ n \notin acked
  BY <1>a, <1>1 DEF AnswerFlow
<1>9. Unwritten' = Unwritten /\ Framed' = Framed /\ Platter' = Platter /\ Answerable' = Answerable
  BY <1>2 DEF Unwritten, Framed, Platter, Answerable
<1>10. \A m \in ToSet(log) : op[m] \in Fixed => op'[m] \in Fixed
  BY <1>1, <1>3, <1>6, <1>b DEF Fixed
<1>11. DataTypes'
  BY <1>a, <1>2 DEF DataTypes
<1>12. AnswerFlow'
  <2>1. \A m \in Calls : op'[m] # "none" => m <= Len(calls')
    BY <1>a, <1>1, <1>2, <1>6 DEF AnswerFlow
  <2>2. \A m \in ToSet(log') : op'[m] # "none"
    BY <1>a, <1>2, <1>6, <1>b DEF AnswerFlow
  <2>3. \A m \in ToSet(queue') \cup ToSet(inflight') : op'[m] = "logged"
    BY <1>a, <1>2, <1>6, <1>7, <1>8, <1>b DEF AnswerFlow
  <2>4. \A m \in ToSet(undo') : op'[m] \in {"refused", "broken"}
    BY <1>a, <1>1, <1>2, <1>6, <1>7, <1>b DEF AnswerFlow
  <2>5. \A m \in ToSet(wal') : op'[m] \in Fixed
    BY <1>a, <1>2, <1>7, <1>10 DEF AnswerFlow
  <2>6. \A m \in acked' : op'[m] = "done"
    BY <1>a, <1>2, <1>6, <1>7, <1>8, <1>b DEF AnswerFlow
  <2>7. Framed' \cup ToSet(inflight') \cup ToSet(undo') \cup acked' \subseteq ToSet(log')
    BY <1>a, <1>1, <1>2, <1>9 DEF AnswerFlow
  <2>8. DOMAIN prev' = Calls
    BY <1>a, <1>2 DEF AnswerFlow
  <2> QED BY <1>a, <1>1, <1>2, <2>1, <2>2, <2>3, <2>4, <2>5, <2>6, <2>7, <2>8 DEF AnswerFlow
<1>13. AnswerWal'
  BY <1>a, <1>2, <1>9 DEF AnswerWal
<1>14. SeqInv'
  BY <1>a, <1>2, <1>5 DEF SeqInv, Writes
<1>15. \A k \in Keys : DeletedOnce(k)' => DeletedOnce(k)
  BY <1>2 DEF DeletedOnce, Writes
<1>16. \A m : Earlier(m)' = Earlier(m)
  BY <1>2, <1>9 DEF Earlier
<1>17. ASSUME NEW k \in Keys, DeletedOnce(k), k \in Writes(n), Own(n, k)
       PROVE  Fresh(calls, log, Answerable, k, prev[n][k])
  <2>1. Fresh(calls, log, Earlier(n), k, prev[n][k]) /\ Fresh(calls, log, Answerable, k, store[k])
    BY <1>a, <1>1, <1>17 DEF AnswerCore, AnswerStore
  <2>2. n \notin Answerable
    BY <1>8 DEF Answerable
  <2>3. Answerable \subseteq ToSet(log)
    BY <1>7 DEF Answerable
  <2>4. ASSUME NEW a \in Answerable, k \in DOMAIN calls[a] PROVE Before(log, a, n)
    <3>1. CASE calls[n][k]
      <4>1. seq[k] = n /\ n # 0
        BY <1>1, <1>17, <3>1 DEF Own, Calls
      <4> QED BY <1>a, <2>2, <2>3, <2>4, <4>1 DEF SeqInv, Writes
    <3>2. CASE ~ calls[n][k]
      <4>1. store[k] = Absent
        BY <1>17, <3>2 DEF Own
      <4>2. PICK w \in ToSet(log) : /\ k \in DOMAIN calls[w] /\ Absent = IF calls[w][k] THEN w ELSE Absent
                                    /\ \A m \in Answerable : k \in DOMAIN calls[m] => m = w \/ Before(log, m, w)
        BY <2>1, <2>4, <4>1 DEF Fresh, Untouched
      <4>3. ~ calls[w][k]
        BY <1>b, <4>2 DEF Absent, Calls
      <4>4. w \in DOMAIN calls /\ n \in DOMAIN calls
        <5>1. \A m \in ToSet(log) : m \in Calls /\ op[m] # "none" /\ m <= Len(calls)
          BY <1>a, <1>b DEF AnswerFlow
        <5>2. \A m \in Calls : m <= Len(calls) => m \in 1 .. Len(calls)
          BY <1>b DEF Calls
        <5> QED BY <1>1, <1>b, <5>1, <5>2
      <4>5. w = n
        BY <1>17, <1>a, <3>2, <4>2, <4>3, <4>4, OnlyDeleter DEF Writes
      <4> QED BY <2>2, <2>4, <4>2, <4>5
    <3> QED BY <3>1, <3>2
  <2>5. \A a \in Answerable : k \in DOMAIN calls[a] => a \in Earlier(n)
    BY <2>4 DEF Earlier
  <2> QED BY <2>1, <2>5, FreshLess
<1>18. ASSUME NEW k \in Keys, DeletedOnce(k) PROVE AnswerStore(k)'
  <2>1. AnswerStore(k)
    BY <1>18, <1>a DEF AnswerCore
  <2>2. Fresh(calls, log, Answerable, k, store'[k])
    BY <1>5, <1>17, <1>18, <2>1 DEF AnswerStore
  <2>3. ASSUME NEW m \in ToSet(queue') \cup ToSet(inflight') \cup ToSet(undo')
        PROVE  prev'[m] = prev[m] /\ m \in ToSet(queue) \cup ToSet(inflight) \cup ToSet(undo)
    <3>1. m \in ToSet(queue) \cup ToSet(inflight) \cup ToSet(undo) /\ m # n
      BY <1>1, <1>2, <1>8
    <3>2. m \in Calls
      BY <1>7, <1>b, <3>1
    <3> QED BY <1>2, <1>a, <3>1, <3>2 DEF AnswerFlow
  <2> QED BY <1>2, <1>9, <1>16, <2>1, <2>2, <2>3 DEF AnswerStore
<1>19. AnswerCore'
  BY <1>11, <1>12, <1>13, <1>14, <1>15, <1>18 DEF AnswerCore
<1>20. AnswerDisk'
  <2>1. Late' = Late
    BY <1>2, <1>9 DEF Late, Start
  <2>2. phase \in Copying => ToSet(inflight') \subseteq Late'
    BY <1>a, <1>2, <2>1 DEF AnswerDisk, AnswerCopy
  <2>3. phase \in Rotating \ {"drain"} => Flushed'
    BY <1>a, <1>2 DEF AnswerDisk, AnswerCopy, Flushed
  <2>4. Len(wal') \in Nat /\ Len(wal) <= Len(wal')
    BY <1>2, <1>b
  <2>5. Followed(calls, log, calls', log', ToSet(log))
    BY <1>2, FollowedSame
  <2>6. \A m \in ToSet(log) : op[m] \in Fixed => m \in ToSet(log) /\ op'[m] \in Fixed
    BY <1>10
  <2>7. Platter \subseteq Platter' /\ wal' = wal /\ acked' = acked
    BY <1>2, <1>9
  <2> QED BY <1>2, <1>4, <1>15, <1>a, <2>1, <2>2, <2>3, <2>4, <2>5, <2>6, <2>7, DiskKept
<1> QED BY <1>19, <1>20 DEF AnswerInv
-----------------------------------------------------------------------------
\* The frames on their way

\* The batch and the queue have no call in common.
LEMMA BatchApart ==
  ASSUME AnswerCore, NEW n \in ToSet(inflight)
  PROVE  n \notin ToSet(queue) /\ n \notin ToSet(undo) /\ n \notin acked
<1>1. DataTypes /\ AnswerFlow /\ AnswerWal
  BY DEF AnswerCore
<1>2. n \notin ToSet(undo) /\ n \notin acked
  BY <1>1 DEF AnswerFlow
<1>3. n \notin ToSet(queue)
  <2> SUFFICES ASSUME n \in ToSet(queue) PROVE FALSE
    OBVIOUS
  <2>1. flushing = "sync" => n \in ToSet(wal)
    BY <1>1 DEF AnswerWal
  <2>2. flushing # "sync" => n \in ToSet(Unwritten)
    BY DEF Unwritten
  <2>3. Before(log, n, n)
    BY <1>1, <2>1, <2>2 DEF AnswerWal, Precede
  <2> QED BY <1>1, <2>3, OrderTotal DEF DataTypes
<1> QED BY <1>2, <1>3

\* The queue becomes the batch.
LEMMA AnswerFlushStep ==
  ASSUME RefusalTypes, AnswerInv, FlushBatch
  PROVE  AnswerInv'
<1> USE DEF callVars, storeVars, walVars, diskVars, compactVars, backupVars, historyVars, countVars
<1>a. AnswerCore /\ AnswerDisk /\ DataTypes /\ AnswerFlow /\ AnswerWal /\ SeqInv
  BY DEF AnswerInv, AnswerCore
<1>b. Len(wal) \in Nat
  BY <1>a DEF DataTypes
<1>1. /\ UNCHANGED <<calls, op, prev, undo, store, seq, wal, synced, log, acked>>
      /\ UNCHANGED <<copiedUpTo, walTmp, snapTmp, visited, phase, snapshot, oldSnapshot, oldWal, walState>>
      /\ flushing = "no" /\ queue # <<>> /\ inflight' = queue /\ queue' = <<>> /\ flushing' = "write"
  BY DEF FlushBatch
<1>2. /\ inflight = <<>> /\ Unwritten = <<>> /\ Unwritten' = queue
      /\ ToSet(<<>>) = {} /\ IsInjective(<<>>) /\ ToSet(queue') = {} /\ ToSet(inflight) = {}
  BY <1>a, <1>1, EmptyListProps DEF AnswerWal, Unwritten
<1>3. Framed' = Framed /\ Platter' = Platter /\ Answerable' = Answerable
  BY <1>1, <1>2 DEF Framed, Platter, Answerable
<1>4. DataTypes'
  BY <1>a, <1>1 DEF DataTypes
<1>5. AnswerFlow'
  <2>1. ToSet(queue) \subseteq ToSet(log)
    BY <1>a DEF AnswerFlow, Framed
  <2> QED BY <1>a, <1>1, <1>2, <1>3, <2>1 DEF AnswerFlow
<1>6. AnswerWal'
  <2>1. Precede(log, ToSet(wal), ToSet(queue))
    BY <1>a DEF AnswerWal, Precede
  <2>2. ToSet(Unwritten') = ToSet(queue) /\ ToSet(queue) \cup {} = ToSet(queue)
    BY <1>2
  <2>3. Precede(log, ToSet(queue), {}) /\ Chain(log, <<>>)
    BY DEF Precede, Chain
  <2> QED BY <1>a, <1>1, <1>2, <1>3, <2>1, <2>2, <2>3 DEF AnswerWal
<1>7. SeqInv'
  BY <1>a, <1>1 DEF SeqInv, Writes
<1>8. \A k \in Keys : DeletedOnce(k)' => DeletedOnce(k)
  BY <1>1 DEF DeletedOnce, Writes
<1>9. ASSUME NEW k \in Keys, AnswerStore(k) PROVE AnswerStore(k)'
  <2>1. \A m : Earlier(m)' = Earlier(m)
    BY <1>1, <1>3 DEF Earlier
  <2>2. ToSet(queue') \cup ToSet(inflight') \cup ToSet(undo') = ToSet(queue) \cup ToSet(inflight) \cup ToSet(undo)
    BY <1>1, <1>2
  <2> QED BY <1>1, <1>3, <1>9, <2>1, <2>2 DEF AnswerStore
<1>10. AnswerCore'
  BY <1>a, <1>4, <1>5, <1>6, <1>7, <1>8, <1>9 DEF AnswerCore
<1>11. AnswerDisk'
  <2>1. ToSet(Unwritten') \cup ToSet(queue') = ToSet(Unwritten) \cup ToSet(queue)
    BY <1>1, <1>2
  <2>2. Late' = Late
    BY <1>1, <2>1 DEF Late, Start
  <2>3. ToSet(inflight') \subseteq Late'
    BY <1>1, <1>2 DEF Late
  <2>4. phase \in Rotating \ {"drain"} => Flushed'
    BY <1>a, <1>1 DEF AnswerDisk, AnswerCopy, Flushed
  <2>5. Len(wal') \in Nat /\ Len(wal) <= Len(wal') /\ visited' \subseteq visited
    BY <1>1, <1>b
  <2>6. Followed(calls, log, calls', log', ToSet(log))
    BY <1>1, FollowedSame
  <2>7. \A m \in ToSet(log) : op[m] \in Fixed => m \in ToSet(log) /\ op'[m] \in Fixed
    BY <1>1
  <2>8. Platter \subseteq Platter' /\ wal' = wal /\ acked' = acked
    BY <1>1, <1>3
  <2> QED BY <1>1, <1>8, <1>a, <2>2, <2>3, <2>4, <2>5, <2>6, <2>7, <2>8, DiskKept
<1> QED BY <1>10, <1>11 DEF AnswerInv

\* The batch follows the log.
LEMMA AnswerWrittenStep ==
  ASSUME RefusalTypes, AnswerInv, BatchWritten
  PROVE  AnswerInv'
<1> USE DEF callVars, storeVars, walVars, diskVars, compactVars, backupVars, historyVars, countVars
<1>a. AnswerCore /\ AnswerDisk /\ DataTypes /\ AnswerFlow /\ AnswerWal /\ SeqInv
  BY DEF AnswerInv, AnswerCore
<1>b. wal \in Seq(Calls) /\ inflight \in Seq(Calls) /\ Len(wal) \in Nat /\ synced \in 0 .. Len(wal)
  BY <1>a DEF DataTypes, RefusalTypes
<1>1. /\ UNCHANGED <<calls, op, prev, undo, store, seq, queue, inflight, synced, log, acked>>
      /\ UNCHANGED <<copiedUpTo, walTmp, snapTmp, visited, phase, snapshot, oldSnapshot, oldWal, walState>>
      /\ flushing = "write" /\ wal' = wal \o inflight /\ flushing' = "sync"
  BY DEF BatchWritten
<1>2. inflight # <<>> /\ Unwritten = inflight /\ Unwritten' = <<>> /\ ToSet(<<>>) = {}
  BY <1>a, <1>1 DEF AnswerWal, Unwritten, ToSet
<1>3. /\ wal' \in Seq(Calls) /\ Len(wal') \in Nat /\ Len(wal) <= Len(wal')
      /\ ToSet(wal') = ToSet(wal) \cup ToSet(inflight)
      /\ \A i \in 1 .. Len(wal) : wal'[i] = wal[i]
      /\ \A i \in Len(wal) + 1 .. Len(wal') : wal'[i] \in ToSet(inflight)
  BY <1>1, <1>b, LogGrows
<1>4. Framed' = Framed /\ Answerable' = Answerable
  BY <1>1, <1>2, <1>3 DEF Framed, Answerable
<1>5. Platter \subseteq Platter'
  <2>1. 1 .. synced \subseteq 1 .. Len(wal)
    BY <1>b
  <2> QED BY <1>1, <1>3, <2>1 DEF Platter
<1>6. DataTypes'
  <2>1. synced' \in 0 .. Len(wal')
    BY <1>1, <1>3, <1>b
  <2> QED BY <1>a, <1>1, <1>3, <2>1 DEF DataTypes
<1>7. AnswerFlow'
  <2>1. \A n \in ToSet(wal') : op[n] \in Fixed
    BY <1>a, <1>3 DEF AnswerFlow, Fixed
  <2> QED BY <1>a, <1>1, <1>4, <2>1 DEF AnswerFlow
<1>8. AnswerWal'
  <2>1. /\ Chain(log, wal) /\ Chain(log, inflight) /\ Chain(log, queue)
        /\ Precede(log, ToSet(wal), ToSet(inflight)) /\ Precede(log, ToSet(wal), ToSet(queue))
        /\ Precede(log, ToSet(inflight), ToSet(queue)) /\ Precede(log, acked \ ToSet(wal), Framed)
    BY <1>a, <1>2 DEF AnswerWal, Precede
  <2>2. Chain(log, wal')
    BY <1>1, <1>b, <2>1, ConcatChain
  <2>3. Precede(log, ToSet(wal'), ToSet(queue)) /\ Precede(log, acked \ ToSet(wal'), Framed)
    BY <1>3, <2>1 DEF Precede
  <2>4. \A i \in synced + 1 .. Len(wal') : wal'[i] \notin acked
    <3>1. \A i \in synced + 1 .. Len(wal') : (i \in synced + 1 .. Len(wal) /\ i \in 1 .. Len(wal)) \/ i \in Len(wal) + 1 .. Len(wal')
      BY <1>3, <1>b
    <3>2. \A n \in ToSet(inflight) : n \notin acked
      BY <1>a, BatchApart
    <3> QED BY <1>a, <1>3, <3>1, <3>2 DEF AnswerWal
  <2>5. Precede(log, {}, ToSet(queue)) /\ {} \cup ToSet(queue) = ToSet(queue)
    BY DEF Precede
  <2> QED BY <1>1, <1>2, <1>3, <1>4, <2>1, <2>2, <2>3, <2>4, <2>5 DEF AnswerWal
<1>9. SeqInv'
  BY <1>a, <1>1 DEF SeqInv, Writes
<1>10. \A k \in Keys : DeletedOnce(k)' => DeletedOnce(k)
  BY <1>1 DEF DeletedOnce, Writes
<1>11. ASSUME NEW k \in Keys, AnswerStore(k) PROVE AnswerStore(k)'
  <2>1. \A m : Earlier(m)' = Earlier(m)
    BY <1>1, <1>4 DEF Earlier
  <2> QED BY <1>1, <1>4, <1>11, <2>1 DEF AnswerStore
<1>12. AnswerCore'
  BY <1>a, <1>6, <1>7, <1>8, <1>9, <1>10, <1>11 DEF AnswerCore
<1>13. AnswerDisk'
  <2>1. ASSUME phase \in Copying
        PROVE  acked' \ Late' \subseteq acked \ Late /\ ToSet(inflight') \subseteq Late'
    <3>1. {wal[i] : i \in Start + 1 .. Len(wal)} \cup ToSet(inflight) \subseteq {wal'[i] : i \in Start' + 1 .. Len(wal')}
      BY <1>a, <1>b, <1>1, <2>1, LateGrows DEF AnswerDisk
    <3>2. Late \subseteq Late' /\ ToSet(inflight) \subseteq Late'
      BY <1>1, <1>2, <3>1 DEF Late
    <3> QED BY <1>1, <3>2
  <2>2. phase \notin Rotating \ {"drain"}
    BY <1>a, <1>2 DEF AnswerDisk, AnswerCopy, Flushed
  <2>3. Followed(calls, log, calls', log', ToSet(log))
    BY <1>1, FollowedSame
  <2>4. \A m \in ToSet(log) : op[m] \in Fixed => m \in ToSet(log) /\ op'[m] \in Fixed
    BY <1>1
  <2>5. visited' \subseteq visited /\ acked' \ ToSet(wal') \subseteq acked \ ToSet(wal)
    BY <1>1, <1>3
  <2> QED BY <1>1, <1>3, <1>5, <1>10, <1>a, <2>1, <2>2, <2>3, <2>4, <2>5, DiskKept
<1> QED BY <1>12, <1>13 DEF AnswerInv

\* The calls of the batch are answered.
LEMMA AnswerSyncedStep ==
  ASSUME RefusalTypes, AnswerInv, BatchSynced
  PROVE  AnswerInv'
<1> USE DEF callVars, storeVars, walVars, diskVars, compactVars, backupVars, historyVars, countVars
<1>a. AnswerCore /\ AnswerDisk /\ DataTypes /\ AnswerFlow /\ AnswerWal /\ SeqInv
  BY DEF AnswerInv, AnswerCore
<1>b. /\ Len(wal) \in Nat /\ synced \in 0 .. Len(wal) /\ ToSet(log) \subseteq Calls
  BY <1>a DEF DataTypes, ToSet
<1>1. /\ UNCHANGED <<calls, undo, store, queue, wal, log>>
      /\ UNCHANGED <<copiedUpTo, walTmp, snapTmp, visited, phase, snapshot, oldSnapshot, oldWal, walState>>
      /\ flushing = "sync" /\ inflight' = <<>> /\ flushing' = "no" /\ synced' = Len(wal)
      /\ acked' = acked \cup ToSet(inflight)
      /\ op' = [n \in Calls |-> IF n \in ToSet(inflight) THEN "done" ELSE op[n]]
      /\ prev' = [n \in Calls |-> IF n \in ToSet(inflight) THEN Nothing ELSE prev[n]]
  BY DEF BatchSynced
<1>2. \A k \in Keys : seq'[k] = IF seq[k] \in ToSet(inflight) THEN 0 ELSE seq[k]
  BY DEF BatchSynced
<1>3. /\ inflight # <<>> /\ Unwritten = <<>> /\ Unwritten' = <<>>
      /\ ToSet(<<>>) = {} /\ IsInjective(<<>>)
  BY <1>a, <1>1, EmptyListProps DEF AnswerWal, Unwritten
<1>4. /\ ToSet(inflight) \subseteq ToSet(wal) /\ ToSet(wal) \subseteq ToSet(log)
      /\ ToSet(queue) \subseteq ToSet(log) /\ ToSet(undo) \subseteq ToSet(log) /\ acked \subseteq ToSet(log)
  BY <1>a, <1>1 DEF AnswerWal, AnswerFlow, Framed
<1>5. \A n \in ToSet(log) : op'[n] = IF n \in ToSet(inflight) THEN "done" ELSE op[n]
  BY <1>1, <1>b
<1>6. \A n \in ToSet(inflight) : n \notin ToSet(queue) /\ n \notin ToSet(undo)
  BY <1>a, BatchApart
<1>7. Framed' = Framed /\ Answerable' = Answerable /\ acked' \ ToSet(wal) = acked \ ToSet(wal)
  BY <1>1, <1>3, <1>4 DEF Framed, Answerable
<1>8. Platter \subseteq Platter'
  <2>1. 1 .. synced \subseteq 1 .. Len(wal)
    BY <1>b
  <2> QED BY <1>1, <2>1 DEF Platter
<1>9. DataTypes'
  BY <1>a, <1>1, <1>b DEF DataTypes
<1>10. AnswerFlow'
  <2>1. \A n \in Calls : op'[n] # "none" => n <= Len(calls')
    <3>1. \A n \in ToSet(inflight) : n \in Calls /\ op[n] = "logged"
      BY <1>a, <1>4, <1>b DEF AnswerFlow
    <3> QED BY <1>a, <1>1, <3>1 DEF AnswerFlow
  <2>2. \A n \in ToSet(log') : op'[n] # "none"
    BY <1>a, <1>1, <1>5 DEF AnswerFlow
  <2>3. \A n \in ToSet(queue') \cup ToSet(inflight') : op'[n] = "logged"
    BY <1>a, <1>1, <1>3, <1>4, <1>5, <1>6 DEF AnswerFlow
  <2>4. \A n \in ToSet(undo') : op'[n] \in {"refused", "broken"}
    BY <1>a, <1>1, <1>4, <1>5, <1>6 DEF AnswerFlow
  <2>5. \A n \in ToSet(wal') : op'[n] \in Fixed
    BY <1>a, <1>1, <1>4, <1>5 DEF AnswerFlow, Fixed
  <2>6. \A n \in acked' : op'[n] = "done"
    BY <1>a, <1>1, <1>4, <1>5 DEF AnswerFlow
  <2>7. Framed' \cup ToSet(inflight') \cup ToSet(undo') \cup acked' \subseteq ToSet(log')
    BY <1>a, <1>1, <1>3, <1>4, <1>7 DEF AnswerFlow
  <2>8. IsInjective(queue') /\ IsInjective(inflight') /\ IsInjective(undo') /\ DOMAIN prev' = Calls
    BY <1>a, <1>1, <1>3 DEF AnswerFlow
  <2> QED BY <2>1, <2>2, <2>3, <2>4, <2>5, <2>6, <2>7, <2>8 DEF AnswerFlow
<1>11. AnswerWal'
  <2>1. Chain(log, <<>>)
    BY DEF Chain
  <2>2. synced' + 1 .. Len(wal') = {}
    BY <1>1, <1>b
  <2> QED BY <1>a, <1>1, <1>3, <1>7, <2>1, <2>2 DEF AnswerWal
<1>12. SeqInv'
  BY <1>a, <1>1, <1>2 DEF SeqInv, Writes
<1>13. \A k \in Keys : DeletedOnce(k)' => DeletedOnce(k)
  BY <1>1 DEF DeletedOnce, Writes
<1>14. ASSUME NEW k \in Keys, AnswerStore(k) PROVE AnswerStore(k)'
  <2>1. \A m : Earlier(m)' = Earlier(m)
    BY <1>1, <1>7 DEF Earlier
  <2>2. ASSUME NEW m \in ToSet(queue') \cup ToSet(inflight') \cup ToSet(undo')
        PROVE  prev'[m] = prev[m] /\ m \in ToSet(queue) \cup ToSet(inflight) \cup ToSet(undo)
    <3>1. m \in ToSet(queue) \cup ToSet(undo) /\ m \in Calls /\ m \notin ToSet(inflight)
      BY <1>1, <1>3, <1>4, <1>6, <1>b
    <3> QED BY <1>1, <3>1
  <2> QED BY <1>1, <1>7, <1>14, <2>1, <2>2 DEF AnswerStore
<1>15. AnswerCore'
  BY <1>a, <1>9, <1>10, <1>11, <1>12, <1>13, <1>14 DEF AnswerCore
<1>16. AnswerDisk'
  <2>1. Late' = Late
    BY <1>1, <1>3 DEF Late, Start
  <2>2. phase \in Copying => acked' \ Late' \subseteq acked \ Late /\ ToSet(inflight') \subseteq Late'
    <3>1. phase \in Copying => ToSet(inflight) \subseteq Late
      BY <1>a DEF AnswerDisk, AnswerCopy
    <3> QED BY <1>1, <1>3, <2>1, <3>1
  <2>3. phase \notin Rotating \ {"drain"}
    BY <1>a, <1>3 DEF AnswerDisk, AnswerCopy, Flushed
  <2>4. Followed(calls, log, calls', log', ToSet(log))
    BY <1>1, FollowedSame
  <2>5. \A m \in ToSet(log) : op[m] \in Fixed => m \in ToSet(log) /\ op'[m] \in Fixed
    BY <1>5 DEF Fixed
  <2>6. visited' \subseteq visited /\ acked' \ ToSet(wal') \subseteq acked \ ToSet(wal)
    BY <1>1, <1>7
  <2>7. Len(wal') \in Nat /\ Len(wal) <= Len(wal') /\ \A i \in 1 .. Len(wal) : wal'[i] = wal[i]
    BY <1>1, <1>b
  <2> QED BY <1>1, <1>8, <1>13, <1>a, <2>2, <2>3, <2>4, <2>5, <2>6, <2>7, DiskKept
<1> QED BY <1>15, <1>16 DEF AnswerInv

\* Some of the batch is in the log, and all of it is rolled back.
LEMMA AnswerFailsStep ==
  ASSUME RefusalTypes, AnswerInv, BatchFails
  PROVE  AnswerInv'
<1> USE DEF callVars, storeVars, walVars, diskVars, compactVars, backupVars, historyVars, countVars
<1>a. AnswerCore /\ AnswerDisk /\ DataTypes /\ AnswerFlow /\ AnswerWal /\ SeqInv
  BY DEF AnswerInv, AnswerCore
<1>b. /\ wal \in Seq(Calls) /\ inflight \in Seq(Calls) /\ undo \in Seq(Calls)
      /\ Len(wal) \in Nat /\ synced \in 0 .. Len(wal) /\ ToSet(log) \subseteq Calls
  BY <1>a DEF DataTypes, RefusalTypes, ToSet
<1>1. /\ UNCHANGED <<calls, prev, store, seq, queue, synced, log, acked>>
      /\ UNCHANGED <<copiedUpTo, walTmp, snapTmp, visited, phase, snapshot, oldSnapshot, oldWal, walState>>
      /\ flushing \in {"write", "sync"} /\ inflight' = <<>> /\ flushing' = "no"
      /\ undo' = undo \o inflight
      /\ op' = [n \in Calls |-> IF n \in ToSet(inflight) THEN "broken" ELSE op[n]]
  BY DEF BatchFails, IOError, Incident
<1>2. PICK j \in 0 .. Len(Unwritten) : wal' = wal \o SubSeq(Unwritten, 1, j)
  BY DEF BatchFails
<1> DEFINE x == SubSeq(Unwritten, 1, j)
<1>3. /\ inflight # <<>> /\ Unwritten' = <<>>
      /\ ToSet(<<>>) = {} /\ IsInjective(<<>>)
      /\ Unwritten \in Seq(Calls) /\ ToSet(Unwritten) \subseteq ToSet(inflight) /\ Chain(log, Unwritten)
  <2>1. <<>> \in Seq(Calls) /\ ToSet(<<>>) = {} /\ IsInjective(<<>>) /\ Chain(log, <<>>)
    BY EmptyListProps DEF Chain
  <2>2. inflight # <<>> /\ Chain(log, inflight)
    BY <1>a, <1>1 DEF AnswerWal
  <2> QED BY <1>1, <1>b, <2>1, <2>2 DEF Unwritten
<1>4. x \in Seq(Calls) /\ ToSet(x) \subseteq ToSet(Unwritten) /\ Chain(log, x)
  <2>1. /\ Len(Unwritten) \in Nat /\ DOMAIN Unwritten = 1 .. Len(Unwritten)
        /\ j \in Nat /\ j <= Len(Unwritten) /\ 1 \in Nat \ {0} /\ 1 .. j \subseteq 1 .. Len(Unwritten)
    BY <1>3
  <2>2. x \in Seq(Calls) /\ ToSet(x) = {Unwritten[i] : i \in 1 .. j}
    BY <1>3, <2>1, SubSeqProps
  <2>3. Len(x) = j /\ \A i \in 1 .. j : x[i] = Unwritten[i]
    BY <1>3, <2>1
  <2>4. DOMAIN x = 1 .. j
    BY <2>2, <2>3
  <2> HIDE DEF x
  <2>5. Chain(log, x)
    BY <1>3, <2>1, <2>3, <2>4 DEF Chain
  <2>6. ToSet(x) \subseteq ToSet(Unwritten)
    BY <2>1, <2>2 DEF ToSet
  <2> QED BY <2>2, <2>5, <2>6
<1>5. wal' = wal \o x
  BY <1>2
<1> HIDE DEF x
<1>6. /\ wal' \in Seq(Calls) /\ Len(wal') \in Nat /\ Len(wal) <= Len(wal')
      /\ ToSet(wal') = ToSet(wal) \cup ToSet(x)
      /\ \A i \in 1 .. Len(wal) : wal'[i] = wal[i]
      /\ \A i \in Len(wal) + 1 .. Len(wal') : wal'[i] \in ToSet(x)
  BY <1>4, <1>5, <1>b, LogGrows
<1>7. /\ ToSet(inflight) \subseteq ToSet(log) /\ ToSet(wal) \subseteq ToSet(log)
      /\ ToSet(queue) \subseteq ToSet(log) /\ ToSet(undo) \subseteq ToSet(log) /\ acked \subseteq ToSet(log)
  BY <1>a DEF AnswerFlow, Framed
<1>8. \A n \in ToSet(log) : op'[n] = IF n \in ToSet(inflight) THEN "broken" ELSE op[n]
  BY <1>1, <1>b
<1>9. \A n \in ToSet(inflight) : op[n] = "logged" /\ n \notin ToSet(queue) /\ n \notin ToSet(undo) /\ n \notin acked
  BY <1>a, BatchApart DEF AnswerFlow
<1>10. undo' \in Seq(Calls) /\ ToSet(undo') = ToSet(undo) \cup ToSet(inflight) /\ IsInjective(undo')
  <2>1. ToSet(undo) \cap ToSet(inflight) = {} /\ IsInjective(undo) /\ IsInjective(inflight)
    BY <1>9, <1>a DEF AnswerFlow
  <2> QED BY <1>1, <1>b, <2>1, ConcatProps
<1>11. Framed' = ToSet(wal') \cup ToSet(queue) /\ Framed' \subseteq Framed /\ Answerable' \subseteq Answerable
  BY <1>1, <1>3, <1>4, <1>6 DEF Framed, Answerable
<1>12. Platter \subseteq Platter'
  <2>1. 1 .. synced \subseteq 1 .. Len(wal)
    BY <1>b
  <2> QED BY <1>1, <1>6, <2>1 DEF Platter
<1>13. DataTypes'
  <2>1. synced' \in 0 .. Len(wal')
    BY <1>1, <1>6, <1>b
  <2> QED BY <1>a, <1>1, <1>6, <2>1 DEF DataTypes
<1>14. AnswerFlow'
  <2>1. \A n \in Calls : op'[n] # "none" => n <= Len(calls')
    BY <1>a, <1>1, <1>9 DEF AnswerFlow
  <2>2. \A n \in ToSet(log') : op'[n] # "none"
    BY <1>a, <1>1, <1>8 DEF AnswerFlow
  <2>3. \A n \in ToSet(queue') \cup ToSet(inflight') : op'[n] = "logged"
    BY <1>a, <1>1, <1>3, <1>7, <1>8, <1>9 DEF AnswerFlow
  <2>4. \A n \in ToSet(undo') : op'[n] \in {"refused", "broken"}
    BY <1>a, <1>7, <1>8, <1>10 DEF AnswerFlow
  <2>5. \A n \in ToSet(wal') : op'[n] \in Fixed
    BY <1>a, <1>3, <1>4, <1>6, <1>7, <1>8 DEF AnswerFlow, Fixed
  <2>6. \A n \in acked' : op'[n] = "done"
    BY <1>a, <1>1, <1>7, <1>8, <1>9 DEF AnswerFlow
  <2>7. Framed' \cup ToSet(inflight') \cup ToSet(undo') \cup acked' \subseteq ToSet(log')
    BY <1>a, <1>1, <1>3, <1>7, <1>10, <1>11 DEF AnswerFlow
  <2>8. IsInjective(queue') /\ IsInjective(inflight') /\ DOMAIN prev' = Calls
    BY <1>a, <1>1, <1>3 DEF AnswerFlow
  <2> QED BY <1>10, <2>1, <2>2, <2>3, <2>4, <2>5, <2>6, <2>7, <2>8 DEF AnswerFlow
<1>15. AnswerWal'
  <2>1. /\ Chain(log, wal) /\ Chain(log, queue)
        /\ Precede(log, ToSet(wal), ToSet(Unwritten)) /\ Precede(log, ToSet(wal), ToSet(queue))
        /\ Precede(log, ToSet(Unwritten), ToSet(queue)) /\ Precede(log, acked \ ToSet(wal), Framed)
    BY <1>a DEF AnswerWal, Precede
  <2>2. Precede(log, ToSet(wal), ToSet(x))
    BY <1>4, <2>1 DEF Precede
  <2>3. Chain(log, wal')
    BY <1>4, <1>5, <1>b, <2>1, <2>2, ConcatChain
  <2>4. Precede(log, ToSet(wal'), ToSet(queue))
    BY <1>4, <1>6, <2>1 DEF Precede
  <2>5. Precede(log, acked \ ToSet(wal'), Framed')
    BY <1>6, <1>11, <2>1 DEF Precede
  <2>6. \A i \in synced + 1 .. Len(wal') : wal'[i] \notin acked
    <3>1. \A i \in synced + 1 .. Len(wal') : (i \in synced + 1 .. Len(wal) /\ i \in 1 .. Len(wal)) \/ i \in Len(wal) + 1 .. Len(wal')
      BY <1>6, <1>b
    <3>2. \A n \in ToSet(x) : n \notin acked
      BY <1>3, <1>4, <1>9
    <3> QED BY <1>a, <1>6, <3>1, <3>2 DEF AnswerWal
  <2>7. Precede(log, {}, ToSet(queue)) /\ {} \cup ToSet(queue) = ToSet(queue) /\ Chain(log, <<>>)
    BY DEF Precede, Chain
  <2> QED BY <1>1, <1>3, <2>1, <2>3, <2>4, <2>5, <2>6, <2>7 DEF AnswerWal
<1>16. SeqInv'
  BY <1>a, <1>1 DEF SeqInv, Writes
<1>17. \A k \in Keys : DeletedOnce(k)' => DeletedOnce(k)
  BY <1>1 DEF DeletedOnce, Writes
<1>18. ASSUME NEW k \in Keys, AnswerStore(k) PROVE AnswerStore(k)'
  <2>1. \A m : \A a \in Earlier(m)' : a \in Earlier(m)
    BY <1>1, <1>11 DEF Earlier
  <2>2. ToSet(queue') \cup ToSet(inflight') \cup ToSet(undo') = ToSet(queue) \cup ToSet(inflight) \cup ToSet(undo)
    BY <1>1, <1>3, <1>10
  <2>3. Fresh(calls, log, Answerable', k, store[k])
    BY <1>11, <1>18, FreshLess DEF AnswerStore
  <2>4. ASSUME NEW m \in ToSet(queue) \cup ToSet(inflight) \cup ToSet(undo)
        PROVE  Fresh(calls, log, Earlier(m)', k, prev[m][k])
    <3>1. Fresh(calls, log, Earlier(m), k, prev[m][k]) /\ \A a \in Earlier(m)' : a \in Earlier(m)
      BY <1>18, <2>1 DEF AnswerStore
    <3> QED BY <3>1, FreshLess
  <2> QED BY <1>1, <2>2, <2>3, <2>4 DEF AnswerStore
<1>19. AnswerCore'
  BY <1>a, <1>13, <1>14, <1>15, <1>16, <1>17, <1>18 DEF AnswerCore
<1>20. AnswerDisk'
  <2>1. ASSUME phase \in Copying
        PROVE  acked' \ Late' \subseteq acked \ Late /\ ToSet(inflight') \subseteq Late'
    <3>1. {wal[i] : i \in Start + 1 .. Len(wal)} \subseteq {wal'[i] : i \in Start' + 1 .. Len(wal')}
      BY <1>a, <1>b, <1>1, <1>4, <1>5, <2>1, LateGrows DEF AnswerDisk
    <3>2. Late \subseteq Late' \cup ToSet(inflight)
      BY <1>1, <1>3, <3>1 DEF Late
    <3> QED BY <1>1, <1>3, <1>9, <3>2
  <2>2. phase \notin Rotating \ {"drain"}
    BY <1>a, <1>3 DEF AnswerDisk, AnswerCopy, Flushed
  <2>3. Followed(calls, log, calls', log', ToSet(log))
    BY <1>1, FollowedSame
  <2>4. \A m \in ToSet(log) : op[m] \in Fixed => m \in ToSet(log) /\ op'[m] \in Fixed
    BY <1>8 DEF Fixed
  <2>5. visited' \subseteq visited /\ acked' \ ToSet(wal') \subseteq acked \ ToSet(wal)
    BY <1>1, <1>6
  <2> QED BY <1>1, <1>6, <1>12, <1>17, <1>a, <2>1, <2>2, <2>3, <2>4, <2>5, DiskKept
<1> QED BY <1>19, <1>20 DEF AnswerInv
-----------------------------------------------------------------------------
\* A call commits, for the first time or again.

\* The others stay in order, and it comes after all of them.
LEMMA AppliedOrder ==
  ASSUME log \in Seq(Calls), IsInjective(log), NEW n \in Calls, log' = Applied(n), calls' = calls
  PROVE  LET A == ToSet(log) \ {n} IN
         /\ log' \in Seq(Calls) /\ IsInjective(log') /\ ToSet(log') = A \cup {n}
         /\ Followed(calls, log, calls', log', A)
         /\ \A a \in A : Before(log', a, n)
         /\ \A a, m : m \in A /\ Before(log', a, m) => Before(log, a, m) /\ a \in A
<1> DEFINE A == ToSet(log) \ {n}
           L == Without(log, {n})
<1>1. L \in Seq(Calls) /\ ToSet(L) = A /\ IsInjective(L)
  BY WithoutProps
<1>2. \A a, b : Before(L, a, b) <=> Before(log, a, b) /\ a \notin {n} /\ b \notin {n}
  BY OrderWithout
<1>3. log' = Append(L, n)
  BY DEF Applied
<1> HIDE DEF L
<1>4. /\ log' \in Seq(Calls) /\ ToSet(log') = ToSet(L) \cup {n}
      /\ IsInjective(L) /\ n \notin ToSet(L) => IsInjective(log')
  BY <1>1, <1>3, AppendProps
<1>5. \A a, b : Before(log', a, b) <=> Before(L, a, b) \/ (b = n /\ a \in ToSet(L))
  BY <1>1, <1>3, OrderAppend
<1>6. \A a, m : Before(log, a, m) => a \in ToSet(log)
  BY OrderTotal
<1>7. Followed(calls, log, calls', log', A)
  BY <1>1, <1>2, <1>4, <1>5 DEF Followed
<1>8. \A a \in A : Before(log', a, n)
  BY <1>1, <1>5
<1>9. \A a, m : m \in A /\ Before(log', a, m) => Before(log, a, m) /\ a \in A
  BY <1>2, <1>5, <1>6
<1> QED BY <1>1, <1>4, <1>7, <1>8, <1>9

LEMMA AnswerCommitStep ==
  ASSUME RefusalTypes, AnswerInv, NEW n \in Calls, Commit(n)
  PROVE  AnswerInv'
<1> USE DEF callVars, storeVars, walVars, diskVars, compactVars, backupVars, historyVars, countVars
<1> DEFINE A == ToSet(log) \ {n}
<1>a. AnswerCore /\ AnswerDisk /\ DataTypes /\ AnswerFlow /\ AnswerWal /\ SeqInv
  BY DEF AnswerInv, AnswerCore
<1>b. /\ op \in [Calls -> Stages] /\ queue \in Seq(Calls) /\ undo \in Seq(Calls) /\ inflight \in Seq(Calls)
      /\ log \in Seq(Calls) /\ IsInjective(log) /\ ToSet(log) \subseteq Calls /\ Len(wal) \in Nat
  BY <1>a DEF RefusalTypes, DataTypes, ToSet
<1>1. /\ UNCHANGED <<calls, inflight, flushing, wal, synced, acked>>
      /\ UNCHANGED <<copiedUpTo, walTmp, snapTmp, phase, snapshot, oldSnapshot, oldWal, walState>>
      /\ op[n] \in {"ready", "retrying"} /\ log' = Applied(n)
      /\ prev' = [prev EXCEPT ![n] = store]
  BY DEF Commit
<1>2. visited' \subseteq visited
  BY DEF Commit, Put, Revisit
<1>3. \A k \in Keys : /\ store'[k] = IF k \in Writes(n) THEN ValueOf(n, k) ELSE store[k]
                      /\ seq'[k] = IF k \in Writes(n) THEN n ELSE seq[k]
  BY DEF Commit, Put
<1>4. PICK x \in {"logged", "refused", "broken"} :
        /\ op' = [op EXCEPT ![n] = x]
        /\ \/ walState = "open" /\ x = "logged" /\ queue' = Append(queue, n) /\ undo' = undo
           \/ walState # "open" /\ x # "logged" /\ undo' = Append(undo, n) /\ queue' = queue
  BY DEF Commit
<1>5. op'[n] = x /\ \A m \in Calls : m # n => op'[m] = op[m]
  BY <1>4, <1>b
<1>6. /\ log' \in Seq(Calls) /\ IsInjective(log') /\ ToSet(log') = A \cup {n}
      /\ Followed(calls, log, calls', log', A)
      /\ \A a \in A : Before(log', a, n)
      /\ \A a, m : m \in A /\ Before(log', a, m) => Before(log, a, m) /\ a \in A
  BY <1>1, <1>b, AppliedOrder
<1>7. A \subseteq ToSet(log) /\ n \notin A /\ \A m \in ToSet(log) : m # n => m \in A
  OBVIOUS
<1> HIDE DEF A
<1>8. /\ n \notin ToSet(queue) /\ n \notin ToSet(inflight) /\ n \notin ToSet(undo)
      /\ n \notin ToSet(wal) /\ n \notin acked
  BY <1>a, <1>1 DEF AnswerFlow, Fixed
<1>9. /\ ToSet(queue) \subseteq A /\ ToSet(inflight) \subseteq A /\ ToSet(undo) \subseteq A
      /\ ToSet(wal) \subseteq A /\ acked \subseteq A /\ ToSet(Unwritten) \subseteq A /\ Framed \subseteq A
  <2>1. ToSet(Unwritten) \subseteq ToSet(inflight)
    BY DEF Unwritten, ToSet
  <2>2. /\ ToSet(queue) \subseteq ToSet(log) /\ ToSet(inflight) \subseteq ToSet(log) /\ ToSet(undo) \subseteq ToSet(log)
        /\ ToSet(wal) \subseteq ToSet(log) /\ acked \subseteq ToSet(log)
    BY <1>a DEF AnswerFlow, Framed
  <2>3. /\ ToSet(queue) \subseteq A /\ ToSet(inflight) \subseteq A /\ ToSet(undo) \subseteq A
        /\ ToSet(wal) \subseteq A /\ acked \subseteq A
    BY <1>7, <1>8, <2>2
  <2> QED BY <2>1, <2>3 DEF Framed
<1>10. Unwritten' = Unwritten /\ Platter' = Platter
  BY <1>1 DEF Unwritten, Platter
<1>11. /\ queue' \in Seq(Calls) /\ IsInjective(queue') /\ undo' \in Seq(Calls) /\ IsInjective(undo')
       /\ \/ /\ x = "logged" /\ walState = "open" /\ queue' = Append(queue, n) /\ undo' = undo
             /\ ToSet(queue') = ToSet(queue) \cup {n}
          \/ /\ x # "logged" /\ walState # "open" /\ queue' = queue
             /\ ToSet(undo') = ToSet(undo) \cup {n}
  <2>1. IsInjective(queue) /\ IsInjective(undo)
    BY <1>a DEF AnswerFlow
  <2>2. CASE walState = "open"
    <3>1. x = "logged" /\ queue' = Append(queue, n) /\ undo' = undo
      BY <1>4, <2>2
    <3> QED BY <1>8, <1>b, <2>1, <2>2, <3>1, AppendProps
  <2>3. CASE walState # "open"
    <3>1. x # "logged" /\ undo' = Append(undo, n) /\ queue' = queue
      BY <1>4, <2>3
    <3> QED BY <1>8, <1>b, <2>1, <2>3, <3>1, AppendProps
  <2> QED BY <2>2, <2>3
<1>12. /\ ToSet(queue') \subseteq ToSet(queue) \cup {n} /\ ToSet(undo') \subseteq ToSet(undo) \cup {n}
       /\ ToSet(queue) \subseteq ToSet(queue')
  BY <1>11
<1>13. /\ Framed' \subseteq Framed \cup {n}
       /\ Answerable \subseteq A /\ Answerable' \subseteq Answerable \cup {n}
  BY <1>1, <1>9, <1>10, <1>12 DEF Framed, Answerable
<1>14. DataTypes'
  BY <1>a, <1>1, <1>6 DEF DataTypes
<1>15. AnswerFlow'
  <2>1. \A m \in Calls : op'[m] # "none" => m <= Len(calls')
    BY <1>a, <1>1, <1>5 DEF AnswerFlow
  <2>2. \A m \in ToSet(log') : op'[m] # "none"
    BY <1>a, <1>4, <1>5, <1>6, <1>7, <1>b DEF AnswerFlow
  <2>3. \A m \in A : op'[m] = op[m]
    BY <1>5, <1>7, <1>b
  <2>4. \A m \in ToSet(queue') \cup ToSet(inflight') : op'[m] = "logged"
    <3>1. \A m \in ToSet(queue) \cup ToSet(inflight) : op'[m] = "logged"
      BY <1>a, <1>9, <2>3 DEF AnswerFlow
    <3> QED BY <1>1, <1>5, <1>11, <3>1
  <2>5. \A m \in ToSet(undo') : op'[m] \in {"refused", "broken"}
    <3>1. \A m \in ToSet(undo) : op'[m] \in {"refused", "broken"}
      BY <1>a, <1>9, <2>3 DEF AnswerFlow
    <3> QED BY <1>4, <1>5, <1>11, <3>1
  <2>6. \A m \in ToSet(wal') : op'[m] \in Fixed
    BY <1>a, <1>1, <1>9, <2>3 DEF AnswerFlow
  <2>7. \A m \in acked' : op'[m] = "done"
    BY <1>a, <1>1, <1>9, <2>3 DEF AnswerFlow
  <2>8. Framed' \cup ToSet(inflight') \cup ToSet(undo') \cup acked' \subseteq ToSet(log')
    BY <1>1, <1>6, <1>9, <1>12, <1>13
  <2>9. IsInjective(inflight') /\ DOMAIN prev' = Calls
    BY <1>a, <1>1 DEF AnswerFlow
  <2> QED BY <1>11, <2>1, <2>2, <2>4, <2>5, <2>6, <2>7, <2>8, <2>9 DEF AnswerFlow
<1>16. /\ \A s : ToSet(s) \subseteq A /\ Chain(log, s) => Chain(log', s)
       /\ \A S, T : S \subseteq A /\ T \subseteq ToSet(log) /\ Precede(log, S, T) => Precede(log', S, T)
  BY <1>6, FollowedOrder
<1>17. AnswerWal'
  <2>1. Chain(log', wal) /\ Chain(log', inflight) /\ Chain(log', queue)
    BY <1>a, <1>9, <1>16 DEF AnswerWal
  <2>2. /\ Precede(log', ToSet(wal), ToSet(Unwritten) \cup ToSet(queue))
        /\ Precede(log', ToSet(Unwritten), ToSet(queue))
        /\ Precede(log', acked \ ToSet(wal), Framed)
    <3>1. /\ ToSet(Unwritten) \cup ToSet(queue) \subseteq ToSet(log) /\ ToSet(queue) \subseteq ToSet(log)
          /\ Framed \subseteq ToSet(log) /\ acked \ ToSet(wal) \subseteq A
      BY <1>7, <1>9
    <3> QED BY <1>a, <1>9, <1>16, <3>1 DEF AnswerWal
  <2>3. Chain(log', queue')
    <3>1. \A m \in ToSet(queue) : Before(log', m, n)
      BY <1>6, <1>9
    <3>2. Chain(log', Append(queue, n))
      BY <1>b, <2>1, <3>1, AppendChain
    <3> QED BY <1>11, <2>1, <3>2
  <2>4. Precede(log', ToSet(wal), ToSet(Unwritten) \cup ToSet(queue'))
    BY <1>6, <1>9, <1>12, <2>2 DEF Precede
  <2>5. Precede(log', ToSet(Unwritten), ToSet(queue'))
    BY <1>6, <1>9, <1>12, <2>2 DEF Precede
  <2>6. Precede(log', acked \ ToSet(wal), Framed')
    BY <1>6, <1>9, <1>13, <2>2 DEF Precede
  <2> QED BY <1>a, <1>1, <1>10, <2>1, <2>3, <2>4, <2>5, <2>6 DEF AnswerWal
<1>18. SeqInv'
  <2> SUFFICES ASSUME NEW k \in Keys, seq'[k] # 0
               PROVE  /\ seq'[k] \in ToSet(log')
                      /\ \A m \in ToSet(log') : k \in Writes(m) => m = seq'[k] \/ Before(log', m, seq'[k])
    BY <1>1 DEF SeqInv, Writes
  <2>1. CASE k \in Writes(n)
    <3>1. seq'[k] = n
      BY <1>3, <2>1
    <3> QED BY <1>6, <3>1
  <2>2. CASE k \notin Writes(n)
    <3>1. seq'[k] = seq[k]
      BY <1>3, <2>2
    <3>2. /\ seq[k] \in ToSet(log)
          /\ \A m \in ToSet(log) : k \in Writes(m) => m = seq[k] \/ Before(log, m, seq[k])
      BY <1>a, <3>1 DEF SeqInv
    <3>3. seq[k] \in ToSet(log')
      BY <1>6, <3>2 DEF Followed
    <3>4. ASSUME NEW m \in ToSet(log'), k \in Writes(m) PROVE m = seq[k] \/ Before(log', m, seq[k])
      <4>1. m \in A /\ m \in ToSet(log)
        BY <1>6, <1>7, <2>2, <3>4
      <4> QED BY <1>6, <3>2, <3>4, <4>1 DEF Followed
    <3> QED BY <3>1, <3>3, <3>4
  <2> QED BY <2>1, <2>2
<1>19. \A k \in Keys : DeletedOnce(k)' => DeletedOnce(k)
  BY <1>1 DEF DeletedOnce, Writes
<1>20. ASSUME NEW k \in Keys, AnswerStore(k) PROVE AnswerStore(k)'
  <2>1. Fresh(calls', log', Answerable, k, store[k])
    BY <1>6, <1>13, <1>20, FollowedFresh DEF AnswerStore
  <2>2. Fresh(calls', log', Answerable', k, store'[k])
    <3>1. CASE k \in Writes(n)
      <4>1. store'[k] = IF calls'[n][k] THEN n ELSE Absent
        BY <1>1, <1>3, <3>1 DEF ValueOf
      <4>2. n \in ToSet(log') /\ k \in DOMAIN calls'[n]
        BY <1>1, <1>6, <3>1 DEF Writes
      <4>3. \A m \in Answerable' : m = n \/ Before(log', m, n)
        BY <1>6, <1>13
      <4>4. Fresh(calls', log', Answerable', k, IF calls'[n][k] THEN n ELSE Absent)
        BY <4>2, <4>3, FreshLast
      <4> QED BY <4>1, <4>4
    <3>2. CASE k \notin Writes(n)
      <4>1. store'[k] = store[k]
        BY <1>3, <3>2
      <4>2. \A a \in Answerable' : k \in DOMAIN calls'[a] => a \in Answerable
        BY <1>1, <1>13, <3>2 DEF Writes
      <4>3. Fresh(calls', log', Answerable', k, store[k])
        BY <2>1, <4>2, FreshLess
      <4> QED BY <4>1, <4>3
    <3> QED BY <3>1, <3>2
  <2>3. ASSUME NEW m \in ToSet(queue') \cup ToSet(inflight') \cup ToSet(undo')
        PROVE  Fresh(calls', log', Earlier(m)', k, prev'[m][k])
    <3>1. Earlier(m)' = {a \in Answerable' : Before(log', a, m)}
      BY DEF Earlier
    <3>2. CASE m = n
      <4>1. prev'[m] = store
        BY <1>a, <1>1, <3>2 DEF AnswerFlow
      <4>2. \A a \in Earlier(m)' : a \in Answerable
        <5>1. \A a : Before(log', a, n) => a # n
          BY <1>6, OrderTotal
        <5> QED BY <1>13, <3>1, <3>2, <5>1
      <4>3. Fresh(calls', log', Earlier(m)', k, store[k])
        BY <2>1, <4>2, FreshLess
      <4> QED BY <4>1, <4>3
    <3>3. CASE m # n
      <4>1. m \in ToSet(queue) \cup ToSet(inflight) \cup ToSet(undo) /\ m \in A /\ m \in Calls
        BY <1>1, <1>7, <1>9, <1>12, <1>b, <3>3
      <4>2. prev'[m] = prev[m]
        BY <1>a, <1>1, <3>3, <4>1 DEF AnswerFlow
      <4>3. Earlier(m)' \subseteq A /\ Earlier(m)' \subseteq Earlier(m)
        BY <1>6, <1>7, <1>13, <3>1, <4>1 DEF Earlier
      <4>4. Fresh(calls, log, Earlier(m), k, prev[m][k])
        BY <1>20, <4>1 DEF AnswerStore
      <4>5. Fresh(calls', log', Earlier(m)', k, prev[m][k])
        BY <1>6, <4>3, <4>4, FollowedFresh
      <4> QED BY <4>2, <4>5
    <3> QED BY <3>2, <3>3
  <2> QED BY <2>2, <2>3 DEF AnswerStore
<1>21. AnswerCore'
  BY <1>a, <1>14, <1>15, <1>17, <1>18, <1>19, <1>20 DEF AnswerCore
<1>22. AnswerDisk'
  <2>1. Late \subseteq Late'
    BY <1>1, <1>10, <1>12 DEF Late, Start
  <2>2. phase \in Copying => acked' \ Late' \subseteq acked \ Late /\ ToSet(inflight') \subseteq Late'
    BY <1>a, <1>1, <2>1 DEF AnswerDisk, AnswerCopy
  <2>3. phase \in Rotating \ {"drain"} => Flushed'
    <3>1. phase \in Rotating \ {"drain"} => walState # "open" /\ Flushed
      BY <1>a DEF AnswerDisk, AnswerCopy
    <3> QED BY <1>1, <1>11, <3>1 DEF Flushed
  <2>4. \A m \in ToSet(log) : op[m] \in Fixed => m \in A /\ op'[m] \in Fixed
    <3>1. op[n] \notin Fixed
      BY <1>1 DEF Fixed
    <3> QED BY <1>5, <1>7, <1>b, <3>1
  <2>5. Len(wal') \in Nat /\ Len(wal) <= Len(wal') /\ \A i \in 1 .. Len(wal) : wal'[i] = wal[i]
    BY <1>1, <1>b
  <2>6. Platter \subseteq Platter' /\ wal' = wal /\ acked' = acked /\ acked' \ ToSet(wal') \subseteq acked \ ToSet(wal)
    BY <1>1, <1>10
  <2> QED BY <1>1, <1>2, <1>6, <1>19, <1>a, <2>2, <2>3, <2>4, <2>5, <2>6, DiskKept
<1> QED BY <1>21, <1>22 DEF AnswerInv
-----------------------------------------------------------------------------
\* The power fails.

\* The database right after recovery.
AtRest ==
  /\ queue = <<>> /\ inflight = <<>> /\ undo = <<>> /\ flushing = "no" /\ synced = Len(wal)
  /\ seq = [k \in Keys |-> 0] /\ DOMAIN prev = Calls /\ Rejected = {}
  /\ phase = "idle" /\ oldSnapshot = None /\ oldWal = None

\* What holds before any I/O error is enough then.
LEMMA DataAnswers == DataInv /\ AtRest => AnswerInv
<1> SUFFICES ASSUME DataInv, AtRest PROVE AnswerInv
  OBVIOUS
<1>a. DataTypes /\ FlowInv /\ WalInv /\ StoreInv /\ CopyInv /\ SnapInv
  BY DEF DataInv, CoreInv
<1>1. /\ queue = <<>> /\ inflight = <<>> /\ undo = <<>> /\ flushing = "no" /\ synced = Len(wal)
      /\ seq = [k \in Keys |-> 0] /\ DOMAIN prev = Calls /\ Rejected = {}
      /\ phase = "idle" /\ oldSnapshot = None /\ oldWal = None
  BY DEF AtRest
<1>2. /\ ToSet(queue) = {} /\ ToSet(inflight) = {} /\ ToSet(undo) = {} /\ ToSet(Unwritten) = {}
      /\ IsInjective(<<>>) /\ Framed = ToSet(wal)
  BY <1>1, EmptyListProps DEF Unwritten, Framed
<1>3. acked \subseteq ToSet(log) /\ acked \ ToSet(wal) \subseteq Base /\ Base \subseteq ToSet(log)
  BY <1>a, <1>1, <1>2 DEF FlowInv, Base
<1>4. AnswerFlow
  BY <1>a, <1>1, <1>2, <1>3 DEF AnswerFlow, FlowInv, Fixed
<1>5. AnswerWal
  <2>1. Precede(log, acked \ ToSet(wal), Framed)
    BY <1>a, <1>3 DEF WalInv, Precede
  <2>2. synced + 1 .. Len(wal) = {}
    BY <1>a, <1>1 DEF DataTypes
  <2> QED BY <1>a, <1>1, <2>1, <2>2 DEF AnswerWal, WalInv
<1>6. SeqInv
  BY <1>1 DEF SeqInv
<1>7. ASSUME NEW k \in Keys PROVE AnswerStore(k)
  <2>1. Holds(calls, log, ToSet(log), k, store[k])
    BY <1>a, <1>1 DEF StoreInv, Untouched
  <2>2. Answerable = acked
    BY <1>2 DEF Answerable
  <2>3. Fresh(calls, log, acked, k, store[k])
    BY <1>3, <2>1, FreshHolds
  <2> QED BY <1>2, <2>2, <2>3 DEF AnswerStore
<1>8. AnswerCopy
  BY <1>a, <1>1 DEF AnswerCopy, CopyInv, Copying, Rotating
<1>9. AnswerOld
  BY <1>1 DEF AnswerOld
<1>10. ASSUME NEW k \in Keys PROVE AnswerFiles(k)
  <2>1. Holds(calls, log, Base, k, snapshot[k]) \/ ~ Untouched(calls, Platter, k)
    BY <1>a DEF SnapInv, Completes
  <2>2. Holds(calls, log, Base, k, snapshot[k]) => Fresh(calls, log, acked \ ToSet(wal), k, snapshot[k])
    BY <1>3, FreshHolds
  <2> QED BY <1>1, <2>1, <2>2 DEF AnswerFiles, AnswerSnap, Copying
<1> QED BY <1>a, <1>4, <1>5, <1>6, <1>7, <1>8, <1>9, <1>10 DEF AnswerInv, AnswerCore, AnswerDisk

\* After an I/O error what is left lacks no answer that came before its frames,
\* and recovers to values that follow all answers.
LEMMA AnswerCrashStep ==
  ASSUME RecoveryInv, AnswerInv, Crash
  PROVE  AnswerInv'
<1> USE DEF callVars, storeVars, walVars, diskVars, compactVars, backupVars, historyVars, countVars
<1>a. DataTypes /\ AnswerFlow /\ AnswerWal /\ RefusalTypes
  BY DEF AnswerInv, AnswerCore, RecoveryInv, RefusalInv
<1>1. PICK left \in Survivors :
        /\ wal' = left.wal /\ synced' = Len(left.wal) /\ snapshot' = left.snapshot
        /\ store' = Replay(left.snapshot, left.wal)
        /\ log' = IF Faultless THEN Without(log, Lost(left)) ELSE log
  BY DEF Crash
<1>2. /\ op' = [n \in Calls |-> IF op[n] \in {"none", "done", "failed"} THEN op[n] ELSE "lost"]
      /\ undo' = <<>> /\ prev' = [n \in Calls |-> Nothing] /\ seq' = [k \in Keys |-> 0]
      /\ queue' = <<>> /\ inflight' = <<>> /\ flushing' = "no"
      /\ oldSnapshot' = None /\ oldWal' = None
      /\ phase' = "idle" /\ copiedUpTo' = 0 /\ walTmp' = <<>> /\ snapTmp' = Nothing
      /\ UNCHANGED <<calls, acked>>
  BY DEF Crash, Forget
<1>3. CASE Faultless
  <2>1. DataInv'
    BY <1>3, CrashStep DEF RecoveryInv, RefusalInv
  <2>2. AtRest'
    <3>1. Rejected' = {}
      BY <1>2 DEF Rejected
    <3> QED BY <1>1, <1>2, <3>1 DEF AtRest
  <2>3. (DataInv /\ AtRest => AnswerInv)'
    BY DataAnswers, PTL
  <2> QED BY <2>1, <2>2, <2>3
<1>4. CASE ~ Faultless
  <2> DEFINE W == ToSet(left.wal)
  <2>1. log' = log
    BY <1>1, <1>4
  <2>2. /\ left.wal \in Seq(Calls) /\ Chain(log, left.wal) /\ W \subseteq ToSet(log)
        /\ \A n \in W : op[n] \in Fixed
        /\ Precede(log, acked \ W, W) /\ acked \ W \subseteq acked \ ToSet(wal)
        /\ Platter \subseteq W
        /\ \A k \in Keys : DeletedOnce(k) => AnswerSnap(k, left.snapshot)
    BY SurvivorAnswers
  <2>3. Len(left.wal) \in Nat /\ DOMAIN left.wal = 1 .. Len(left.wal)
    BY <2>2
  <2>4. ToSet(wal') = W /\ Platter' = W
    BY <1>1, <2>3 DEF Platter, ToSet
  <2> HIDE DEF W
  <2>5. /\ ToSet(queue') = {} /\ ToSet(inflight') = {} /\ ToSet(undo') = {} /\ Unwritten' = <<>>
        /\ ToSet(Unwritten') = {} /\ IsInjective(<<>>) /\ <<>> \in Seq(Calls)
    BY <1>2, EmptyListProps DEF Unwritten
  <2>6. Framed' = W /\ Answerable' = acked
    BY <1>2, <2>4, <2>5 DEF Framed, Answerable
  <2>7. ToSet(log) \subseteq Calls
    BY <1>a DEF DataTypes, ToSet
  <2>8. DataTypes'
    <3>1. synced' \in 0 .. Len(wal')
      BY <1>1, <2>3
    <3> QED BY <1>a, <1>1, <1>2, <2>1, <2>2, <3>1 DEF DataTypes
  <2>9. AnswerFlow'
    <3>1. \A n \in Calls : op'[n] # "none" => n <= Len(calls')
      BY <1>a, <1>2 DEF AnswerFlow
    <3>2. \A n \in ToSet(log') : op'[n] # "none"
      BY <1>a, <1>2, <2>1, <2>7 DEF AnswerFlow
    <3>3. \A n \in ToSet(wal') : op'[n] \in Fixed
      <4>1. \A n \in W : n \in Calls /\ op[n] \in Fixed
        BY <2>2, <2>7
      <4> QED BY <1>2, <2>4, <4>1 DEF Fixed
    <3>4. \A n \in acked' : op'[n] = "done"
      <4>1. \A n \in acked : n \in Calls /\ op[n] = "done"
        BY <1>a, <2>7 DEF AnswerFlow
      <4> QED BY <1>2, <4>1
    <3>5. Framed' \cup ToSet(inflight') \cup ToSet(undo') \cup acked' \subseteq ToSet(log')
      BY <1>a, <1>2, <2>1, <2>2, <2>5, <2>6 DEF AnswerFlow
    <3>6. DOMAIN prev' = Calls
      BY <1>2
    <3> QED BY <1>2, <2>5, <3>1, <3>2, <3>3, <3>4, <3>5, <3>6 DEF AnswerFlow
  <2>10. AnswerWal'
    <3>1. synced' + 1 .. Len(wal') = {}
      BY <1>1, <2>3
    <3>2. Chain(log, <<>>) /\ Precede(log, W, {} \cup {}) /\ Precede(log, {}, {})
      BY DEF Chain, Precede
    <3> QED BY <1>1, <1>2, <2>1, <2>2, <2>4, <2>5, <2>6, <3>1, <3>2 DEF AnswerWal
  <2>11. SeqInv'
    BY <1>2 DEF SeqInv
  <2>12. \A k \in Keys : DeletedOnce(k)' => DeletedOnce(k)
    BY <1>2 DEF DeletedOnce, Writes
  <2>13. ASSUME NEW k \in Keys, DeletedOnce(k) PROVE AnswerStore(k)'
    <3>1. Fresh(calls, log, acked, k, store'[k])
      BY <1>1, <2>13, SurvivorFresh
    <3> QED BY <1>2, <2>1, <2>5, <2>6, <3>1 DEF AnswerStore
  <2>14. AnswerCopy'
    BY <1>2, <2>5 DEF AnswerCopy, Copying, Rotating, Nothing
  <2>15. AnswerOld'
    BY <1>2 DEF AnswerOld
  <2>16. ASSUME NEW k \in Keys, DeletedOnce(k) PROVE AnswerFiles(k)'
    <3>1. Fresh(calls, log, acked \ ToSet(wal), k, left.snapshot[k]) \/ ~ Untouched(calls, Platter, k)
      BY <2>2, <2>16 DEF AnswerSnap
    <3>2. Fresh(calls, log, acked \ ToSet(wal), k, left.snapshot[k]) => Fresh(calls, log, acked \ W, k, left.snapshot[k])
      <4>1. \A a \in acked \ W : a \in acked \ ToSet(wal)
        BY <2>2
      <4> QED BY <4>1, FreshLess
    <3>3. ~ Untouched(calls, Platter, k) => ~ Untouched(calls, W, k)
      BY <2>2 DEF Untouched
    <3> QED BY <1>1, <1>2, <2>1, <2>4, <3>1, <3>2, <3>3 DEF AnswerFiles, AnswerSnap, Copying
  <2> QED BY <2>8, <2>9, <2>10, <2>11, <2>12, <2>13, <2>14, <2>15, <2>16 DEF AnswerInv, AnswerCore, AnswerDisk
<1> QED BY <1>3, <1>4

-----------------------------------------------------------------------------
\* Every step

LEMMA AnswerInit == Init => AnswerInv
<1>1. Init => AtRest
  BY DEF Init, AtRest, Rejected
<1> QED BY <1>1, DataInit, DataAnswers

LEMMA AnswerStep ==
  ASSUME RecoveryInv, AnswerInv, [Next]_vars
  PROVE  AnswerInv'
<1>1. RefusalTypes
  BY DEF RecoveryInv, RefusalInv
<1>2. CASE Call \/ Compact \/ Backup \/ Crash
  BY <1>1, <1>2, AnswerCallStep, AnswerQuietStep, AnswerCrashStep
<1>3. CASE Write
  BY <1>1, <1>3, AnswerOpStep, AnswerCommitStep DEF Write
<1>4. CASE RollBack \/ FlushBatch \/ BatchWritten \/ BatchSynced
  BY <1>1, <1>4, AnswerRollBackStep, AnswerFlushStep, AnswerWrittenStep, AnswerSyncedStep
<1>5. CASE Compacting
  <2>1. CASE Rotate \/ Drain \/ Drained \/ Close \/ SyncDir
    BY <1>1, <2>1, AnswerQuietStep
  <2>2. CASE Fence \/ (\E k \in Keys : WriteRecord(k)) \/ SnapshotWritten \/ PreCopy \/ DrainedTail
             \/ RenameSnapshot
    BY <1>1, <2>2, AnswerCopyStep
  <2>3. CASE RenameWal
    BY <2>3, AnswerRenameWalStep
  <2>4. CASE Reopen \/ (\E s \in {"open", "closed"} : RecoverRotation(s))
    BY <1>1, <2>4, AnswerOpStep
  <2> QED BY <1>5, <2>1, <2>2, <2>3, <2>4 DEF Compacting
<1>6. CASE BackingUp
  BY <1>1, <1>6, AnswerQuietStep, AnswerOpStep DEF BackingUp
<1>7. CASE BatchFails \/ CompactFails \/ RotationFails
  BY <1>1, <1>7, AnswerFailsStep, AnswerQuietStep
<1>8. CASE UNCHANGED vars
  BY <1>1, <1>8, AnswerQuietStep
<1> QED BY <1>2, <1>3, <1>4, <1>5, <1>6, <1>7, <1>8 DEF Next, Progress

\* The invariant of every reachable state, I/O errors or not.
LEMMA SurvivalInvariant == Spec => []SurvivalInv
<1>1. Init => AnswerInv
  BY AnswerInit
<1>2. RecoveryInv /\ AnswerInv /\ [Next]_vars => AnswerInv'
  BY AnswerStep
<1> QED BY <1>1, <1>2, RecoveryInvariant, PTL DEF Spec, SurvivalInv

\* Whatever I/O errors there were, what is read of a key, and what a power loss
\* leaves of it, is never older than the last write that was answered.
THEOREM AckedSurviveHolds == Spec => []AckedSurvive
<1>1. SurvivalInv => AckedSurvive
  BY AnswersSurvive DEF SurvivalInv
<1> QED BY <1>1, SurvivalInvariant, PTL
=============================================================================
