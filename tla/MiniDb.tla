------------------------------- MODULE MiniDb -------------------------------
(****************************************************************************)
(* The storage core of minidb: writes that reach a store in memory and a    *)
(* write-ahead log, and the compaction that replaces snapshot and log while *)
(* writers go on.  Values are the numbers of the calls that wrote them, a   *)
(* log is a sequence of frames and an offset counts frames.  The policy is  *)
(* 'always': a flush ends with an fsync.  Values live in memory; expiry,    *)
(* eviction and the indexes derived from the records are left out.          *)
(****************************************************************************)
EXTENDS Integers, Sequences, SequencesExt, FiniteSetsExt, Subsequences

CONSTANTS
  Keys,
  Frames,          \* what a call may write: functions from keys to booleans, TRUE for a set
  None,
  MaxCalls, MaxCompactions,
  MaxIncidents,    \* bound on I/O errors, power losses and backups together
  SmallDelta       \* the tail that is not worth copying ahead, in frames

ASSUME ConstantsAssumption ==
  /\ \A f \in Frames : DOMAIN f \subseteq Keys /\ \A k \in DOMAIN f : f[k] \in BOOLEAN
  /\ {MaxCalls, MaxCompactions, MaxIncidents, SmallDelta} \subseteq Nat

Calls == 1 .. MaxCalls
Absent == 0
Nothing == [k \in Keys |-> Absent]

VARIABLES
  calls,        \* the frames of the calls made so far
  op,           \* where each call is
  awaits,       \* the lock a parked call waits for
  prev,         \* what a call found in the store when it was applied
  undo,         \* calls whose append was rejected, still to be rolled back
  store,        \* the value of each key
  seq,          \* the call that made the record, 0 once that cannot be rolled back
  queue, inflight, flushing, walState,                  \* the WAL object
  wal, synced,                                          \* db.wal, and how much of it is on the platter
  snapshot,                                             \* db.snapshot
  oldSnapshot, oldWal,                                  \* what a rename replaced and no fsync has confirmed
  rotateLock,
  phase, copiedUpTo, appended, visited,                 \* the compaction
  snapTmp, walTmp,
  backup, copied, ackedBefore,                          \* a backup: where it is, its files, and what was answered when it began
  disturbed,                                            \* history: a compaction began during a backup
  log, acked,                                           \* history: calls in the order they were applied, calls answered
  compactions, failures, incidents

callVars == <<calls, op, awaits, prev, undo>>
storeVars == <<store, seq>>
walVars == <<queue, inflight, flushing, walState>>
diskVars == <<wal, synced, snapshot, oldSnapshot, oldWal>>
compactVars == <<phase, copiedUpTo, appended, visited, snapTmp, walTmp>>
backupVars == <<backup, copied, ackedBefore, disturbed>>
historyVars == <<log, acked>>
countVars == <<compactions, failures, incidents>>
vars == <<callVars, storeVars, walVars, diskVars, compactVars, rotateLock,
          backupVars, historyVars, countVars>>

-----------------------------------------------------------------------------
\* Recovery: the snapshot, then the frames of the log over it.

Writes(n) == DOMAIN calls[n]
ValueOf(n, k) == IF calls[n][k] THEN n ELSE Absent

Replay(s, frames) ==
  [k \in Keys |->
     LET later == {i \in DOMAIN frames : k \in Writes(frames[i])}
     IN  IF later = {} THEN s[k] ELSE ValueOf(frames[Max(later)], k)]

\* What a power loss may leave: any part of the log after the last fsync, and
\* either name of a rename that the directory does not hold yet.
Survivors ==
  {[snapshot |-> s, wal |-> w] :
     s \in {snapshot} \cup (IF oldSnapshot = None THEN {} ELSE {oldSnapshot}),
     w \in {SubSeq(wal, 1, n) : n \in synced .. Len(wal)}
             \cup (IF oldWal = None THEN {} ELSE {oldWal})}

\* The calls that leave no trace then: their frames are not on the platter, or
\* were never appended.
Unwritten == IF flushing = "sync" THEN <<>> ELSE inflight
Lost(survivor) ==
  ToSet(queue) \cup ToSet(Unwritten) \cup {n \in Calls : op[n] \in {"refused", "waiting", "retrying"}}
    \cup (IF oldWal = None THEN ToSet(SubSeq(wal, Len(survivor.wal) + 1, Len(wal))) ELSE {})

-----------------------------------------------------------------------------
\* Callbacks that are due run before the event loop looks at files again.

Due == \/ undo # <<>>
       \/ \E n \in Calls : op[n] \in {"called", "ready", "retrying"}

\* A key that is added again moves behind the iterator of the snapshot.
Revisit(new) == visited' = {k \in visited : ~ (store[k] = Absent /\ new[k] # Absent)}

Put(new) == store' = new /\ Revisit(new)

NoFiles == [snapshot |-> None, wal |-> None]

-----------------------------------------------------------------------------
Init ==
  /\ calls = <<>> /\ op = [n \in Calls |-> "none"] /\ awaits = [n \in Calls |-> "none"]
  /\ prev = [n \in Calls |-> Nothing] /\ undo = <<>>
  /\ store = Nothing /\ seq = [k \in Keys |-> 0]
  /\ queue = <<>> /\ inflight = <<>> /\ flushing = "no" /\ walState = "open"
  /\ wal = <<>> /\ synced = 0 /\ snapshot = Nothing /\ oldSnapshot = None /\ oldWal = None
  /\ rotateLock = "none"
  /\ phase = "idle" /\ copiedUpTo = 0 /\ appended = FALSE /\ visited = {}
  /\ snapTmp = Nothing /\ walTmp = <<>>
  /\ backup = "none" /\ copied = NoFiles /\ ackedBefore = {} /\ disturbed = FALSE
  /\ log = <<>> /\ acked = {}
  /\ compactions = 0 /\ failures = 0 /\ incidents = 0

-----------------------------------------------------------------------------
\* set, del, batch

Dels(f) == Cardinality(DOMAIN f) = 1 /\ \A k \in DOMAIN f : ~ f[k]

\* Past the gate a del of an absent key is over; the others commit in a callback.
PastGate(f) == IF Dels(f) /\ \A k \in DOMAIN f : store[k] = Absent THEN "done" ELSE "ready"

\* The call, up to its first await: the gate if a rotation holds the lock.
Call ==
  /\ Len(calls) < MaxCalls
  /\ \E f \in Frames :
       /\ calls' = Append(calls, f)
       /\ op' = [op EXCEPT ![Len(calls) + 1] = IF rotateLock = "none" THEN PastGate(f) ELSE "parked"]
  /\ awaits' = [awaits EXCEPT ![Len(calls) + 1] = rotateLock]
  /\ UNCHANGED <<prev, undo, storeVars, walVars, diskVars, compactVars, rotateLock,
                 backupVars, historyVars, countVars>>

PassGate(n) ==
  /\ op[n] = "called"
  /\ op' = [op EXCEPT ![n] = PastGate(calls[n])]
  /\ UNCHANGED <<calls, awaits, prev, undo, storeVars, walVars, diskVars, compactVars, rotateLock,
                 backupVars, historyVars, countVars>>

\* Mutant: the seal is an error like any other.
RetriesNever(n) == FALSE

\* retryOnWalSeal: what becomes of a rejected append, once.
Retries(n) == op[n] = "ready" /\ (walState = "sealed" \/ rotateLock # "none")

\* A call that is applied again is the last of the log.
Applied(n) == Append(Without(log, {n}), n)

\* commit: append and apply in one go. An append that is rejected is rolled
\* back by a later callback.  Calls that are past the gate commit in their order.
Commit(n) ==
  /\ \/ op[n] = "ready" /\ \A m \in 1 .. n - 1 : op[m] # "ready"
     \/ op[n] = "retrying"
  /\ prev' = [prev EXCEPT ![n] = store]
  /\ Put([k \in Keys |-> IF k \in Writes(n) THEN ValueOf(n, k) ELSE store[k]])
  /\ seq' = [k \in Keys |-> IF k \in Writes(n) THEN n ELSE seq[k]]
  /\ IF walState = "open"
       THEN /\ queue' = Append(queue, n)
            /\ op' = [op EXCEPT ![n] = "logged"]
            /\ UNCHANGED undo
       ELSE /\ undo' = Append(undo, n)
            /\ op' = [op EXCEPT ![n] = IF Retries(n) THEN "refused" ELSE "broken"]
            /\ UNCHANGED queue
  /\ log' = Applied(n)
  /\ UNCHANGED <<calls, awaits, inflight, flushing, walState, diskVars, phase, copiedUpTo,
                 appended, snapTmp, walTmp, rotateLock, backupVars, acked, countVars>>

Own(n, k) == IF calls[n][k] THEN seq[k] = n /\ store[k] # Absent ELSE store[k] = Absent

\* restoreKey
RollBack ==
  /\ undo # <<>>
  /\ LET n == Head(undo)
         mine == {k \in Writes(n) : Own(n, k)}
     IN  /\ Put([k \in Keys |-> IF k \in mine THEN prev[n][k] ELSE store[k]])
         /\ seq' = [k \in Keys |-> IF k \in mine THEN 0 ELSE seq[k]]
         /\ op' = [op EXCEPT ![n] = IF @ = "broken" THEN "failed"
                                    ELSE IF rotateLock = "none" THEN "retrying" ELSE "waiting"]
         /\ awaits' = [awaits EXCEPT ![n] = rotateLock]
         /\ prev' = [prev EXCEPT ![n] = Nothing]
  /\ undo' = Tail(undo)
  /\ UNCHANGED <<calls, walVars, diskVars, phase, copiedUpTo, appended,
                 snapTmp, walTmp, rotateLock, backupVars, historyVars, countVars>>

-----------------------------------------------------------------------------
\* The WAL: one batch at a time.

\* On the next turn of the event loop, or at once for a caller of flush.
FlushBatch ==
  /\ flushing = "no" /\ queue # <<>>
  /\ ~ Due \/ phase \in {"fence", "precopy", "drain"} \/ backup = "flush"
  /\ inflight' = queue /\ queue' = <<>> /\ flushing' = "write"
  /\ UNCHANGED <<callVars, storeVars, walState, diskVars, compactVars, rotateLock,
                 backupVars, historyVars, countVars>>

BatchWritten ==
  /\ flushing = "write" /\ ~ Due
  /\ wal' = wal \o inflight /\ flushing' = "sync"
  /\ UNCHANGED <<callVars, storeVars, queue, inflight, walState, synced, snapshot, oldSnapshot,
                 oldWal, compactVars, rotateLock, backupVars, historyVars, countVars>>

BatchSynced ==
  /\ flushing = "sync" /\ ~ Due
  /\ synced' = Len(wal)
  /\ inflight' = <<>> /\ flushing' = "no"
  /\ op' = [n \in Calls |-> IF n \in ToSet(inflight) THEN "done" ELSE op[n]]
  /\ prev' = [n \in Calls |-> IF n \in ToSet(inflight) THEN Nothing ELSE prev[n]]
  /\ seq' = [k \in Keys |-> IF seq[k] \in ToSet(inflight) THEN 0 ELSE seq[k]]
  /\ acked' = acked \cup ToSet(inflight)
  /\ UNCHANGED <<calls, awaits, undo, store, queue, walState, wal, snapshot, oldSnapshot,
                 oldWal, compactVars, rotateLock, backupVars, log, countVars>>

Incident == incidents < MaxIncidents /\ incidents' = incidents + 1
IOError == Incident /\ failures' = failures + 1

\* An error of writev, after some of the frames, or of fsync: all are rejected.
BatchFails ==
  /\ flushing \in {"write", "sync"} /\ ~ Due
  /\ IOError
  /\ \E n \in 0 .. Len(Unwritten) : wal' = wal \o SubSeq(Unwritten, 1, n)
  /\ undo' = undo \o inflight
  /\ op' = [n \in Calls |-> IF n \in ToSet(inflight) THEN "broken" ELSE op[n]]
  /\ inflight' = <<>> /\ flushing' = "no"
  /\ UNCHANGED <<calls, awaits, prev, storeVars, queue, walState, synced, snapshot, oldSnapshot,
                 oldWal, compactVars, rotateLock, backupVars, historyVars, compactions>>

\* Mutant: the lock is cleared, its promise never resolves.
ReleaseNot(lock) == UNCHANGED op

\* The promise of a lock resolves: its callbacks are due.
Release(lock) ==
  op' = [n \in Calls |-> IF awaits[n] = lock /\ op[n] = "parked" THEN "called"
                         ELSE IF awaits[n] = lock /\ op[n] = "waiting" THEN "retrying" ELSE op[n]]

\* The temporary files are gone, or will be overwritten.
Forget ==
  /\ phase' = "idle" /\ copiedUpTo' = 0 /\ appended' = FALSE /\ visited' = {}
  /\ snapTmp' = Nothing /\ walTmp' = <<>>

Flushed == queue = <<>> /\ inflight = <<>>

-----------------------------------------------------------------------------
\* Compaction

Compact ==
  /\ phase = "idle" /\ compactions < MaxCompactions
  /\ phase' = "fence" /\ compactions' = compactions + 1
  /\ disturbed' = (disturbed \/ backup # "none")
  /\ UNCHANGED <<callVars, storeVars, walVars, diskVars, copiedUpTo, appended, visited,
                 snapTmp, walTmp, rotateLock, backup, copied, ackedBefore, historyVars, failures,
                 incidents>>

Fence ==
  /\ phase = "fence" /\ Flushed
  /\ copiedUpTo' = Len(wal) /\ appended' = FALSE
  /\ snapTmp' = Nothing /\ visited' = {} /\ walTmp' = <<>>
  /\ phase' = "snapshot"
  /\ UNCHANGED <<callVars, storeVars, walVars, diskVars, rotateLock, backupVars, historyVars,
                 countVars>>

\* writeSnapshot yields between records.
WriteRecord(k) ==
  /\ phase = "snapshot" /\ ~ Due
  /\ k \notin visited /\ store[k] # Absent
  /\ snapTmp' = [snapTmp EXCEPT ![k] = store[k]] /\ visited' = visited \cup {k}
  /\ UNCHANGED <<callVars, storeVars, walVars, diskVars, phase, copiedUpTo, appended,
                 walTmp, rotateLock, backupVars, historyVars, countVars>>

SnapshotWritten ==
  /\ phase = "snapshot" /\ ~ Due
  /\ \A k \in Keys : k \in visited \/ store[k] = Absent
  /\ phase' = "precopy"
  /\ UNCHANGED <<callVars, storeVars, walVars, diskVars, copiedUpTo, appended, visited,
                 snapTmp, walTmp, rotateLock, backupVars, historyVars, countVars>>

\* copyFileRange: what the log holds past copiedUpTo.
CopyTail ==
  /\ walTmp' = walTmp \o SubSeq(wal, copiedUpTo + 1, Len(wal))
  /\ copiedUpTo' = Len(wal) /\ appended' = TRUE

PreCopy ==
  /\ phase = "precopy" /\ Flushed
  /\ Len(wal) - copiedUpTo > SmallDelta
  /\ CopyTail
  /\ UNCHANGED <<callVars, storeVars, walVars, diskVars, phase, visited, snapTmp,
                 rotateLock, backupVars, historyVars, countVars>>

\* Mutant: the old log stays open.
SealedNot == walState

Sealed == IF walState = "open" THEN "sealed" ELSE walState

\* The delta is small, or copying ahead does not converge. The flush is over,
\* a writer may have appended since.
Rotate ==
  /\ phase = "precopy" /\ inflight = <<>>
  /\ Len(wal) - copiedUpTo <= SmallDelta \/ appended
  /\ rotateLock' = "compaction" /\ walState' = Sealed
  /\ phase' = "drain"
  /\ UNCHANGED <<callVars, storeVars, queue, inflight, flushing, diskVars, copiedUpTo,
                 appended, visited, snapTmp, walTmp, backupVars, historyVars, countVars>>

\* The tail is copied until the flushed log has no more of it; then the WAL closes.
Drain ==
  /\ phase = "drain" /\ Flushed
  /\ phase' = "drained"
  /\ UNCHANGED <<callVars, storeVars, walVars, diskVars, copiedUpTo, appended, visited, snapTmp,
                 walTmp, rotateLock, backupVars, historyVars, countVars>>

DrainedTail ==
  /\ phase = "drained"
  /\ Len(wal) # copiedUpTo \/ ~ appended
  /\ CopyTail /\ phase' = "drain"
  /\ UNCHANGED <<callVars, storeVars, walVars, diskVars, visited, snapTmp, rotateLock,
                 backupVars, historyVars, countVars>>

Drained ==
  /\ phase = "drained"
  /\ Len(wal) = copiedUpTo /\ appended
  /\ walState' = "closed" /\ phase' = "close"
  /\ UNCHANGED <<callVars, storeVars, queue, inflight, flushing, diskVars, copiedUpTo, appended,
                 visited, snapTmp, walTmp, rotateLock, backupVars, historyVars, countVars>>

Close ==
  /\ phase = "close" /\ ~ Due /\ Flushed
  /\ synced' = Len(wal) /\ phase' = "rename"
  /\ UNCHANGED <<callVars, storeVars, walVars, wal, snapshot, oldSnapshot, oldWal, copiedUpTo,
                 appended, visited, snapTmp, walTmp, rotateLock, backupVars, historyVars, countVars>>

\* Mutant: the directory is not synced between the renames.
AfterSnapshotRenamedAtOnce == "renameWal"
AfterSnapshotRenamed == "syncSnapshot"

RenameSnapshot ==
  /\ phase = "rename" /\ ~ Due
  /\ oldSnapshot' = snapshot /\ snapshot' = snapTmp
  /\ phase' = AfterSnapshotRenamed
  /\ UNCHANGED <<callVars, storeVars, walVars, wal, synced, oldWal, copiedUpTo, appended,
                 visited, snapTmp, walTmp, rotateLock, backupVars, historyVars, countVars>>

\* fsyncDir
SyncDir ==
  /\ phase \in {"syncSnapshot", "syncWal"} /\ ~ Due
  /\ oldSnapshot' = None /\ oldWal' = None
  /\ phase' = IF phase = "syncSnapshot" THEN "renameWal" ELSE "reopen"
  /\ UNCHANGED <<callVars, storeVars, walVars, wal, synced, snapshot, copiedUpTo,
                 appended, visited, snapTmp, walTmp, rotateLock, backupVars, historyVars, countVars>>

RenameWal ==
  /\ phase = "renameWal" /\ ~ Due
  /\ oldWal' = wal /\ wal' = walTmp /\ synced' = Len(walTmp)
  /\ phase' = "syncWal"
  /\ UNCHANGED <<callVars, storeVars, walVars, snapshot, oldSnapshot, copiedUpTo,
                 appended, visited, snapTmp, walTmp, rotateLock, backupVars, historyVars, countVars>>

Reopen ==
  /\ phase = "reopen" /\ ~ Due
  /\ walState' = "open" /\ rotateLock' = "none" /\ Release("compaction") /\ Forget
  /\ UNCHANGED <<calls, awaits, prev, undo, storeVars, queue, inflight, flushing, diskVars,
                 backupVars, historyVars, countVars>>

\* An error while the snapshot is written or the tail copied ahead.
CompactFails ==
  /\ phase \in {"snapshot", "precopy"} /\ ~ Due
  /\ IOError
  /\ rotateLock' = "none" /\ Forget
  /\ UNCHANGED <<callVars, storeVars, walVars, diskVars, backupVars, historyVars, compactions>>

\* An error once the log is sealed.
RotationFails ==
  /\ phase \in {"drained", "close", "rename", "renameWal", "reopen"} /\ ~ Due /\ Flushed
  /\ IOError
  /\ walState' = "closed" /\ phase' = "recover"
  /\ UNCHANGED <<callVars, storeVars, queue, inflight, flushing, diskVars, copiedUpTo,
                 appended, visited, snapTmp, walTmp, rotateLock, backupVars, historyVars,
                 compactions>>

\* A fresh WAL on db.walPath; when that fails too, the database takes no writes.
RecoverRotation(s) ==
  /\ phase = "recover" /\ ~ Due
  /\ walState' = s /\ rotateLock' = "none" /\ Release("compaction") /\ Forget
  /\ UNCHANGED <<calls, awaits, prev, undo, storeVars, queue, inflight, flushing, diskVars,
                 backupVars, historyVars, countVars>>

-----------------------------------------------------------------------------
\* backup({compact: false}), once no compaction runs

\* Mutant: it does not wait for the compaction.
MayBackUpAnyway == TRUE
MayBackUp == phase = "idle"

Backup ==
  /\ backup = "none" /\ Incident
  /\ MayBackUp
  /\ rotateLock' = "backup"
  /\ backup' = "flush" /\ ackedBefore' = acked
  /\ UNCHANGED <<callVars, storeVars, walVars, diskVars, compactVars, copied, disturbed,
                 historyVars, compactions, failures>>

BackupFlushed ==
  /\ backup = "flush" /\ Flushed
  /\ backup' = "copy"
  /\ UNCHANGED <<callVars, storeVars, walVars, diskVars, compactVars, rotateLock, copied,
                 ackedBefore, disturbed, historyVars, countVars>>

BothCopied == copied.snapshot # None /\ copied.wal # None

\* The files are copied one by one, in the order the directory lists them.
CopySnapshot ==
  /\ backup = "copy" /\ ~ Due /\ copied.snapshot = None
  /\ copied' = [copied EXCEPT !.snapshot = snapshot]
  /\ UNCHANGED <<callVars, storeVars, walVars, diskVars, compactVars, rotateLock, backup,
                 ackedBefore, disturbed, historyVars, countVars>>

CopyWal ==
  /\ backup = "copy" /\ ~ Due /\ copied.wal = None
  /\ copied' = [copied EXCEPT !.wal = wal]
  /\ UNCHANGED <<callVars, storeVars, walVars, diskVars, compactVars, rotateLock, backup,
                 ackedBefore, disturbed, historyVars, countVars>>

NoBackup == backup' = "none" /\ copied' = NoFiles /\ ackedBefore' = {}

BackupDone ==
  /\ backup = "copy" /\ ~ Due /\ BothCopied
  /\ NoBackup
  /\ rotateLock' = "none" /\ Release("backup")
  /\ UNCHANGED <<calls, awaits, prev, undo, storeVars, walVars, diskVars, compactVars,
                 disturbed, historyVars, countVars>>

-----------------------------------------------------------------------------
\* No I/O error so far, and no compaction began during a backup: the end of the
\* backup would drop the lock of the rotation.
Faultless == failures = 0 /\ ~ disturbed

\* The power fails, and the database is opened again: recover.  Until an I/O
\* error the calls that are lost leave no trace; then a rollback may have put
\* back, for a snapshot to write, what another call had rolled back before.
Crash ==
  /\ Incident
  /\ \E left \in Survivors :
       /\ wal' = left.wal /\ synced' = Len(left.wal) /\ snapshot' = left.snapshot
       /\ store' = Replay(left.snapshot, left.wal)
       /\ log' = IF Faultless THEN Without(log, Lost(left)) ELSE log
  /\ seq' = [k \in Keys |-> 0]
  /\ oldSnapshot' = None /\ oldWal' = None
  /\ op' = [n \in Calls |-> IF op[n] \in {"none", "done", "failed"} THEN op[n] ELSE "lost"]
  /\ awaits' = [n \in Calls |-> "none"] /\ prev' = [n \in Calls |-> Nothing] /\ undo' = <<>>
  /\ queue' = <<>> /\ inflight' = <<>> /\ flushing' = "no" /\ walState' = "open"
  /\ rotateLock' = "none"
  /\ Forget
  /\ NoBackup
  /\ UNCHANGED <<calls, acked, disturbed, compactions, failures>>

-----------------------------------------------------------------------------
Write == \E n \in Calls : PassGate(n) \/ Commit(n)
Compacting ==
  \/ Fence \/ (\E k \in Keys : WriteRecord(k)) \/ SnapshotWritten
  \/ PreCopy \/ Rotate \/ Drain \/ DrainedTail \/ Drained
  \/ Close \/ RenameSnapshot \/ SyncDir \/ RenameWal \/ Reopen
  \/ (\E s \in {"open", "closed"} : RecoverRotation(s))
BackingUp == BackupFlushed \/ CopySnapshot \/ CopyWal \/ BackupDone
Progress == Write \/ RollBack \/ FlushBatch \/ BatchWritten \/ BatchSynced \/ Compacting \/ BackingUp

Next ==
  \/ Call \/ Compact \/ Backup
  \/ Progress
  \/ BatchFails \/ CompactFails \/ RotationFails
  \/ Crash

Spec == Init /\ [][Next]_vars

\* Callbacks run and I/O comes to an end.  No cycle of Progress exists, so one
\* condition on all of it says as much as one on each.
FairSpec == Spec /\ WF_vars(Progress)

-----------------------------------------------------------------------------
\* Until an I/O error, whatever a power loss leaves at any moment of a
\* compaction recovers to the effect of a prefix of the appended frames, batches
\* whole, and the prefix has every write that was answered.
RecoveredIsPrefix ==
  Faultless =>
    \A left \in Survivors :
      /\ Replay(left.snapshot, left.wal) = Replay(Nothing, Without(log, Lost(left)))
      /\ acked \cap Lost(left) = {}

\* The last answered write of a key, as a position of the log.
LastAcked(k) == Max({0} \cup {i \in DOMAIN log : log[i] \in acked /\ k \in Writes(log[i])})

\* One call at most deletes it.  (A rollback takes a key that is absent for one
\* it deleted itself, and puts back what another call has deleted since.)
DeletedOnce(k) ==
  Cardinality({n \in DOMAIN calls : k \in Writes(n) /\ ~ calls[n][k]}) <= 1

NotOlder(s, k) ==
  \/ LastAcked(k) = 0 /\ s[k] = Absent
  \/ \E i \in DOMAIN log : i >= LastAcked(k) /\ k \in Writes(log[i]) /\ ValueOf(log[i], k) = s[k]

\* I/O errors or not, what is read, and what a power loss leaves, is never
\* older than the last write of the key that was answered.
AckedSurvive ==
  \A k \in Keys : DeletedOnce(k) =>
    /\ NotOlder(store, k)
    /\ \A left \in Survivors : NotOlder(Replay(left.snapshot, left.wal), k)

\* A rotation never makes a write fail: only an I/O error does.
NeverRefused == Faultless => \A n \in Calls : op[n] # "failed"

\* Every call is answered, whatever becomes of the rotation it waits for or runs
\* into, and every compaction ends.  (Calls and compactions are bounded, so this
\* says that none is left open.)
CallsSettle == []<>(phase = "idle" /\ \A n \in Calls : op[n] \in {"none", "done", "failed", "lost"})

\* A backup is the effect of a prefix of the appended frames, and the prefix has
\* every write that was answered when the backup began.
BackupIsPrefix ==
  \E n \in 0 .. Len(log) :
    /\ Replay(copied.snapshot, copied.wal) = Replay(Nothing, SubSeq(log, 1, n))
    /\ ackedBefore \subseteq ToSet(SubSeq(log, 1, n))

\* That holds of a backup during which no compaction begins ...
UndisturbedBackup ==
  BothCopied /\ Faultless => BackupIsPrefix

\* ... and is promised of all: "Write a consistent online backup of this database
\* directory" (index.ts:1609).
BackupIsConsistent == BothCopied /\ failures = 0 => BackupIsPrefix

-----------------------------------------------------------------------------
\* The inductive invariant behind NeverRefused.

Rotating == {"drain", "drained", "close", "rename", "syncSnapshot", "renameWal", "syncWal",
             "reopen"}

\* The log takes no frames only while a rotation holds the lock, and a call that
\* was refused then is rolled back before the lock is free and retries long
\* before the next rotation: neither can meet the closed log of the other.
RotationInv ==
  /\ walState # "open" => phase \in Rotating
  /\ phase \in Rotating => rotateLock = "compaction"
  /\ phase # "recover"
  /\ backup # "none" => phase = "idle"
  /\ undo # <<>> => phase \in Rotating
  /\ \A n \in Calls :
       /\ op[n] \notin {"broken", "failed"}
       /\ op[n] = "refused" => n \in ToSet(undo)
       /\ op[n] = "retrying" => phase \in {"idle", "fence", "snapshot"}

Stages == {"none", "parked", "called", "ready", "logged", "refused", "broken", "waiting",
           "retrying", "done", "failed", "lost"}

RefusalTypes ==
  /\ op \in [Calls -> Stages] /\ failures \in Nat /\ disturbed \in BOOLEAN
  /\ undo \in Seq(Calls) /\ queue \in Seq(Calls) /\ inflight \in Seq(Calls)

RefusalInv == RefusalTypes /\ (Faultless => RotationInv)
=============================================================================
