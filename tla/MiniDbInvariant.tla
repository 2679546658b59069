--------------------------- MODULE MiniDbInvariant ---------------------------
(****************************************************************************)
(* What holds of the files of minidb between two steps.  DataInv, until an  *)
(* I/O error, is the inductive invariant behind RecoveredIsPrefix and       *)
(* UndisturbedBackup: a power loss at any moment leaves the effect of a     *)
(* prefix of the writes.  AnswerInv, always, is the one behind              *)
(* AckedSurvive: nothing on disk is older than an answer.                   *)
(****************************************************************************)
EXTENDS MiniDb

-----------------------------------------------------------------------------
\* What recovery makes of snapshot and log, told by the order l in which the
\* calls c were applied.

\* n was applied before m.
Before(l, n, m) == \E i, j \in DOMAIN l : i < j /\ l[i] = n /\ l[j] = m
Chain(l, s) == \A i, j \in DOMAIN s : i < j => Before(l, s[i], s[j])
Precede(l, S, T) == \A n \in S, m \in T : Before(l, n, m)

\* S has, with a call, all that came before it.
Leading(l, S) == \A n \in ToSet(l), m \in S : Before(l, n, m) => n \in S

Untouched(c, S, k) == \A n \in S : k \notin DOMAIN c[n]
LastWriter(c, l, S, k, n) ==
  /\ n \in S /\ k \in DOMAIN c[n]
  /\ \A m \in S : k \in DOMAIN c[m] => m = n \/ Before(l, m, n)

\* v is what the calls of S, in their order, make of k.
Holds(c, l, S, k, v) ==
  \/ \E n \in S : LastWriter(c, l, S, k, n) /\ v = IF c[n][k] THEN n ELSE Absent
  \/ Untouched(c, S, k) /\ v = Absent

\* A snapshot that the frames in W complete: what it has of a key is what the
\* calls of S made of it, or a frame of W says it anew.
Completes(c, l, s, S, W) == \A k \in Keys : Holds(c, l, S, k, s[k]) \/ ~ Untouched(c, W, k)

-----------------------------------------------------------------------------
\* The invariant behind RecoveredIsPrefix and UndisturbedBackup.

\* Calls whose append was rejected and that have not committed again.
Rejected == {n \in Calls : op[n] \in {"refused", "waiting", "retrying"}}
Framed == ToSet(wal) \cup ToSet(Unwritten) \cup ToSet(queue)
\* The calls that only the snapshot has.
Base == ToSet(log) \ (Framed \cup Rejected)

DataTypes ==
  /\ calls \in Seq(Frames) /\ Len(calls) <= MaxCalls
  /\ log \in Seq(Calls) /\ IsInjective(log)
  /\ wal \in Seq(Calls) /\ synced \in 0 .. Len(wal)
  /\ flushing \in {"no", "write", "sync"}

\* Where the calls are.
FlowInv ==
  /\ \A n \in Calls : op[n] # "none" => n <= Len(calls)
  /\ \A n \in ToSet(log) : op[n] \in {"logged", "refused", "waiting", "retrying", "done", "lost"}
  /\ \A n \in Calls : op[n] = "logged" <=> n \in ToSet(queue) \cup ToSet(inflight)
  /\ Framed \subseteq ToSet(log)
  /\ \A n \in ToSet(wal) : op[n] \in {"logged", "done", "lost"}
  /\ \A n \in acked : n \in ToSet(log) /\ op[n] = "done"
  /\ IsInjective(undo) /\ \A n \in ToSet(undo) : op[n] = "refused"

\* The log on the platter, the part written since, and what is to come.
WalInv ==
  /\ flushing = "no" <=> inflight = <<>>
  /\ flushing # "sync" => synced = Len(wal)
  /\ flushing = "sync" => /\ ToSet(inflight) \subseteq ToSet(wal)
                          /\ \A i \in synced + 1 .. Len(wal) : wal[i] \in ToSet(inflight)
  /\ Chain(log, wal) /\ Chain(log, inflight) /\ Chain(log, queue)
  /\ Precede(log, ToSet(wal), ToSet(Unwritten) \cup ToSet(queue))
  /\ Precede(log, ToSet(Unwritten), ToSet(queue))
  /\ Precede(log, Base, Framed)

\* The store has the effect of the log, but for what a rollback may have undone.
StoreInv ==
  \A k \in Keys : Untouched(calls, Rejected, k) => Holds(calls, log, ToSet(log), k, store[k])

\* A compaction until its log takes the place of the old one: the first Start
\* frames are for the snapshot it writes, the others for the log.
Copying == {"snapshot", "precopy", "drain", "drained", "close", "rename", "syncSnapshot", "renameWal"}
Start == copiedUpTo - Len(walTmp)
Early == Base \cup {wal[i] : i \in 1 .. Start}
Late == {wal[i] : i \in Start + 1 .. Len(wal)} \cup ToSet(Unwritten) \cup ToSet(queue)
TmpHolds(k) == Holds(calls, log, Early, k, snapTmp[k]) \/ ~ Untouched(calls, Late, k)

CopyInv ==
  /\ walTmp \in Seq(Calls) /\ copiedUpTo \in Nat /\ snapTmp = [k \in Keys |-> snapTmp[k]]
  /\ phase \in Copying =>
       /\ Len(walTmp) <= copiedUpTo /\ copiedUpTo <= Len(wal)
       /\ \A i \in DOMAIN walTmp : walTmp[i] = wal[Start + i]
       /\ \A k \in Keys : \/ TmpHolds(k)
                          \/ phase = "snapshot" /\ k \notin visited /\ snapTmp[k] = Absent
  /\ phase \in {"close", "rename", "syncSnapshot", "renameWal"} => copiedUpTo = Len(wal)
  /\ phase \in {"syncSnapshot", "renameWal"} => snapshot = snapTmp

\* The sealed log takes no frames, and the refused calls wait for the next one.
SealInv ==
  /\ awaits \in [Calls -> {"none", "compaction", "backup"}]
  /\ rotateLock \in {"none", "compaction", "backup"}
  /\ phase \in Rotating => walState # "open"
  /\ phase \in Rotating \ {"drain"} => Flushed
  /\ \A n \in Calls : op[n] = "waiting" => phase \in Rotating /\ awaits[n] = "compaction"

Platter == {wal[i] : i \in 1 .. synced}

\* The log that was replaced has all that the new one has, on the platter.
OldWalInv ==
  /\ oldWal \in Seq(Calls) /\ Chain(log, oldWal)
  /\ ToSet(wal) \subseteq ToSet(oldWal) /\ ToSet(oldWal) \subseteq ToSet(log)
  /\ \A n \in ToSet(oldWal) : op[n] \in {"done", "lost"}
  /\ Precede(log, Base \ ToSet(oldWal), ToSet(oldWal))

SnapInv ==
  /\ Completes(calls, log, snapshot, Base, Platter)
  /\ oldSnapshot # None => /\ phase = "syncSnapshot"
                           /\ Completes(calls, log, oldSnapshot, Base, Platter)
  /\ oldWal # None => phase = "syncWal" /\ OldWalInv

\* What the copy of the log covers, with the snapshot, is a prefix.
CopiedWalInv ==
  /\ copied.wal \in Seq(Calls) /\ Chain(log, copied.wal)
  /\ ToSet(copied.wal) \subseteq ToSet(wal)
  /\ Rejected = {}
  /\ Completes(calls, log, snapshot, Base, ToSet(copied.wal))
  /\ ackedBefore \subseteq Base \cup ToSet(copied.wal)
  /\ Leading(log, Base \cup ToSet(copied.wal))

BackupInv ==
  /\ ackedBefore \subseteq acked
  /\ copied = [snapshot |-> copied.snapshot, wal |-> copied.wal]
  /\ copied.snapshot # None => backup = "copy" /\ copied.snapshot = snapshot
  /\ copied.wal # None => backup = "copy" /\ CopiedWalInv

CoreInv == DataTypes /\ FlowInv /\ WalInv /\ StoreInv
DataInv == CoreInv /\ CopyInv /\ SealInv /\ SnapInv /\ BackupInv

RecoveryInv == RefusalInv /\ (Faultless => DataInv)

-----------------------------------------------------------------------------
\* The invariant behind AckedSurvive, which holds of I/O errors too: then the
\* log may keep frames of calls that were rolled back, and a rollback may put
\* back what another one undid.

\* v is a value that a call made of k, and no call of S wrote k after it.
Fresh(c, l, S, k, v) ==
  \/ Untouched(c, S, k) /\ v = Absent
  \/ \E n \in ToSet(l) : /\ k \in DOMAIN c[n] /\ v = IF c[n][k] THEN n ELSE Absent
                         /\ \A m \in S : k \in DOMAIN c[m] => m = n \/ Before(l, m, n)

\* Calls that were answered, or are on their way to the platter.
Answerable == acked \cup ToSet(queue) \cup ToSet(inflight)
Earlier(n) == {m \in Answerable : Before(log, m, n)}

\* Where a call is when it will not commit again, of those that have frames.
Fixed == {"logged", "done", "broken", "failed", "lost"}

AnswerFlow ==
  /\ \A n \in Calls : op[n] # "none" => n <= Len(calls)
  /\ \A n \in ToSet(log) : op[n] # "none"
  /\ \A n \in ToSet(queue) \cup ToSet(inflight) : op[n] = "logged"
  /\ IsInjective(queue) /\ IsInjective(inflight) /\ IsInjective(undo)
  /\ \A n \in ToSet(undo) : op[n] \in {"refused", "broken"}
  /\ Framed \cup ToSet(inflight) \cup ToSet(undo) \cup acked \subseteq ToSet(log)
  /\ \A n \in ToSet(wal) : op[n] \in Fixed
  /\ \A n \in acked : op[n] = "done"
  /\ DOMAIN prev = Calls

\* The log on disk keeps the order, has on the platter what it has of the
\* answers, and the answers that it lacks came before.
AnswerWal ==
  /\ flushing = "no" <=> inflight = <<>>
  /\ flushing = "sync" => ToSet(inflight) \subseteq ToSet(wal)
  /\ \A i \in synced + 1 .. Len(wal) : wal[i] \notin acked
  /\ Chain(log, wal) /\ Chain(log, inflight) /\ Chain(log, queue)
  /\ Precede(log, ToSet(wal), ToSet(Unwritten) \cup ToSet(queue))
  /\ Precede(log, ToSet(Unwritten), ToSet(queue))
  /\ Precede(log, acked \ ToSet(wal), Framed)

\* A record that can be rolled back is the last write of its key.
SeqInv ==
  \A k \in Keys : seq[k] # 0 =>
    /\ seq[k] \in ToSet(log)
    /\ \A m \in ToSet(log) : k \in Writes(m) => m = seq[k] \/ Before(log, m, seq[k])

\* The store, and what a rollback may put back in it.
AnswerStore(k) ==
  /\ Fresh(calls, log, Answerable, k, store[k])
  /\ \A n \in ToSet(queue) \cup ToSet(inflight) \cup ToSet(undo) :
       Fresh(calls, log, Earlier(n), k, prev[n][k])

AnswerCore ==
  /\ DataTypes /\ AnswerFlow /\ AnswerWal /\ SeqInv
  /\ \A k \in Keys : DeletedOnce(k) => AnswerStore(k)

\* The files of a compaction until its log takes the place of the old one.
AnswerCopy ==
  /\ walTmp \in Seq(Calls) /\ copiedUpTo \in Nat /\ snapTmp = [k \in Keys |-> snapTmp[k]]
  /\ phase \in Copying =>
       /\ Len(walTmp) <= copiedUpTo /\ copiedUpTo <= Len(wal)
       /\ \A i \in DOMAIN walTmp : walTmp[i] = wal[Start + i]
       /\ ToSet(inflight) \subseteq Late
  /\ phase \in {"close", "rename", "syncSnapshot", "renameWal"} => copiedUpTo = Len(wal)
  /\ phase \in {"syncSnapshot", "renameWal"} => snapshot = snapTmp
  /\ phase \in Rotating => walState # "open"
  /\ phase \in Rotating \ {"drain"} => Flushed

\* What a rename replaced will do as well.
AnswerOld ==
  /\ oldSnapshot # None => phase = "syncSnapshot"
  /\ oldWal # None =>
       /\ phase = "syncWal"
       /\ oldWal \in Seq(Calls) /\ Chain(log, oldWal)
       /\ ToSet(wal) \subseteq ToSet(oldWal) /\ ToSet(oldWal) \subseteq ToSet(log)
       /\ \A n \in ToSet(oldWal) : op[n] \in Fixed
       /\ Precede(log, acked \ ToSet(oldWal), ToSet(oldWal))

\* What a snapshot has of a key, or the part of the log on the platter after it.
AnswerSnap(k, s) == Fresh(calls, log, acked \ ToSet(wal), k, s[k]) \/ ~ Untouched(calls, Platter, k)
AnswerTmp(k) == Fresh(calls, log, acked \ Late, k, snapTmp[k])

AnswerFiles(k) ==
  /\ AnswerSnap(k, snapshot)
  /\ oldSnapshot # None => AnswerSnap(k, oldSnapshot)
  /\ phase \in Copying =>
       AnswerTmp(k) \/ (phase = "snapshot" /\ k \notin visited /\ snapTmp[k] = Absent)

AnswerDisk ==
  /\ AnswerCopy /\ AnswerOld
  /\ \A k \in Keys : DeletedOnce(k) => AnswerFiles(k)

AnswerInv == AnswerCore /\ AnswerDisk

SurvivalInv == RecoveryInv /\ AnswerInv
==============================================================================
