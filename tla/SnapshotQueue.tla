--------------------------- MODULE SnapshotQueue ---------------------------
(***************************************************************************)
(* SessionPersistenceQueue for one session file: a pending snapshot, a     *)
(* chain of writes in flight, and the file system calls of the write at    *)
(* the head of the chain (mkdir, writeFile to a temporary file, rename,    *)
(* unlink).  DebouncedSaves drives it through its own API, SessionStore    *)
(* through the mutations of storage.ts.                                    *)
(***************************************************************************)
EXTENDS Naturals, Sequences

CONSTANTS
  Meta,        \* values of the six metadata fields of a header
  Body,        \* the rest of a session: messages and other header fields
  Caller,      \* callers of flush
  NoSnapshot, NoMeta

VARIABLES
  file,     \* session.jsonl
  pending,  \* the snapshot waiting for its timer or for a flush
  writes,   \* writes in flight, oldest first, with the flushes awaiting each
  step,     \* the next file system call of the first write
  sig,      \* metadata of the last snapshot this process wrote
  failed,   \* errors holds the session
  result    \* what each caller's last flush came to

queueVars == <<file, pending, writes, step, sig, failed, result>>

Snapshot == [meta : Meta, body : Body]
Write == [snap : Snapshot, waiters : SUBSET Caller]
Step == {"mkdir", "temp", "rename", "lost", "renamed", "unwritten"}

QueueTypeOK ==
  /\ file \in Snapshot \cup {NoSnapshot}
  /\ pending \in Snapshot \cup {NoSnapshot}
  /\ writes \in Seq(Write)
  /\ step \in Step
  /\ sig \in Meta \cup {NoMeta}
  /\ failed \in BOOLEAN
  /\ result \in [Caller -> {"none", "waiting", "ok", "failed"}]

QueueInit ==
  /\ pending = NoSnapshot
  /\ writes = <<>>
  /\ step = "mkdir"
  /\ failed = FALSE
  /\ result = [c \in Caller |-> "none"]

-----------------------------------------------------------------------------
(* Calls *)

EnqueueSnapshot(s) ==
  /\ pending' = s
  /\ UNCHANGED <<file, writes, step, sig, failed, result>>

\* Variant with a fault: the new write does not wait for those in flight.
StartedUnchained(s, callers) == <<[snap |-> s, waiters |-> callers]>> \o writes

\* The write that a snapshot becomes, chained behind those in flight.
Started(s, callers) == Append(writes, [snap |-> s, waiters |-> callers])

\* The debounce timer writes for nobody; a failure is only recorded.
TimerFires ==
  /\ pending # NoSnapshot
  /\ writes' = Started(pending, {})
  /\ pending' = NoSnapshot
  /\ UNCHANGED <<file, step, sig, failed, result>>

FlushPending(c) ==
  /\ pending # NoSnapshot
  /\ writes' = Started(pending, {c})
  /\ pending' = NoSnapshot
  /\ result' = [result EXCEPT ![c] = "waiting"]
  /\ UNCHANGED <<file, step, sig, failed>>

\* Variant with a fault: joins the write that is on the disk.
FlushJoinsFirst(c) ==
  /\ pending = NoSnapshot /\ writes # <<>>
  /\ writes' = [writes EXCEPT ![1].waiters = @ \cup {c}]
  /\ result' = [result EXCEPT ![c] = "waiting"]
  /\ UNCHANGED <<file, pending, step, sig, failed>>

\* Variant with a fault: the caller is not told when the write settles.
FlushJoinsUntold(c) ==
  /\ pending = NoSnapshot /\ writes # <<>>
  /\ result' = [result EXCEPT ![c] = "waiting"]
  /\ UNCHANGED <<file, pending, writes, step, sig, failed>>

\* Nothing pending: the newest write in flight is awaited.
FlushJoins(c) ==
  /\ pending = NoSnapshot /\ writes # <<>>
  /\ writes' = [writes EXCEPT ![Len(writes)].waiters = @ \cup {c}]
  /\ result' = [result EXCEPT ![c] = "waiting"]
  /\ UNCHANGED <<file, pending, step, sig, failed>>

\* Nothing to write: the recorded error is reported again.
FlushIdle(c) ==
  /\ pending = NoSnapshot /\ writes = <<>>
  /\ result' = [result EXCEPT ![c] = IF failed THEN "failed" ELSE "ok"]
  /\ UNCHANGED <<file, pending, writes, step, sig, failed>>

Flush(c) == FlushPending(c) \/ FlushJoins(c) \/ FlushIdle(c)

\* persistSessionNow: enqueue and flush in one synchronous block.
Save(s, c) ==
  /\ pending' = NoSnapshot
  /\ writes' = Started(s, {c})
  /\ result' = [result EXCEPT ![c] = "waiting"]
  /\ UNCHANGED <<file, step, sig, failed>>

\* Writes in flight are not touched.
Cancel ==
  /\ pending' = NoSnapshot
  /\ sig' = NoMeta
  /\ failed' = FALSE

\* rmSync: the temporary file of a write in flight goes with the directory.
RemoveDirectory ==
  /\ file' = NoSnapshot
  /\ step' = IF step \in {"temp", "rename"} THEN "lost" ELSE step

\* deleteSession.
Delete ==
  /\ Cancel
  /\ RemoveDirectory
  /\ UNCHANGED <<writes, result>>

-----------------------------------------------------------------------------
(* writeSnapshot, one file system call at a time *)

\* Variant with a fault: a failure stays unrecorded.
SettledSilently(ok) ==
  /\ writes' = Tail(writes)
  /\ step' = "mkdir"
  /\ failed' = FALSE
  /\ result' = [c \in Caller |->
       IF c \in Head(writes).waiters THEN IF ok THEN "ok" ELSE "failed" ELSE result[c]]

\* The write's promise settles: the next in the chain starts.
Settled(ok) ==
  /\ writes' = Tail(writes)
  /\ step' = "mkdir"
  /\ failed' = ~ok
  /\ result' = [c \in Caller |->
       IF c \in Head(writes).waiters THEN IF ok THEN "ok" ELSE "failed" ELSE result[c]]

\* Variant with a fault: the header on the disk is not looked at.
Unmerged(s) == s

\* A header edited by another program since the last write wins over the
\* snapshot, in all six metadata fields.
Merged(s) ==
  IF file # NoSnapshot /\ sig # NoMeta /\ file.meta # sig
  THEN [s EXCEPT !.meta = file.meta]
  ELSE s

DirectoryMade ==
  /\ writes # <<>> /\ step = "mkdir"
  /\ writes' = [writes EXCEPT ![1].snap = Merged(@)]
  /\ step' = "temp"
  /\ UNCHANGED <<file, pending, sig, failed, result>>

DirectoryFailed ==
  /\ writes # <<>> /\ step = "mkdir"
  /\ Settled(FALSE)
  /\ UNCHANGED <<file, pending, sig>>

TempWritten ==
  /\ step = "temp"
  /\ step' = "rename"
  /\ UNCHANGED <<file, pending, writes, sig, failed, result>>

\* writeFile or rename failed: the temporary file is unlinked.
WriteFailed ==
  /\ step \in {"temp", "rename", "lost"}
  /\ step' = "unwritten"
  /\ UNCHANGED <<file, pending, writes, sig, failed, result>>

Renamed ==
  /\ step = "rename"
  /\ file' = Head(writes).snap
  /\ sig' = Head(writes).snap.meta
  /\ step' = "renamed"
  /\ UNCHANGED <<pending, writes, failed, result>>

\* Variant with a fault: a failed write never settles.
UnlinkedIfRenamed ==
  /\ step = "renamed"
  /\ Settled(TRUE)
  /\ UNCHANGED <<file, pending, sig>>

Unlinked ==
  /\ step \in {"renamed", "unwritten"}
  /\ Settled(step = "renamed")
  /\ UNCHANGED <<file, pending, sig>>

WriteStep ==
  DirectoryMade \/ DirectoryFailed \/ TempWritten \/ WriteFailed \/ Renamed \/ Unlinked

\* The process ends: the file is what the last rename made it.
Crash ==
  /\ pending' = NoSnapshot
  /\ writes' = <<>>
  /\ step' = "mkdir"
  /\ sig' = NoMeta
  /\ failed' = FALSE
  /\ result' = [c \in Caller |-> "none"]
  /\ UNCHANGED file

=============================================================================
