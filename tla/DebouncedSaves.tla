--------------------------- MODULE DebouncedSaves ---------------------------
(***************************************************************************)
(* The persistence queue used through its whole API: snapshots enqueued at *)
(* any moment, written by the debounce timer or by flush and flushAll,     *)
(* cancel, deleteSession, failing file system calls and a crash.  Snapshots*)
(* are numbered in the order in which they are enqueued; the metadata does *)
(* not matter here and is the same in all of them.                         *)
(***************************************************************************)
EXTENDS SnapshotQueue

CONSTANT MaxSaves   \* bound on the snapshots enqueued

VARIABLES
  latest,  \* number of the last snapshot enqueued
  owed,    \* history: the newest snapshot the queue still has to store
  target   \* history: the snapshot a caller's flush has to store

savesVars == <<queueVars, latest, owed, target>>

SavesAssumption ==
  MaxSaves \in Nat /\ Body = 0 .. MaxSaves /\ NoSnapshot \notin Snapshot

Number(s) == IF s = NoSnapshot THEN 0 ELSE s.body

\* Some write in flight has not replaced the file yet; then the last of the
\* chain is what the file will be.
Unfinished == Len(writes) > (IF step = "renamed" THEN 1 ELSE 0)
Held(f) == IF Unfinished THEN writes[Len(writes)].snap.body ELSE Number(f)

SavesInit ==
  /\ QueueInit
  /\ file = NoSnapshot
  /\ sig = NoMeta
  /\ latest = 0
  /\ owed = 0
  /\ target = [c \in Caller |-> 0]

EnqueueNext ==
  /\ latest < MaxSaves
  /\ \E m \in Meta : EnqueueSnapshot([meta |-> m, body |-> latest + 1])
  /\ latest' = latest + 1
  /\ owed' = latest + 1
  /\ UNCHANGED target

Timer ==
  /\ TimerFires
  /\ UNCHANGED <<latest, owed, target>>

\* A caller awaits one flush at a time.
FlushCall(c) ==
  /\ result[c] # "waiting"
  /\ Flush(c)
  /\ target' = [target EXCEPT ![c] = owed]
  /\ UNCHANGED <<latest, owed>>

\* cancel gives up the pending snapshot and what had failed.
CancelCall ==
  /\ Cancel
  /\ owed' = Held(file)
  /\ UNCHANGED <<file, writes, step, result, latest, target>>

\* What is in flight is still written, into a directory made anew.
DeleteCall ==
  /\ Delete
  /\ owed' = Held(file')
  /\ UNCHANGED <<latest, target>>

FileSystem ==
  /\ WriteStep
  /\ UNCHANGED <<latest, owed, target>>

Exit ==
  /\ Crash
  /\ owed' = Number(file)
  /\ target' = [c \in Caller |-> 0]
  /\ UNCHANGED latest

SavesNext ==
  \/ EnqueueNext \/ Timer \/ CancelCall \/ DeleteCall
  \/ \E c \in Caller : FlushCall(c)
  \/ FileSystem
  \/ Exit

SavesSpec == SavesInit /\ [][SavesNext]_savesVars

\* A file system call settles, and a timer fires unless the process exits.
SavesFairness == WF_savesVars(FileSystem) /\ WF_savesVars(Timer)

FairSavesSpec == SavesSpec /\ SavesFairness

-----------------------------------------------------------------------------
(* Properties *)

\* A flush that resolved has stored the snapshot that was the newest when it
\* was called, or a newer one, unless the session was deleted; and a snapshot
\* that did not reach the file is pending, being written, or its failure is on
\* record for the next flush: none is lost in silence.
FlushedIsStored ==
  \A c \in Caller :
    result[c] = "ok" /\ file # NoSnapshot => file.body >= target[c]
LossIsRecorded ==
  pending = NoSnapshot /\ writes = <<>> /\ ~failed => Number(file) = owed
FlushesAreTruthful == FlushedIsStored /\ LossIsRecorded

\* However the timer, flushes and failures interleave, the file never goes
\* back to an older snapshot.
NewestStays ==
  [][file # NoSnapshot /\ file' # NoSnapshot => file'.body >= file.body]_savesVars

\* The queue comes to rest, without anybody calling flush: an enqueued
\* snapshot is written or its failure is on record.  And every flush settles.
FlushesReturn ==
  /\ latest > 0 ~> (pending = NoSnapshot /\ writes = <<>>)
  /\ \A c \in Caller : result[c] = "waiting" ~> result[c] # "waiting"

=============================================================================
