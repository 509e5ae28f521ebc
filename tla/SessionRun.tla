----------------------------- MODULE SessionRun -----------------------------
(***************************************************************************)
(* One session of the ThreadCove server: SessionManager (submitMessage,    *)
(* cancel, waitForIdle, withIdleSession, shutdown, destroySession,         *)
(* recoverWorkspace) with the RPC handlers that call it, and the session   *)
(* file it keeps.  All state of SessionManager is keyed by                 *)
(* workspace:session, so one session is the whole story, except that       *)
(* shutdown visits the sessions one after the other: what it does to the   *)
(* others appears here as the delay between its steps.                     *)
(*                                                                         *)
(* JavaScript runs one synchronous block at a time, so a block between two *)
(* awaits is one action.  A save is one action that succeeds or fails:     *)
(* SessionStore models the write queue under it.                           *)
(***************************************************************************)
EXTENDS Naturals, FiniteSets

CONSTANTS
  Request,    \* request ids chosen by the clients
  Text,       \* message texts
  Run,        \* run ids (randomUUID), bounds the submissions of a behaviour
  Entry,      \* identities of ActiveSession objects in one server process
  Model,      \* model names
  Call,       \* concurrent DELETE and SET_MODEL calls
  MaxEvents,  \* bound on the backend events one run consumes
  NoRun, NoEntry

ASSUME ConstantsAssumption ==
  /\ Request # {} /\ Text # {} /\ Entry # {} /\ Model # {}
  /\ MaxEvents \in Nat
  /\ NoRun \notin Run
  /\ NoEntry \notin Entry

VARIABLES
  disk,      \* the session file: header fields and messages
  entry,     \* ActiveSession objects of this process
  active,    \* SessionManager.active: the session's current entry
  run,       \* submitted runs: the closures of submitMessage
  locked,    \* SessionManager.locks holds the session
  call,      \* DELETE and SET_MODEL handlers in progress
  phase,     \* life of the server process
  shut,      \* what shutdown's waitForIdle waits for
  accepted,  \* history: {accepted: true} replies
  chats      \* history: calls of backend.chat

vars == <<disk, entry, active, run, locked, call, phase, shut, accepted, chats>>

-----------------------------------------------------------------------------
(* State *)

\* What a run announces; "unsaved" is a failed run whose last save failed.
Status == {"completed", "cancelled", "failed", "unsaved"}

RunPc == {"unused", "accepting", "accepted", "refused", "streaming",
          "checkpointing", "flushing", "reflushing", "closing", "ended"}

Message == [req : Request, text : Text, run : Run]

RunRecord == [pc : RunPc, req : Request, text : Text, entry : Entry,
              made : Nat, complete : BOOLEAN, error : BOOLEAN,
              status : Status \cup {"none"}]

EntryRecord == [born : BOOLEAN, processing : BOOLEAN, abort : BOOLEAN,
                model : Model, task : Run \cup {NoRun}]

CallRecord == [pc : {"idle", "settling", "joining", "removing", "saving"},
               waits : SUBSET Run, task : Run \cup {NoRun}, model : Model]

LastRun == [run : Run \cup {NoRun},
            status : Status \cup {"none", "running", "interrupted"}]

TypeOK ==
  /\ disk \in [exists : BOOLEAN, model : Model, msgs : SUBSET Message,
               last : LastRun, saved : [Run -> Nat]]
  /\ entry \in [Entry -> EntryRecord]
  /\ active \in Entry \cup {NoEntry}
  /\ run \in [Run -> RunRecord]
  /\ locked \in BOOLEAN
  /\ call \in [Call -> CallRecord]
  /\ phase \in {"up", "closing", "settling", "joining", "draining",
                "flushing", "broken", "stopped", "down"}
  /\ shut \in [waits : SUBSET Run, task : Run \cup {NoRun}]
  /\ accepted \in SUBSET Message
  /\ chats \in SUBSET [req : Request, run : Run]

\* SessionManager.submissions: a submission is entered when it reserves the
\* session and deleted when it is refused or its task ends.
Live(r) == run[r].pc \notin {"unused", "ended"}
Submitted(q) == {r \in Run : Live(r) /\ run[r].req = q}

\* A run before the end of its for-await loop, when it still looks at the flag.
Interruptible(r) == run[r].pc \in {"accepting", "accepted", "streaming", "checkpointing"}

Serving == phase \notin {"stopped", "down"}

\* abortRequested of the entry object the run's closure holds.
Aborted(r) == entry[run[r].entry].abort

-----------------------------------------------------------------------------
(* Entries *)

UnbornEntry == [born |-> FALSE, processing |-> FALSE, abort |-> FALSE,
                model |-> CHOOSE m \in Model : TRUE, task |-> NoRun]
NewEntry == [born |-> TRUE, processing |-> FALSE, abort |-> FALSE,
             model |-> disk.model, task |-> NoRun]

\* SEND_MESSAGE uses the active entry, or creates one from the file.
CanOpen(e) ==
  \/ active = e
  \/ active = NoEntry /\ disk.exists /\ ~entry[e].born

Opened(e) == IF active = e THEN entry ELSE [entry EXCEPT ![e] = NewEntry]

\* cancel(): raise the flag of the active entry; the backend is told to stop.
CancelActive ==
  IF active = NoEntry THEN UNCHANGED entry
  ELSE entry' = [entry EXCEPT ![active].abort = TRUE]

-----------------------------------------------------------------------------
(* SEND_MESSAGE: open the session, then submitMessage up to its first await *)

\* Variant with a fault: retries are looked up only among submissions in progress.
PreviousForgotten(q) == {m \in disk.msgs : m.req = q /\ Live(m.run)}
\* Variant with a fault: an interrupted run may be submitted again.
PreviousUninterrupted(q) ==
  {m \in disk.msgs : m.req = q /\ disk.last # [run |-> m.run, status |-> "interrupted"]}

\* The message of an earlier submission with this request id.
Previous(q) == {m \in disk.msgs : m.req = q}

\* Variant with a fault: only the lock is looked at.
BusyIfLocked(e) == locked
\* Variant with a fault: only the reservation is looked at.
BusyIfProcessing(e) == entry[e].processing

Busy(e) == entry[e].processing \/ locked

FreshRun(q, t, e) ==
  [pc |-> "accepting", req |-> q, text |-> t, entry |-> e, made |-> 0,
   complete |-> FALSE, error |-> FALSE, status |-> "none"]

UnusedRun ==
  [FreshRun(CHOOSE q \in Request : TRUE, CHOOSE t \in Text : TRUE, CHOOSE e \in Entry : TRUE)
     EXCEPT !.pc = "unused"]

\* A retry of a submission in progress shares its result, which joins
\* accepted when the run is accepted; another text is an error.
SendInProgress(q, e) ==
  /\ Serving /\ CanOpen(e) /\ Submitted(q) # {}
  /\ entry' = Opened(e) /\ active' = e
  /\ UNCHANGED <<disk, run, locked, call, phase, shut, accepted, chats>>

\* A retry of a stored message gets the stored run; another text is an error.
SendAgain(q, t, e) ==
  /\ Serving /\ CanOpen(e) /\ Submitted(q) = {} /\ Previous(q) # {}
  /\ entry' = Opened(e) /\ active' = e
  /\ accepted' = accepted \cup {m \in Previous(q) : m.text = t}
  /\ UNCHANGED <<disk, run, locked, call, phase, shut, chats>>

SendBusy(q, e) ==
  /\ Serving /\ CanOpen(e) /\ Submitted(q) = {} /\ Previous(q) = {} /\ Busy(e)
  /\ entry' = Opened(e) /\ active' = e
  /\ UNCHANGED <<disk, run, locked, call, phase, shut, accepted, chats>>

SendReserve(q, t, e, r) ==
  /\ Serving /\ CanOpen(e) /\ Submitted(q) = {} /\ Previous(q) = {} /\ ~Busy(e)
  /\ run[r].pc = "unused"
  /\ entry' = [Opened(e) EXCEPT ![e].processing = TRUE, ![e].abort = FALSE]
  /\ active' = e
  /\ run' = [run EXCEPT ![r] = FreshRun(q, t, e)]
  /\ UNCHANGED <<disk, locked, call, phase, shut, accepted, chats>>

-----------------------------------------------------------------------------
(* The submission's own steps *)

\* The first save stores the user message and marks the run as running.
AcceptSaved(r) ==
  /\ run[r].pc = "accepting" /\ disk.exists
  /\ disk' = [disk EXCEPT
       !.msgs = @ \cup {[req |-> run[r].req, text |-> run[r].text, run |-> r]},
       !.last = [run |-> r, status |-> "running"]]
  /\ run' = [run EXCEPT ![r].pc = "accepted"]
  /\ UNCHANGED <<entry, active, locked, call, phase, shut, accepted, chats>>

\* Variant with a fault: a failed save is taken for an acceptance.
AcceptFailedIgnored(r) ==
  /\ run[r].pc = "accepting"
  /\ run' = [run EXCEPT ![r].pc = "accepted"]
  /\ UNCHANGED <<disk, entry, active, locked, call, phase, shut, accepted, chats>>

\* The save failed, or the file is gone.
AcceptFailed(r) ==
  /\ run[r].pc = "accepting"
  /\ run' = [run EXCEPT ![r].pc = "refused"]
  /\ UNCHANGED <<disk, entry, active, locked, call, phase, shut, accepted, chats>>

\* The closure is gone; only what it announced is kept.
EndedRun(status) == [UnusedRun EXCEPT !.pc = "ended", !.status = status]

\* processing = false, submissions.delete, run_status: one synchronous block.
End(r, status) ==
  /\ run' = [run EXCEPT ![r] = EndedRun(status)]
  /\ entry' = [entry EXCEPT ![run[r].entry].processing = FALSE]

Refuse(r) ==
  /\ run[r].pc = "refused"
  /\ End(r, "none")
  /\ UNCHANGED <<disk, active, locked, call, phase, shut, accepted, chats>>

\* Variant with a fault: no flush after the loop.
AfterLoopUnflushed(r) == "closing"

\* Where the task goes when its loop is over: flush() writes nothing when no
\* event was consumed.
AfterLoop(r) == IF run[r].made = 0 THEN "closing" ELSE "flushing"
AfterThrow(r) == IF run[r].made = 0 THEN "closing" ELSE "reflushing"

\* Variant with a fault: a complete event wins over the cancel.
LoopStatusCompleteFirst(r) ==
  IF run[r].complete THEN "completed" ELSE IF Aborted(r) THEN "cancelled" ELSE "failed"

LoopStatus(r) ==
  CASE Aborted(r)                              -> "cancelled"
    [] ~Aborted(r) /\ run[r].error             -> "failed"
    [] ~Aborted(r) /\ ~run[r].error /\ run[r].complete -> "completed"
    [] OTHER                                   -> "failed"

ThrowStatus(r) == IF Aborted(r) THEN "cancelled" ELSE "failed"

\* Acceptance is answered, user_message broadcast, the task started: it calls
\* the backend unless a cancel came first.
Accept(r) ==
  /\ run[r].pc = "accepted"
  /\ accepted' = accepted \cup {[req |-> run[r].req, text |-> run[r].text, run |-> r]}
  /\ entry' = [entry EXCEPT ![run[r].entry].task = r]
  /\ IF Aborted(r)
     THEN /\ run' = [run EXCEPT ![r].pc = AfterLoop(r), ![r].status = LoopStatus(r)]
          /\ UNCHANGED chats
     ELSE /\ run' = [run EXCEPT ![r].pc = "streaming"]
          /\ chats' = chats \cup {[req |-> run[r].req, run |-> r]}
  /\ UNCHANGED <<disk, active, locked, call, phase, shut>>

\* An event that is only kept in memory: a text_delta within 750 ms of the
\* last checkpoint.
StreamDelta(r) ==
  /\ run[r].pc = "streaming" /\ ~Aborted(r) /\ run[r].made < MaxEvents
  /\ run' = [run EXCEPT ![r].made = @ + 1]
  /\ UNCHANGED <<disk, entry, active, locked, call, phase, shut, accepted, chats>>

\* An event that is saved before it is broadcast; err when it is an error event.
StreamCheckpoint(r, err) ==
  /\ run[r].pc = "streaming" /\ ~Aborted(r) /\ run[r].made < MaxEvents
  /\ run' = [run EXCEPT ![r].made = @ + 1, ![r].pc = "checkpointing",
                        ![r].error = @ \/ err]
  /\ UNCHANGED <<disk, entry, active, locked, call, phase, shut, accepted, chats>>

\* A complete event is held back until the run is saved.
StreamComplete(r) ==
  /\ run[r].pc = "streaming" /\ ~Aborted(r)
  /\ run' = [run EXCEPT ![r].complete = TRUE]
  /\ UNCHANGED <<disk, entry, active, locked, call, phase, shut, accepted, chats>>

\* flush(): every message the run produced replaces its stored version.
SaveTranscript(r) == disk' = [disk EXCEPT !.saved[r] = run[r].made]

CheckpointSaved(r) ==
  /\ run[r].pc = "checkpointing" /\ disk.exists
  /\ SaveTranscript(r)
  /\ run' = [run EXCEPT ![r].pc = "streaming"]
  /\ UNCHANGED <<entry, active, locked, call, phase, shut, accepted, chats>>

\* The generator ended, or an event arrived after a cancel.
LeaveLoop(r) ==
  /\ run[r].pc = "streaming"
  /\ run' = [run EXCEPT ![r].pc = AfterLoop(r), ![r].status = LoopStatus(r),
                        ![r].complete = FALSE, ![r].error = FALSE]
  /\ UNCHANGED <<disk, entry, active, locked, call, phase, shut, accepted, chats>>

\* The backend threw, or a save inside the try block did.
Throw(r) ==
  /\ run[r].pc \in {"streaming", "checkpointing", "flushing"}
  /\ run' = [run EXCEPT ![r].pc = AfterThrow(r), ![r].status = ThrowStatus(r),
                        ![r].complete = FALSE, ![r].error = FALSE]
  /\ UNCHANGED <<disk, entry, active, locked, call, phase, shut, accepted, chats>>

\* The flush after the loop, and the second attempt after a failure.
FlushSaved(r) ==
  /\ run[r].pc \in {"flushing", "reflushing"} /\ disk.exists
  /\ SaveTranscript(r)
  /\ run' = [run EXCEPT ![r].pc = "closing"]
  /\ UNCHANGED <<entry, active, locked, call, phase, shut, accepted, chats>>

ReflushFailed(r) ==
  /\ run[r].pc = "reflushing"
  /\ run' = [run EXCEPT ![r].pc = "closing"]
  /\ UNCHANGED <<disk, entry, active, locked, call, phase, shut, accepted, chats>>

\* The last save writes lastRun; then the session is idle and run_status is
\* broadcast in the same block.
FinishSaved(r) ==
  /\ run[r].pc = "closing" /\ disk.exists
  /\ disk' = [disk EXCEPT !.last = [run |-> r, status |-> run[r].status]]
  /\ End(r, run[r].status)
  /\ UNCHANGED <<active, locked, call, phase, shut, accepted, chats>>

FinishFailed(r) ==
  /\ run[r].pc = "closing"
  /\ End(r, "unsaved")
  /\ UNCHANGED <<disk, active, locked, call, phase, shut, accepted, chats>>

-----------------------------------------------------------------------------
(* CANCEL, DELETE, SET_MODEL *)

Cancel ==
  /\ Serving /\ active # NoEntry
  /\ CancelActive
  /\ UNCHANGED <<disk, active, run, locked, call, phase, shut, accepted, chats>>

\* Variant with a fault: a refused submission never settles.
SettledIfAccepted(r) == run[r].pc \notin {"unused", "accepting", "accepted", "refused", "ended"}
\* waitForIdle waits for the results of the submissions it saw when it was
\* called, then for the task the active entry has by then.
Settled(r) == run[r].pc \notin {"accepting", "accepted", "refused"}
CurrentTask == IF active = NoEntry THEN NoRun ELSE entry[active].task
Joined(t) == t \in Run => run[t].pc = "ended"

IdleCall == [pc |-> "idle", waits |-> {}, task |-> NoRun, model |-> CHOOSE m \in Model : TRUE]

\* The handler's answer, a result or an error.
Return(c) == call' = [call EXCEPT ![c] = IdleCall]

DeleteBegin(c) ==
  /\ Serving /\ call[c].pc = "idle"
  /\ CancelActive
  /\ call' = [call EXCEPT ![c].pc = "settling", ![c].waits = {r \in Run : Live(r)}]
  /\ UNCHANGED <<disk, active, run, locked, phase, shut, accepted, chats>>

DeleteSettled(c) ==
  /\ call[c].pc = "settling" /\ \A r \in call[c].waits : Settled(r)
  /\ call' = [call EXCEPT ![c].pc = "joining", ![c].waits = {}, ![c].task = CurrentTask]
  /\ UNCHANGED <<disk, entry, active, run, locked, phase, shut, accepted, chats>>

\* withIdleSession refuses a session that is processing or locked.
Occupied == locked \/ (active # NoEntry /\ entry[active].processing)

DeleteRefused(c) ==
  /\ call[c].pc = "joining" /\ Joined(call[c].task) /\ Occupied
  /\ Return(c)
  /\ UNCHANGED <<disk, entry, active, run, locked, phase, shut, accepted, chats>>

DeleteLock(c) ==
  /\ call[c].pc = "joining" /\ Joined(call[c].task) /\ ~Occupied
  /\ call' = [call EXCEPT ![c].pc = "removing", ![c].task = NoRun]
  /\ locked' = TRUE
  /\ UNCHANGED <<disk, entry, active, run, phase, shut, accepted, chats>>

\* The directory is removed, the entry destroyed and the lock released.
DeleteRemove(c) ==
  /\ call[c].pc = "removing"
  /\ disk' = [disk EXCEPT !.exists = FALSE, !.msgs = {},
                          !.last = [run |-> NoRun, status |-> "none"]]
  /\ active' = NoEntry
  /\ locked' = FALSE
  /\ Return(c)
  /\ UNCHANGED <<entry, run, phase, shut, accepted, chats>>

DeleteFailed(c) ==
  /\ call[c].pc = "removing"
  /\ locked' = FALSE
  /\ Return(c)
  /\ UNCHANGED <<disk, entry, active, run, phase, shut, accepted, chats>>

SetModelBegin(c, m) ==
  /\ Serving /\ call[c].pc = "idle" /\ ~Occupied
  /\ locked' = TRUE
  /\ call' = [call EXCEPT ![c].pc = "saving", ![c].model = m]
  /\ UNCHANGED <<disk, entry, active, run, phase, shut, accepted, chats>>

\* Variant with a fault: the backend keeps its model.
SetModelSavedOnly(c) ==
  /\ call[c].pc = "saving" /\ disk.exists
  /\ disk' = [disk EXCEPT !.model = call[c].model]
  /\ locked' = FALSE
  /\ Return(c)
  /\ UNCHANGED <<entry, active, run, phase, shut, accepted, chats>>

SetModelSaved(c) ==
  /\ call[c].pc = "saving" /\ disk.exists
  /\ disk' = [disk EXCEPT !.model = call[c].model]
  /\ entry' = IF active = NoEntry THEN entry
              ELSE [entry EXCEPT ![active].model = call[c].model]
  /\ locked' = FALSE
  /\ Return(c)
  /\ UNCHANGED <<active, run, phase, shut, accepted, chats>>

SetModelFailed(c) ==
  /\ call[c].pc = "saving"
  /\ locked' = FALSE
  /\ Return(c)
  /\ UNCHANGED <<disk, entry, active, run, phase, shut, accepted, chats>>

-----------------------------------------------------------------------------
(* runtime.close(): shutdown, flushAll, server.stop; and the end of the process *)

ShutdownBegin ==
  /\ phase = "up"
  /\ CancelActive
  /\ phase' = "closing"
  /\ UNCHANGED <<disk, active, run, locked, call, shut, accepted, chats>>

ShutdownVisit ==
  /\ phase = "closing" /\ active # NoEntry
  /\ phase' = "settling"
  /\ shut' = [shut EXCEPT !.waits = {r \in Run : Live(r)}]
  /\ UNCHANGED <<disk, entry, active, run, locked, call, accepted, chats>>

ShutdownSettled ==
  /\ phase = "settling" /\ \A r \in shut.waits : Settled(r)
  /\ phase' = "joining"
  /\ shut' = [waits |-> {}, task |-> CurrentTask]
  /\ UNCHANGED <<disk, entry, active, run, locked, call, accepted, chats>>

\* The backend is destroyed; the entry stays active while shutdown visits the
\* other sessions.
ShutdownJoined ==
  /\ phase = "joining" /\ Joined(shut.task)
  /\ phase' = "draining"
  /\ shut' = [shut EXCEPT !.task = NoRun]
  /\ UNCHANGED <<disk, entry, active, run, locked, call, accepted, chats>>

\* active.clear(), then flushAll.
ShutdownClear ==
  /\ phase = "draining" \/ (phase = "closing" /\ active = NoEntry)
  /\ phase' = "flushing"
  /\ active' = NoEntry
  /\ UNCHANGED <<disk, entry, run, locked, call, shut, accepted, chats>>

ServerStop ==
  /\ phase = "flushing"
  /\ phase' = "stopped"
  /\ UNCHANGED <<disk, entry, active, run, locked, call, shut, accepted, chats>>

\* flushAll rejects when an earlier save of any session failed: close() ends
\* there and the server is not stopped.
FlushAllFailed ==
  /\ phase = "flushing"
  /\ phase' = "broken"
  /\ UNCHANGED <<disk, entry, active, run, locked, call, shut, accepted, chats>>

Nothing == [waits |-> {}, task |-> NoRun]

\* A crash, or the exit after close(): only the file survives.
ProcessEnd ==
  /\ phase # "down"
  /\ phase' = "down"
  /\ entry' = [e \in Entry |-> UnbornEntry]
  /\ active' = NoEntry
  /\ run' = [r \in Run |-> IF Live(r) THEN EndedRun("none") ELSE run[r]]
  /\ locked' = FALSE
  /\ call' = [c \in Call |-> IdleCall]
  /\ shut' = Nothing
  /\ UNCHANGED <<disk, accepted, chats>>

\* recoverWorkspace runs before the server accepts connections; when its save
\* fails the server does not come up.
Recovered(last) ==
  IF last.status = "running" THEN [last EXCEPT !.status = "interrupted"] ELSE last

Restart ==
  /\ phase = "down"
  /\ phase' = "up"
  /\ disk' = [disk EXCEPT !.last = Recovered(@)]
  /\ UNCHANGED <<entry, active, run, locked, call, shut, accepted, chats>>

-----------------------------------------------------------------------------
(* Specification *)

Init ==
  /\ disk = [exists |-> TRUE, model |-> CHOOSE m \in Model : TRUE, msgs |-> {},
             last |-> [run |-> NoRun, status |-> "none"], saved |-> [r \in Run |-> 0]]
  /\ entry = [e \in Entry |-> UnbornEntry]
  /\ active = NoEntry
  /\ run = [r \in Run |-> UnusedRun]
  /\ locked = FALSE
  /\ call = [c \in Call |-> IdleCall]
  /\ phase = "up"
  /\ shut = Nothing
  /\ accepted = {}
  /\ chats = {}

Send ==
  \E q \in Request, e \in Entry :
    \/ SendInProgress(q, e)
    \/ SendBusy(q, e)
    \/ \E t \in Text : SendAgain(q, t, e) \/ \E r \in Run : SendReserve(q, t, e, r)

RunStep(r) ==
  \/ AcceptSaved(r) \/ AcceptFailed(r) \/ Accept(r) \/ Refuse(r)
  \/ CheckpointSaved(r) \/ LeaveLoop(r) \/ Throw(r)
  \/ FlushSaved(r) \/ ReflushFailed(r)
  \/ FinishSaved(r) \/ FinishFailed(r)

BackendEvent(r) ==
  StreamDelta(r) \/ (\E err \in BOOLEAN : StreamCheckpoint(r, err)) \/ StreamComplete(r)

CallStep(c) ==
  \/ DeleteSettled(c) \/ DeleteRefused(c) \/ DeleteLock(c)
  \/ DeleteRemove(c) \/ DeleteFailed(c)
  \/ SetModelSaved(c) \/ SetModelFailed(c)

CallBegin(c) == DeleteBegin(c) \/ \E m \in Model : SetModelBegin(c, m)

ShutdownStep ==
  ShutdownVisit \/ ShutdownSettled \/ ShutdownJoined \/ ShutdownClear
  \/ ServerStop \/ FlushAllFailed

Next ==
  \/ Send
  \/ \E r \in Run : RunStep(r) \/ BackendEvent(r)
  \/ Cancel
  \/ \E c \in Call : CallBegin(c) \/ CallStep(c)
  \/ ShutdownBegin \/ ShutdownStep
  \/ ProcessEnd \/ Restart

Spec == Init /\ [][Next]_vars

\* A save settles and a promise continues; the backend's stream ends: its
\* queue is completed by the end of the turn, by an abort or by the run timer.
\* Nothing makes a client call, a crash or a restart happen.
Fairness ==
  /\ \A r \in Run : WF_vars(RunStep(r))
  /\ \A c \in Call : WF_vars(CallStep(c))
  /\ WF_vars(ShutdownStep)

FairSpec == Spec /\ Fairness

-----------------------------------------------------------------------------
(* Safety *)

\* A request id reaches the backend at most once, however often and however
\* late the client retries it, across cancels, failed saves and restarts.
ChatAtMostOnce ==
  \A c, d \in chats : c.req = d.req => c = d

\* Every accepting answer to a request id names the same run and text, also
\* the answer to a retry after a restart.
AcceptedIsStable ==
  \A a, b \in accepted : a.req = b.req => a = b

\* An accepted message is in the session file for as long as the session
\* exists: no crash, failed save or later run takes it away.
AcceptedIsStored ==
  disk.exists => accepted \subseteq disk.msgs

\* The guard "one turn at a time": until shutdown clears the active sessions,
\* at most one submission of the session is between its reservation and the
\* end of its task, and it belongs to the active entry.
OneTurnAtATime ==
  phase \notin {"flushing", "broken", "stopped"} =>
    \A r, s \in Run : Live(r) /\ Live(s) => r = s /\ run[r].entry = active

\* While withIdleSession holds the lock (the directory is being removed or
\* the model changed) no submission of the active entry is in progress,
\* although handlers were awaiting between their checks.
IdleUnderLock ==
  locked => \A r \in Run : Live(r) => run[r].entry # active

\* The backend of the active entry uses the model stored in the file, unless
\* a change is in progress: an entry opened lazily while SET_MODEL is saving
\* does not keep the old one.
ModelInStep ==
  active # NoEntry /\ ~locked /\ disk.exists => entry[active].model = disk.model

\* The stored session does not contradict what happened.  When a run is about
\* to be recorded as completed, everything it streamed is in the file.  Of the
\* last run, "running" means that it is in progress, or that its last save
\* failed and said so, or that the server is down and recovery will rewrite
\* it; and what a run announced at its end is what the file says of it.
FileIsTruthful ==
  LET last == disk.last IN
  /\ \A r \in Run :
       run[r].pc = "closing" /\ run[r].status = "completed" /\ disk.exists =>
         disk.saved[r] = run[r].made
  /\ last.run # NoRun =>
       /\ last.status = "running" =>
            Live(last.run) \/ run[last.run].status = "unsaved" \/ phase = "down"
       /\ run[last.run].pc = "ended" /\ run[last.run].status \notin {"none", "unsaved"} =>
            last.status = run[last.run].status

\* A cancel that reaches a run before the end of its loop sticks: the flag is
\* not cleared by a submission, a model change or another cancel, the backend
\* is not called after it, and the run does not end as completed.
CancelSticks ==
  [][\A r \in Run :
       Interruptible(r) /\ Aborted(r) =>
         /\ Interruptible(r)' => Aborted(r)'
         /\ Live(r)' /\ ~Interruptible(r)' => run'[r].status # "completed"
         /\ \A c \in chats' \ chats : c.run # r]_vars

(* Liveness *)

\* Nobody waits for ever for another: every submission ends, whatever is
\* cancelled, deleted or failing meanwhile; every DELETE and SET_MODEL is
\* answered; and runtime.close() settles although the server keeps accepting
\* submissions while it waits.
CallsReturn ==
  /\ \A r \in Run : Live(r) ~> ~Live(r)
  /\ \A c \in Call : call[c].pc # "idle" ~> call[c].pc = "idle"
  /\ phase = "closing" ~> phase \in {"stopped", "broken", "down"}

(* What the documentation says of close *)

\* docs/IMPLEMENTATION-REVIEW.md: checkpoints are flushed on completion, on
\* cancellation and on close.  So no run is left in progress once close()
\* has stopped the server.
CloseLeavesNoRun == phase = "stopped" => \A r \in Run : ~Live(r)

=============================================================================
