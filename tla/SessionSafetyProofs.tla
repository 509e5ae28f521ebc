------------------------ MODULE SessionSafetyProofs ------------------------
(***************************************************************************)
(* Type correctness and the safety invariants of SessionRun, for every     *)
(* value of its constants.                                                 *)
(*                                                                         *)
(* Ledger: a request id is bound to one run.  The binding is written in    *)
(* three places (the file, the answers, a run whose acceptance was saved   *)
(* and not yet answered), and a submission that is still being saved must  *)
(* have a request id that is bound nowhere.                                *)
(*                                                                         *)
(* Turns: a live submission keeps its entry marked as processing, so the   *)
(* guards of the next submission and of withIdleSession see it.            *)
(*                                                                         *)
(* Records: what the file says of each run against what the run has made   *)
(* and announced.  Cancel: every step that could undo a cancel.  Models:   *)
(* the backend in use and the file name the same model, at every moment.   *)
(***************************************************************************)
EXTENDS SessionRun, TLAPS

-----------------------------------------------------------------------------
(* Type correctness *)


LEMMA Defaults ==
  /\ (CHOOSE q \in Request : TRUE) \in Request
  /\ (CHOOSE t \in Text : TRUE) \in Text
  /\ (CHOOSE e \in Entry : TRUE) \in Entry
  /\ (CHOOSE m \in Model : TRUE) \in Model
BY ConstantsAssumption

LEMMA DefaultRecords ==
  /\ UnusedRun \in RunRecord
  /\ \A status \in Status \cup {"none"} : EndedRun(status) \in RunRecord
  /\ UnbornEntry \in EntryRecord
  /\ IdleCall \in CallRecord
  /\ Nothing \in [waits : SUBSET Run, task : Run \cup {NoRun}]
<1>1. UnusedRun \in RunRecord
  BY Defaults DEF UnusedRun, FreshRun, RunRecord, RunPc
<1>2. \A status \in Status \cup {"none"} : EndedRun(status) \in RunRecord
  BY <1>1, Defaults DEF EndedRun, UnusedRun, FreshRun, RunRecord, RunPc
<1>3. QED
  BY <1>1, <1>2, Defaults DEF UnbornEntry, EntryRecord, IdleCall, CallRecord, Nothing

LEMMA TypeInit == Init => TypeOK
<1> SUFFICES ASSUME Init PROVE TypeOK
  OBVIOUS
<1>1. disk \in [exists : BOOLEAN, model : Model, msgs : SUBSET Message,
                last : LastRun, saved : [Run -> Nat]]
  <2>1. [run |-> NoRun, status |-> "none"] \in LastRun
    BY DEF LastRun
  <2>2. {} \in SUBSET Message /\ [r \in Run |-> 0] \in [Run -> Nat]
    OBVIOUS
  <2>3. QED
    BY <2>1, <2>2, Defaults, Zenon DEF Init
<1>2. QED
  BY <1>1, DefaultRecords DEF Init, TypeOK

LEMMA OpenedType ==
  ASSUME TypeOK, NEW e \in Entry PROVE Opened(e) \in [Entry -> EntryRecord]
<1>1. NewEntry \in EntryRecord
  BY DEF TypeOK, NewEntry, EntryRecord
<1>2. entry \in [Entry -> EntryRecord]
  BY DEF TypeOK
<1>3. QED
  BY <1>1, <1>2 DEF Opened

LEMMA CancelType ==
  ASSUME TypeOK, CancelActive PROVE entry' \in [Entry -> EntryRecord]
<1>1. entry \in [Entry -> EntryRecord] /\ active \in Entry \cup {NoEntry}
  BY DEF TypeOK
<1>2. CASE active = NoEntry
  BY <1>1, <1>2 DEF CancelActive
<1>3. CASE active # NoEntry
  <2>1. entry' = [entry EXCEPT ![active].abort = TRUE] /\ active \in Entry
    BY <1>1, <1>3 DEF CancelActive
  <2>2. [entry[active] EXCEPT !.abort = TRUE] \in EntryRecord
    BY <1>1, <2>1 DEF EntryRecord
  <2>3. QED
    BY <1>1, <2>1, <2>2
<1>4. QED
  BY <1>2, <1>3

(* The steps of a run change that run, and perhaps the file or its entry. *)

LEMMA OutcomeTypes ==
  ASSUME NEW r \in Run
  PROVE  /\ LoopStatus(r) \in Status /\ ThrowStatus(r) \in Status
         /\ AfterLoop(r) \in RunPc /\ AfterThrow(r) \in RunPc
<1>1. LoopStatus(r) \in Status
  BY DEF LoopStatus, Status
<1>2. QED
  BY <1>1 DEF ThrowStatus, AfterLoop, AfterThrow, Status, RunPc

LEMMA LeaveType ==
  ASSUME TypeOK, NEW r \in Run, NEW pc \in RunPc, NEW status \in Status,
         run' = [run EXCEPT ![r].pc = pc, ![r].status = status,
                            ![r].complete = FALSE, ![r].error = FALSE]
  PROVE  run' \in [Run -> RunRecord]
<1>1. run \in [Run -> RunRecord]
  BY DEF TypeOK
<1>2. [run[r] EXCEPT !.pc = pc, !.status = status, !.complete = FALSE, !.error = FALSE]
        \in RunRecord
  BY <1>1 DEF RunRecord
<1>3. run' = [run EXCEPT ![r] =
         [run[r] EXCEPT !.pc = pc, !.status = status, !.complete = FALSE, !.error = FALSE]]
  BY <1>1
<1>4. QED
  BY <1>1, <1>2, <1>3

LEMMA EndType ==
  ASSUME TypeOK, NEW r \in Run, NEW status \in Status \cup {"none"}, End(r, status)
  PROVE  run' \in [Run -> RunRecord] /\ entry' \in [Entry -> EntryRecord]
<1>1. run \in [Run -> RunRecord] /\ entry \in [Entry -> EntryRecord]
  BY DEF TypeOK
<1>2. run' \in [Run -> RunRecord]
  BY <1>1, DefaultRecords DEF End
<1>3. run[r].entry \in Entry
  BY <1>1 DEF RunRecord
<1>4. [entry[run[r].entry] EXCEPT !.processing = FALSE] \in EntryRecord
  BY <1>1, <1>3 DEF EntryRecord
<1>5. entry' \in [Entry -> EntryRecord]
  BY <1>1, <1>3, <1>4 DEF End
<1>6. QED
  BY <1>2, <1>5

LEMMA AcceptSavedType ==
  ASSUME TypeOK, NEW r \in Run, AcceptSaved(r) PROVE TypeOK'
<1>1. run[r].req \in Request /\ run[r].text \in Text
  BY DEF TypeOK, RunRecord
<1>2. [req |-> run[r].req, text |-> run[r].text, run |-> r] \in Message
  BY <1>1 DEF Message
<1>3. [run |-> r, status |-> "running"] \in LastRun
  BY DEF LastRun
<1>4. disk' \in [exists : BOOLEAN, model : Model, msgs : SUBSET Message,
                 last : LastRun, saved : [Run -> Nat]]
  BY <1>2, <1>3 DEF TypeOK, AcceptSaved
<1>5. run' \in [Run -> RunRecord]
  BY DEF TypeOK, AcceptSaved, RunRecord, RunPc
<1>6. QED
  BY <1>4, <1>5 DEF TypeOK, AcceptSaved

LEMMA AcceptType ==
  ASSUME TypeOK, NEW r \in Run, Accept(r) PROVE TypeOK'
<1>1. run \in [Run -> RunRecord] /\ entry \in [Entry -> EntryRecord]
  BY DEF TypeOK
<1>2. run[r].req \in Request /\ run[r].text \in Text /\ run[r].entry \in Entry
  BY <1>1 DEF RunRecord
<1>3. [entry[run[r].entry] EXCEPT !.task = r] \in EntryRecord
  BY <1>1, <1>2 DEF EntryRecord
<1>4. entry' \in [Entry -> EntryRecord]
  BY <1>1, <1>2, <1>3 DEF Accept
<1>5. accepted' \in SUBSET Message
  BY <1>2 DEF TypeOK, Accept, Message
<1>6. chats' \in SUBSET [req : Request, run : Run]
  BY <1>2 DEF TypeOK, Accept
<1>7. run' \in [Run -> RunRecord]
  <2>1. CASE Aborted(r)
    <3>1. [run[r] EXCEPT !.pc = AfterLoop(r), !.status = LoopStatus(r)] \in RunRecord
      BY <1>1, OutcomeTypes DEF RunRecord
    <3>2. QED
      BY <1>1, <2>1, <3>1 DEF Accept
  <2>2. CASE ~Aborted(r)
    <3>1. [run[r] EXCEPT !.pc = "streaming"] \in RunRecord
      BY <1>1 DEF RunRecord, RunPc
    <3>2. run' = [run EXCEPT ![r].pc = "streaming"]
      BY <2>2 DEF Accept
    <3>3. QED
      BY <1>1, <3>1, <3>2
  <2>3. QED
    BY <2>1, <2>2
<1>8. QED
  BY <1>4, <1>5, <1>6, <1>7 DEF TypeOK, Accept

LEMMA FinishSavedType ==
  ASSUME TypeOK, NEW r \in Run, FinishSaved(r), run[r].status \in Status \cup {"none"}
  PROVE  TypeOK'
<1>1. run' \in [Run -> RunRecord] /\ entry' \in [Entry -> EntryRecord]
  BY EndType DEF FinishSaved
<1>2. [run |-> r, status |-> run[r].status] \in LastRun
  BY DEF LastRun
<1>3. QED
  BY <1>1, <1>2 DEF TypeOK, FinishSaved

LEMMA RunTypes ==
  ASSUME TypeOK, NEW r \in Run, RunStep(r) \/ BackendEvent(r) PROVE TypeOK'
<1>1. run[r] \in RunRecord
  BY DEF TypeOK
<1>2. CASE AcceptSaved(r)
  BY <1>2, AcceptSavedType
<1>3. CASE AcceptFailed(r)
  BY <1>1, <1>3 DEF TypeOK, AcceptFailed, RunRecord, RunPc
<1>4. CASE Accept(r)
  BY <1>4, AcceptType
<1>5. CASE Refuse(r)
  BY <1>5, EndType DEF TypeOK, Refuse
<1>6. CASE CheckpointSaved(r)
  BY <1>1, <1>6 DEF TypeOK, CheckpointSaved, SaveTranscript, RunRecord, RunPc
<1>7. CASE LeaveLoop(r)
  BY <1>7, LeaveType, OutcomeTypes DEF TypeOK, LeaveLoop
<1>8. CASE Throw(r)
  BY <1>8, LeaveType, OutcomeTypes DEF TypeOK, Throw
<1>9. CASE FlushSaved(r)
  BY <1>1, <1>9 DEF TypeOK, FlushSaved, SaveTranscript, RunRecord, RunPc
<1>10. CASE ReflushFailed(r)
  BY <1>1, <1>10 DEF TypeOK, ReflushFailed, RunRecord, RunPc
<1>11. CASE FinishSaved(r)
  <2>1. run[r].status \in Status \cup {"none"}
    BY <1>1 DEF RunRecord
  <2>2. QED
    BY <1>11, <2>1, FinishSavedType
<1>12. CASE FinishFailed(r)
  BY <1>12, EndType DEF TypeOK, FinishFailed, Status
<1>13. CASE StreamDelta(r)
  BY <1>1, <1>13 DEF TypeOK, StreamDelta, RunRecord, RunPc
<1>14. CASE StreamComplete(r)
  BY <1>1, <1>14 DEF TypeOK, StreamComplete, RunRecord, RunPc
<1>15. ASSUME NEW err \in BOOLEAN, StreamCheckpoint(r, err) PROVE TypeOK'
  BY <1>1, <1>15 DEF TypeOK, StreamCheckpoint, RunRecord, RunPc
<1>. QED
  BY <1>2, <1>3, <1>4, <1>5, <1>6, <1>7, <1>8, <1>9, <1>10, <1>11, <1>12, <1>13,
     <1>14, <1>15 DEF RunStep, BackendEvent

LEMMA SendTypes ==
  ASSUME TypeOK, Send PROVE TypeOK'
<1>1. PICK q \in Request, e \in Entry :
        \/ SendInProgress(q, e)
        \/ SendBusy(q, e)
        \/ \E t \in Text : SendAgain(q, t, e) \/ \E r \in Run : SendReserve(q, t, e, r)
  BY DEF Send
<1>2. Opened(e) \in [Entry -> EntryRecord]
  BY OpenedType
<1>3. CASE SendInProgress(q, e)
  BY <1>2, <1>3 DEF TypeOK, SendInProgress
<1>4. CASE SendBusy(q, e)
  BY <1>2, <1>4 DEF TypeOK, SendBusy
<1>5. ASSUME NEW t \in Text, SendAgain(q, t, e) PROVE TypeOK'
  BY <1>2, <1>5 DEF TypeOK, SendAgain, Previous
<1>6. ASSUME NEW t \in Text, NEW r \in Run, SendReserve(q, t, e, r) PROVE TypeOK'
  <2>1. FreshRun(q, t, e) \in RunRecord
    BY DEF FreshRun, RunRecord, RunPc
  <2>2. run' \in [Run -> RunRecord]
    BY <1>6, <2>1 DEF TypeOK, SendReserve
  <2>3. [Opened(e)[e] EXCEPT !.processing = TRUE, !.abort = FALSE] \in EntryRecord
    BY <1>2 DEF EntryRecord
  <2>4. entry' = [Opened(e) EXCEPT ![e] =
           [Opened(e)[e] EXCEPT !.processing = TRUE, !.abort = FALSE]]
    BY <1>2, <1>6 DEF SendReserve
  <2>5. entry' \in [Entry -> EntryRecord]
    BY <1>2, <2>3, <2>4
  <2>6. QED
    BY <1>6, <2>2, <2>5 DEF TypeOK, SendReserve
<1>7. QED
  BY <1>1, <1>3, <1>4, <1>5, <1>6

LEMMA CallTypes ==
  ASSUME TypeOK, NEW c \in Call, CallBegin(c) \/ CallStep(c) PROVE TypeOK'
<1>1. call \in [Call -> CallRecord] /\ call[c] \in CallRecord
  BY DEF TypeOK
<1>2. Return(c) => call' \in [Call -> CallRecord]
  BY <1>1, DefaultRecords DEF Return
<1>3. CurrentTask \in Run \cup {NoRun}
  BY DEF TypeOK, CurrentTask, EntryRecord
<1>4. CASE DeleteBegin(c)
  <2>1. entry' \in [Entry -> EntryRecord]
    BY <1>4, CancelType DEF DeleteBegin
  <2>2. call' \in [Call -> CallRecord]
    BY <1>1, <1>4 DEF DeleteBegin, CallRecord
  <2>3. QED
    BY <1>4, <2>1, <2>2 DEF TypeOK, DeleteBegin
<1>5. ASSUME NEW x \in Model, SetModelBegin(c, x) PROVE TypeOK'
  BY <1>1, <1>5 DEF TypeOK, SetModelBegin, CallRecord
<1>6. CASE DeleteSettled(c)
  BY <1>1, <1>3, <1>6 DEF TypeOK, DeleteSettled, CallRecord
<1>7. CASE DeleteRefused(c)
  BY <1>2, <1>7 DEF TypeOK, DeleteRefused
<1>8. CASE DeleteLock(c)
  BY <1>1, <1>8 DEF TypeOK, DeleteLock, CallRecord
<1>9. CASE DeleteRemove(c)
  <2>1. [run |-> NoRun, status |-> "none"] \in LastRun
    BY DEF LastRun
  <2>2. disk' \in [exists : BOOLEAN, model : Model, msgs : SUBSET Message,
                   last : LastRun, saved : [Run -> Nat]]
    BY <1>9, <2>1 DEF TypeOK, DeleteRemove
  <2>3. QED
    BY <1>2, <1>9, <2>2 DEF TypeOK, DeleteRemove
<1>10. CASE DeleteFailed(c)
  BY <1>2, <1>10 DEF TypeOK, DeleteFailed
<1>11. CASE SetModelSaved(c)
  <2>1. call[c].model \in Model
    BY <1>1 DEF CallRecord
  <2>2. entry' \in [Entry -> EntryRecord]
    <3>1. CASE active = NoEntry
      BY <1>11, <3>1 DEF TypeOK, SetModelSaved
    <3>2. CASE active # NoEntry
      <4>1. active \in Entry /\ entry \in [Entry -> EntryRecord]
        BY <3>2 DEF TypeOK
      <4>2. [entry[active] EXCEPT !.model = call[c].model] \in EntryRecord
        BY <2>1, <4>1 DEF EntryRecord
      <4>3. QED
        BY <1>11, <3>2, <4>1, <4>2 DEF SetModelSaved
    <3>3. QED
      BY <3>1, <3>2
  <2>3. QED
    BY <1>2, <1>11, <2>1, <2>2 DEF TypeOK, SetModelSaved
<1>12. CASE SetModelFailed(c)
  BY <1>2, <1>12 DEF TypeOK, SetModelFailed
<1>13. QED
  BY <1>4, <1>5, <1>6, <1>7, <1>8, <1>9, <1>10, <1>11, <1>12 DEF CallBegin, CallStep

Server == Cancel \/ ShutdownBegin \/ ShutdownStep \/ ProcessEnd \/ Restart

LEMMA ServerTypes ==
  ASSUME TypeOK, Server PROVE TypeOK'
<1>1. CASE Cancel
  BY <1>1, CancelType DEF TypeOK, Cancel
<1>2. CASE ShutdownBegin
  BY <1>2, CancelType DEF TypeOK, ShutdownBegin
<1>3. CASE ShutdownVisit
  BY <1>3 DEF TypeOK, ShutdownVisit
<1>4. CASE ShutdownSettled
  <2>1. CurrentTask \in Run \cup {NoRun}
    BY DEF TypeOK, CurrentTask, EntryRecord
  <2>2. QED
    BY <1>4, <2>1 DEF TypeOK, ShutdownSettled
<1>5. CASE ShutdownJoined
  BY <1>5 DEF TypeOK, ShutdownJoined
<1>6. CASE ShutdownClear \/ ServerStop \/ FlushAllFailed
  BY <1>6 DEF TypeOK, ShutdownClear, ServerStop, FlushAllFailed
<1>7. CASE ProcessEnd
  BY <1>7, DefaultRecords DEF TypeOK, ProcessEnd
<1>8. CASE Restart
  <2>1. disk.last \in LastRun
    BY DEF TypeOK
  <2>2. Recovered(disk.last) \in LastRun
    BY <2>1 DEF Recovered, LastRun
  <2>3. QED
    BY <1>8, <2>2 DEF TypeOK, Restart
<1>9. QED
  BY <1>1, <1>2, <1>3, <1>4, <1>5, <1>6, <1>7, <1>8 DEF Server, ShutdownStep

LEMMA TypeStep == TypeOK /\ [Next]_vars => TypeOK'
<1> SUFFICES ASSUME TypeOK, [Next]_vars PROVE TypeOK'
  OBVIOUS
<1>1. CASE Send
  BY <1>1, SendTypes
<1>2. ASSUME NEW r \in Run, RunStep(r) \/ BackendEvent(r) PROVE TypeOK'
  BY <1>2, RunTypes
<1>3. ASSUME NEW c \in Call, CallBegin(c) \/ CallStep(c) PROVE TypeOK'
  BY <1>3, CallTypes
<1>4. CASE Server
  BY <1>4, ServerTypes
<1>5. CASE UNCHANGED vars
  BY <1>5 DEF TypeOK, vars
<1>6. QED
  BY <1>1, <1>2, <1>3, <1>4, <1>5 DEF Next, Server

\* Every variable keeps its type: in particular a run is closed with one of
\* the statuses the client knows and never with "running".
THEOREM TypeCorrect == Spec => []TypeOK
BY TypeInit, TypeStep, PTL DEF Spec

-----------------------------------------------------------------------------
(* Safety *)

MessageOf(r) == [req |-> run[r].req, text |-> run[r].text, run |-> r]

Known == accepted \cup disk.msgs \cup {MessageOf(r) : r \in {s \in Run : run[s].pc = "accepted"}}

KnownIsUnique == \A a, b \in Known : a.req = b.req => a = b
ChatsAccepted == \A c \in chats : \E a \in accepted : a.req = c.req /\ a.run = c.run
SavedBeforeAccepted ==
  disk.exists => \A r \in Run : run[r].pc = "accepted" => MessageOf(r) \in disk.msgs
AcceptingIsNew ==
  disk.exists =>
    \A r \in Run : run[r].pc = "accepting" => \A m \in disk.msgs : m.req # run[r].req
LiveRequestsDiffer ==
  \A r, s \in Run : Live(r) /\ Live(s) /\ run[r].req = run[s].req => r = s

Ledger ==
  /\ KnownIsUnique
  /\ ChatsAccepted
  /\ AcceptedIsStored
  /\ SavedBeforeAccepted
  /\ AcceptingIsNew
  /\ LiveRequestsDiffer

Holds(c) == call[c].pc \in {"removing", "saving"}

LiveIsProcessing ==
  \A r \in Run : Live(r) => entry[run[r].entry].processing /\ entry[run[r].entry].born
OnePerEntry ==
  \A r, s \in Run : Live(r) /\ Live(s) /\ run[r].entry = run[s].entry => r = s
LiveIsActive ==
  phase \notin {"flushing", "broken", "stopped"} =>
    \A r \in Run : Live(r) => run[r].entry = active
OneHolder ==
  \A c, d \in Call : Holds(c) /\ Holds(d) => c = d
HolderLocked ==
  \A c \in Call : Holds(c) => locked
ActiveIsBorn == active # NoEntry => entry[active].born

Turns ==
  /\ LiveIsProcessing
  /\ OnePerEntry
  /\ LiveIsActive
  /\ OneHolder
  /\ HolderLocked
  /\ IdleUnderLock
  /\ ActiveIsBorn

-----------------------------------------------------------------------------
(* Ledger *)

\* Steps that neither bind a request id nor touch the file: a run may end or go
\* on after its acceptance.
QuietRuns ==
  \A s \in Run :
    /\ Live(s)' => Live(s) /\ run'[s].req = run[s].req
    /\ run'[s].pc \in {"accepting", "accepted"} => run'[s] = run[s]

SameFile == disk'.msgs = disk.msgs /\ disk'.exists = disk.exists

LEMMA LedgerInit == Init => Ledger
<1> SUFFICES ASSUME Init PROVE Ledger
  OBVIOUS
<1>1. accepted = {} /\ chats = {} /\ disk.msgs = {}
  BY DEF Init
<1>2. \A r \in Run : run[r].pc = "unused"
  BY DEF Init, UnusedRun, FreshRun
<1>3. QED
  BY <1>1, <1>2 DEF Ledger, KnownIsUnique, Known, ChatsAccepted, AcceptedIsStored,
     SavedBeforeAccepted, AcceptingIsNew, LiveRequestsDiffer, Live

LEMMA LedgerQuiet ==
  ASSUME Ledger, QuietRuns, SameFile, UNCHANGED <<accepted, chats>> PROVE Ledger'
<1>1. Known' \subseteq Known
  BY DEF Known, QuietRuns, SameFile, MessageOf
<1>2. KnownIsUnique'
  BY <1>1 DEF Ledger, KnownIsUnique
<1>3. ChatsAccepted' /\ AcceptedIsStored'
  BY DEF Ledger, ChatsAccepted, AcceptedIsStored, SameFile
<1>4. SavedBeforeAccepted' /\ AcceptingIsNew'
  BY DEF Ledger, SavedBeforeAccepted, AcceptingIsNew, SameFile, QuietRuns, MessageOf
<1>5. LiveRequestsDiffer'
  BY DEF Ledger, LiveRequestsDiffer, QuietRuns
<1>6. QED
  BY <1>2, <1>3, <1>4, <1>5 DEF Ledger

LEMMA LedgerReserve ==
  ASSUME TypeOK, Ledger, NEW q \in Request, NEW t \in Text, NEW e \in Entry, NEW r \in Run,
         SendReserve(q, t, e, r)
  PROVE  Ledger'
<1>1. /\ run'[r] = FreshRun(q, t, e)
      /\ \A s \in Run : s # r => run'[s] = run[s]
      /\ UNCHANGED <<disk, accepted, chats>>
  BY DEF SendReserve, TypeOK
<1>2. run'[r].pc = "accepting" /\ run'[r].req = q /\ run[r].pc = "unused"
  BY <1>1 DEF FreshRun, SendReserve
<1>3. Known' \subseteq Known
  BY <1>1, <1>2 DEF Known, MessageOf
<1>4. KnownIsUnique' /\ ChatsAccepted' /\ AcceptedIsStored'
  BY <1>1, <1>3 DEF Ledger, KnownIsUnique, ChatsAccepted, AcceptedIsStored
<1>5. SavedBeforeAccepted'
  BY <1>1, <1>2 DEF Ledger, SavedBeforeAccepted, MessageOf
<1>6. AcceptingIsNew'
  <2>1. \A m \in disk.msgs : m.req # q
    BY DEF SendReserve, Previous
  <2>2. QED
    BY <1>1, <1>2, <2>1 DEF Ledger, AcceptingIsNew
<1>7. LiveRequestsDiffer'
  <2>1. \A s \in Run : Live(s) => run[s].req # q
    BY DEF SendReserve, Submitted
  <2>2. QED
    BY <1>1, <1>2, <2>1 DEF Ledger, LiveRequestsDiffer, Live
<1>8. QED
  BY <1>4, <1>5, <1>6, <1>7 DEF Ledger

LEMMA LedgerAcceptSaved ==
  ASSUME TypeOK, Ledger, NEW r \in Run, AcceptSaved(r) PROVE Ledger'
<1> DEFINE m == MessageOf(r)
<1>1. /\ disk.exists /\ disk'.exists
      /\ disk'.msgs = disk.msgs \cup {m}
      /\ run[r].pc = "accepting"
      /\ UNCHANGED <<accepted, chats>>
  BY DEF AcceptSaved, TypeOK, MessageOf
<1>2. /\ run'[r].pc = "accepted" /\ MessageOf(r)' = m
      /\ \A s \in Run : run'[s].req = run[s].req
      /\ \A s \in Run : s # r => run'[s] = run[s]
  BY DEF AcceptSaved, TypeOK, MessageOf, RunRecord
<1>3. Known = disk.msgs
  BY <1>1 DEF Ledger, Known, AcceptedIsStored, SavedBeforeAccepted
<1>4. Known' = disk.msgs \cup {m}
  BY <1>1, <1>2 DEF Ledger, Known, AcceptedIsStored, SavedBeforeAccepted, MessageOf
<1>5. \A n \in disk.msgs : n.req # m.req
  BY <1>1 DEF Ledger, AcceptingIsNew, MessageOf
<1>6. KnownIsUnique'
  BY <1>3, <1>4, <1>5 DEF Ledger, KnownIsUnique
<1>7. ChatsAccepted' /\ AcceptedIsStored'
  BY <1>1 DEF Ledger, ChatsAccepted, AcceptedIsStored
<1>8. SavedBeforeAccepted'
  BY <1>1, <1>2 DEF Ledger, SavedBeforeAccepted, MessageOf
<1>9. AcceptingIsNew'
  <2>1. \A s \in Run : s # r /\ run[s].pc = "accepting" => run[s].req # m.req
    BY <1>1 DEF Ledger, LiveRequestsDiffer, Live, MessageOf
  <2>2. QED
    BY <1>1, <1>2, <2>1 DEF Ledger, AcceptingIsNew
<1>10. LiveRequestsDiffer'
  BY <1>1, <1>2 DEF Ledger, LiveRequestsDiffer, Live
<1>11. QED
  BY <1>6, <1>7, <1>8, <1>9, <1>10 DEF Ledger

LEMMA LedgerAccept ==
  ASSUME TypeOK, Ledger, NEW r \in Run, Accept(r) PROVE Ledger'
<1> DEFINE m == MessageOf(r)
<1>1. /\ run[r].pc = "accepted"
      /\ accepted' = accepted \cup {m}
      /\ chats' \subseteq chats \cup {[req |-> m.req, run |-> r]}
      /\ UNCHANGED disk
  BY DEF Accept, MessageOf
<1>2. /\ \A s \in Run : s # r => run'[s] = run[s]
      /\ run'[r].req = run[r].req
      /\ run'[r].pc \notin {"accepting", "accepted"}
  BY DEF Accept, TypeOK, RunRecord, AfterLoop
<1>3. m \in Known
  BY <1>1 DEF Known
<1>4. Known' \subseteq Known
  BY <1>1, <1>2, <1>3 DEF Known, MessageOf
<1>5. KnownIsUnique'
  BY <1>4 DEF Ledger, KnownIsUnique
<1>6. ChatsAccepted'
  <2> SUFFICES ASSUME NEW c \in chats' PROVE \E a \in accepted' : a.req = c.req /\ a.run = c.run
    BY DEF ChatsAccepted
  <2>1. CASE c \in chats
    BY <1>1, <2>1 DEF Ledger, ChatsAccepted
  <2>2. CASE c = [req |-> m.req, run |-> r]
    <3>1. m \in accepted' /\ m.run = r
      BY <1>1 DEF MessageOf
    <3>2. c.req = m.req /\ c.run = r
      BY <2>2
    <3>3. QED
      BY <3>1, <3>2
  <2>3. QED
    BY <1>1, <2>1, <2>2
<1>7. AcceptedIsStored'
  BY <1>1 DEF Ledger, AcceptedIsStored, SavedBeforeAccepted
<1>8. SavedBeforeAccepted' /\ AcceptingIsNew'
  BY <1>1, <1>2 DEF Ledger, SavedBeforeAccepted, AcceptingIsNew, MessageOf
<1>9. LiveRequestsDiffer'
  BY <1>1, <1>2 DEF Ledger, LiveRequestsDiffer, Live
<1>10. QED
  BY <1>5, <1>6, <1>7, <1>8, <1>9 DEF Ledger

\* The other steps of a run leave its request alone and end or follow its
\* acceptance.
LEMMA LedgerRun ==
  ASSUME TypeOK, Ledger, NEW r \in Run, RunStep(r) \/ BackendEvent(r) PROVE Ledger'
<1>1. run \in [Run -> RunRecord]
  BY DEF TypeOK
<1>2. CASE AcceptSaved(r)
  BY <1>2, LedgerAcceptSaved
<1>3. CASE Accept(r)
  BY <1>3, LedgerAccept
<1>4. CASE ~AcceptSaved(r) /\ ~Accept(r)
  <2>1. CASE AcceptFailed(r)
    BY <1>1, <2>1, LedgerQuiet DEF AcceptFailed, QuietRuns, SameFile, Live, RunRecord
  <2>2. ASSUME NEW status \in Status \cup {"none"}, End(r, status) PROVE QuietRuns
    <3>1. run' = [run EXCEPT ![r] = EndedRun(status)]
      BY <2>2 DEF End
    <3>2. EndedRun(status).pc = "ended"
      BY DEF EndedRun, UnusedRun, FreshRun
    <3>3. QED
      BY <1>1, <3>1, <3>2 DEF QuietRuns, Live
  <2>3. CASE Refuse(r) \/ FinishFailed(r) \/ FinishSaved(r)
    <3>1. QuietRuns
      <4>1. run[r].status \in Status \cup {"none"}
        BY <1>1 DEF RunRecord
      <4>2. QED
        BY <2>2, <2>3, <4>1 DEF Refuse, FinishFailed, FinishSaved, Status
    <3>2. SameFile /\ UNCHANGED <<accepted, chats>>
      BY <2>3 DEF Refuse, FinishFailed, FinishSaved, SameFile, TypeOK
    <3>3. QED
      BY <3>1, <3>2, LedgerQuiet
  <2>4. CASE CheckpointSaved(r) \/ FlushSaved(r)
    BY <1>1, <2>4, LedgerQuiet
       DEF CheckpointSaved, FlushSaved, SaveTranscript, QuietRuns, SameFile, Live, RunRecord, TypeOK
  <2>5. CASE LeaveLoop(r) \/ Throw(r) \/ ReflushFailed(r)
    BY <1>1, <2>5, LedgerQuiet
       DEF LeaveLoop, Throw, ReflushFailed, AfterLoop, AfterThrow, QuietRuns, SameFile, Live, RunRecord
  <2>6. CASE BackendEvent(r)
    BY <1>1, <2>6, LedgerQuiet
       DEF BackendEvent, StreamDelta, StreamCheckpoint, StreamComplete, QuietRuns, SameFile, Live, RunRecord
  <2>7. QED
    BY <1>4, <2>1, <2>3, <2>4, <2>5, <2>6 DEF RunStep
<1>5. QED
  BY <1>2, <1>3, <1>4

LEMMA LedgerSend ==
  ASSUME TypeOK, Ledger, Send PROVE Ledger'
<1>1. PICK q \in Request, e \in Entry :
        \/ SendInProgress(q, e)
        \/ SendBusy(q, e)
        \/ \E t \in Text : SendAgain(q, t, e) \/ \E r \in Run : SendReserve(q, t, e, r)
  BY DEF Send
<1>2. CASE SendInProgress(q, e) \/ SendBusy(q, e)
  BY <1>2, LedgerQuiet DEF SendInProgress, SendBusy, QuietRuns, SameFile, Live
<1>3. ASSUME NEW t \in Text, SendAgain(q, t, e) PROVE Ledger'
  <2>1. /\ UNCHANGED <<disk, run, chats>>
        /\ accepted \subseteq accepted'
        /\ accepted' \subseteq accepted \cup disk.msgs
    BY <1>3 DEF SendAgain, Previous
  <2>2. Known' = Known
    BY <2>1 DEF Known, MessageOf
  <2>3. KnownIsUnique'
    BY <2>2 DEF Ledger, KnownIsUnique
  <2>4. ChatsAccepted' /\ AcceptedIsStored'
    BY <2>1 DEF Ledger, ChatsAccepted, AcceptedIsStored
  <2>5. SavedBeforeAccepted' /\ AcceptingIsNew' /\ LiveRequestsDiffer'
    BY <2>1 DEF Ledger, SavedBeforeAccepted, AcceptingIsNew, LiveRequestsDiffer, MessageOf, Live
  <2>6. QED
    BY <2>3, <2>4, <2>5 DEF Ledger
<1>4. ASSUME NEW t \in Text, NEW r \in Run, SendReserve(q, t, e, r) PROVE Ledger'
  BY <1>4, LedgerReserve
<1>5. QED
  BY <1>1, <1>2, <1>3, <1>4

LEMMA LedgerCall ==
  ASSUME TypeOK, Ledger, NEW c \in Call, CallBegin(c) \/ CallStep(c) PROVE Ledger'
<1>1. CASE DeleteRemove(c)
  <2>1. /\ disk'.msgs = {} /\ disk'.exists = FALSE
        /\ UNCHANGED <<run, accepted, chats>>
    BY <1>1 DEF DeleteRemove, TypeOK
  <2>2. Known' \subseteq Known
    BY <2>1 DEF Known, MessageOf
  <2>3. QED
    BY <2>1, <2>2 DEF Ledger, KnownIsUnique, ChatsAccepted, AcceptedIsStored,
       SavedBeforeAccepted, AcceptingIsNew, LiveRequestsDiffer, Live
<1>2. CASE ~DeleteRemove(c)
  <2>1. UNCHANGED <<run, accepted, chats>> /\ SameFile
    <3>1. CASE CallBegin(c)
      BY <3>1 DEF CallBegin, DeleteBegin, SetModelBegin, SameFile
    <3>2. CASE SetModelSaved(c)
      BY <3>2 DEF SetModelSaved, SameFile, TypeOK
    <3>3. CASE DeleteSettled(c) \/ DeleteRefused(c) \/ DeleteLock(c) \/ DeleteFailed(c)
               \/ SetModelFailed(c)
      BY <3>3 DEF DeleteSettled, DeleteRefused, DeleteLock, DeleteFailed, SetModelFailed, SameFile
    <3>4. QED
      BY <1>2, <3>1, <3>2, <3>3 DEF CallStep
  <2>2. QED
    BY <2>1, LedgerQuiet DEF QuietRuns, Live
<1>3. QED
  BY <1>1, <1>2

LEMMA LedgerServer ==
  ASSUME TypeOK, Ledger, Server PROVE Ledger'
<1>1. CASE ProcessEnd
  <2>1. QuietRuns
    BY <1>1 DEF ProcessEnd, TypeOK, EndedRun, UnusedRun, FreshRun, QuietRuns, Live
  <2>2. QED
    BY <1>1, <2>1, LedgerQuiet DEF ProcessEnd, SameFile
<1>2. CASE ~ProcessEnd
  <2>1. UNCHANGED <<run, accepted, chats>> /\ SameFile
    BY <1>2 DEF Server, Cancel, ShutdownBegin, ShutdownStep, ShutdownVisit, ShutdownSettled,
       ShutdownJoined, ShutdownClear, ServerStop, FlushAllFailed, Restart, SameFile, TypeOK
  <2>2. QED
    BY <2>1, LedgerQuiet DEF QuietRuns, Live
<1>3. QED
  BY <1>1, <1>2

LEMMA LedgerStep == TypeOK /\ Ledger /\ [Next]_vars => Ledger'
<1> SUFFICES ASSUME TypeOK, Ledger, [Next]_vars PROVE Ledger'
  OBVIOUS
<1>1. CASE Send
  BY <1>1, LedgerSend
<1>2. ASSUME NEW r \in Run, RunStep(r) \/ BackendEvent(r) PROVE Ledger'
  BY <1>2, LedgerRun
<1>3. ASSUME NEW c \in Call, CallBegin(c) \/ CallStep(c) PROVE Ledger'
  BY <1>3, LedgerCall
<1>4. CASE Server
  BY <1>4, LedgerServer
<1>5. CASE UNCHANGED vars
  BY <1>5, LedgerQuiet DEF vars, QuietRuns, SameFile, Live
<1>6. QED
  BY <1>1, <1>2, <1>3, <1>4, <1>5 DEF Next, Server

LEMMA LedgerGives == TypeOK /\ Ledger => ChatAtMostOnce /\ AcceptedIsStable /\ AcceptedIsStored
<1> SUFFICES ASSUME TypeOK, Ledger PROVE ChatAtMostOnce /\ AcceptedIsStable /\ AcceptedIsStored
  OBVIOUS
<1>1. AcceptedIsStable
  BY DEF Ledger, KnownIsUnique, Known, AcceptedIsStable
<1>2. AcceptedIsStored
  BY DEF Ledger
<1>3. ChatAtMostOnce
  <2> SUFFICES ASSUME NEW c \in chats, NEW d \in chats, c.req = d.req PROVE c = d
    BY DEF ChatAtMostOnce
  <2>1. PICK a \in accepted : a.req = c.req /\ a.run = c.run
    BY DEF Ledger, ChatsAccepted
  <2>2. PICK b \in accepted : b.req = d.req /\ b.run = d.run
    BY DEF Ledger, ChatsAccepted
  <2>3. a = b
    BY <1>1, <2>1, <2>2 DEF AcceptedIsStable
  <2>4. c \in [req : Request, run : Run] /\ d \in [req : Request, run : Run]
    BY DEF TypeOK
  <2>5. QED
    BY <2>1, <2>2, <2>3, <2>4
<1>4. QED
  BY <1>1, <1>2, <1>3

LEMMA LedgerCorrect == Spec => []Ledger
BY TypeCorrect, LedgerInit, LedgerStep, PTL DEF Spec

\* Whatever the clients repeat, cancel or delete, whichever save fails and
\* whenever the server crashes, a request id calls the backend at most once.
THEOREM RequestsRunOnce == Spec => []ChatAtMostOnce
BY LedgerCorrect, TypeCorrect, LedgerGives, PTL

\* Every accepting answer to a request id names the same run and text.
THEOREM AnswersAgree == Spec => []AcceptedIsStable
BY LedgerCorrect, TypeCorrect, LedgerGives, PTL

\* What was accepted stays in the file for as long as the session exists.
THEOREM AnswersAreStored == Spec => []AcceptedIsStored
BY LedgerCorrect, TypeCorrect, LedgerGives, PTL

-----------------------------------------------------------------------------
(* Turns *)

LEMMA TurnsInit == Init => Turns
<1> SUFFICES ASSUME Init PROVE Turns
  OBVIOUS
<1>1. \A r \in Run : ~Live(r)
  BY DEF Init, UnusedRun, FreshRun, Live
<1>2. active = NoEntry /\ \A c \in Call : ~Holds(c)
  BY DEF Init, IdleCall, Holds
<1>3. QED
  BY <1>1, <1>2 DEF Turns, LiveIsProcessing, OnePerEntry, LiveIsActive, OneHolder,
     HolderLocked, IdleUnderLock, ActiveIsBorn

\* Steps that start no submission, keep the entries of the live ones marked,
\* and change neither the active entry nor the lock nor the shutdown phases.
QuietTurns ==
  /\ \A e \in Entry : entry[e].born => entry'[e].born
  /\ \A s \in Run : Live(s)' =>
       /\ Live(s)
       /\ run'[s].entry = run[s].entry
       /\ entry'[run[s].entry].processing

Cleared(p) == p \in {"flushing", "broken", "stopped"}

LEMMA TurnsQuiet ==
  ASSUME TypeOK, Turns, QuietTurns, Cleared(phase) => Cleared(phase'),
         UNCHANGED <<active, locked, call>>
  PROVE  Turns'
<1>1. LiveIsProcessing' /\ OnePerEntry' /\ ActiveIsBorn'
  BY DEF Turns, LiveIsProcessing, OnePerEntry, ActiveIsBorn, QuietTurns, TypeOK, RunRecord
<1>2. LiveIsActive'
  BY DEF Turns, LiveIsActive, QuietTurns, Cleared
<1>3. OneHolder' /\ HolderLocked'
  BY DEF Turns, OneHolder, HolderLocked, Holds
<1>4. IdleUnderLock'
  BY DEF Turns, IdleUnderLock, QuietTurns
<1>5. QED
  BY <1>1, <1>2, <1>3, <1>4 DEF Turns

LEMMA TurnsRun ==
  ASSUME TypeOK, Turns, NEW r \in Run, RunStep(r) \/ BackendEvent(r) PROVE Turns'
<1>1. run \in [Run -> RunRecord] /\ entry \in [Entry -> EntryRecord]
  BY DEF TypeOK
<1>2. UNCHANGED <<active, locked, call, phase>>
  BY DEF RunStep, AcceptSaved, AcceptFailed, Accept, Refuse, CheckpointSaved, LeaveLoop, Throw,
     FlushSaved, ReflushFailed, FinishSaved, FinishFailed, BackendEvent, StreamDelta,
     StreamCheckpoint, StreamComplete
<1>3. QuietTurns
  <2>1. ASSUME NEW status, End(r, status) PROVE QuietTurns
    <3>1. run' = [run EXCEPT ![r] = EndedRun(status)] /\ EndedRun(status).pc = "ended"
      BY <2>1 DEF End, EndedRun, UnusedRun, FreshRun
    <3>2. \A s \in Run : Live(s)' => s # r /\ Live(s) /\ run'[s] = run[s]
      BY <1>1, <3>1 DEF Live
    <3>3. ASSUME Live(r), NEW s \in Run, s # r, Live(s)
          PROVE  entry'[run[s].entry] = entry[run[s].entry]
      <4>1. run[s].entry # run[r].entry
        BY <3>3 DEF Turns, OnePerEntry
      <4>2. entry' = [entry EXCEPT ![run[r].entry].processing = FALSE]
        BY <2>1 DEF End
      <4>3. run[s].entry \in Entry
        BY <1>1 DEF RunRecord
      <4>4. QED
        BY <1>1, <4>1, <4>2, <4>3
    <3>4. CASE Live(r)
      <4>1. \A e \in Entry : entry'[e].born = entry[e].born
        BY <1>1, <2>1 DEF End, EntryRecord, RunRecord
      <4>2. QED
        BY <3>2, <3>3, <3>4, <4>1 DEF QuietTurns, Turns, LiveIsProcessing
    <3>5. Live(r)
      BY <1>1 DEF RunStep, BackendEvent, AcceptSaved, AcceptFailed, Accept, Refuse, CheckpointSaved,
         LeaveLoop, Throw, FlushSaved, ReflushFailed, FinishSaved, FinishFailed, StreamDelta,
         StreamCheckpoint, StreamComplete, Live
    <3>6. QED
      BY <3>4, <3>5
  <2>2. CASE Refuse(r) \/ FinishSaved(r) \/ FinishFailed(r)
    BY <2>1, <2>2 DEF Refuse, FinishSaved, FinishFailed
  <2>3. CASE Accept(r)
    <3>1. \A s \in Run : run'[s].entry = run[s].entry /\ (s # r => run'[s] = run[s])
      BY <1>1, <2>3 DEF Accept, RunRecord
    <3>2. Live(r)
      BY <2>3 DEF Accept, Live
    <3>3. run[r].entry \in Entry
      BY <1>1 DEF RunRecord
    <3>4. entry' = [entry EXCEPT ![run[r].entry].task = r]
      BY <2>3 DEF Accept
    <3>5. \A e \in Entry : entry'[e].processing = entry[e].processing /\ entry'[e].born = entry[e].born
      BY <1>1, <3>3, <3>4 DEF EntryRecord
    <3>6. \A s \in Run : run[s].entry \in Entry
      BY <1>1 DEF RunRecord
    <3>7. \A s \in Run : Live(s)' => Live(s)
      BY <3>1, <3>2 DEF Live
    <3>8. QED
      BY <3>1, <3>5, <3>6, <3>7 DEF QuietTurns, Turns, LiveIsProcessing
  <2>4. CASE AcceptSaved(r) \/ AcceptFailed(r) \/ CheckpointSaved(r) \/ LeaveLoop(r) \/ Throw(r)
             \/ FlushSaved(r) \/ ReflushFailed(r) \/ BackendEvent(r)
    <3>1. UNCHANGED entry
      BY <2>4 DEF AcceptSaved, AcceptFailed, CheckpointSaved, LeaveLoop, Throw, FlushSaved,
         ReflushFailed, BackendEvent, StreamDelta, StreamCheckpoint, StreamComplete
    <3>2. \A s \in Run : run'[s].entry = run[s].entry /\ (Live(s)' => Live(s))
      BY <1>1, <2>4 DEF AcceptSaved, AcceptFailed, CheckpointSaved, LeaveLoop, Throw, FlushSaved,
         ReflushFailed, BackendEvent, StreamDelta, StreamCheckpoint, StreamComplete, Live, RunRecord
    <3>3. QED
      BY <3>1, <3>2 DEF QuietTurns, Turns, LiveIsProcessing
  <2>5. QED
    BY <2>2, <2>3, <2>4 DEF RunStep
<1>4. QED
  BY <1>2, <1>3, TurnsQuiet

\* Opening the session makes a new entry active, which no submission holds.
LEMMA OpenedTurns ==
  ASSUME TypeOK, Turns, NEW e \in Entry, CanOpen(e), NEW s \in Run, Live(s)
  PROVE  /\ Opened(e)[run[s].entry].processing /\ Opened(e)[run[s].entry].born
         /\ ~Cleared(phase) => run[s].entry = e
         /\ locked => run[s].entry # e
<1>1. entry \in [Entry -> EntryRecord] /\ run[s].entry \in Entry /\ e # NoEntry
  BY ConstantsAssumption DEF TypeOK, RunRecord
<1>2. entry[run[s].entry].processing /\ entry[run[s].entry].born
  BY DEF Turns, LiveIsProcessing
<1>3. CASE active = e
  BY <1>2, <1>3 DEF Opened, Turns, LiveIsActive, IdleUnderLock, Cleared
<1>4. CASE active # e
  <2>1. active = NoEntry /\ ~entry[e].born
    BY <1>4 DEF CanOpen
  <2>2. run[s].entry # e
    BY <1>2, <2>1
  <2>3. Cleared(phase)
    BY <1>1, <2>1, ConstantsAssumption DEF Turns, LiveIsActive, Cleared
  <2>4. Opened(e)[run[s].entry] = entry[run[s].entry]
    BY <1>1, <1>4, <2>2 DEF Opened
  <2>5. QED
    BY <1>2, <2>2, <2>3, <2>4
<1>5. QED
  BY <1>3, <1>4

LEMMA OpenedIsBorn ==
  ASSUME TypeOK, Turns, NEW e \in Entry, CanOpen(e) PROVE Opened(e)[e].born
<1>1. CASE active = e
  BY <1>1, ConstantsAssumption DEF Turns, ActiveIsBorn, Opened
<1>2. CASE active # e
  BY <1>2 DEF Opened, NewEntry, TypeOK
<1>3. QED
  BY <1>1, <1>2

LEMMA TurnsSend ==
  ASSUME TypeOK, Turns, Send PROVE Turns'
<1>1. PICK q \in Request, e \in Entry :
        \/ SendInProgress(q, e)
        \/ SendBusy(q, e)
        \/ \E t \in Text : SendAgain(q, t, e) \/ \E r \in Run : SendReserve(q, t, e, r)
  BY DEF Send
<1>2. CanOpen(e) /\ active' = e /\ UNCHANGED <<locked, call, phase>>
  BY <1>1 DEF SendInProgress, SendBusy, SendAgain, SendReserve
<1>3. OneHolder' /\ HolderLocked'
  BY <1>2 DEF Turns, OneHolder, HolderLocked, Holds
<1>4. CASE UNCHANGED run /\ entry' = Opened(e)
  <2>1. \A s \in Run : Live(s)' => Live(s)
    BY <1>4 DEF Live
  <2>2. LiveIsProcessing'
    BY <1>2, <1>4, <2>1, OpenedTurns DEF LiveIsProcessing
  <2>3. OnePerEntry'
    BY <1>4, <2>1 DEF Turns, OnePerEntry
  <2>4. LiveIsActive' /\ IdleUnderLock'
    BY <1>2, <1>4, <2>1, OpenedTurns DEF LiveIsActive, IdleUnderLock, Cleared
  <2>5. ActiveIsBorn'
    BY <1>2, <1>4, OpenedIsBorn DEF ActiveIsBorn
  <2>6. QED
    BY <1>3, <2>2, <2>3, <2>4, <2>5 DEF Turns
<1>5. ASSUME NEW t \in Text, NEW r \in Run, SendReserve(q, t, e, r) PROVE Turns'
  <2>1. /\ run' = [run EXCEPT ![r] = FreshRun(q, t, e)]
        /\ entry' = [Opened(e) EXCEPT ![e].processing = TRUE, ![e].abort = FALSE]
        /\ ~entry[e].processing /\ ~locked
    BY <1>5 DEF SendReserve, Busy
  <2>2. Opened(e) \in [Entry -> EntryRecord]
    BY OpenedType
  <2>3. \A s \in Run : s # r => run'[s] = run[s] /\ (Live(s)' <=> Live(s))
    BY <2>1 DEF TypeOK, Live
  <2>4. run'[r].entry = e
    BY <2>1 DEF TypeOK, FreshRun
  <2>5. \A s \in Run : Live(s) => run[s].entry # e /\ run[s].entry \in Entry
    BY <2>1 DEF Turns, LiveIsProcessing, TypeOK, RunRecord
  <2>6. entry'[e].processing /\ entry'[e].born
    <3>1. Opened(e)[e].born
      BY <1>2, OpenedIsBorn
    <3>2. QED
      BY <2>1, <2>2, <3>1 DEF EntryRecord
  <2>7. \A s \in Run : Live(s) =>
          entry'[run[s].entry].processing /\ entry'[run[s].entry].born
    BY <1>2, <2>1, <2>2, <2>5, OpenedTurns
  <2>8. LiveIsProcessing'
    BY <2>3, <2>4, <2>6, <2>7 DEF LiveIsProcessing
  <2>9. OnePerEntry'
    BY <2>3, <2>4, <2>5 DEF Turns, OnePerEntry
  <2>10. LiveIsActive'
    BY <1>2, <2>3, <2>4, OpenedTurns DEF LiveIsActive, Cleared
  <2>11. IdleUnderLock' /\ ActiveIsBorn'
    BY <1>2, <2>1, <2>6 DEF IdleUnderLock, ActiveIsBorn
  <2>12. QED
    BY <1>3, <2>8, <2>9, <2>10, <2>11 DEF Turns
<1>6. QED
  BY <1>1, <1>4, <1>5 DEF SendInProgress, SendBusy, SendAgain

\* The lock is taken when nothing is processing, and the call that holds it
\* is the only one that removes the entry or releases it.
LEMMA TurnsCall ==
  ASSUME TypeOK, Turns, NEW c \in Call, CallBegin(c) \/ CallStep(c) PROVE Turns'
<1>1. call \in [Call -> CallRecord] /\ run \in [Run -> RunRecord] /\ entry \in [Entry -> EntryRecord]
      /\ active \in Entry \cup {NoEntry}
  BY DEF TypeOK
<1>2. UNCHANGED <<run, phase>> /\ \A d \in Call : d # c => call'[d] = call[d]
  BY <1>1 DEF CallBegin, CallStep, DeleteBegin, SetModelBegin, DeleteSettled, DeleteRefused,
     DeleteLock, DeleteRemove, DeleteFailed, SetModelSaved, SetModelFailed, Return
<1>3. \A s \in Run : Live(s)' <=> Live(s)
  BY <1>2 DEF Live
<1>4. OnePerEntry'
  BY <1>2, <1>3 DEF Turns, OnePerEntry
<1>5. /\ \A e \in Entry : /\ entry'[e].born = entry[e].born
                          /\ entry'[e].processing = entry[e].processing
  <2>1. CASE DeleteBegin(c)
    BY <1>1, <2>1 DEF DeleteBegin, CancelActive, EntryRecord
  <2>2. CASE SetModelSaved(c)
    BY <1>1, <2>2 DEF SetModelSaved, EntryRecord
  <2>3. CASE ~DeleteBegin(c) /\ ~SetModelSaved(c)
    BY <2>3 DEF CallBegin, CallStep, SetModelBegin, DeleteSettled, DeleteRefused,
     DeleteLock, DeleteRemove, DeleteFailed, SetModelFailed
  <2>4. QED
    BY <2>1, <2>2, <2>3
<1>6. LiveIsProcessing'
  BY <1>1, <1>2, <1>3, <1>5 DEF Turns, LiveIsProcessing, RunRecord
<1>7. CASE DeleteBegin(c) \/ DeleteSettled(c) \/ DeleteRefused(c)
  <2>1. UNCHANGED <<active, locked>> /\ ~Holds(c)'
    BY <1>1, <1>7 DEF DeleteBegin, DeleteSettled, DeleteRefused, Return, IdleCall, Holds, CallRecord
  <2>2. OneHolder' /\ HolderLocked'
    BY <1>2, <2>1 DEF Turns, OneHolder, HolderLocked, Holds
  <2>3. LiveIsActive' /\ IdleUnderLock' /\ ActiveIsBorn'
    BY <1>1, <1>2, <1>3, <1>5, <2>1 DEF Turns, LiveIsActive, IdleUnderLock, ActiveIsBorn
  <2>4. QED
    BY <1>4, <1>6, <2>2, <2>3 DEF Turns
<1>8. CASE DeleteLock(c) \/ \E m \in Model : SetModelBegin(c, m)
  <2>1. ~locked /\ locked' /\ UNCHANGED active /\ (active # NoEntry => ~entry[active].processing)
    BY <1>8 DEF DeleteLock, SetModelBegin, Occupied
  <2>2. OneHolder' /\ HolderLocked'
    BY <1>2, <2>1 DEF Turns, OneHolder, HolderLocked, Holds
  <2>3. LiveIsActive' /\ ActiveIsBorn'
    BY <1>1, <1>2, <1>3, <1>5, <2>1 DEF Turns, LiveIsActive, ActiveIsBorn
  <2>4. IdleUnderLock'
    BY <1>1, <1>2, <1>3, <2>1, ConstantsAssumption
       DEF Turns, LiveIsProcessing, IdleUnderLock, RunRecord
  <2>5. QED
    BY <1>4, <1>6, <2>2, <2>3, <2>4 DEF Turns
<1>9. CASE DeleteRemove(c) \/ DeleteFailed(c) \/ SetModelSaved(c) \/ SetModelFailed(c)
  <2>1. Holds(c) /\ locked' = FALSE /\ ~Holds(c)'
    BY <1>1, <1>9 DEF DeleteRemove, DeleteFailed, SetModelSaved, SetModelFailed, Return, IdleCall, Holds
  <2>2. OneHolder' /\ HolderLocked' /\ IdleUnderLock'
    BY <1>2, <2>1 DEF Turns, OneHolder, HolderLocked, IdleUnderLock, Holds
  <2>3. active' = active \/ active' = NoEntry
    BY <1>9 DEF DeleteRemove, DeleteFailed, SetModelSaved, SetModelFailed
  <2>4. ActiveIsBorn'
    BY <1>1, <1>5, <2>3 DEF Turns, ActiveIsBorn
  <2>5. ~Cleared(phase) => \A r \in Run : ~Live(r)
    BY <2>1 DEF Turns, HolderLocked, IdleUnderLock, LiveIsActive, Cleared
  <2>6. LiveIsActive'
    BY <1>2, <1>3, <2>5 DEF LiveIsActive, Cleared
  <2>7. QED
    BY <1>4, <1>6, <2>2, <2>4, <2>6 DEF Turns
<1>10. QED
  BY <1>7, <1>8, <1>9 DEF CallBegin, CallStep

LEMMA TurnsServer ==
  ASSUME TypeOK, Turns, Server PROVE Turns'
<1>1. entry \in [Entry -> EntryRecord] /\ active \in Entry \cup {NoEntry}
  BY DEF TypeOK
<1>2. CASE ProcessEnd
  <2>1. \A s \in Run : ~Live(s)'
    BY <1>2 DEF ProcessEnd, TypeOK, EndedRun, UnusedRun, FreshRun, Live
  <2>2. \A c \in Call : ~Holds(c)'
    BY <1>2 DEF ProcessEnd, IdleCall, Holds
  <2>3. active' = NoEntry
    BY <1>2 DEF ProcessEnd
  <2>4. QED
    BY <2>1, <2>2, <2>3 DEF Turns, LiveIsProcessing, OnePerEntry, LiveIsActive, OneHolder,
       HolderLocked, IdleUnderLock, ActiveIsBorn
<1>3. CASE ShutdownClear
  <2>1. active' = NoEntry /\ phase' = "flushing" /\ UNCHANGED <<entry, run, locked, call>>
    BY <1>3 DEF ShutdownClear
  <2>2. LiveIsProcessing' /\ OnePerEntry' /\ OneHolder' /\ HolderLocked'
    BY <2>1 DEF Turns, LiveIsProcessing, OnePerEntry, OneHolder, HolderLocked, Live, Holds
  <2>3. IdleUnderLock'
    <3>1. \A s \in Run : run[s].entry # NoEntry
      BY ConstantsAssumption DEF TypeOK, RunRecord
    <3>2. QED
      BY <2>1, <3>1 DEF IdleUnderLock
  <2>4. LiveIsActive' /\ ActiveIsBorn'
    BY <2>1 DEF LiveIsActive, ActiveIsBorn
  <2>5. QED
    BY <2>2, <2>3, <2>4 DEF Turns
<1>4. CASE Restart \/ Cancel \/ ShutdownBegin \/ ShutdownVisit \/ ShutdownSettled \/ ShutdownJoined
           \/ ServerStop \/ FlushAllFailed
  <2>1. UNCHANGED <<run, active, locked, call>> /\ (Cleared(phase) => Cleared(phase'))
    BY <1>4 DEF Restart, Cancel, ShutdownBegin, ShutdownVisit, ShutdownSettled, ShutdownJoined,
       ServerStop, FlushAllFailed, Cleared
  <2>2. \A e \in Entry : /\ entry'[e].born = entry[e].born
                         /\ entry'[e].processing = entry[e].processing
    BY <1>1, <1>4 DEF Restart, Cancel, ShutdownBegin, CancelActive, ShutdownVisit, ShutdownSettled,
       ShutdownJoined, ServerStop, FlushAllFailed, EntryRecord
  <2>3. \A s \in Run : run[s].entry \in Entry /\ (Live(s)' <=> Live(s))
    BY <2>1 DEF TypeOK, RunRecord, Live
  <2>4. QuietTurns
    BY <2>1, <2>2, <2>3 DEF QuietTurns, Turns, LiveIsProcessing
  <2>5. QED
    BY <2>1, <2>4, TurnsQuiet
<1>5. QED
  BY <1>2, <1>3, <1>4 DEF Server, ShutdownStep

LEMMA TurnsStep == TypeOK /\ Turns /\ [Next]_vars => Turns'
<1> SUFFICES ASSUME TypeOK, Turns, [Next]_vars PROVE Turns'
  OBVIOUS
<1>1. CASE Send
  BY <1>1, TurnsSend
<1>2. ASSUME NEW r \in Run, RunStep(r) \/ BackendEvent(r) PROVE Turns'
  BY <1>2, TurnsRun
<1>3. ASSUME NEW c \in Call, CallBegin(c) \/ CallStep(c) PROVE Turns'
  BY <1>3, TurnsCall
<1>4. CASE Server
  BY <1>4, TurnsServer
<1>5. CASE UNCHANGED vars
  BY <1>5 DEF vars, Turns, LiveIsProcessing, OnePerEntry, LiveIsActive, OneHolder, HolderLocked,
     IdleUnderLock, ActiveIsBorn, Live, Holds
<1>6. QED
  BY <1>1, <1>2, <1>3, <1>4, <1>5 DEF Next, Server

LEMMA TurnsGives == Turns => OneTurnAtATime
BY DEF Turns, OnePerEntry, LiveIsActive, OneTurnAtATime

LEMMA TurnsCorrect == Spec => []Turns
BY TypeCorrect, TurnsInit, TurnsStep, PTL DEF Spec

\* Until shutdown clears the sessions, one submission at a time is in
\* progress, and it belongs to the active entry.
THEOREM TurnsExclude == Spec => []OneTurnAtATime
BY TurnsCorrect, TurnsGives, PTL

\* Nothing runs on the session while its directory is removed or its model
\* changed, although the lock is taken after two awaits.
THEOREM LockExcludes == Spec => []IdleUnderLock
<1>1. Turns => IdleUnderLock
  BY DEF Turns
<1>2. QED
  BY <1>1, TurnsCorrect, PTL

-----------------------------------------------------------------------------
(* Records: what the file says of each run *)

\* The file is never ahead of a run; a run has no outcome before the end of its
\* loop; only a failed one repeats its flush; and the file names a run as its
\* last only once its acceptance was saved.
RecordOf(r) ==
  /\ run[r].pc = "unused" => disk.saved[r] = 0
  /\ run[r].pc # "ended" => disk.saved[r] <= run[r].made
  /\ Interruptible(r) \/ run[r].pc \in {"unused", "refused"} => run[r].status = "none"
  /\ run[r].pc = "reflushing" => run[r].status # "completed"
  /\ run[r].pc = "closing" /\ run[r].status = "completed" /\ disk.exists =>
       disk.saved[r] = run[r].made
  /\ disk.last.run = r =>
       /\ run[r].pc \notin {"unused", "accepting", "refused"}
       /\ disk.last.status = "running" =>
            Live(r) \/ run[r].status = "unsaved" \/ phase = "down"
       /\ run[r].pc = "ended" /\ run[r].status \notin {"none", "unsaved"} =>
            disk.last.status = run[r].status

Records == \A r \in Run : RecordOf(r)

LEMMA RecordsInit == Init => Records
<1> SUFFICES ASSUME Init, NEW r \in Run PROVE RecordOf(r)
  BY DEF Records
<1>1. run[r].pc = "unused" /\ run[r].made = 0 /\ run[r].status = "none"
  BY DEF Init, UnusedRun, FreshRun
<1>2. disk.saved[r] = 0 /\ disk.last.run # r
  BY ConstantsAssumption DEF Init
<1>3. QED
  BY <1>1, <1>2 DEF RecordOf

\* A step that leaves a run and its part of the file alone keeps its record.
LEMMA RecordKept ==
  ASSUME Records, NEW s \in Run, run'[s] = run[s], disk'.saved[s] = disk.saved[s],
         disk'.exists => disk.exists, disk'.last = disk.last \/ disk'.last.run # s,
         UNCHANGED phase
  PROVE  RecordOf(s)'
<1>1. RecordOf(s)
  BY DEF Records
<1>2. QED
  BY <1>1 DEF RecordOf, Interruptible, Live

\* So the record of the run that takes the step is the one to look at.
LEMMA OtherRecords ==
  ASSUME TypeOK, Records, NEW r \in Run, RunStep(r) \/ BackendEvent(r), RecordOf(r)'
  PROVE  Records'
<1>1. run \in [Run -> RunRecord] /\ disk.saved \in [Run -> Nat]
  BY DEF TypeOK
<1>2. UNCHANGED phase
  BY DEF RunStep, AcceptSaved, AcceptFailed, Accept, Refuse, CheckpointSaved, LeaveLoop, Throw,
     FlushSaved, ReflushFailed, FinishSaved, FinishFailed, BackendEvent, StreamDelta,
     StreamCheckpoint, StreamComplete
<1>3. \A s \in Run : s # r => run'[s] = run[s]
  BY <1>1 DEF RunStep, AcceptSaved, AcceptFailed, Accept, Refuse, CheckpointSaved, LeaveLoop, Throw,
     FlushSaved, ReflushFailed, FinishSaved, FinishFailed, BackendEvent, StreamDelta,
     StreamCheckpoint, StreamComplete, End
<1>4. /\ \A s \in Run : s # r => disk'.saved[s] = disk.saved[s]
      /\ disk'.exists = disk.exists
      /\ disk'.last = disk.last \/ disk'.last.run = r
  <2>1. CASE AcceptSaved(r)
    BY <2>1 DEF AcceptSaved, TypeOK
  <2>2. CASE FinishSaved(r)
    BY <2>2 DEF FinishSaved, TypeOK
  <2>3. CASE CheckpointSaved(r) \/ FlushSaved(r)
    BY <1>1, <2>3 DEF CheckpointSaved, FlushSaved, SaveTranscript, TypeOK
  <2>4. CASE AcceptFailed(r) \/ Accept(r) \/ Refuse(r) \/ LeaveLoop(r) \/ Throw(r)
             \/ ReflushFailed(r) \/ FinishFailed(r) \/ BackendEvent(r)
    BY <2>4 DEF AcceptFailed, Accept, Refuse, LeaveLoop, Throw, ReflushFailed, FinishFailed,
       BackendEvent, StreamDelta, StreamCheckpoint, StreamComplete
  <2>5. QED
    BY <2>1, <2>2, <2>3, <2>4 DEF RunStep
<1>5. ASSUME NEW s \in Run, s # r PROVE RecordOf(s)'
  BY <1>2, <1>3, <1>4, <1>5, RecordKept
<1>6. QED
  BY <1>5 DEF Records

\* What a run that has ended still tells.
LEMMA EndedIs ==
  ASSUME NEW status PROVE EndedRun(status).pc = "ended" /\ EndedRun(status).status = status
BY DEF EndedRun, UnusedRun, FreshRun

LEMMA RecordsRun ==
  ASSUME TypeOK, Records, NEW r \in Run, RunStep(r) \/ BackendEvent(r) PROVE Records'
<1>1. /\ run \in [Run -> RunRecord] /\ run[r] \in RunRecord
      /\ disk.saved \in [Run -> Nat] /\ RecordOf(r)
  BY DEF TypeOK, Records
<1>2. run[r].made \in Nat /\ disk.saved[r] \in Nat
  BY <1>1 DEF RunRecord
<1>3. SUFFICES RecordOf(r)'
  BY OtherRecords
<1>4. CASE AcceptSaved(r)
  <2>1. /\ run'[r].pc = "accepted" /\ run'[r].status = run[r].status /\ run'[r].made = run[r].made
        /\ disk'.saved = disk.saved /\ run[r].pc = "accepting"
    BY <1>1, <1>4 DEF AcceptSaved, TypeOK, RunRecord
  <2>2. QED
    BY <1>1, <2>1 DEF RecordOf, Interruptible, Live
<1>5. CASE AcceptFailed(r)
  BY <1>1, <1>5 DEF AcceptFailed, RunRecord, RecordOf, Interruptible, Live
<1>6. CASE Accept(r)
  <2>1. CASE Aborted(r)
    BY <1>1, <1>2, <1>6, <2>1
       DEF Accept, AfterLoop, LoopStatus, RunRecord, RecordOf, Interruptible, Live
  <2>2. CASE ~Aborted(r)
    <3>1. /\ run'[r].pc = "streaming" /\ run'[r].status = run[r].status
          /\ run'[r].made = run[r].made /\ run[r].pc = "accepted" /\ UNCHANGED <<disk, phase>>
      BY <1>1, <1>6, <2>2 DEF Accept, RunRecord
    <3>2. QED
      BY <1>1, <3>1 DEF RecordOf, Interruptible, Live
  <2>3. QED
    BY <2>1, <2>2
<1>7. CASE CheckpointSaved(r) \/ FlushSaved(r)
  <2>1. /\ run'[r].pc = (IF run[r].pc = "checkpointing" THEN "streaming" ELSE "closing")
        /\ run'[r].status = run[r].status /\ run'[r].made = run[r].made
        /\ run[r].pc \in {"checkpointing", "flushing", "reflushing"}
        /\ UNCHANGED phase
    BY <1>1, <1>7 DEF CheckpointSaved, FlushSaved, RunRecord
  <2>2. disk'.saved[r] = run[r].made /\ disk'.last = disk.last
    BY <1>1, <1>7 DEF CheckpointSaved, FlushSaved, SaveTranscript, TypeOK
  <2>3. QED
    BY <1>1, <1>2, <2>1, <2>2 DEF RecordOf, Interruptible, Live
<1>8. CASE LeaveLoop(r)
  BY <1>1, <1>2, <1>8 DEF LeaveLoop, AfterLoop, RunRecord, RecordOf, Interruptible, Live
<1>9. CASE Throw(r)
  BY <1>1, <1>2, <1>9 DEF Throw, AfterThrow, ThrowStatus, RunRecord, RecordOf, Interruptible, Live
<1>10. CASE ReflushFailed(r)
  BY <1>1, <1>10 DEF ReflushFailed, RunRecord, RecordOf, Interruptible, Live
<1>11. ASSUME NEW status \in Status \cup {"none"}, End(r, status)
       PROVE  run'[r].pc = "ended" /\ run'[r].status = status
  BY <1>1, <1>11, EndedIs DEF End
<1>12. CASE Refuse(r)
  <2>1. run'[r].pc = "ended" /\ run'[r].status = "none" /\ run[r].pc = "refused" /\ UNCHANGED disk
    BY <1>11, <1>12 DEF Refuse
  <2>2. QED
    BY <1>1, <2>1 DEF RecordOf, Interruptible
<1>13. CASE FinishSaved(r)
  <2>1. run[r].status \in Status \cup {"none"}
    BY <1>1 DEF RunRecord
  <2>2. run'[r].pc = "ended" /\ run'[r].status = run[r].status
    BY <1>11, <1>13, <2>1 DEF FinishSaved
  <2>3. disk'.last = [run |-> r, status |-> run[r].status]
    BY <1>13 DEF FinishSaved, TypeOK
  <2>4. QED
    BY <2>1, <2>2, <2>3 DEF RecordOf, Interruptible, Status
<1>14. CASE FinishFailed(r)
  <2>1. run'[r].pc = "ended" /\ run'[r].status = "unsaved" /\ UNCHANGED disk
    BY <1>11, <1>14 DEF FinishFailed, Status
  <2>2. QED
    BY <1>1, <2>1 DEF RecordOf, Interruptible
<1>15. CASE BackendEvent(r)
  <2>1. /\ run[r].pc = "streaming" /\ run'[r].pc \in {"streaming", "checkpointing"}
        /\ run'[r].status = run[r].status /\ run'[r].made >= run[r].made
        /\ UNCHANGED <<disk, phase>>
    BY <1>1, <1>2, <1>15
       DEF BackendEvent, StreamDelta, StreamCheckpoint, StreamComplete, RunRecord
  <2>2. run'[r].made \in Nat
    BY <1>1, <1>2, <1>15
       DEF BackendEvent, StreamDelta, StreamCheckpoint, StreamComplete, RunRecord
  <2>3. QED
    BY <1>1, <1>2, <2>1, <2>2 DEF RecordOf, Interruptible, Live
<1>16. QED
  BY <1>4, <1>5, <1>6, <1>7, <1>8, <1>9, <1>10, <1>12, <1>13, <1>14, <1>15 DEF RunStep

LEMMA RecordsSend ==
  ASSUME TypeOK, Records, Send PROVE Records'
<1>1. PICK q \in Request, e \in Entry :
        \/ SendInProgress(q, e)
        \/ SendBusy(q, e)
        \/ \E t \in Text : SendAgain(q, t, e) \/ \E r \in Run : SendReserve(q, t, e, r)
  BY DEF Send
<1>2. UNCHANGED <<disk, phase>>
  BY <1>1 DEF SendInProgress, SendBusy, SendAgain, SendReserve
<1>3. CASE UNCHANGED run
  BY <1>2, <1>3, RecordKept DEF Records
<1>4. ASSUME NEW t \in Text, NEW r \in Run, SendReserve(q, t, e, r) PROVE Records'
  <2>1. \A s \in Run : s # r => run'[s] = run[s]
    BY <1>4 DEF SendReserve, TypeOK
  <2>2. /\ run'[r].pc = "accepting" /\ run'[r].made = 0 /\ run'[r].status = "none"
        /\ run[r].pc = "unused"
    BY <1>4 DEF SendReserve, FreshRun, TypeOK
  <2>3. disk.saved[r] = 0
    BY <2>2 DEF Records, RecordOf
  <2>4. RecordOf(r)'
    BY <1>2, <2>2, <2>3 DEF Records, RecordOf
  <2>5. ASSUME NEW s \in Run, s # r PROVE RecordOf(s)'
    BY <1>2, <2>1, <2>5, RecordKept
  <2>6. QED
    BY <2>4, <2>5 DEF Records
<1>5. QED
  BY <1>1, <1>3, <1>4 DEF SendInProgress, SendBusy, SendAgain

LEMMA RecordsCall ==
  ASSUME TypeOK, Records, NEW c \in Call, CallBegin(c) \/ CallStep(c) PROVE Records'
<1>1. UNCHANGED <<run, phase>>
  BY DEF CallBegin, CallStep, DeleteBegin, SetModelBegin, DeleteSettled, DeleteRefused,
     DeleteLock, DeleteRemove, DeleteFailed, SetModelSaved, SetModelFailed
<1>2. /\ disk'.saved = disk.saved /\ (disk'.exists => disk.exists)
      /\ disk'.last = disk.last \/ disk'.last.run = NoRun
  <2>1. CASE DeleteRemove(c)
    BY <2>1 DEF DeleteRemove, TypeOK
  <2>2. CASE SetModelSaved(c)
    BY <2>2 DEF SetModelSaved, TypeOK
  <2>3. CASE ~DeleteRemove(c) /\ ~SetModelSaved(c)
    BY <2>3 DEF CallBegin, CallStep, DeleteBegin, SetModelBegin, DeleteSettled, DeleteRefused,
       DeleteLock, DeleteFailed, SetModelFailed
  <2>4. QED
    BY <2>1, <2>2, <2>3
<1>3. ASSUME NEW s \in Run PROVE RecordOf(s)'
  BY <1>1, <1>2, RecordKept, ConstantsAssumption
<1>4. QED
  BY <1>3 DEF Records

\* A crash ends the runs without an outcome while the file still calls the last
\* of them running; recovery says that it was interrupted.
LEMMA RecordsServer ==
  ASSUME TypeOK, Records, Server PROVE Records'
<1>1. CASE ProcessEnd
  <2> SUFFICES ASSUME NEW s \in Run PROVE RecordOf(s)'
    BY DEF Records
  <2>1. UNCHANGED disk /\ phase' = "down" /\ RecordOf(s)
    BY <1>1 DEF ProcessEnd, Records
  <2>2. CASE Live(s)
    <3>1. run'[s] = EndedRun("none")
      BY <1>1, <2>2 DEF ProcessEnd
    <3>2. QED
      BY <2>1, <3>1, EndedIs DEF RecordOf, Interruptible
  <2>3. CASE ~Live(s)
    <3>1. run'[s] = run[s]
      BY <1>1, <2>3 DEF ProcessEnd
    <3>2. QED
      BY <2>1, <3>1 DEF RecordOf, Interruptible, Live
  <2>4. QED
    BY <2>2, <2>3
<1>2. CASE Restart
  <2> SUFFICES ASSUME NEW s \in Run PROVE RecordOf(s)'
    BY DEF Records
  <2>1. RecordOf(s) /\ disk.last \in LastRun
    BY DEF Records, TypeOK
  <2>2. /\ UNCHANGED run
        /\ disk'.saved = disk.saved /\ disk'.exists = disk.exists
        /\ disk'.last = Recovered(disk.last)
    BY <1>2 DEF Restart, TypeOK
  <2>3. /\ disk'.last.run = disk.last.run /\ disk'.last.status # "running"
        /\ disk.last.status # "running" => disk'.last.status = disk.last.status
    BY <2>1, <2>2 DEF Recovered, LastRun
  <2>4. disk.last.run = s /\ disk.last.status = "running" /\ run[s].pc = "ended" =>
          run[s].status \in {"none", "unsaved"}
    BY <2>1 DEF RecordOf, TypeOK, RunRecord, Status
  <2>5. QED
    BY <2>1, <2>2, <2>3, <2>4 DEF RecordOf, Interruptible
<1>3. CASE ~ProcessEnd /\ ~Restart
  <2>1. UNCHANGED <<run, disk>> /\ phase # "down"
    BY <1>3 DEF Server, Cancel, Serving, ShutdownBegin, ShutdownStep, ShutdownVisit,
       ShutdownSettled, ShutdownJoined, ShutdownClear, ServerStop, FlushAllFailed
  <2>2. ASSUME NEW s \in Run PROVE RecordOf(s)'
    BY <2>1 DEF Records, RecordOf, Interruptible, Live
  <2>3. QED
    BY <2>2 DEF Records
<1>4. QED
  BY <1>1, <1>2, <1>3

LEMMA RecordsStep == TypeOK /\ Records /\ [Next]_vars => Records'
<1> SUFFICES ASSUME TypeOK, Records, [Next]_vars PROVE Records'
  OBVIOUS
<1>1. CASE Send
  BY <1>1, RecordsSend
<1>2. ASSUME NEW r \in Run, RunStep(r) \/ BackendEvent(r) PROVE Records'
  BY <1>2, RecordsRun
<1>3. ASSUME NEW c \in Call, CallBegin(c) \/ CallStep(c) PROVE Records'
  BY <1>3, RecordsCall
<1>4. CASE Server
  BY <1>4, RecordsServer
<1>5. CASE UNCHANGED vars
  BY <1>5, RecordKept DEF vars, Records
<1>6. QED
  BY <1>1, <1>2, <1>3, <1>4, <1>5 DEF Next, Server

LEMMA RecordsCorrect == Spec => []Records
BY TypeCorrect, RecordsInit, RecordsStep, PTL DEF Spec

LEMMA RecordsGive == TypeOK /\ Records => FileIsTruthful
<1> SUFFICES ASSUME TypeOK, Records PROVE FileIsTruthful
  OBVIOUS
<1>1. disk.last.run \in Run \cup {NoRun}
  BY DEF TypeOK, LastRun
<1>2. QED
  BY <1>1 DEF Records, RecordOf, FileIsTruthful

\* A run is recorded as completed only with everything it streamed; the file
\* calls a run running only while it is, or where its failed save was announced
\* or recovery is due; and it says of a run what the run announced.
THEOREM FileTellsTheTruth == Spec => []FileIsTruthful
BY RecordsCorrect, TypeCorrect, RecordsGive, PTL

-----------------------------------------------------------------------------
(* Cancel *)

\* The submission of another message resets the flag of its own entry only,
\* which is not the entry of a run in progress; the run itself looks at the
\* flag before it calls the backend and when it leaves its loop.
CancelHolds(r) ==
  Interruptible(r) /\ Aborted(r) =>
    /\ Interruptible(r)' => Aborted(r)'
    /\ Live(r)' /\ ~Interruptible(r)' => run'[r].status # "completed"
    /\ \A c \in chats' \ chats : c.run # r

\* Steps that keep a run and the flag of its entry.
LEMMA CancelKept ==
  ASSUME NEW r \in Run, run'[r] = run[r], chats' = chats,
         Live(r) /\ Aborted(r) => entry'[run[r].entry].abort
  PROVE  CancelHolds(r)
BY DEF CancelHolds, Interruptible, Live, Aborted

LEMMA CancelRun ==
  ASSUME TypeOK, Records, NEW r \in Run, NEW s \in Run, RunStep(s) \/ BackendEvent(s)
  PROVE  CancelHolds(r)
<1>1. /\ run \in [Run -> RunRecord] /\ entry \in [Entry -> EntryRecord]
      /\ \A x \in Run : run[x].entry \in Entry
  BY DEF TypeOK, RunRecord
<1>2. \A e \in Entry : entry'[e].abort = entry[e].abort
  <2>1. CASE Accept(s)
    BY <1>1, <2>1 DEF Accept, EntryRecord
  <2>2. CASE Refuse(s) \/ FinishSaved(s) \/ FinishFailed(s)
    BY <1>1, <2>2 DEF Refuse, FinishSaved, FinishFailed, End, EntryRecord
  <2>3. CASE AcceptSaved(s) \/ AcceptFailed(s) \/ CheckpointSaved(s) \/ LeaveLoop(s) \/ Throw(s)
             \/ FlushSaved(s) \/ ReflushFailed(s) \/ BackendEvent(s)
    BY <2>3 DEF AcceptSaved, AcceptFailed, CheckpointSaved, LeaveLoop, Throw, FlushSaved,
       ReflushFailed, BackendEvent, StreamDelta, StreamCheckpoint, StreamComplete
  <2>4. QED
    BY <2>1, <2>2, <2>3 DEF RunStep
<1>3. chats' = chats \/ (Accept(s) /\ ~Aborted(s) /\ chats' = chats \cup {[req |-> run[s].req, run |-> s]})
  BY DEF RunStep, AcceptSaved, AcceptFailed, Accept, Refuse, CheckpointSaved, LeaveLoop, Throw,
     FlushSaved, ReflushFailed, FinishSaved, FinishFailed, BackendEvent, StreamDelta,
     StreamCheckpoint, StreamComplete
<1>4. CASE r # s
  <2>1. run'[r] = run[r]
    BY <1>1, <1>4 DEF RunStep, AcceptSaved, AcceptFailed, Accept, Refuse, CheckpointSaved, LeaveLoop,
       Throw, FlushSaved, ReflushFailed, FinishSaved, FinishFailed, BackendEvent, StreamDelta,
       StreamCheckpoint, StreamComplete, End
  <2>2. \A c \in chats' \ chats : c.run # r
    BY <1>3, <1>4
  <2>3. QED
    BY <1>1, <1>2, <2>1, <2>2 DEF CancelHolds, Interruptible, Live, Aborted
<1>5. CASE r = s
  <2> SUFFICES ASSUME Interruptible(r), Aborted(r)
               PROVE  /\ Interruptible(r)' => Aborted(r)'
                      /\ Live(r)' /\ ~Interruptible(r)' => run'[r].status # "completed"
                      /\ chats' = chats
    BY DEF CancelHolds
  <2>1. chats' = chats
    BY <1>3, <1>5
  <2>2. run'[r].entry = run[r].entry \/ run'[r].pc = "ended"
    <3>1. CASE Refuse(r) \/ FinishSaved(r) \/ FinishFailed(r)
      BY <1>1, <3>1, EndedIs DEF Refuse, FinishSaved, FinishFailed, End
    <3>2. CASE AcceptSaved(r) \/ AcceptFailed(r) \/ Accept(r) \/ CheckpointSaved(r)
               \/ LeaveLoop(r) \/ Throw(r) \/ FlushSaved(r) \/ ReflushFailed(r)
      BY <1>1, <3>2 DEF AcceptSaved, AcceptFailed, Accept, CheckpointSaved, LeaveLoop, Throw,
         FlushSaved, ReflushFailed, RunRecord
    <3>3. CASE BackendEvent(r)
      BY <1>1, <3>3 DEF BackendEvent, StreamDelta, StreamCheckpoint, StreamComplete, RunRecord
    <3>4. QED
      BY <1>5, <3>1, <3>2, <3>3 DEF RunStep
  <2>3. Interruptible(r)' => Aborted(r)'
    BY <1>1, <1>2, <2>2 DEF Aborted, Interruptible
  <2>4. run[r].status = "none"
    BY DEF Records, RecordOf
  <2>5. Live(r)' /\ ~Interruptible(r)' => run'[r].status \in {"none", "cancelled"}
    <3>1. CASE Accept(r) \/ LeaveLoop(r) \/ Throw(r)
      BY <1>1, <3>1 DEF Accept, LeaveLoop, Throw, LoopStatus, ThrowStatus, RunRecord
    <3>2. CASE AcceptSaved(r) \/ AcceptFailed(r) \/ CheckpointSaved(r) \/ BackendEvent(r)
      BY <1>1, <2>4, <3>2 DEF AcceptSaved, AcceptFailed, CheckpointSaved, BackendEvent, StreamDelta,
         StreamCheckpoint, StreamComplete, RunRecord
    <3>3. CASE Refuse(r) \/ FlushSaved(r) \/ ReflushFailed(r) \/ FinishSaved(r) \/ FinishFailed(r)
      BY <3>3 DEF Refuse, FlushSaved, ReflushFailed, FinishSaved, FinishFailed, Interruptible
    <3>4. QED
      BY <1>5, <3>1, <3>2, <3>3 DEF RunStep
  <2>6. QED
    BY <2>1, <2>3, <2>5
<1>6. QED
  BY <1>4, <1>5

LEMMA CancelSend ==
  ASSUME TypeOK, Turns, NEW r \in Run, Send PROVE CancelHolds(r)
<1>1. PICK q \in Request, e \in Entry :
        \/ SendInProgress(q, e)
        \/ SendBusy(q, e)
        \/ \E t \in Text : SendAgain(q, t, e) \/ \E s \in Run : SendReserve(q, t, e, s)
  BY DEF Send
<1>2. CanOpen(e) /\ chats' = chats
  BY <1>1 DEF SendInProgress, SendBusy, SendAgain, SendReserve
<1>3. entry \in [Entry -> EntryRecord] /\ run[r].entry \in Entry /\ Opened(e) \in [Entry -> EntryRecord]
  BY OpenedType DEF TypeOK, RunRecord
<1>4. ASSUME Live(r) PROVE Opened(e)[run[r].entry] = entry[run[r].entry]
  <2>1. entry[run[r].entry].born
    BY <1>4 DEF Turns, LiveIsProcessing
  <2>2. QED
    BY <1>2, <1>3, <2>1 DEF CanOpen, Opened
<1>5. CASE UNCHANGED run /\ entry' = Opened(e)
  BY <1>2, <1>4, <1>5, CancelKept DEF Aborted
<1>6. ASSUME NEW t \in Text, NEW s \in Run, SendReserve(q, t, e, s) PROVE CancelHolds(r)
  <2>1. /\ run[s].pc = "unused" /\ ~entry[e].processing
        /\ run' = [run EXCEPT ![s] = FreshRun(q, t, e)]
        /\ entry' = [Opened(e) EXCEPT ![e].processing = TRUE, ![e].abort = FALSE]
    BY <1>6 DEF SendReserve, Busy
  <2>2. CASE Live(r)
    <3>1. r # s /\ run[r].entry # e
      BY <2>1, <2>2 DEF Live, Turns, LiveIsProcessing
    <3>2. run'[r] = run[r] /\ entry'[run[r].entry] = entry[run[r].entry]
      BY <1>3, <1>4, <2>1, <2>2, <3>1 DEF TypeOK
    <3>3. QED
      BY <1>2, <3>2, CancelKept DEF Aborted
  <2>3. CASE ~Live(r)
    BY <2>3 DEF CancelHolds, Interruptible, Live
  <2>4. QED
    BY <2>2, <2>3
<1>7. QED
  BY <1>1, <1>5, <1>6 DEF SendInProgress, SendBusy, SendAgain

LEMMA CancelStep == TypeOK /\ Turns /\ Records /\ [Next]_vars => \A r \in Run : CancelHolds(r)
<1> SUFFICES ASSUME TypeOK, Turns, Records, [Next]_vars, NEW r \in Run PROVE CancelHolds(r)
  OBVIOUS
<1>1. entry \in [Entry -> EntryRecord] /\ run[r].entry \in Entry
  BY DEF TypeOK, RunRecord
<1>2. CancelActive => (Aborted(r) => entry'[run[r].entry].abort)
  BY <1>1 DEF CancelActive, Aborted, EntryRecord, TypeOK
<1>3. CASE Send
  BY <1>3, CancelSend
<1>4. ASSUME NEW s \in Run, RunStep(s) \/ BackendEvent(s) PROVE CancelHolds(r)
  BY <1>4, CancelRun
<1>5. ASSUME NEW c \in Call, CallBegin(c) \/ CallStep(c) PROVE CancelHolds(r)
  <2>1. UNCHANGED <<run, chats>>
    BY <1>5 DEF CallBegin, CallStep, DeleteBegin, SetModelBegin, DeleteSettled, DeleteRefused,
       DeleteLock, DeleteRemove, DeleteFailed, SetModelSaved, SetModelFailed
  <2>2. Aborted(r) => entry'[run[r].entry].abort
    <3>1. CASE DeleteBegin(c)
      BY <1>2, <3>1 DEF DeleteBegin
    <3>2. CASE SetModelSaved(c)
      BY <1>1, <3>2 DEF SetModelSaved, Aborted, EntryRecord
    <3>3. CASE ~DeleteBegin(c) /\ ~SetModelSaved(c)
      BY <1>5, <3>3 DEF CallBegin, CallStep, SetModelBegin, DeleteSettled, DeleteRefused,
         DeleteLock, DeleteRemove, DeleteFailed, SetModelFailed, Aborted
    <3>4. QED
      BY <3>1, <3>2, <3>3
  <2>3. QED
    BY <2>1, <2>2, CancelKept
<1>6. CASE ProcessEnd
  <2>1. /\ run'[r] = IF Live(r) THEN EndedRun("none") ELSE run[r]
        /\ UNCHANGED chats
    BY <1>6 DEF ProcessEnd
  <2>2. QED
    BY <2>1, EndedIs DEF CancelHolds, Interruptible, Live
<1>7. CASE Server /\ ~ProcessEnd
  <2>1. UNCHANGED <<run, chats>>
    BY <1>7 DEF Server, Cancel, ShutdownBegin, ShutdownStep, ShutdownVisit, ShutdownSettled,
       ShutdownJoined, ShutdownClear, ServerStop, FlushAllFailed, Restart
  <2>2. CancelActive \/ UNCHANGED entry
    BY <1>7 DEF Server, Cancel, ShutdownBegin, ShutdownStep, ShutdownVisit, ShutdownSettled,
       ShutdownJoined, ShutdownClear, ServerStop, FlushAllFailed, Restart
  <2>3. QED
    BY <1>2, <2>1, <2>2, CancelKept DEF Aborted
<1>8. CASE UNCHANGED vars
  BY <1>8, CancelKept DEF vars, Aborted
<1>9. QED
  BY <1>3, <1>4, <1>5, <1>6, <1>7, <1>8 DEF Next, Server

\* A cancel that reaches a run before the end of its loop is not undone by any
\* later submission, model change or failure: the backend is not called after
\* it and the run does not end as completed.
THEOREM CancelsStick == Spec => CancelSticks
<1>1. TypeOK /\ Turns /\ Records /\ [Next]_vars =>
        [\A r \in Run :
           Interruptible(r) /\ Aborted(r) =>
             /\ Interruptible(r)' => Aborted(r)'
             /\ Live(r)' /\ ~Interruptible(r)' => run'[r].status # "completed"
             /\ \A c \in chats' \ chats : c.run # r]_vars
  BY CancelStep DEF CancelHolds
<1>2. QED
  BY <1>1, TypeCorrect, TurnsCorrect, RecordsCorrect, PTL DEF Spec, CancelSticks

-----------------------------------------------------------------------------
(* Models *)

\* Also under the lock: the file and the backend change in one block, and an
\* entry that is opened during the save takes the model that is still stored.
ModelStored == active # NoEntry /\ disk.exists => entry[active].model = disk.model

LEMMA ModelStep == TypeOK /\ ModelStored /\ [Next]_vars => ModelStored'
<1> SUFFICES ASSUME TypeOK, ModelStored, [Next]_vars PROVE ModelStored'
  OBVIOUS
<1>1. /\ entry \in [Entry -> EntryRecord] /\ active \in Entry \cup {NoEntry}
      /\ run \in [Run -> RunRecord] /\ \A r \in Run : run[r].entry \in Entry
  BY DEF TypeOK, RunRecord
<1>2. ASSUME UNCHANGED active, disk'.exists => disk.exists, disk'.model = disk.model,
             \A e \in Entry : entry'[e].model = entry[e].model
      PROVE  ModelStored'
  BY <1>1, <1>2 DEF ModelStored
<1>3. CancelActive => \A e \in Entry : entry'[e].model = entry[e].model
  BY <1>1 DEF CancelActive, EntryRecord
<1>4. CASE Send
  <2>1. PICK q \in Request, e \in Entry :
          \/ SendInProgress(q, e)
          \/ SendBusy(q, e)
          \/ \E t \in Text : SendAgain(q, t, e) \/ \E r \in Run : SendReserve(q, t, e, r)
    BY <1>4 DEF Send
  <2>2. CanOpen(e) /\ active' = e /\ UNCHANGED disk
    BY <2>1 DEF SendInProgress, SendBusy, SendAgain, SendReserve
  <2>3. disk.exists => Opened(e)[e].model = disk.model
    BY <1>1, <2>2, ConstantsAssumption DEF CanOpen, Opened, NewEntry, ModelStored
  <2>4. Opened(e) \in [Entry -> EntryRecord]
    BY OpenedType
  <2>5. entry'[e].model = Opened(e)[e].model
    <3>1. CASE entry' = Opened(e)
      BY <3>1
    <3>2. CASE entry' = [Opened(e) EXCEPT ![e].processing = TRUE, ![e].abort = FALSE]
      BY <2>4, <3>2 DEF EntryRecord
    <3>3. QED
      BY <2>1, <3>1, <3>2 DEF SendInProgress, SendBusy, SendAgain, SendReserve
  <2>6. QED
    BY <2>2, <2>3, <2>5 DEF ModelStored
<1>5. ASSUME NEW r \in Run, RunStep(r) \/ BackendEvent(r) PROVE ModelStored'
  <2>1. UNCHANGED active
    BY <1>5 DEF RunStep, AcceptSaved, AcceptFailed, Accept, Refuse, CheckpointSaved, LeaveLoop, Throw,
       FlushSaved, ReflushFailed, FinishSaved, FinishFailed, BackendEvent, StreamDelta,
       StreamCheckpoint, StreamComplete
  <2>2. disk'.exists = disk.exists /\ disk'.model = disk.model
    <3>1. CASE AcceptSaved(r)
      BY <3>1 DEF AcceptSaved, TypeOK
    <3>2. CASE FinishSaved(r)
      BY <3>2 DEF FinishSaved, TypeOK
    <3>3. CASE CheckpointSaved(r) \/ FlushSaved(r)
      BY <3>3 DEF CheckpointSaved, FlushSaved, SaveTranscript, TypeOK
    <3>4. CASE AcceptFailed(r) \/ Accept(r) \/ Refuse(r) \/ LeaveLoop(r) \/ Throw(r)
               \/ ReflushFailed(r) \/ FinishFailed(r) \/ BackendEvent(r)
      BY <3>4 DEF AcceptFailed, Accept, Refuse, LeaveLoop, Throw, ReflushFailed, FinishFailed,
         BackendEvent, StreamDelta, StreamCheckpoint, StreamComplete
    <3>5. QED
      BY <1>5, <3>1, <3>2, <3>3, <3>4 DEF RunStep
  <2>3. \A e \in Entry : entry'[e].model = entry[e].model
    <3>1. CASE Accept(r)
      BY <1>1, <3>1 DEF Accept, EntryRecord
    <3>2. CASE Refuse(r) \/ FinishSaved(r) \/ FinishFailed(r)
      BY <1>1, <3>2 DEF Refuse, FinishSaved, FinishFailed, End, EntryRecord
    <3>3. CASE AcceptSaved(r) \/ AcceptFailed(r) \/ CheckpointSaved(r) \/ LeaveLoop(r) \/ Throw(r)
               \/ FlushSaved(r) \/ ReflushFailed(r) \/ BackendEvent(r)
      BY <3>3 DEF AcceptSaved, AcceptFailed, CheckpointSaved, LeaveLoop, Throw, FlushSaved,
         ReflushFailed, BackendEvent, StreamDelta, StreamCheckpoint, StreamComplete
    <3>4. QED
      BY <1>5, <3>1, <3>2, <3>3 DEF RunStep
  <2>4. QED
    BY <1>2, <2>1, <2>2, <2>3
<1>6. ASSUME NEW c \in Call, CallBegin(c) \/ CallStep(c) PROVE ModelStored'
  <2>1. CASE DeleteBegin(c)
    BY <1>2, <1>3, <2>1 DEF DeleteBegin
  <2>2. CASE DeleteRemove(c)
    BY <2>2 DEF DeleteRemove, ModelStored
  <2>3. CASE SetModelSaved(c)
    <3>1. disk'.model = call[c].model /\ UNCHANGED active
      BY <2>3 DEF SetModelSaved, TypeOK
    <3>2. active # NoEntry => entry'[active].model = call[c].model
      BY <1>1, <2>3 DEF SetModelSaved, EntryRecord
    <3>3. QED
      BY <3>1, <3>2 DEF ModelStored
  <2>4. CASE ~DeleteBegin(c) /\ ~DeleteRemove(c) /\ ~SetModelSaved(c)
    BY <1>2, <1>6, <2>4 DEF CallBegin, CallStep, SetModelBegin, DeleteSettled, DeleteRefused,
       DeleteLock, DeleteFailed, SetModelFailed
  <2>5. QED
    BY <2>1, <2>2, <2>3, <2>4
<1>7. CASE Server
  <2>1. CASE ProcessEnd \/ ShutdownClear
    BY <2>1 DEF ProcessEnd, ShutdownClear, ModelStored
  <2>2. CASE Restart
    <3>1. disk'.exists = disk.exists /\ disk'.model = disk.model /\ UNCHANGED <<active, entry>>
      BY <2>2 DEF Restart, TypeOK
    <3>2. QED
      BY <1>2, <3>1
  <2>3. CASE Cancel \/ ShutdownBegin
    BY <1>2, <1>3, <2>3 DEF Cancel, ShutdownBegin
  <2>4. CASE ShutdownVisit \/ ShutdownSettled \/ ShutdownJoined \/ ServerStop \/ FlushAllFailed
    BY <1>2, <2>4 DEF ShutdownVisit, ShutdownSettled, ShutdownJoined, ServerStop, FlushAllFailed
  <2>5. QED
    BY <1>7, <2>1, <2>2, <2>3, <2>4 DEF Server, ShutdownStep
<1>8. CASE UNCHANGED vars
  BY <1>8 DEF vars, ModelStored
<1>9. QED
  BY <1>4, <1>5, <1>6, <1>7, <1>8 DEF Next, Server

\* The active backend uses the stored model, also when its entry was opened
\* while a change of the model was being saved.
THEOREM ModelsAgree == Spec => []ModelInStep
<1>1. Init => ModelStored
  BY DEF Init, ModelStored
<1>2. ModelStored => ModelInStep
  BY DEF ModelStored, ModelInStep
<1>3. QED
  BY <1>1, <1>2, ModelStep, TypeCorrect, PTL DEF Spec

=============================================================================
