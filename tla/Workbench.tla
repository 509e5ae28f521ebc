----------------------------- MODULE Workbench -----------------------------
(***************************************************************************)
(* What one window of the application shows (the hook useWorkbench and its *)
(* stream batcher) against what the server has: the runs of its sessions,  *)
(* their transcripts and their files, the events it broadcasts and the     *)
(* requests it answers.  Connections are those of RpcLink, whose property  *)
(* EventsInOrder is what the wire of this module stands for: events and    *)
(* answers arrive in the order in which they were sent, until the          *)
(* connection is lost with all that is under way.                          *)
(*                                                                         *)
(* A text is a sequence of chunks 1, 2, ...  The counters revision and     *)
(* loadSequence of the code are only compared for equality: here an answer *)
(* belongs to the newest load, or it was taken off the wire, and `moved'   *)
(* says that revision has changed since that load began.                   *)
(***************************************************************************)
EXTENDS Naturals, Sequences, FiniteSets, Picks

CONSTANTS
  Sessions,   \* the sessions of the workspace
  NoSession,  \* no session is selected
  MaxRuns,    \* bound on the runs
  MaxChunks,  \* bound on the deltas of a run
  MaxDrops,   \* bound on the lost connections
  MaxWire,    \* bound on the messages under way to the window
  MaxClicks,  \* bound on the clicks on a session and on `send'
  MaxTexts    \* bound on the texts the user sends from this window

ASSUME WorkbenchAssumption ==
  /\ NoSession \notin Sessions
  /\ MaxRuns \in Nat /\ MaxChunks \in Nat /\ MaxDrops \in Nat
  /\ MaxWire \in Nat \ {0} /\ MaxClicks \in Nat /\ MaxTexts \in Nat

VARIABLES
  \* the server
  stored,     \* the messages in the file of a session
  transcript, \* messages of the RunTranscript of its run
  segment,    \* the id of the segment being written, or NoId
  process,    \* the run in progress, 0 for none
  unsent,     \* the event that was consumed and is not broadcast yet
  runs,       \* number of runs so far
  \* the connection
  online, asks, wire, drops,
  \* the window
  selected,   \* the state `selected' of the hook
  effected,   \* the selection for which the effect has run
  sel,        \* selectedRef
  shown,      \* the state `messages'
  busy,       \* the sessions shown as processing
  batch,      \* pendingDeltas, oldest first
  batchTimer, \* the timer of the batch is armed
  load,       \* the newest load of messages
  moved,      \* revision has changed since that load began
  observed,   \* observedRun, 0 for none
  feedback,   \* runFeedback: the run shown as running, 0 for none
  submitting,
  slot,       \* pending: the request id kept for a repetition
  text,       \* the text the user wants to send
  ids,        \* number of request ids made so far
  clicks      \* number of clicks on a session and on `send'

serverVars == <<stored, transcript, segment, process, unsent, runs>>
linkVars == <<online, asks, wire, drops>>
viewVars == <<selected, effected, sel, shown, busy, clicks>>
batchVars == <<batch, batchTimer>>
loadVars == <<load, moved>>
runVars == <<observed, feedback>>
sendVars == <<submitting, slot, text, ids>>
vars == <<serverVars, linkVars, viewVars, batchVars, loadVars, runVars, sendVars>>

NoId == <<"none", 0>>
NoRequest == <<0, 0>> \* of another window; ours are <<text, number>>
NoSlot == [s |-> NoSession, request |-> NoRequest]
NoEvent == [k |-> "none"]
None == <<0>> \* no snapshot, no complete text

Init ==
  /\ stored = [s \in Sessions |-> <<>>] /\ transcript = [s \in Sessions |-> <<>>]
  /\ segment = [s \in Sessions |-> NoId] /\ process = [s \in Sessions |-> 0]
  /\ unsent = [s \in Sessions |-> NoEvent] /\ runs = 0
  /\ online = FALSE /\ asks = <<>> /\ wire = <<>> /\ drops = 0
  /\ selected = NoSession /\ effected = NoSession /\ sel = NoSession
  /\ shown = <<>> /\ busy = {} /\ clicks = 0
  /\ batch = <<>> /\ batchTimer = FALSE
  /\ load = "none" /\ moved = FALSE
  /\ observed = 0 /\ feedback = 0
  /\ submitting = FALSE /\ slot = NoSlot /\ text = 1 /\ ids = 0

Has(messages, id) == \E i \in DOMAIN messages : messages[i].id = id

Besides(items, messages) == Picked(items, {i \in DOMAIN items : ~Has(messages, items[i].id)})

-----------------------------------------------------------------------------
(* The server: acceptance of a message, the events of its run, its end.    *)
(* The user message of run r is <<"user", r>>, its segment of text is      *)
(* <<"text", r>> and the result of its tool <<"tool", r>>.                 *)
Known(s, request) == \E i \in DOMAIN stored[s] : stored[s][i].req = request
UserMessage(request) == [id |-> <<"user", runs + 1>>, req |-> request, text |-> <<>>]
Accept(s, request, reply) ==
  /\ runs' = runs + 1
  /\ stored' = [stored EXCEPT ![s] = Append(@, UserMessage(request))]
  /\ process' = [process EXCEPT ![s] = runs + 1]
  /\ unsent' = [unsent EXCEPT ![s] =
                  [k |-> "user", s |-> s, m |-> UserMessage(request), reply |-> reply]]
  /\ UNCHANGED <<transcript, segment>>

(* Another window sends a message. *)
OtherSends(s) ==
  /\ process[s] = 0 /\ runs < MaxRuns
  /\ Accept(s, NoRequest, FALSE)
  /\ UNCHANGED <<linkVars, viewVars, batchVars, loadVars, runVars, sendVars>>

Merged(s, messages) ==
  LET old == stored[s]
      now(i) == IF Has(messages, old[i].id)
                THEN messages[CHOOSE j \in DOMAIN messages : messages[j].id = old[i].id]
                ELSE old[i]
      new == Besides(messages, old)
  IN [i \in DOMAIN old |-> now(i)] \o new

Grown(s, id, content) ==
  IF Has(transcript[s], id)
  THEN [i \in DOMAIN transcript[s] |->
          IF transcript[s][i].id = id THEN [transcript[s][i] EXCEPT !.text = content]
                                      ELSE transcript[s][i]]
  ELSE Append(transcript[s], [id |-> id, req |-> NoRequest, text |-> content])
Content(s) == IF segment[s] = NoId THEN <<>>
              ELSE transcript[s][CHOOSE i \in DOMAIN transcript[s] :
                                   transcript[s][i].id = segment[s]].text
More(s) == Append(Content(s), Len(Content(s)) + 1)
Consuming(s) ==
  /\ process[s] # 0 /\ unsent[s] = NoEvent
  /\ UNCHANGED <<process, runs, linkVars, viewVars, batchVars, loadVars, runVars, sendVars>>

(* A delta is stored only now and then, and carries the whole segment. *)
DeltaEvent(s, id) ==
  [k |-> "delta", s |-> s, id |-> id, text |-> <<Len(Content(s)) + 1>>, snap |-> More(s)]
ConsumeDelta(s) ==
  /\ Consuming(s) /\ Len(Content(s)) < MaxChunks
  /\ LET id == <<"text", process[s]>>
     IN /\ ~Has(transcript[s], id) \/ segment[s] = id
        /\ segment' = [segment EXCEPT ![s] = id]
        /\ transcript' = [transcript EXCEPT ![s] = Grown(s, id, More(s))]
        /\ unsent' = [unsent EXCEPT ![s] = DeltaEvent(s, id)]
        /\ \/ stored' = [stored EXCEPT ![s] = Merged(s, Grown(s, id, More(s)))]
           \/ UNCHANGED stored

(* The complete text may say more than the deltas did. *)
ConsumeComplete(s) ==
  /\ Consuming(s)
  /\ LET id == <<"text", process[s]>>
     IN /\ ~Has(transcript[s], id) \/ segment[s] = id
        /\ segment' = [segment EXCEPT ![s] = NoId]
        /\ transcript' = [transcript EXCEPT ![s] = Grown(s, id, More(s))]
        /\ unsent' = [unsent EXCEPT ![s] =
                        [k |-> "complete", s |-> s, id |-> id, text |-> More(s)]]
        /\ stored' = [stored EXCEPT ![s] = Merged(s, Grown(s, id, More(s)))]

ConsumeTool(s) ==
  /\ Consuming(s)
  /\ LET id == <<"tool", process[s]>>
     IN /\ ~Has(transcript[s], id)
        /\ transcript' = [transcript EXCEPT ![s] = Grown(s, id, <<>>)]
        /\ stored' = [stored EXCEPT ![s] = Merged(s, Grown(s, id, <<>>))]
  /\ unsent' = [unsent EXCEPT ![s] = [k |-> "tool", s |-> s]]
  /\ UNCHANGED segment

(* The flush at the end of the run, whatever ended it. *)
FlushLast(s) ==
  /\ Consuming(s)
  /\ stored' = [stored EXCEPT ![s] = Merged(s, transcript[s])]
  /\ unsent' = [unsent EXCEPT ![s] = [k |-> "status", s |-> s, r |-> process[s]]]
  /\ transcript' = [transcript EXCEPT ![s] = <<>>]
  /\ segment' = [segment EXCEPT ![s] = NoId]

Sent(ok) == [k |-> "sent", ok |-> ok]
Emit(s) ==
  /\ unsent[s] # NoEvent /\ Len(wire) < MaxWire
  /\ wire' = IF ~online THEN wire
             ELSE IF unsent[s].k = "user" /\ unsent[s].reply THEN wire \o <<unsent[s], Sent(TRUE)>>
             ELSE Append(wire, unsent[s])
  /\ unsent' = [unsent EXCEPT ![s] = NoEvent]
  /\ process' = IF unsent[s].k = "status" THEN [process EXCEPT ![s] = 0] ELSE process
  /\ UNCHANGED <<stored, transcript, segment, runs, online, asks, drops>>
  /\ UNCHANGED <<viewVars, batchVars, loadVars, runVars, sendVars>>

(* GET and GET_MESSAGES read and answer in one step; SEND_MESSAGE answers  *)
(* a request it has stored without another run.                            *)
AnswerList ==
  /\ Head(asks).k = "list"
  /\ wire' = Append(wire, [k |-> "list", why |-> Head(asks).why,
                           busy |-> {s \in Sessions : process[s] # 0}])
  /\ UNCHANGED serverVars

AnswerMessages ==
  /\ Head(asks).k = "messages"
  /\ wire' = Append(wire, [k |-> "messages", s |-> Head(asks).s, data |-> stored[Head(asks).s]])
  /\ UNCHANGED serverVars

(* A repetition of a request that is being accepted waits with it. *)
AnswerSend ==
  /\ Head(asks).k = "send"
  /\ LET s == Head(asks).s
         request == Head(asks).request
         accepting == unsent[s].k = "user" /\ unsent[s].m.req = request
     IN IF accepting
        THEN /\ unsent' = [unsent EXCEPT ![s].reply = TRUE]
             /\ UNCHANGED <<wire, stored, transcript, segment, process, runs>>
        ELSE IF Known(s, request)
        THEN wire' = Append(wire, Sent(TRUE)) /\ UNCHANGED serverVars
        ELSE IF process[s] # 0 \/ runs = MaxRuns
        THEN wire' = Append(wire, Sent(FALSE)) /\ UNCHANGED serverVars
        ELSE Accept(s, request, TRUE) /\ UNCHANGED wire

Answer ==
  /\ asks # <<>> /\ Len(wire) < MaxWire
  /\ asks' = Tail(asks)
  /\ AnswerList \/ AnswerMessages \/ AnswerSend
  /\ UNCHANGED <<online, drops, viewVars, batchVars, loadVars, runVars, sendVars>>

-----------------------------------------------------------------------------
(* The window.  applyPendingBatch and accumulateStreamDelta of the batcher *)
(* work on entries of the batch, one for each message.                     *)
Updated(entry, base) ==
  IF entry.full # None THEN entry.full
  ELSE (IF entry.snap # None THEN entry.snap ELSE base) \o entry.delta
Applied(entries) ==
  LET entry(id) == entries[CHOOSE i \in DOMAIN entries : entries[i].id = id]
      old == [i \in DOMAIN shown |->
                IF Has(entries, shown[i].id)
                THEN [shown[i] EXCEPT !.text = Updated(entry(shown[i].id), shown[i].text)]
                ELSE shown[i]]
      new == Besides(entries, shown)
  IN old \o [i \in DOMAIN new |-> [id |-> new[i].id, req |-> NoRequest,
                                   text |-> Updated(new[i], <<>>)]]

NewEntry(id) == [id |-> id, snap |-> None, delta |-> <<>>, full |-> None]
Accumulated(event) ==
  LET old == IF Has(batch, event.id) THEN batch ELSE Append(batch, NewEntry(event.id))
      update(e) == IF event.k = "complete" THEN [e EXCEPT !.full = event.text]
                   ELSE [e EXCEPT !.snap = event.snap, !.delta = <<>>]
  IN [i \in DOMAIN old |-> IF old[i].id = event.id THEN update(old[i]) ELSE old[i]]

Flush(entries) == shown' = Applied(entries) /\ batch' = <<>> /\ batchTimer' = FALSE
FlushBatch == Flush(batch)
CancelBatch == batch' = <<>> /\ batchTimer' = FALSE
Revised == moved' = (load # "none")

Ask(request) == IF online THEN Append(asks, request) ELSE asks
ListFor(why) == [k |-> "list", why |-> why]
Others(items) == Picked(items, {i \in DOMAIN items : items[i].k # "messages"})

LoadAfterUnmarked(before, s) ==
  /\ UNCHANGED moved
  /\ IF online
     THEN /\ load' = "sent"
          /\ asks' = Append(Others(before), [k |-> "messages", s |-> s])
     ELSE load' = "none" /\ asks' = before

(* loadMessages, after what is in asks already.  Answers to older loads    *)
(* have no effect and are taken away; without a connection it fails.       *)
LoadAfter(before, s) ==
  /\ moved' = FALSE
  /\ IF online
     THEN /\ load' = "sent"
          /\ asks' = Append(Others(before), [k |-> "messages", s |-> s])
     ELSE load' = "none" /\ asks' = before

BatchTimer ==
  /\ batchTimer
  /\ FlushBatch
  /\ moved' = (load # "none" /\ (moved \/ batch # <<>>))
  /\ UNCHANGED <<serverVars, linkVars, selected, effected, sel, busy, clicks, load, runVars, sendVars>>

RetryTimer ==
  /\ load = "timer"
  /\ LoadAfter(asks, sel)
  /\ UNCHANGED <<serverVars, online, wire, drops, viewVars, batchVars, runVars, sendVars>>

Select(s) ==
  /\ clicks < MaxClicks /\ s # selected
  /\ selected' = s /\ clicks' = clicks + 1
  /\ UNCHANGED <<serverVars, linkVars, effected, sel, shown, busy, batchVars, loadVars, runVars, sendVars>>

SelectionEffectBatched ==
  /\ effected # selected
  /\ effected' = selected /\ sel' = selected
  /\ observed' = 0 /\ feedback' = 0
  /\ shown' = <<>>
  /\ LoadAfter(asks, selected) /\ wire' = Others(wire)
  /\ UNCHANGED <<serverVars, online, drops, selected, busy, clicks, batchVars, sendVars>>

(* The effect of a new selection runs some time after it was set. *)
SelectionEffect ==
  /\ effected # selected
  /\ CancelBatch
  /\ effected' = selected /\ sel' = selected
  /\ observed' = 0 /\ feedback' = 0
  /\ shown' = <<>>
  /\ LoadAfter(asks, selected) /\ wire' = Others(wire)
  /\ UNCHANGED <<serverVars, online, drops, selected, busy, clicks, sendVars>>

(* Sending takes the request id of the last attempt if that failed. *)
Request ==
  IF slot.s = selected /\ slot.request[1] = text THEN slot.request ELSE <<text, ids + 1>>
Send ==
  /\ clicks < MaxClicks /\ clicks' = clicks + 1
  /\ text <= MaxTexts /\ online /\ ~submitting
  /\ selected # NoSession /\ selected \notin busy /\ effected = selected \* its draft is there
  /\ FlushBatch
  /\ moved' = (load # "none" /\ (moved \/ batch # <<>>))
  /\ submitting' = TRUE
  /\ slot' = [s |-> selected, request |-> Request]
  /\ ids' = Request[2]
  /\ asks' = Append(asks, [k |-> "send", s |-> selected, request |-> Request])
  /\ UNCHANGED <<serverVars, online, wire, drops, selected, effected, sel, busy>>
  /\ UNCHANGED <<load, runVars, text>>

-----------------------------------------------------------------------------
(* What the window reads from its connection. *)
M == Head(wire)

(* refresh, or the load that follows each connection. *)
ReadList ==
  /\ M.k = "list"
  /\ busy' = M.busy
  /\ IF M.why # "connected"
     THEN UNCHANGED <<asks, load, moved, selected>>
     ELSE IF sel # NoSession
     THEN LoadAfter(asks, sel) /\ UNCHANGED selected
     ELSE (\E s \in Sessions : selected' = s) /\ UNCHANGED <<asks, load, moved>>
  /\ IF M.why = "sent" THEN text' = text + 1 /\ submitting' = FALSE
                       ELSE UNCHANGED <<text, submitting>>
  /\ UNCHANGED <<effected, sel, shown, clicks, batchVars, runVars, slot, ids>>

(* A load during which anything changed is made again a little later. *)
ReadMessages ==
  /\ M.k = "messages"
  /\ IF moved THEN load' = "timer" /\ UNCHANGED shown
              ELSE load' = "none" /\ shown' = M.data
  /\ UNCHANGED <<moved, asks, selected, effected, sel, busy, clicks, batchVars, runVars, sendVars>>

ReadSent ==
  /\ M.k = "sent"
  /\ IF M.ok THEN slot' = NoSlot /\ asks' = Append(asks, ListFor("sent")) /\ UNCHANGED submitting
             ELSE submitting' = FALSE /\ UNCHANGED <<slot, asks>>
  /\ UNCHANGED <<viewVars, batchVars, loadVars, runVars, text, ids>>

ReadUser ==
  /\ M.k = "user"
  /\ busy' = busy \cup {M.s}
  /\ IF M.s # sel THEN UNCHANGED <<shown, batchVars, moved, runVars>>
     ELSE /\ Revised
          /\ shown' = IF Has(Applied(batch), M.m.id) THEN Applied(batch) ELSE Append(Applied(batch), M.m)
          /\ batch' = <<>> /\ batchTimer' = FALSE
          /\ observed' = M.m.id[2] /\ feedback' = M.m.id[2]
  /\ UNCHANGED <<asks, selected, effected, sel, clicks, load, sendVars>>

ReadText ==
  /\ M.k \in {"delta", "complete"} /\ M.s = sel
  /\ Revised
  /\ IF M.k = "delta" THEN batch' = Accumulated(M) /\ batchTimer' = TRUE /\ UNCHANGED shown
                      ELSE Flush(Accumulated(M))
  /\ UNCHANGED <<asks, selected, effected, sel, busy, clicks, load, runVars, sendVars>>

ReadOther ==
  /\ M.k = "tool" /\ M.s = sel
  /\ Revised
  /\ UNCHANGED <<asks, viewVars, batchVars, load, runVars, sendVars>>

ReadElsewhere ==
  /\ M.k \in {"delta", "complete", "tool"} /\ M.s # sel
  /\ UNCHANGED <<asks, viewVars, batchVars, loadVars, runVars, sendVars>>

ReadStatusUnloaded ==
  /\ M.k = "status"
  /\ busy' = busy \ {M.s}
  /\ asks' = Append(asks, ListFor("status"))
  /\ IF M.s # sel THEN UNCHANGED <<shown, batchVars, moved, runVars>>
     ELSE Revised /\ FlushBatch /\ observed' = 0 /\ feedback' = 0
  /\ UNCHANGED <<selected, effected, sel, clicks, load, sendVars>>

(* A late end of an earlier run does not end what is shown of another. *)
ReadStatus ==
  /\ M.k = "status"
  /\ busy' = busy \ {M.s}
  /\ IF M.s # sel
     THEN asks' = Append(asks, ListFor("status")) /\ UNCHANGED <<shown, batchVars, loadVars, runVars>>
     ELSE /\ FlushBatch
          /\ LoadAfter(Append(asks, ListFor("status")), sel)
          /\ IF observed \in {0, M.r} THEN observed' = 0 /\ feedback' = 0 ELSE UNCHANGED runVars
  /\ UNCHANGED <<selected, effected, sel, clicks, sendVars>>

Reloads ==
  \/ M.k = "list" /\ M.why = "connected" /\ sel # NoSession
  \/ M.k = "status" /\ M.s = sel
Read ==
  /\ wire # <<>>
  /\ wire' = IF Reloads THEN Others(Tail(wire)) ELSE Tail(wire)
  /\ \/ ReadList \/ ReadMessages \/ ReadSent \/ ReadUser
     \/ ReadText \/ ReadOther \/ ReadElsewhere \/ ReadStatus
  /\ UNCHANGED <<serverVars, online, drops>>

(* At the start both ready() and the change of state lead to a load. *)
Connect ==
  /\ ~online /\ online' = TRUE
  /\ asks' = IF drops = 0 THEN <<ListFor("connected"), ListFor("connected")>>
                          ELSE <<ListFor("connected")>>
  /\ observed' = 0 /\ feedback' = 0
  /\ UNCHANGED <<serverVars, wire, drops, viewVars, batchVars, loadVars, sendVars>>

(* Every request under way is rejected; a failed send keeps its slot, and  *)
(* so does one that was accepted and whose refresh failed keep its text.   *)
Drop ==
  /\ online /\ drops < MaxDrops
  /\ online' = FALSE /\ drops' = drops + 1 /\ asks' = <<>> /\ wire' = <<>>
  /\ unsent' = [s \in Sessions |-> IF unsent[s].k = "user" THEN [unsent[s] EXCEPT !.reply = FALSE]
                                                          ELSE unsent[s]]
  /\ observed' = 0 /\ feedback' = 0
  /\ FlushBatch
  /\ load' = IF load = "sent" THEN "none" ELSE load
  /\ moved' = (load' # "none" /\ (moved \/ batch # <<>>))
  /\ submitting' = FALSE
  /\ UNCHANGED <<stored, transcript, segment, process, runs>>
  /\ UNCHANGED <<selected, effected, sel, busy, clicks, slot, text, ids>>

Next ==
  \/ \E s \in Sessions : \/ OtherSends(s) \/ ConsumeDelta(s) \/ ConsumeComplete(s)
                         \/ ConsumeTool(s) \/ FlushLast(s) \/ Emit(s) \/ Select(s)
  \/ Answer \/ BatchTimer \/ RetryTimer \/ SelectionEffect \/ Send
  \/ Read \/ Connect \/ Drop

Spec == Init /\ [][Next]_vars

(* Backends end (CallsReturn of SessionRun), the server answers and the window *)
(* reads, timers fire and effects run.  Connections need not come back.    *)
FairSpec ==
  /\ Spec
  /\ \A s \in Sessions : WF_vars(FlushLast(s)) /\ WF_vars(Emit(s))
  /\ WF_vars(Answer) /\ WF_vars(Read)
  /\ WF_vars(BatchTimer) /\ WF_vars(RetryTimer) /\ WF_vars(SelectionEffect)

-----------------------------------------------------------------------------
(* The types of the variables: useWorkbench and the answers it waits for.  *)
TypeOK ==
  /\ selected \in Sessions \cup {NoSession} /\ effected = sel
  /\ busy \subseteq Sessions /\ load \in {"none", "sent", "timer"}
  /\ observed \in 0..MaxRuns /\ feedback \in 0..MaxRuns
  /\ batchTimer = (batch # <<>>)
  /\ ~online => asks = <<>> /\ wire = <<>>

Texts(messages) == {messages[i].id : i \in DOMAIN messages}

(* What is shown is of the selected session and of no other, each message  *)
(* once, and its text is a beginning of what the backend wrote: no chunk   *)
(* twice, none left out and none out of order, whatever deltas, snapshots, *)
(* complete texts and loads have been merged (applyPendingBatch,           *)
(* loadMessages, and the checks of selectedRef and revision).              *)
ShowsTheSession ==
  \A i \in DOMAIN shown :
    /\ sel # NoSession /\ shown[i].id \in Texts(stored[sel]) \cup Texts(transcript[sel])
    /\ shown[i].text = [n \in DOMAIN shown[i].text |-> n]
    /\ \A j \in DOMAIN shown : shown[i].id = shown[j].id => i = j

Settled ==
  /\ asks = <<>> /\ wire = <<>> /\ batch = <<>> /\ load = "none" /\ effected = selected
  /\ \A s \in Sessions : unsent[s] = NoEvent

(* Once nothing is under way, a window that is connected shows exactly     *)
(* what the file of its idle session holds, shows as busy exactly the      *)
(* sessions that are, and shows no run of it as running: whatever events   *)
(* a lost connection took away (loadMessages and refresh after a status    *)
(* and after a connection).                                                *)
QuietIsTrue ==
  online /\ Settled =>
    /\ busy = {s \in Sessions : process[s] # 0}
    /\ sel # NoSession /\ process[sel] = 0 => shown = stored[sel] /\ feedback = 0

(* A window whose connection stays comes to rest: a load that is made      *)
(* again because something has changed is not made again for ever.         *)
WindowSettles == []<>(~online \/ Settled)

(* A text is sent at most once however often its sending was tried again:  *)
(* the repetition takes the request id of the attempt that failed, as the  *)
(* design says of it (docs/design/fieldnotes/DESIGN.md:79).                *)
OneRunPerText ==
  \A s \in Sessions : \A i, j \in DOMAIN stored[s] :
    stored[s][i].req[1] # 0 /\ stored[s][i].req[1] = stored[s][j].req[1] => i = j
=============================================================================
