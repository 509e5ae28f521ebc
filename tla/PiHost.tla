------------------------------- MODULE PiHost -------------------------------
(***************************************************************************)
(* The Pi backend: PiAgent in the host, its pi-agent-server child process  *)
(* and the lines between them, for one session.  A turn is one chat(): it  *)
(* starts the child if there is none, sends a prompt and reads the event   *)
(* queue (EventStream) until it is closed.  Prompts are numbered as the    *)
(* host numbers them; 0 stands for no prompt.                              *)
(* The lines of one direction arrive in order; all are lost with a child   *)
(* that the host has given up, of which only failing writes remain.        *)
(***************************************************************************)
EXTENDS Naturals, Sequences

CONSTANTS
  MaxPrompts,  \* bound on the turns
  MaxChildren, \* bound on the child processes
  MaxTools,    \* bound on the tool requests of a child
  MaxTexts,    \* bound on the texts of a turn
  MaxLines     \* a cancel comes, and an earlier turn says more, only with
               \* fewer lines under way

ASSUME PiHostAssumption ==
  /\ MaxPrompts \in Nat /\ MaxChildren \in Nat
  /\ MaxTools \in Nat /\ MaxTexts \in Nat /\ MaxLines \in Nat

VARIABLES
  pc,        \* where chatImpl is
  prompt,    \* promptCounter
  active,    \* activePromptId
  timer,     \* the timer of the run's time budget is armed
  aborted,   \* toolController is aborted, or there is none
  tools,     \* inFlightTools, by request
  awaited,   \* the tools that the finally block waits for
  queue,     \* eventQueue
  done,      \* eventQueue is completed
  child,     \* subprocess is set
  spawned,   \* number of children so far
  ready,     \* readyPromise
  writable,  \* the child's stdin is
  owed,      \* an earlier child was given up with writes not yet called back
  destroyed, \* destroy() was called
  stop,      \* abortRequested of the session's entry
  toHost,    \* lines on stdout
  toChild,   \* lines on stdin
  kid,       \* the child's own state
  asked,     \* history: prompts handed to the provider
  refused,   \* history: prompts whose abort the child read before it began them
  said,      \* history: texts sent for the prompt of this turn
  ended,     \* history: agent_end was sent for the prompt of this turn
  got,       \* history: texts the reader of this turn has received
  failed     \* history: the reader of this turn has received an error or left

hostVars == <<pc, prompt, active, timer, aborted, tools, awaited, stop, got, failed>>
queueVars == <<queue, done>>
linkVars == <<child, spawned, ready, writable, owed, destroyed>>
kidVars == <<kid, asked, refused, said, ended>>
vars == <<hostVars, queueVars, linkVars, toHost, toChild, kidVars>>

Prompts == 0 .. MaxPrompts
Event == [k : {"text", "error"}, p : Prompts]
Line == [t : {"ready", "text", "end", "tool", "error", "prompt", "abort", "answer"},
         p : Prompts, id : 0 .. MaxTools]

Say(t, p, id) == [t |-> t, p |-> p, id |-> id]

NewKid == [pc |-> "init", prompt |-> 0, serial |-> <<>>, cancelled |-> {},
           interrupted |-> FALSE, requests |-> {}, counter |-> 0]

Reading == pc \in {"starting", "draining"}

Init ==
  /\ pc = "idle" /\ prompt = 0 /\ active = 0
  /\ timer = FALSE /\ aborted = TRUE /\ tools = {} /\ awaited = {}
  /\ queue = <<>> /\ done = FALSE
  /\ child = FALSE /\ spawned = 0 /\ ready = "rejected" /\ writable = FALSE
  /\ owed = FALSE /\ destroyed = FALSE /\ stop = FALSE
  /\ toHost = <<>> /\ toChild = <<>> /\ kid = NewKid
  /\ asked = {} /\ refused = {} /\ said = 0 /\ ended = FALSE
  /\ got = 0 /\ failed = FALSE

-----------------------------------------------------------------------------
(* Helpers of the host *)

HostError == [k |-> "error", p |-> 0]

\* enqueue and complete; after destroy() only complete.
FailTurn ==
  /\ queue' = IF destroyed THEN queue ELSE Append(queue, HostError)
  /\ done' = TRUE

\* send: dropped without a writable stdin.
Sent(line) == IF child /\ writable THEN Append(toChild, line) ELSE toChild

\* Variant with a fault: lines of any prompt are this turn's.
MineAlways(line) == TRUE

\* The lines of this turn, and those without a prompt.
Mine(line) == line.p \in {0, active}

\* The child is given up; what was written and not read may still fail.
GiveUpChild ==
  /\ child' = FALSE /\ writable' = FALSE
  /\ owed' = (owed \/ toChild # <<>> \/ kid.pc = "init")
  /\ toHost' = <<>> /\ toChild' = <<>>
  /\ kid' = NewKid

Rejected == IF ready = "pending" THEN "rejected" ELSE ready

-----------------------------------------------------------------------------
(* A turn: chatImpl and ensureSubprocess *)

\* Variant with a fault: the queue is not armed again.
BeginTurnUnarmed ==
  /\ pc = "idle" /\ prompt < MaxPrompts
  /\ prompt' = prompt + 1 /\ active' = prompt + 1
  /\ stop' = FALSE /\ got' = 0 /\ failed' = FALSE /\ said' = 0 /\ ended' = FALSE
  /\ queue' = queue /\ done' = FALSE

\* chatImpl up to ensureSubprocess; the session manager has reset its stop.
BeginTurn ==
  /\ pc = "idle" /\ prompt < MaxPrompts
  /\ prompt' = prompt + 1 /\ active' = prompt + 1
  /\ stop' = FALSE /\ got' = 0 /\ failed' = FALSE /\ said' = 0 /\ ended' = FALSE
  /\ queue' = <<>> /\ done' = FALSE

\* With a child that is ready the prompt leaves at once.
ChatOnChild ==
  /\ BeginTurn /\ child /\ ready = "resolved"
  /\ timer' = TRUE /\ aborted' = FALSE
  /\ pc' = "draining"
  /\ toChild' = Sent(Say("prompt", prompt + 1, 0))
  /\ UNCHANGED <<tools, awaited, linkVars, toHost, kid, asked, refused>>

\* Without one it is started; it is told its tools and its settings.
ChatSpawns ==
  /\ BeginTurn /\ ~child /\ ~destroyed /\ spawned < MaxChildren
  /\ timer' = TRUE /\ aborted' = FALSE
  /\ pc' = "starting"
  /\ child' = TRUE /\ spawned' = spawned + 1 /\ ready' = "pending" /\ writable' = TRUE
  /\ toHost' = <<>> /\ toChild' = <<>> /\ kid' = NewKid
  /\ UNCHANGED <<tools, awaited, owed, destroyed, asked, refused>>

\* A destroyed agent refuses; the generator throws.
ChatDestroyed ==
  /\ BeginTurn /\ ~child /\ destroyed
  /\ timer' = FALSE /\ aborted' = TRUE
  /\ UNCHANGED <<pc, tools, awaited, linkVars, toHost, toChild, kid, asked, refused>>

\* The child is ready, and the turn has not been given up meanwhile.
ChatReady ==
  /\ pc = "starting" /\ ready = "resolved" /\ active = prompt
  /\ pc' = "draining"
  /\ toChild' = Sent(Say("prompt", prompt, 0))
  /\ UNCHANGED <<prompt, active, timer, aborted, tools, awaited, stop, got, failed,
                 queueVars, linkVars, toHost, kidVars>>

\* It has: return without a complete event.
ChatGivenUp ==
  /\ pc = "starting" /\ ready = "resolved" /\ active # prompt
  /\ pc' = "idle"
  /\ timer' = FALSE /\ aborted' = TRUE
  /\ UNCHANGED <<prompt, active, tools, awaited, stop, got, failed,
                 queueVars, linkVars, toHost, toChild, kidVars>>

\* The child failed to start, or its 30 s are over: it is killed and the
\* generator throws.
ChatFails ==
  /\ pc = "starting" /\ ready # "resolved"
  /\ pc' = "idle"
  /\ timer' = FALSE /\ aborted' = TRUE
  /\ IF child THEN GiveUpChild ELSE UNCHANGED <<child, writable, owed, toHost, toChild, kid>>
  /\ UNCHANGED <<prompt, active, tools, awaited, stop, got, failed, queueVars, spawned,
                 ready, destroyed, asked, refused, said, ended>>

\* Variant with a fault: the tools are not told.
FinallyUnaborted ==
  /\ timer' = FALSE /\ aborted' = aborted
  /\ awaited' = tools
  /\ pc' = "finishing"

\* The finally block, up to its await.
Finally ==
  /\ timer' = FALSE /\ aborted' = TRUE
  /\ awaited' = tools
  /\ pc' = "finishing"

Take ==
  /\ pc = "draining" /\ queue # <<>> /\ ~stop
  /\ queue' = Tail(queue)
  /\ got' = IF Head(queue).k = "text" THEN got + 1 ELSE got
  /\ failed' = (failed \/ Head(queue).k = "error")
  /\ UNCHANGED <<pc, prompt, active, timer, aborted, tools, awaited, stop, done,
                 linkVars, toHost, toChild, kidVars>>

\* The session manager breaks out of a stopped run, a subtask out of one that
\* failed; the generator is returned at its yield.
TakeAndLeave ==
  /\ pc = "draining" /\ queue # <<>> /\ (stop \/ Head(queue).k = "error")
  /\ queue' = Tail(queue)
  /\ failed' = TRUE
  /\ Finally
  /\ UNCHANGED <<prompt, active, tools, stop, got, done, linkVars, toHost, toChild, kidVars>>

Drained ==
  /\ pc = "draining" /\ queue = <<>> /\ done
  /\ Finally
  /\ UNCHANGED <<prompt, active, tools, stop, got, failed, queueVars,
                 linkVars, toHost, toChild, kidVars>>

\* After the await; a turn that was not left yields complete.
Finish ==
  /\ pc = "finishing" /\ awaited \cap tools = {}
  /\ pc' = "idle" /\ awaited' = {}
  /\ active' = IF active = prompt THEN 0 ELSE active
  /\ UNCHANGED <<prompt, timer, aborted, tools, stop, got, failed, queueVars,
                 linkVars, toHost, toChild, kidVars>>

-----------------------------------------------------------------------------
(* What interrupts a turn *)

\* Variant with a fault: the reader is left to the child's agent_end.
InterruptUncompleted ==
  /\ aborted' = TRUE
  /\ toChild' = Sent(Say("abort", active, 0))
  /\ active' = 0
  /\ done' = done

\* abortImpl up to its await.
Interrupt ==
  /\ aborted' = TRUE
  /\ toChild' = Sent(Say("abort", active, 0))
  /\ active' = 0
  /\ done' = TRUE

\* The user's stop, at any time.
Cancel ==
  /\ Len(toChild) < MaxLines
  /\ stop' = TRUE
  /\ Interrupt
  /\ UNCHANGED <<pc, prompt, timer, tools, awaited, got, failed, queue,
                 linkVars, toHost, kidVars>>

\* The run's time budget is spent.
Timeout ==
  /\ timer
  /\ timer' = FALSE
  /\ queue' = Append(queue, HostError)
  /\ Interrupt
  /\ UNCHANGED <<pc, prompt, tools, awaited, stop, got, failed,
                 linkVars, toHost, kidVars>>

Destroy ==
  /\ ~destroyed
  /\ destroyed' = TRUE /\ aborted' = TRUE
  /\ ready' = Rejected
  /\ done' = TRUE
  /\ IF child THEN GiveUpChild ELSE UNCHANGED <<child, writable, owed, toHost, toChild, kid>>
  /\ UNCHANGED <<pc, prompt, active, timer, tools, awaited, stop, got, failed, queue,
                 spawned, asked, refused, said, ended>>

\* Variant with a fault: the queue is completed without a word.
ExitSilently ==
  /\ child
  /\ GiveUpChild
  /\ aborted' = TRUE
  /\ ready' = Rejected
  /\ queue' = queue /\ done' = TRUE
  /\ UNCHANGED <<pc, prompt, active, timer, tools, awaited, stop, got, failed,
                 spawned, destroyed, asked, refused, said, ended>>

\* The child exits; lines of it not yet read are ignored.
Exit ==
  /\ child
  /\ GiveUpChild
  /\ aborted' = TRUE
  /\ ready' = Rejected
  /\ queue' = IF active # 0 THEN Append(queue, HostError) ELSE queue
  /\ done' = TRUE
  /\ UNCHANGED <<pc, prompt, active, timer, tools, awaited, stop, got, failed,
                 spawned, destroyed, asked, refused, said, ended>>

\* Its stdin fails, or it could not be spawned.
PipeBreaks ==
  /\ child /\ writable
  /\ writable' = FALSE
  /\ aborted' = TRUE
  /\ ready' = Rejected
  /\ FailTurn
  /\ UNCHANGED <<pc, prompt, active, timer, tools, awaited, stop, got, failed,
                 child, spawned, owed, destroyed, toHost, toChild, kidVars>>

\* The callbacks of writes to an earlier child, which nothing compares with
\* the present one, report their failure now.
LateWriteFails ==
  /\ owed /\ ~destroyed
  /\ owed' = FALSE
  /\ FailTurn
  /\ UNCHANGED <<hostVars, child, spawned, ready, writable, destroyed,
                 toHost, toChild, kidVars>>

-----------------------------------------------------------------------------
(* The lines of the child: handleLine *)

NextLine(t) ==
  /\ child /\ toHost # <<>> /\ Head(toHost).t = t
  /\ toHost' = Tail(toHost)

ReadReady ==
  /\ NextLine("ready")
  /\ ready' = IF ready = "pending" THEN "resolved" ELSE ready
  /\ UNCHANGED <<hostVars, queueVars, child, spawned, writable, owed, destroyed,
                 toChild, kidVars>>

ReadText ==
  /\ NextLine("text")
  /\ queue' = IF Mine(Head(toHost))
              THEN Append(queue, [k |-> "text", p |-> Head(toHost).p]) ELSE queue
  /\ UNCHANGED <<hostVars, done, linkVars, toChild, kidVars>>

\* agent_end closes the queue.
ReadEnd ==
  /\ NextLine("end")
  /\ done' = (done \/ Mine(Head(toHost)))
  /\ UNCHANGED <<hostVars, queue, linkVars, toChild, kidVars>>

\* handleToolExecuteRequest: the tool runs, or is refused after an abort.
ReadTool ==
  /\ NextLine("tool")
  /\ LET runs == Mine(Head(toHost)) /\ ~aborted
         refuses == Mine(Head(toHost)) /\ aborted IN
     /\ tools' = IF runs THEN tools \union {Head(toHost).id} ELSE tools
     /\ toChild' = IF refuses THEN Sent(Say("answer", 0, Head(toHost).id)) ELSE toChild
  /\ UNCHANGED <<pc, prompt, active, timer, aborted, awaited, stop, got, failed,
                 queueVars, linkVars, kidVars>>

ReadError ==
  /\ NextLine("error")
  /\ IF Mine(Head(toHost))
     THEN /\ ready' = Rejected
          /\ queue' = Append(queue, [k |-> "error", p |-> Head(toHost).p])
          /\ done' = TRUE
     ELSE UNCHANGED <<ready, queue, done>>
  /\ UNCHANGED <<hostVars, child, spawned, writable, owed, destroyed, toChild, kidVars>>

\* The executor returns or fails; it does so once its signal is aborted.
ToolEnds(id) ==
  /\ id \in tools
  /\ tools' = tools \ {id}
  /\ toChild' = Sent(Say("answer", 0, id))
  /\ UNCHANGED <<pc, prompt, active, timer, aborted, awaited, stop, got, failed,
                 queueVars, linkVars, toHost, kidVars>>

-----------------------------------------------------------------------------
(* The child process: its loop over stdin and its serial chain *)

ChildStep == UNCHANGED <<hostVars, queueVars, linkVars>>

\* A prompt joins the chain.
ChildReadsPrompt ==
  /\ child /\ toChild # <<>> /\ Head(toChild).t = "prompt"
  /\ kid' = [kid EXCEPT !.serial = Append(@, Head(toChild).p)]
  /\ toChild' = Tail(toChild)
  /\ UNCHANGED <<toHost, asked, refused, said, ended>> /\ ChildStep

\* An abort overtakes it.  It stops the provider's loop of the named prompt,
\* or of any, with the tools that loop waits for, if there is one running.
ChildReadsAbort ==
  /\ child /\ toChild # <<>> /\ Head(toChild).t = "abort"
  /\ LET p == Head(toChild).p
         stops == p \in {0, kid.prompt} /\ kid.pc = "running" IN
     /\ kid' = [kid EXCEPT
          !.cancelled = @ \union ({p} \ {0}),
          !.interrupted = @ \/ stops,
          !.requests = IF stops THEN {} ELSE @]
     /\ refused' = IF p = kid.prompt \/ p \in asked THEN refused ELSE refused \union ({p} \ {0})
  /\ toChild' = Tail(toChild)
  /\ UNCHANGED <<toHost, asked, said, ended>> /\ ChildStep

\* So does the answer to a tool request; a late one finds nothing pending.
ChildReadsAnswer ==
  /\ child /\ toChild # <<>> /\ Head(toChild).t = "answer"
  /\ kid' = [kid EXCEPT !.requests = @ \ {Head(toChild).id}]
  /\ toChild' = Tail(toChild)
  /\ UNCHANGED <<toHost, asked, refused, said, ended>> /\ ChildStep

\* The child writes a line, tagged with its prompt.
Writes(t, id) == toHost' = Append(toHost, Say(t, kid.prompt, id))

ChildReady ==
  /\ child /\ kid.pc = "init"
  /\ kid' = [kid EXCEPT !.pc = "idle"]
  /\ Writes("ready", 0)
  /\ UNCHANGED <<toChild, asked, refused, said, ended>> /\ ChildStep

ChildInitFails ==
  /\ child /\ kid.pc = "init"
  /\ kid' = [kid EXCEPT !.pc = "broken"]
  /\ Writes("error", 0)
  /\ UNCHANGED <<toChild, asked, refused, said, ended>> /\ ChildStep

\* Variant with a fault: a prompt cancelled in the chain is begun.
ChildTakesAll ==
  /\ child /\ kid.pc = "idle" /\ kid.serial # <<>>
  /\ kid' = [kid EXCEPT !.serial = Tail(@), !.pc = "choosing", !.prompt = Head(kid.serial)]
  /\ UNCHANGED <<toHost, toChild, asked, refused, said, ended>> /\ ChildStep

\* handle: the next prompt of the chain, unless it was cancelled there.
ChildTakes ==
  /\ child /\ kid.pc = "idle" /\ kid.serial # <<>>
  /\ kid' = LET p == Head(kid.serial) IN
            IF p \in kid.cancelled
            THEN [kid EXCEPT !.serial = Tail(@), !.cancelled = @ \ {p}]
            ELSE [kid EXCEPT !.serial = Tail(@), !.pc = "choosing", !.prompt = p]
  /\ UNCHANGED <<toHost, toChild, asked, refused, said, ended>> /\ ChildStep

\* The model is set, which may take a moment in which an abort finds nothing
\* to stop; the provider is asked.
ChildAsks ==
  /\ child /\ kid.pc = "choosing"
  /\ kid' = [kid EXCEPT !.pc = "running", !.interrupted = FALSE]
  /\ asked' = asked \union {kid.prompt}
  /\ UNCHANGED <<toHost, toChild, refused, said, ended>> /\ ChildStep

ChildText ==
  /\ child /\ kid.pc = "running"
  /\ IF kid.prompt = prompt
     THEN said < MaxTexts /\ said' = said + 1
     ELSE Len(toHost) < MaxLines /\ said' = said
  /\ Writes("text", 0)
  /\ UNCHANGED <<toChild, kid, asked, refused, ended>> /\ ChildStep

\* executeToolViaHost
ChildTool ==
  /\ child /\ kid.pc = "running" /\ ~kid.interrupted /\ kid.counter < MaxTools
  /\ kid' = [kid EXCEPT !.counter = @ + 1, !.requests = @ \union {kid.counter + 1}]
  /\ Writes("tool", kid.counter + 1)
  /\ UNCHANGED <<toChild, asked, refused, said, ended>> /\ ChildStep

\* The child's own 120 s for a tool.
ChildToolGivesUp(id) ==
  /\ child /\ id \in kid.requests
  /\ kid' = [kid EXCEPT !.requests = @ \ {id}]
  /\ UNCHANGED <<toHost, toChild, asked, refused, said, ended>> /\ ChildStep

\* agent_end, once no tool is waited for.
ChildEnds ==
  /\ child /\ kid.pc = "running" /\ kid.requests = {}
  /\ kid' = [kid EXCEPT !.pc = "ended"]
  /\ ended' = (ended \/ kid.prompt = prompt)
  /\ Writes("end", 0)
  /\ UNCHANGED <<toChild, asked, refused, said>> /\ ChildStep

PromptOver == [kid EXCEPT !.pc = "idle", !.prompt = 0, !.cancelled = @ \ {kid.prompt}]

\* setModel or prompt throws.
ChildThrows ==
  /\ child /\ kid.pc \in {"choosing", "running", "ended"} /\ kid.requests = {}
  /\ kid' = PromptOver
  /\ Writes("error", 0)
  /\ UNCHANGED <<toChild, asked, refused, said, ended>> /\ ChildStep

\* prompt returns, after its agent_end.
ChildDone ==
  /\ child /\ kid.pc = "ended"
  /\ kid' = PromptOver
  /\ UNCHANGED <<toHost, toChild, asked, refused, said, ended>> /\ ChildStep

-----------------------------------------------------------------------------
Chat == ChatOnChild \/ ChatSpawns \/ ChatDestroyed
Continues == ChatReady \/ ChatGivenUp \/ ChatFails \/ Take \/ TakeAndLeave \/ Drained \/ Finish
Interrupts == Cancel \/ Timeout \/ Destroy \/ Exit \/ PipeBreaks \/ LateWriteFails
Reads == ReadReady \/ ReadText \/ ReadEnd \/ ReadTool \/ ReadError
ToolReturns == \E id \in 1 .. MaxTools : ToolEnds(id)
Child ==
  \/ ChildReadsPrompt \/ ChildReadsAbort \/ ChildReadsAnswer
  \/ ChildReady \/ ChildInitFails
  \/ ChildTakes \/ ChildAsks \/ ChildText \/ ChildTool
  \/ \E id \in 1 .. MaxTools : ChildToolGivesUp(id)
  \/ ChildEnds \/ ChildThrows \/ ChildDone

Next == Chat \/ Continues \/ Interrupts \/ Reads \/ ToolReturns \/ Child

Spec == Init /\ [][Next]_vars

\* The host's own continuations run, its timers fire (the 30 s of ChatFails,
\* the budget of Timeout) and its tools end.  Nothing is assumed of the child.
FairSpec == Spec /\ WF_vars(Continues) /\ WF_vars(Timeout) /\ WF_vars(ToolReturns)

-----------------------------------------------------------------------------
(* Properties *)

FlagsOK ==
  {timer, aborted, done, child, writable, owed, destroyed, stop, ended, failed} \subseteq BOOLEAN

TypeOK ==
  /\ pc \in {"idle", "starting", "draining", "finishing"}
  /\ prompt \in Prompts /\ active \in {0, prompt}
  /\ FlagsOK
  /\ tools \subseteq 1 .. MaxTools /\ awaited \subseteq 1 .. MaxTools
  /\ queue \in Seq(Event)
  /\ spawned \in 0 .. MaxChildren
  /\ ready \in {"pending", "resolved", "rejected"}
  /\ toHost \in Seq(Line) /\ toChild \in Seq(Line)
  /\ kid.pc \in {"init", "idle", "choosing", "running", "ended", "broken"}
  /\ kid.prompt \in Prompts /\ kid.counter \in 0 .. MaxTools
  /\ asked \subseteq Prompts /\ refused \subseteq Prompts
  /\ said \in Nat /\ got \in Nat

\* Cross-turn isolation: whatever is left of earlier turns in the child, in
\* the pipe or in the queue, a turn's reader is only given events of its own
\* prompt and errors of the host.
OwnEvents == \A i \in 1 .. Len(queue) : queue[i].p \in {0, prompt}

\* Cancelling in the queue: a prompt whose abort reaches the child before it
\* is begun there is never handed to the provider.
QueuedCancelStays == asked \cap refused = {}

\* A turn that runs to its end by itself, unstopped and without an error, has
\* received everything that the child said, up to its agent_end.  However the
\* child dies, its turn does not look complete.
CompleteIsTrue ==
  pc = "finishing" /\ ~failed /\ ~stop /\ ~destroyed => ended /\ got = said

\* No tool outlives its turn: between turns none is in flight, also of the
\* requests that arrive while the last ones are awaited.
ToolsEndWithTurn == pc = "idle" => tools = {}

\* The queue is used as the stream that EventQueue implements: never re-armed
\* under a reader, and always re-armed for the next one.
Stream == INSTANCE EventStream WITH open <- Reading
UsesStream == Stream!Spec

\* A turn with a time budget ends, whatever the child does or fails to do.
ChatEnds == pc # "idle" ~> pc = "idle"

=============================================================================
