----------------------------- MODULE ModelTurns -----------------------------
(***************************************************************************)
(* What becomes of the words of a model: the provider's own events, their  *)
(* translation (OpenAICompatClient, ClaudeEventAdapter, PiEventAdapter),   *)
(* the agent that remembers them for the next prompt (DeepSeekAgent,       *)
(* ClaudeAgent), and the run that stores them (the loop of submitMessage   *)
(* with RunTranscript).  A turn can be cancelled, fail, or lose a save at  *)
(* any event, and the backend can be made anew from the stored session.    *)
(*                                                                         *)
(* Words are numbers, in the order in which the model says them; a 0 is    *)
(* what it did not say: a prompt, or the result of a tool.  The models run *)
(* their tools between their messages, one at a time.                      *)
(***************************************************************************)
EXTENDS Naturals, Sequences, Picks, Remembering

CONSTANTS
  Backends,  \* of "deepseek", "claude", "pi"
  MaxTurns, MaxWords, MaxTools, \* bounds on turns, words and tools of a turn
  MaxQueue,  \* bound on the events that wait for the loop
  MaxLostSaves, \* bound on the saves that fail
  MaxMemory  \* the words that a history is cut to (48,000 characters)
ASSUME TurnsAssumption ==
  Backends \subseteq {"deepseek", "claude", "pi"} /\ MaxTurns \in Nat /\ MaxMemory \in Nat \ {0}

VARIABLES
  backend, turn, pc,
  said,      \* said[t]: the words and tool results of turn t
  model,     \* the provider's stream: "text", "tool", "over"
  message,   \* the words of its present message (Claude: pendingText)
  queue,     \* events that the loop has not taken
  partial,   \* of chatImpl
  context,   \* conversation, history: [type, turn, text]
  memory,    \* history: the same, if nothing were ever cut
  messages,  \* of RunTranscript: [type, text]
  segment,   \* its open segment, or 0
  stored,    \* stored[t]: the messages of the run of turn t in the file
  status, complete, cancelled, started, lostSaves

turnVars == <<backend, turn, pc, said, model, message, queue, partial, context, memory, messages,
              segment, stored, status, complete, cancelled, started, lostSaves>>
loop == <<partial, context, memory, messages, segment, stored, status, complete, lostSaves>>

Turns == 1..MaxTurns
Event(type, text) == [type |-> type, text |-> text]
NoText(type) == Event(type, <<>>)
Spoken(text) == Each(text, LAMBDA w : IF w = 0 THEN <<>> ELSE <<w>>)
Words(t) == Spoken(said[t])
Results(t) == SelectSeq(said[t], LAMBDA w : w = 0)
WholeText(text) == IF text = <<>> THEN <<>> ELSE <<Event("text_complete", text)>>

TurnsInit ==
  /\ backend \in Backends /\ turn = 0 /\ pc = "idle"
  /\ said = [t \in Turns |-> <<>>] /\ model = "over" /\ message = <<>> /\ queue = <<>>
  /\ partial = <<>> /\ context = <<>> /\ memory = <<>> /\ messages = <<>> /\ segment = 0
  /\ stored = [t \in Turns |-> <<>>] /\ status = [t \in Turns |-> "none"]
  /\ complete = FALSE /\ cancelled = FALSE /\ started = {} /\ lostSaves = 0

Prompt(t) == [type |-> "user", turn |-> t, text |-> <<0>>]
Remember(m) == context' = Append(context, m) /\ memory' = Append(memory, m)

(* The message is stored; unless it was cancelled before, chat is called.  *)
BeginTurn(early) ==
  /\ pc = "idle" /\ turn < MaxTurns /\ turn' = turn + 1
  /\ messages' = <<>> /\ segment' = 0 /\ complete' = FALSE /\ cancelled' = early
  /\ message' = <<>> /\ queue' = <<>> /\ partial' = <<>>
  /\ IF early
     THEN pc' = "leaving" /\ model' = "over" /\ UNCHANGED <<context, memory, started>>
     ELSE /\ pc' = "running" /\ model' = "text" /\ started' = started \cup {turn + 1}
          /\ Remember(Prompt(turn + 1))
  /\ UNCHANGED <<backend, said, stored, status, lostSaves>>

-----------------------------------------------------------------------------
(* The provider and the translation of its events                          *)

Sends(events) == queue' = queue \o events
ModelSteps == pc = "running" /\ model # "over" /\ Len(queue) < MaxQueue
Silent(b) == cancelled /\ b = "deepseek"

Says(word) == said' = [said EXCEPT ![turn] = Append(@, word)]

(* A delta.  After an abort DeepSeek's callback does nothing.              *)
Delta ==
  /\ ModelSteps /\ model = "text" /\ Len(Words(turn)) < MaxWords /\ ~Silent(backend)
  /\ LET word == Len(Words(turn)) + 1
     IN /\ Says(word) /\ message' = Append(message, word)
        /\ partial' = IF backend = "deepseek" THEN Append(partial, word) ELSE partial
        /\ Sends(<<Event("text_delta", <<word>>)>>)
  /\ UNCHANGED <<backend, turn, pc, model, context, memory, messages, segment, stored, status,
                 complete, cancelled, started, lostSaves>>

(* Claude flushes the pending text first; Pi's message has ended by then.  *)
ToolUsed ==
  /\ ModelSteps /\ model = "text" /\ backend # "deepseek" /\ Len(Results(turn)) < MaxTools
  /\ backend = "pi" => message = <<>>
  /\ model' = "tool" /\ message' = <<>>
  /\ Sends(WholeText(message) \o <<NoText("tool_start")>>)
  /\ UNCHANGED <<backend, turn, pc, said, cancelled, started>> /\ UNCHANGED loop
ToolEnded ==
  /\ ModelSteps /\ model = "tool" /\ model' = "text"
  /\ Says(0) /\ Sends(<<NoText("tool_result")>>)
  /\ UNCHANGED <<backend, turn, pc, message, cancelled, started>> /\ UNCHANGED loop

(* Pi: a message ends, perhaps by an error (message_end), or something     *)
(* else went wrong and the turn goes on (compaction_end); once in a turn.  *)
MessageEnded(erred) ==
  /\ ModelSteps /\ model = "text" /\ backend = "pi"
  /\ message # <<>> \/ erred
  /\ erred => status[turn] # "failed" /\ \A i \in DOMAIN queue : queue[i].type # "error"
  /\ message' = <<>>
  /\ Sends((IF erred THEN <<NoText("error")>> ELSE <<>>) \o WholeText(message))
  /\ UNCHANGED <<backend, turn, pc, model, said, cancelled, started>> /\ UNCHANGED loop

(* The model is done: finish_reason or [DONE], a result, agent_end.        *)
Finished ==
  /\ ModelSteps /\ model = "text" /\ ~Silent(backend) /\ model' = "over"
  /\ backend = "pi" => message = <<>>
  /\ message' = <<>>
  /\ Sends(WholeText(message) \o <<NoText("complete")>>
           \o (IF backend = "claude" THEN <<NoText("complete")>> ELSE <<>>))
  /\ UNCHANGED <<backend, turn, pc, said, cancelled, started>> /\ UNCHANGED loop

(* Claude: the result is an error; the query ends without a result.        *)
ResultFailed ==
  /\ ModelSteps /\ backend = "claude" /\ model' = "over" /\ message' = <<>>
  /\ Sends(WholeText(message) \o <<NoText("error"), NoText("complete"), NoText("complete")>>)
  /\ UNCHANGED <<backend, turn, pc, said, cancelled, started>> /\ UNCHANGED loop
QueryEnded ==
  /\ ModelSteps /\ backend = "claude" /\ model = "text" /\ model' = "over"
  /\ Sends(<<NoText("complete")>>)
  /\ UNCHANGED <<backend, turn, pc, said, message, cancelled, started>> /\ UNCHANGED loop

(* The request, the stream or the child breaks off, perhaps by the abort.  *)
Broken ==
  /\ ModelSteps /\ model' = "over"
  /\ Sends(IF Silent(backend) THEN <<>> ELSE <<NoText("error")>>
           \o (IF backend = "claude" THEN <<NoText("complete")>> ELSE <<>>))
  /\ UNCHANGED <<backend, turn, pc, said, message, cancelled, started>> /\ UNCHANGED loop

Cancel ==
  /\ pc = "running" /\ ~cancelled /\ cancelled' = TRUE
  /\ UNCHANGED <<backend, turn, pc, said, model, message, queue, started>> /\ UNCHANGED loop

-----------------------------------------------------------------------------
(* What chatImpl does with an event before it yields it, or, in DeepSeek,  *)
(* when it goes on after text_complete.                                    *)
Assistant(text) == [type |-> "assistant", turn |-> turn, text |-> text]
Yielded(e) ==
  IF backend = "claude" /\ e.type = "text_delta"
  THEN partial' = partial \o e.text /\ UNCHANGED <<context, memory>>
  ELSE IF backend = "claude" /\ e.type = "text_complete"
  THEN partial' = <<>> /\ Remember(Assistant(e.text))
  ELSE IF backend = "deepseek" /\ e.type = "complete" /\ partial # <<>>
  THEN UNCHANGED partial /\ Remember(Assistant(partial))
  ELSE UNCHANGED <<partial, context, memory>>

(* RunTranscript.consume *)
OpenSegment == IF segment = 0 THEN Len(messages) + 1 ELSE segment
WithSegment == IF segment = 0 THEN Append(messages, Event("assistant", <<>>)) ELSE messages
Consumed(e) ==
  CASE e.type = "text_delta" ->
         /\ messages' = [WithSegment EXCEPT ![OpenSegment].text = @ \o e.text]
         /\ segment' = OpenSegment
    [] e.type = "text_complete" ->
         /\ messages' = [WithSegment EXCEPT ![OpenSegment].text = e.text]
         /\ segment' = 0
    [] e.type = "tool_result" ->
         messages' = Append(messages, Event("tool", <<0>>)) /\ UNCHANGED segment
    [] e.type = "error" ->
         messages' = Append(messages, Event("error", <<>>)) /\ UNCHANGED segment
    [] OTHER -> UNCHANGED <<messages, segment>>

Flushed(now) == stored' = [stored EXCEPT ![turn] = now]
FlushFails == lostSaves < MaxLostSaves /\ lostSaves' = lostSaves + 1 /\ UNCHANGED stored

(* The loop takes an event: it breaks when the run was cancelled.  A delta *)
(* is flushed when the last flush was some time ago.                       *)
Take ==
  /\ pc = "running" /\ queue # <<>> /\ queue' = Tail(queue)
  /\ LET e == Head(queue)
     IN IF cancelled
        THEN /\ IF Silent(backend) THEN UNCHANGED <<partial, context, memory>> ELSE Yielded(e)
             /\ pc' = "leaving" /\ UNCHANGED <<messages, segment, stored, status, complete, lostSaves>>
        ELSE /\ Yielded(e) /\ Consumed(e)
             /\ complete' = (complete \/ e.type = "complete")
             /\ \/ /\ e.type \in {"text_delta", "text_complete", "tool_result", "error"}
                   /\ Flushed(messages') /\ UNCHANGED <<pc, lostSaves>>
                   /\ status' = [status EXCEPT ![turn] = IF e.type = "error" THEN "failed" ELSE @]
                \/ /\ e.type \in {"text_delta", "tool_start", "complete"}
                   /\ UNCHANGED <<pc, stored, lostSaves, status>>
                \/ /\ e.type \in {"text_delta", "text_complete", "tool_result", "error"}
                   /\ FlushFails /\ pc' = "leaving"
                   /\ status' = [status EXCEPT ![turn] = "failed"]
  /\ UNCHANGED <<backend, turn, said, model, message, cancelled, started>>

Drain ==
  /\ pc = "running" /\ queue = <<>> /\ model = "over" /\ pc' = "leaving"
  /\ UNCHANGED <<backend, turn, said, model, message, queue, cancelled, started>>
  /\ UNCHANGED loop

(* Variant with a fault: only a turn that ends by itself is remembered.    *)
RememberedIfOver(items) ==
  IF partial = <<>> \/ cancelled THEN items ELSE Append(items, Assistant(partial))

(* The finally blocks: what was said so far is remembered.                 *)
Remembered(items) ==
  IF partial = <<>> THEN items
  ELSE IF backend = "deepseek" /\ items[Len(items)].type = "assistant" THEN items
  ELSE Append(items, Assistant(partial))

(* restoreHistory: the newest of what an agent gets to remember.           *)
Shortened(items) ==
  Trimmed(items, IF backend = "deepseek"
                 THEN History!RestoreHistory(Lengths(items), MaxMemory)
                 ELSE History!RestoreTextHistory(Lengths(items), MaxMemory))

(* The generator ends: Claude's, if it began, cuts its history.  Then the  *)
(* transcript is flushed, once more if that fails.                         *)
Leave ==
  /\ pc = "leaving" /\ pc' = "idle" /\ model' = "over" /\ queue' = <<>>
  /\ memory' = Remembered(memory)
  /\ context' = IF backend = "claude" /\ turn \in started THEN Shortened(Remembered(context))
                ELSE Remembered(context)
  /\ partial' = <<>> /\ message' = <<>> /\ messages' = <<>> /\ segment' = 0
  /\ complete' = FALSE /\ cancelled' = FALSE
  /\ \/ /\ Flushed(messages) /\ UNCHANGED lostSaves
        /\ status' = [status EXCEPT ![turn] = IF cancelled THEN "cancelled"
                        ELSE IF @ = "failed" \/ ~complete THEN "failed" ELSE "completed"]
     \/ /\ lostSaves < MaxLostSaves /\ lostSaves' = lostSaves + 1
        /\ Flushed(messages) \/ UNCHANGED stored
        /\ status' = [status EXCEPT ![turn] = IF cancelled THEN "cancelled" ELSE "failed"]
  /\ UNCHANGED <<backend, turn, said, started>>

(* A new backend gets what the file has, and remembers the newest of it.   *)
(* Claude's history keeps the tools too.                                   *)
Kinds == IF backend = "claude" THEN {"assistant", "tool"} ELSE {"assistant"}
Restored(t) ==
  <<Prompt(t)>>
  \o Each(stored[t], LAMBDA m :
            IF m.type \in Kinds THEN <<[type |-> m.type, turn |-> t, text |-> m.text]>> ELSE <<>>)
Reopen ==
  /\ pc = "idle" /\ backend # "pi"
  /\ memory' = FlattenSeq([t \in 1..turn |-> Restored(t)]) /\ context' = Shortened(memory')
  /\ started' = 1..turn
  /\ UNCHANGED <<backend, turn, pc, said, model, message, queue, partial, messages, segment,
                 stored, status, complete, cancelled, lostSaves>>

TurnsNext ==
  \/ \E early \in BOOLEAN : BeginTurn(early)
  \/ Delta \/ ToolUsed \/ ToolEnded \/ Finished \/ ResultFailed \/ QueryEnded \/ Broken
  \/ \E erred \in BOOLEAN : MessageEnded(erred)
  \/ Cancel \/ Take \/ Drain \/ Leave \/ Reopen

TurnsSpec == TurnsInit /\ [][TurnsNext]_turnVars

-----------------------------------------------------------------------------
Texts(items) == Each(items, LAMBDA m : m.text)
RememberedOf(t) == Each(memory, LAMBDA m : IF m.turn = t THEN <<m>> ELSE <<>>)

(* Between turns the file holds what the model said, every word once and   *)
(* in order, also around the tools: a part from the beginning, and all of  *)
(* it when the run completed.  What the agent was given to remember is at  *)
(* least what the user can read, and nothing that the model did not say,   *)
(* with every prompt; and it remembers the newest of that, as many words   *)
(* as its limit, through cuts after cuts.  So a cancel, a failed save or a *)
(* new backend never makes the model deny what is on the screen, unless it *)
(* is more than the limit ago (RunTranscript, conversation, history,       *)
(* restoreHistory, restoreTextHistory).                                    *)
WordsAreKept ==
  pc = "idle" => \A t \in 1..turn :
    LET file == Texts(stored[t])  mind == Spoken(Texts(RememberedOf(t)))
    IN /\ IsPrefix(file, said[t])
       /\ status[t] = "completed" => file = said[t]
       /\ backend # "pi" =>
            /\ IsPrefix(Spoken(file), mind) /\ IsPrefix(mind, Words(t))
            /\ t \in started => \E i \in DOMAIN memory : memory[i].turn = t /\ memory[i].type = "user"
            /\ IsNewestOf(context, memory, MaxMemory)
=============================================================================
