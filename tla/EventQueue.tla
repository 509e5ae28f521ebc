----------------------------- MODULE EventQueue -----------------------------
(***************************************************************************)
(* The queue between the listeners of a backend's events and the           *)
(* for-await loop of chat(): enqueue and complete are called from          *)
(* callbacks, drain is an async generator that is suspended at its await   *)
(* and at its yield.  A turn is one reset, one drain and the events        *)
(* pushed until the next reset.                                            *)
(***************************************************************************)
EXTENDS Naturals, Sequences

CONSTANTS
  Event,     \* events, by identity
  MaxEvents, \* bound on the events of a turn
  MaxTurns   \* bound on the turns

ASSUME EventQueueAssumption == MaxEvents \in Nat /\ MaxTurns \in Nat

VARIABLES
  queue,     \* events not yielded yet
  resolver,  \* resolvers holds the drain's promise
  done,      \* complete() was called
  drain,     \* where the generator is
  isDone,    \* what waitForEvent resolved to
  turn,      \* number of resets
  pushed,    \* history: events of this turn, in order
  yielded,   \* history: events the loop received this turn
  promised   \* history: number of events pushed before the first complete()

vars == <<queue, resolver, done, drain, isDone, turn, pushed, yielded, promised>>

DrainPc == {"idle", "asking", "waiting", "resumed", "ended", "left"}

TypeOK ==
  /\ queue \in Seq(Event) /\ pushed \in Seq(Event) /\ yielded \in Seq(Event)
  /\ resolver \in BOOLEAN /\ done \in BOOLEAN /\ isDone \in BOOLEAN
  /\ drain \in DrainPc
  /\ turn \in Nat /\ promised \in Nat

Init ==
  /\ queue = <<>> /\ pushed = <<>> /\ yielded = <<>>
  /\ resolver = FALSE /\ done = FALSE /\ isDone = FALSE
  /\ drain = "idle"
  /\ turn = 0 /\ promised = 0

-----------------------------------------------------------------------------
(* The producers *)

\* signal: the awaited promise is resolved, the generator resumes later.
Signal(d) ==
  IF resolver
  THEN resolver' = FALSE /\ isDone' = d /\ drain' = "resumed"
  ELSE UNCHANGED <<resolver, isDone, drain>>

Enqueue(e) ==
  /\ Len(pushed) < MaxEvents
  /\ queue' = Append(queue, e)
  /\ pushed' = Append(pushed, e)
  /\ Signal(FALSE)
  /\ UNCHANGED <<done, turn, yielded, promised>>

\* Variant with a fault: the waiting generator is not woken.
CompleteUnsignalled ==
  /\ done' = TRUE
  /\ promised' = IF done THEN promised ELSE Len(pushed)
  /\ UNCHANGED <<queue, resolver, drain, isDone, turn, pushed, yielded>>

Complete ==
  /\ done' = TRUE
  /\ promised' = IF done THEN promised ELSE Len(pushed)
  /\ Signal(TRUE)
  /\ UNCHANGED <<queue, turn, pushed, yielded>>

-----------------------------------------------------------------------------
(* The consumer *)

\* Variant with a fault: the turn before stays completed.
StartTurnDone ==
  /\ turn < MaxTurns /\ drain \in {"idle", "ended", "left"}
  /\ queue' = <<>> /\ pushed' = <<>> /\ yielded' = <<>>
  /\ resolver' = FALSE /\ isDone' = FALSE
  /\ drain' = "asking"
  /\ turn' = turn + 1 /\ promised' = 0
  /\ UNCHANGED done

\* chat(): reset, then drain.  The turn before has ended or its loop was left.
StartTurn ==
  /\ turn < MaxTurns /\ drain \in {"idle", "ended", "left"}
  /\ queue' = <<>> /\ pushed' = <<>> /\ yielded' = <<>>
  /\ resolver' = FALSE /\ done' = FALSE /\ isDone' = FALSE
  /\ drain' = "asking"
  /\ turn' = turn + 1 /\ promised' = 0

\* waitForEvent has something to resolve to at once.
AskResolved ==
  /\ drain = "asking" /\ (queue # <<>> \/ done)
  /\ isDone' = (done /\ queue = <<>>)
  /\ drain' = "resumed"
  /\ UNCHANGED <<queue, resolver, done, turn, pushed, yielded, promised>>

\* It has not: the promise is left to signal.
AskWaits ==
  /\ drain = "asking" /\ queue = <<>> /\ ~done
  /\ resolver' = TRUE
  /\ drain' = "waiting"
  /\ UNCHANGED <<queue, done, isDone, turn, pushed, yielded, promised>>

Yield ==
  /\ drain = "resumed" /\ queue # <<>>
  /\ yielded' = Append(yielded, Head(queue))
  /\ queue' = Tail(queue)
  /\ UNCHANGED <<resolver, done, drain, isDone, turn, pushed, promised>>

\* Nothing left to yield: break when the turn was over, else ask again.
Emptied ==
  /\ drain = "resumed" /\ queue = <<>>
  /\ drain' = IF isDone THEN "ended" ELSE "asking"
  /\ UNCHANGED <<queue, resolver, done, isDone, turn, pushed, yielded, promised>>

\* The loop is left at an event (a cancel): the generator is returned.
Leave ==
  /\ drain = "resumed" /\ yielded # <<>>
  /\ drain' = "left"
  /\ UNCHANGED <<queue, resolver, done, isDone, turn, pushed, yielded, promised>>

Consumer == AskResolved \/ AskWaits \/ Yield \/ Emptied

Next ==
  \/ \E e \in Event : Enqueue(e)
  \/ Complete
  \/ StartTurn \/ Leave
  \/ Consumer

Spec == Init /\ [][Next]_vars

\* The consumer's promise continuations run.
Fairness == WF_vars(Consumer)

FairSpec == Spec /\ Fairness

-----------------------------------------------------------------------------
(* Properties *)

\* With its promises and the resumptions left out it is the stream of
\* EventStream: enqueue, complete and reset change nothing under the reader
\* that the stream would not, and the reader ends only where a stream may.
Reading == drain \in {"asking", "waiting", "resumed"}
Stream == INSTANCE EventStream WITH open <- Reading
ActsAsStream == Stream!Spec

\* No lost wakeup: a generator that waits has an empty, open queue and a
\* resolver that the next enqueue or complete will call.
NoLostWakeup == drain = "waiting" => resolver /\ queue = <<>> /\ ~done

\* The loop receives the events of the turn in the order in which they were
\* pushed, none twice, none left out and none of an earlier turn.
InOrder == yielded \o queue = pushed

\* A stream that ended by itself was completed, and delivered at least what
\* was pushed before that.
EndsComplete == drain = "ended" => done /\ Len(yielded) >= promised

\* After complete() the loop ends, in whatever state the generator was.
StreamEnds == done /\ drain \in {"asking", "waiting", "resumed"} ~> drain \in {"ended", "left"}

=============================================================================
