---------------------------- MODULE EventStream ----------------------------
(***************************************************************************)
(* What an event queue is to the two sides that use it: a first-in         *)
(* first-out stream with one reader at a time, closed by the producers,    *)
(* that a reader leaves of itself or once it has taken everything of a     *)
(* closed stream.  EventQueue implements it, PiHost uses it.               *)
(***************************************************************************)
EXTENDS Naturals, Sequences

CONSTANT Event

VARIABLES
  queue,  \* events not taken yet
  done,   \* closed by a producer
  open    \* a reader is in its loop, or on its way to it

streamVars == <<queue, done, open>>

Init == queue = <<>> /\ done = FALSE /\ open = FALSE

\* Empty and open again, never under a reader; the reader may fail to come.
Start == ~open /\ queue' = <<>> /\ done' = FALSE /\ open' \in BOOLEAN

Push(e) == queue' = Append(queue, e) /\ UNCHANGED <<done, open>>

Close == done' = TRUE /\ UNCHANGED <<queue, open>>

\* An error that ends the turn.
PushLast(e) == queue' = Append(queue, e) /\ done' = TRUE /\ UNCHANGED open

\* The reader takes an event, and may leave at it.
Take ==
  /\ open /\ queue # <<>>
  /\ queue' = Tail(queue)
  /\ open' \in BOOLEAN
  /\ UNCHANGED done

\* The loop ends by itself.
End == open /\ done /\ queue = <<>> /\ open' = FALSE /\ UNCHANGED <<queue, done>>

\* The reader gives up.
Leave == open /\ open' = FALSE /\ UNCHANGED <<queue, done>>

Next ==
  \/ Start \/ Close \/ Take \/ End \/ Leave
  \/ \E e \in Event : Push(e) \/ PushLast(e)

Spec == Init /\ [][Next]_streamVars

=============================================================================
