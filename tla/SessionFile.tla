---------------------------- MODULE SessionFile ----------------------------
(***************************************************************************)
(* What storage.ts promises its callers about one session file: the        *)
(* mutations take effect one at a time, in the order of the calls, each    *)
(* wholly or not at all; "done" is answered only for a mutation that took  *)
(* effect and "failed" only for one that did not; a deleted session stays  *)
(* deleted.  Once another program has edited the header, only the metadata *)
(* is out of its hands: the messages are kept as before.                   *)
(* SessionRun relies on this when it takes a save for one action.          *)
(***************************************************************************)
EXTENDS Naturals, Sequences

CONSTANTS Op, Field, NoField, NoSnapshot

VARIABLES
  content,  \* [meta, body], or NoSnapshot when the session does not exist
  state,    \* [pc, field, value] of every mutation
  order,    \* mutations in progress, in the order of the calls
  edited    \* whether another program has edited the header

fileVars == <<content, state, order, edited>>

\* A flag of the header is set, or a message appended.
Changed(o, s) ==
  IF state[o].field = NoField
  THEN [s EXCEPT !.body = Append(@, o)]
  ELSE [s EXCEPT !.meta[state[o].field] = state[o].value]

\* What the file can be after the mutation.
Outcomes(o) ==
  {s \in [meta : [Field -> BOOLEAN], body : {Changed(o, content).body}] :
     edited \/ s = Changed(o, content)}

Init ==
  /\ edited = FALSE
  /\ content \in [meta : [Field -> BOOLEAN], body : {<<>>}]
  /\ state = [o \in Op |-> [pc |-> "new", field |-> NoField, value |-> FALSE]]
  /\ order = <<>>

Call(o) ==
  /\ state[o].pc = "new"
  /\ \E f \in Field \cup {NoField}, v \in BOOLEAN :
       state' = [state EXCEPT ![o] = [pc |-> "waiting", field |-> f, value |-> v]]
  /\ order' = Append(order, o)
  /\ UNCHANGED <<content, edited>>

First(o) == order # <<>> /\ Head(order) = o

TakeEffect(o) ==
  /\ First(o) /\ state[o].pc = "waiting" /\ content # NoSnapshot
  /\ content' \in Outcomes(o)
  /\ state' = [state EXCEPT ![o].pc = "effective"]
  /\ UNCHANGED <<order, edited>>

Answer(o) ==
  /\ First(o)
  /\ order' = Tail(order)
  /\ state' \in {[state EXCEPT ![o].pc = a] : a \in
                   IF state[o].pc = "effective" THEN {"done"}
                   ELSE IF content = NoSnapshot THEN {"gone"} ELSE {"failed"}}
  /\ UNCHANGED <<content, edited>>

Refuse(o) ==
  /\ state[o].pc = "new"
  /\ state' = [state EXCEPT ![o].pc = "refused"]
  /\ UNCHANGED <<content, order, edited>>

\* A deletion waits until no mutation is in progress.
Delete ==
  /\ order = <<>>
  /\ content' = NoSnapshot
  /\ UNCHANGED <<state, order, edited>>

Crash ==
  /\ state' = [o \in Op |->
       IF state[o].pc \in {"waiting", "effective"} THEN [state[o] EXCEPT !.pc = "lost"] ELSE state[o]]
  /\ order' = <<>>
  /\ UNCHANGED <<content, edited>>

\* Another program writes other metadata into the header.
Edit ==
  /\ content # NoSnapshot
  /\ content' \in [meta : [Field -> BOOLEAN], body : {content.body}]
  /\ edited' = TRUE
  /\ UNCHANGED <<state, order>>

Next ==
  \/ \E o \in Op : Call(o) \/ TakeEffect(o) \/ Answer(o) \/ Refuse(o)
  \/ Delete \/ Crash \/ Edit

Spec == Init /\ [][Next]_fileVars

=============================================================================
