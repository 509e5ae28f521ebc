---------------------------- MODULE QueueProofs ----------------------------
(***************************************************************************)
(* EventQueue for every set of events and every bound: a generator that    *)
(* waits is always registered, a registered generator always waits, and    *)
(* only an empty and completed queue makes the drain's last answer true.   *)
(*                                                                         *)
(* DebouncedSaves for all metadata, callers and numbers of snapshots.      *)
(* SavesInOrder: what is on the disk, in flight and pending is ever newer. *)
(* Owes: owed is the last of it, unless its failure is on record.          *)
(* Awaits: a caller waits for one write, of the snapshot it asked for or a *)
(* newer one, and what it was told stays true.                             *)
(*                                                                         *)
(* ResearchTools for all runs, calls, subtasks and limits.  Owners: every  *)
(* subtask that was started belongs to one call.  Queue: who waits, and    *)
(* who holds a slot.  Budget: scope counts the subtasks of a run.          *)
(* Reports: what the file of an ended subtask says.                        *)
(***************************************************************************)
EXTENDS EventQueue, DebouncedSaves, ResearchTools, FiniteSetTheorems, SequenceTheorems, TLAPS

-----------------------------------------------------------------------------
(* The events of a turn *)

Registered ==
  /\ drain = "waiting" => resolver
  /\ resolver => drain = "waiting" /\ queue = <<>> /\ ~done

DoneIsKnown ==
  /\ drain = "resumed" /\ isDone => done
  /\ done => promised <= Len(pushed)

Inv == TypeOK /\ Registered /\ InOrder /\ DoneIsKnown /\ EndsComplete

\* After a signal nobody waits, and only a signal of completion makes the
\* drain's answer true.
Woken(d) ==
  /\ resolver' = FALSE /\ isDone' \in BOOLEAN /\ drain' \in DrainPc
  /\ drain' # "waiting"
  /\ drain' = "ended" => drain = "ended"
  /\ drain' = "resumed" /\ isDone' => d \/ (drain = "resumed" /\ isDone)

LEMMA SignalWakes ==
  ASSUME NEW d \in BOOLEAN, Inv, Signal(d) PROVE Woken(d)
BY DEF Inv, TypeOK, Registered, Signal, DrainPc, Woken

LEMMA EmptyConcat == <<>> \o <<>> = <<>>
OBVIOUS

LEMMA ConcatAppend ==
  ASSUME NEW S, NEW s \in Seq(S), NEW t \in Seq(S), NEW e \in S
  PROVE  s \o Append(t, e) = Append(s \o t, e)
OBVIOUS

LEMMA ConcatShift ==
  ASSUME NEW S, NEW s \in Seq(S), NEW t \in Seq(S), t # <<>>
  PROVE  Append(s, Head(t)) \o Tail(t) = s \o t
<1>1. Head(t) \in S /\ Tail(t) \in Seq(S) /\ <<Head(t)>> \in Seq(S)
  OBVIOUS
<1>2. Append(s, Head(t)) = s \o <<Head(t)>>
  BY <1>1, AppendIsConcat
<1>3. (s \o <<Head(t)>>) \o Tail(t) = s \o (<<Head(t)>> \o Tail(t))
  BY <1>1, ConcatAssociative
<1>4. <<Head(t)>> \o Tail(t) = t
  OBVIOUS
<1>5. QED
  BY <1>2, <1>3, <1>4

LEMMA EnqueueKeeps ==
  ASSUME Inv, NEW e \in Event, Enqueue(e) PROVE Inv'
<1>1. /\ queue' = Append(queue, e) /\ pushed' = Append(pushed, e)
      /\ Signal(FALSE) /\ UNCHANGED <<done, turn, yielded, promised>>
  BY DEF Enqueue
<1>2. queue \in Seq(Event) /\ pushed \in Seq(Event) /\ yielded \in Seq(Event)
  BY DEF Inv, TypeOK
<1>3. Woken(FALSE)
  BY <1>1, SignalWakes
<1>4. TypeOK' /\ Registered'
  <2>1. queue' \in Seq(Event) /\ pushed' \in Seq(Event)
    BY <1>1, <1>2
  <2>2. QED
    BY <1>1, <1>3, <2>1 DEF Inv, TypeOK, Registered, Woken
<1>5. InOrder'
  BY <1>1, <1>2, ConcatAppend DEF Inv, InOrder
<1>6. Len(pushed') >= Len(pushed) /\ Len(pushed) \in Nat /\ Len(pushed') \in Nat /\ promised \in Nat
  BY <1>1, <1>2 DEF Inv, TypeOK
<1>7. DoneIsKnown' /\ EndsComplete'
  BY <1>1, <1>6, <1>3 DEF Inv, DoneIsKnown, EndsComplete, Woken
<1>8. QED
  BY <1>4, <1>5, <1>7 DEF Inv

LEMMA CompleteKeeps ==
  ASSUME Inv, Complete PROVE Inv'
<1>1. /\ done' = TRUE /\ promised' = IF done THEN promised ELSE Len(pushed)
      /\ Signal(TRUE) /\ UNCHANGED <<queue, turn, pushed, yielded>>
  BY DEF Complete
<1>2. Len(pushed) \in Nat /\ promised \in Nat
  BY DEF Inv, TypeOK
<1>3. Woken(TRUE)
  BY <1>1, SignalWakes
<1>4. TypeOK' /\ Registered' /\ InOrder'
  BY <1>1, <1>2, <1>3 DEF Inv, TypeOK, Registered, InOrder, Woken
<1>5. DoneIsKnown'
  BY <1>1, <1>2, <1>3 DEF Inv, DoneIsKnown, Woken
<1>6. EndsComplete'
  BY <1>1, <1>2, <1>3 DEF Inv, EndsComplete, Woken
<1>7. QED
  BY <1>4, <1>5, <1>6 DEF Inv

LEMMA ConsumerKeeps ==
  ASSUME Inv, Consumer PROVE Inv'
<1>1. /\ queue \in Seq(Event) /\ pushed \in Seq(Event) /\ yielded \in Seq(Event)
      /\ Len(pushed) \in Nat /\ promised \in Nat
  BY DEF Inv, TypeOK
<1>2. CASE AskResolved
  BY <1>1, <1>2 DEF AskResolved, Inv, TypeOK, Registered, InOrder, DoneIsKnown, EndsComplete, DrainPc
<1>3. CASE AskWaits
  BY <1>1, <1>3 DEF AskWaits, Inv, TypeOK, Registered, InOrder, DoneIsKnown, EndsComplete, DrainPc
<1>4. CASE Yield
  <2>1. queue # <<>> /\ drain = "resumed" /\ UNCHANGED <<resolver, done, drain, isDone, turn, pushed, promised>>
    BY <1>4 DEF Yield
  <2>2. queue' \in Seq(Event) /\ yielded' \in Seq(Event)
    BY <1>1, <1>4 DEF Yield
  <2>3. InOrder'
    BY <1>1, <1>4, ConcatShift DEF Yield, Inv, InOrder
  <2>4. QED
    BY <1>1, <2>1, <2>2, <2>3 DEF Inv, TypeOK, Registered, DoneIsKnown, EndsComplete
<1>5. CASE Emptied
  <2>1. queue = <<>> /\ drain = "resumed" /\ drain' = (IF isDone THEN "ended" ELSE "asking")
        /\ UNCHANGED <<queue, resolver, done, isDone, turn, pushed, yielded, promised>>
    BY <1>5 DEF Emptied
  <2>2. yielded = pushed
    BY <1>1, <2>1 DEF Inv, InOrder
  <2>3. QED
    BY <1>1, <2>1, <2>2 DEF Inv, TypeOK, Registered, InOrder, DoneIsKnown, EndsComplete, DrainPc
<1>6. QED
  BY <1>2, <1>3, <1>4, <1>5 DEF Consumer

LEMMA InvStep == Inv /\ [Next]_vars => Inv'
<1> SUFFICES ASSUME Inv, [Next]_vars PROVE Inv'
  OBVIOUS
<1>1. ASSUME NEW e \in Event, Enqueue(e) PROVE Inv'
  BY <1>1, EnqueueKeeps
<1>2. CASE Complete
  BY <1>2, CompleteKeeps
<1>3. CASE StartTurn
  <2>1. <<>> \in Seq(Event) /\ Len(<<>>) = 0 /\ turn + 1 \in Nat
    BY DEF Inv, TypeOK
  <2>2. TypeOK'
    BY <1>3, <2>1 DEF StartTurn, TypeOK, DrainPc
  <2>3. InOrder'
    BY <1>3, EmptyConcat DEF StartTurn, InOrder
  <2>4. Registered' /\ DoneIsKnown' /\ EndsComplete'
    BY <1>3 DEF StartTurn, Registered, DoneIsKnown, EndsComplete
  <2>5. QED
    BY <2>2, <2>3, <2>4 DEF Inv
<1>4. CASE Leave
  BY <1>4 DEF Leave, Inv, TypeOK, Registered, InOrder, DoneIsKnown, EndsComplete, DrainPc
<1>5. CASE Consumer
  BY <1>5, ConsumerKeeps
<1>6. CASE UNCHANGED vars
  BY <1>6 DEF vars, Inv, TypeOK, Registered, InOrder, DoneIsKnown, EndsComplete
<1>7. QED
  BY <1>1, <1>2, <1>3, <1>4, <1>5, <1>6 DEF Next

LEMMA InvCorrect == Spec => []Inv
<1>1. Init => Inv
  <2> SUFFICES ASSUME Init PROVE Inv
    OBVIOUS
  <2>1. TypeOK
    <3>1. <<>> \in Seq(Event)
      OBVIOUS
    <3>2. QED
      BY <3>1 DEF Init, TypeOK, DrainPc
  <2>2. InOrder
    BY EmptyConcat DEF Init, InOrder
  <2>3. Registered /\ DoneIsKnown /\ EndsComplete
    BY DEF Init, Registered, DoneIsKnown, EndsComplete
  <2>4. QED
    BY <2>1, <2>2, <2>3 DEF Inv
<1>2. QED
  BY <1>1, InvStep, PTL DEF Spec

\* A generator that waits is woken by the next enqueue or complete: it never
\* waits on a queue that has events or is completed.
THEOREM WakeupsReach == Spec => []NoLostWakeup
<1>1. Inv => NoLostWakeup
  BY DEF Inv, Registered, NoLostWakeup
<1>2. QED
  BY <1>1, InvCorrect, PTL

\* The loop receives what was pushed, in that order.
THEOREM OrderKept == Spec => []InOrder
<1>1. Inv => InOrder
  BY DEF Inv
<1>2. QED
  BY <1>1, InvCorrect, PTL

\* A stream that ends was completed and has delivered what came before.
THEOREM StreamsEndComplete == Spec => []EndsComplete
<1>1. Inv => EndsComplete
  BY DEF Inv
<1>2. QED
  BY <1>1, InvCorrect, PTL

-----------------------------------------------------------------------------
(* The refinement of EventStream *)

LEMMA StreamSignal ==
  ASSUME Inv, NEW d \in BOOLEAN, Signal(d) PROVE UNCHANGED Reading
BY DEF Inv, Registered, Signal, Reading

LEMMA StreamStep ==
  ASSUME Inv, Inv', [Next]_vars PROVE [Stream!Next]_(Stream!streamVars)
<1>1. ASSUME NEW e \in Event, Enqueue(e) PROVE Stream!Push(e)
  BY <1>1, StreamSignal DEF Enqueue, Stream!Push
<1>2. CASE Complete
  <2>1. Stream!Close
    BY <1>2, StreamSignal DEF Complete, Stream!Close
  <2>2. QED
    BY <2>1 DEF Stream!Next
<1>3. CASE StartTurn
  <2>1. Stream!Start
    BY <1>3 DEF StartTurn, Reading, Stream!Start
  <2>2. QED
    BY <2>1 DEF Stream!Next
<1>4. CASE Leave
  <2>1. Stream!Leave
    BY <1>4 DEF Leave, Reading, Stream!Leave
  <2>2. QED
    BY <2>1 DEF Stream!Next
<1>5. CASE AskResolved \/ AskWaits
  BY <1>5 DEF AskResolved, AskWaits, Reading, Stream!streamVars
<1>6. CASE Yield
  <2>1. Stream!Take
    BY <1>6 DEF Yield, Reading, Stream!Take
  <2>2. QED
    BY <2>1 DEF Stream!Next
<1>7. CASE Emptied
  <2>1. CASE isDone
    <3>1. Stream!End
      BY <1>7, <2>1 DEF Emptied, Inv, DoneIsKnown, Reading, Stream!End
    <3>2. QED
      BY <3>1 DEF Stream!Next
  <2>2. CASE ~isDone
    BY <1>7, <2>2 DEF Emptied, Reading, Stream!streamVars
  <2>3. QED
    BY <2>1, <2>2
<1>8. CASE UNCHANGED vars
  BY <1>8 DEF vars, Reading, Stream!streamVars
<1>9. QED
  BY <1>1, <1>2, <1>3, <1>4, <1>5, <1>6, <1>7, <1>8 DEF Next, Consumer, Stream!Next

\* The queue with its promises implements the stream that its users rely on.
THEOREM QueueIsStream == Spec => ActsAsStream
<1>1. Init => Stream!Init
  BY DEF Init, Reading, Stream!Init
<1>2. QED
  BY <1>1, StreamStep, InvCorrect, InvStep, PTL DEF Spec, ActsAsStream, Stream!Spec

-----------------------------------------------------------------------------
(* The snapshots of a session *)

Numbers == 0 .. MaxSaves

SavesTypeOK ==
  /\ QueueTypeOK
  /\ latest \in Numbers /\ owed \in Numbers /\ target \in [Caller -> Numbers]

StepOK ==
  /\ step # "mkdir" => writes # <<>>
  /\ step = "renamed" => file = NoSnapshot \/ file.body = writes[1].snap.body

OrderOK ==
  /\ \A i, j \in 1 .. Len(writes) : i < j => writes[i].snap.body <= writes[j].snap.body
  /\ \A i \in 1 .. Len(writes) :
       /\ writes[i].snap.body <= latest
       /\ pending # NoSnapshot => writes[i].snap.body <= pending.body
       /\ file # NoSnapshot => file.body <= writes[i].snap.body
  /\ pending # NoSnapshot => pending.body <= latest
  /\ file # NoSnapshot => file.body <= latest
  /\ file # NoSnapshot /\ pending # NoSnapshot => file.body <= pending.body

SavesInOrder == StepOK /\ OrderOK

Owes ==
  /\ owed <= latest
  /\ pending # NoSnapshot => owed = pending.body
  /\ pending = NoSnapshot /\ Unfinished => owed = writes[Len(writes)].snap.body
  /\ pending = NoSnapshot /\ ~Unfinished /\ (writes = <<>> => ~failed) => owed = Number(file)

Told(c) ==
  /\ target[c] <= latest
  /\ result[c] = "ok" =>
       /\ file # NoSnapshot => target[c] <= file.body
       /\ pending # NoSnapshot => target[c] <= pending.body
       /\ \A i \in 1 .. Len(writes) : target[c] <= writes[i].snap.body

Awaited(c) ==
  /\ \A i \in 1 .. Len(writes) :
       c \in writes[i].waiters => result[c] = "waiting" /\ target[c] <= writes[i].snap.body
  /\ \A i, j \in 1 .. Len(writes) : c \in writes[i].waiters /\ c \in writes[j].waiters => i = j

Awaits == \A c \in Caller : Told(c) /\ Awaited(c)

SavesInv == SavesTypeOK /\ SavesInOrder /\ Owes /\ Awaits

-----------------------------------------------------------------------------
(* The chain of writes *)

LEMMA ChainTypes ==
  ASSUME SavesAssumption, SavesTypeOK
  PROVE  /\ file \in Snapshot \cup {NoSnapshot} /\ pending \in Snapshot \cup {NoSnapshot}
         /\ writes \in Seq(Write) /\ step \in Step /\ sig \in Meta \cup {NoMeta} /\ failed \in BOOLEAN
         /\ result \in [Caller -> {"none", "waiting", "ok", "failed"}]
         /\ latest \in Nat /\ owed \in Nat /\ \A c \in Caller : target[c] \in Nat
         /\ Len(writes) \in Nat
         /\ \A i \in 1 .. Len(writes) :
              /\ writes[i] \in Write /\ writes[i].snap \in Snapshot /\ writes[i].snap.body \in Nat
              /\ writes[i].waiters \in SUBSET Caller
<1>1. writes \in Seq(Write) /\ latest \in Numbers /\ owed \in Numbers /\ target \in [Caller -> Numbers]
  BY DEF SavesTypeOK, QueueTypeOK
<1>2. \A n \in Numbers : n \in Nat
  BY DEF SavesAssumption, Numbers
<1>3. \A w \in Write : w.snap \in Snapshot /\ w.waiters \in SUBSET Caller
  BY DEF Write
<1>4. \A s \in Snapshot : s.body \in Nat
  BY DEF Snapshot, SavesAssumption
<1>5. \A i \in 1 .. Len(writes) : writes[i] \in Write
  BY <1>1
<1>6. QED
  BY <1>1, <1>2, <1>3, <1>4, <1>5 DEF SavesTypeOK, QueueTypeOK

LEMMA SnapshotTypes ==
  ASSUME SavesAssumption
  PROVE  /\ NoSnapshot \notin Snapshot
         /\ \A s \in Snapshot : s.body \in Nat /\ s.body \in Numbers /\ s.meta \in Meta
         /\ \A m \in Meta, b \in Numbers : [meta |-> m, body |-> b] \in Snapshot
BY DEF Snapshot, SavesAssumption, Numbers

\* A snapshot joins the chain.
LEMMA ChainGrows ==
  ASSUME SavesAssumption, SavesTypeOK, NEW s \in Snapshot, NEW callers \in SUBSET Caller,
         writes' = Started(s, callers)
  PROVE  /\ writes' \in Seq(Write) /\ writes' # <<>> /\ Len(writes') = Len(writes) + 1
         /\ writes'[Len(writes')] = [snap |-> s, waiters |-> callers]
         /\ writes'[Len(writes')].snap = s /\ writes'[Len(writes')].waiters = callers
         /\ \A i \in 1 .. Len(writes) : writes'[i] = writes[i]
         /\ \A i \in 1 .. Len(writes') : i \in 1 .. Len(writes) \/ i = Len(writes')
<1>1. PICK w : w = [snap |-> s, waiters |-> callers]
  OBVIOUS
<1>2. w \in Write /\ w.snap = s /\ w.waiters = callers
  BY <1>1 DEF Write
<1>3. writes \in Seq(Write) /\ writes' = Append(writes, w)
  BY <1>1 DEF SavesTypeOK, QueueTypeOK, Started
<1>4. /\ writes' \in Seq(Write) /\ Len(writes') = Len(writes) + 1 /\ Len(writes) \in Nat
      /\ writes'[Len(writes) + 1] = w
      /\ \A i \in 1 .. Len(writes) : writes'[i] = writes[i]
  BY <1>2, <1>3
<1>5. \A i \in 1 .. Len(writes') : i \in 1 .. Len(writes) \/ i = Len(writes')
  BY <1>4
<1>6. writes' # <<>>
  BY <1>4
<1>7. QED
  BY <1>1, <1>2, <1>4, <1>5, <1>6

\* The first of the chain leaves it.
LEMMA ChainShrinks ==
  ASSUME SavesAssumption, SavesTypeOK, writes # <<>>, writes' = Tail(writes)
  PROVE  /\ writes' \in Seq(Write) /\ Len(writes') = Len(writes) - 1 /\ Len(writes') \in Nat
         /\ Head(writes) = writes[1] /\ 1 \in 1 .. Len(writes)
         /\ \A i \in 1 .. Len(writes') : writes'[i] = writes[i + 1] /\ i + 1 \in 2 .. Len(writes)
         /\ writes' = <<>> <=> Len(writes) = 1
<1>1. writes \in Seq(Write)
  BY DEF SavesTypeOK, QueueTypeOK
<1>2. /\ writes' \in Seq(Write) /\ Len(writes') = Len(writes) - 1 /\ Len(writes') \in Nat
      /\ Head(writes) = writes[1] /\ Len(writes) \in Nat /\ Len(writes) # 0
      /\ \A i \in 1 .. Len(writes') : writes'[i] = writes[i + 1]
  BY <1>1
<1>3. \A i \in 1 .. Len(writes') : i + 1 \in 2 .. Len(writes)
  BY <1>2
<1>4. writes' = <<>> <=> Len(writes) = 1
  <2>1. \A w \in Seq(Write) : w = <<>> <=> Len(w) = 0
    OBVIOUS
  <2>2. \A n \in Nat : n - 1 = 0 <=> n = 1
    OBVIOUS
  <2>3. QED
    BY <1>2, <2>1, <2>2
<1>5. QED
  BY <1>2, <1>3, <1>4

-----------------------------------------------------------------------------
(* Initially, and after a crash *)

LEMMA InitInv ==
  ASSUME SavesAssumption, SavesInit PROVE SavesInv
<1>1. 0 \in Numbers /\ <<>> \in Seq(Write) /\ Len(<<>>) = 0 /\ \A i : i \notin 1 .. 0
  BY DEF SavesAssumption, Numbers
<1>2. SavesTypeOK
  BY <1>1 DEF SavesInit, QueueInit, SavesTypeOK, QueueTypeOK, Step
<1>3. SavesInOrder
  BY <1>1 DEF SavesInit, QueueInit, SavesInOrder, StepOK, OrderOK
<1>4. Owes
  BY <1>1 DEF SavesInit, QueueInit, Owes, Unfinished, Number
<1>5. Awaits
  BY <1>1 DEF SavesInit, QueueInit, Awaits, Told, Awaited
<1>6. QED
  BY <1>2, <1>3, <1>4, <1>5 DEF SavesInv

LEMMA ExitKeeps ==
  ASSUME SavesAssumption, SavesInv, Exit PROVE SavesInv'
<1>1. SavesTypeOK /\ SavesInOrder
  BY DEF SavesInv
<1>2. /\ pending' = NoSnapshot /\ writes' = <<>> /\ step' = "mkdir" /\ file' = file /\ latest' = latest
      /\ owed' = Number(file) /\ target' = [c \in Caller |-> 0] /\ failed' = FALSE
      /\ result' = [c \in Caller |-> "none"] /\ sig' = NoMeta
  BY DEF Exit, Crash
<1>3. 0 \in Numbers /\ <<>> \in Seq(Write) /\ Len(<<>>) = 0 /\ \A i : i \notin 1 .. 0
  BY DEF SavesAssumption, Numbers
<1>4. Number(file) \in Numbers /\ Number(file) <= latest
  BY <1>1, <1>3, ChainTypes, SnapshotTypes DEF Number, SavesInOrder, OrderOK
<1>5. SavesTypeOK'
  BY <1>1, <1>2, <1>3, <1>4 DEF SavesTypeOK, QueueTypeOK, Step
<1>6. SavesInOrder'
  BY <1>1, <1>2, <1>3 DEF SavesInOrder, StepOK, OrderOK
<1>7. Owes'
  BY <1>2, <1>3, <1>4 DEF Owes, Unfinished, Number
<1>8. Awaits'
  BY <1>1, <1>2, <1>3, ChainTypes DEF Awaits, Told, Awaited
<1>9. QED
  BY <1>5, <1>6, <1>7, <1>8 DEF SavesInv

-----------------------------------------------------------------------------
(* The calls *)

LEMMA SaveEnqueueKeeps ==
  ASSUME SavesAssumption, SavesInv, EnqueueNext PROVE SavesInv'
<1>1. SavesTypeOK /\ latest + 1 \in Numbers /\ latest \in Nat
  BY DEF SavesInv, EnqueueNext, SavesTypeOK, SavesAssumption, Numbers
<1>2. PICK m \in Meta : EnqueueSnapshot([meta |-> m, body |-> latest + 1])
  BY DEF EnqueueNext
<1>3. /\ pending' \in Snapshot /\ pending' # NoSnapshot /\ pending'.body = latest + 1
      /\ latest' = latest + 1 /\ owed' = latest + 1
      /\ UNCHANGED <<file, writes, step, sig, failed, result, target>>
  BY <1>1, <1>2, SnapshotTypes DEF EnqueueNext, EnqueueSnapshot
<1>4. SavesTypeOK'
  BY <1>1, <1>3 DEF SavesTypeOK, QueueTypeOK
<1>5. SavesInOrder'
  <2>1. StepOK'
    BY <1>3 DEF SavesInv, SavesInOrder, StepOK
  <2>2. \A i \in 1 .. Len(writes) : writes[i].snap.body \in Nat /\ writes[i].snap.body <= latest
    BY <1>1, ChainTypes DEF SavesInv, SavesInOrder, OrderOK
  <2>3. file # NoSnapshot => file.body \in Nat /\ file.body <= latest
    BY <1>1, ChainTypes, SnapshotTypes DEF SavesInv, SavesInOrder, OrderOK
  <2>4. OrderOK'
    BY <1>1, <1>3, <2>2, <2>3 DEF SavesInv, SavesInOrder, OrderOK
  <2>5. QED
    BY <2>1, <2>4 DEF SavesInOrder
<1>6. Owes'
  BY <1>1, <1>3 DEF Owes
<1>7. Awaits'
  BY <1>1, <1>3, ChainTypes DEF SavesInv, Awaits, Told, Awaited
<1>8. QED
  BY <1>4, <1>5, <1>6, <1>7 DEF SavesInv

\* The pending snapshot joins the chain, for a caller or for nobody.
LEMMA StartKeeps ==
  ASSUME SavesAssumption, SavesInv, pending # NoSnapshot, pending' = NoSnapshot,
         NEW callers \in SUBSET Caller, writes' = Started(pending, callers),
         UNCHANGED <<file, step, sig, failed, latest, owed>>,
         \A c \in Caller : IF c \in callers THEN result[c] # "waiting" /\ result'[c] = "waiting" /\ target'[c] = owed
                                            ELSE result'[c] = result[c] /\ target'[c] = target[c],
         result' \in [Caller -> {"none", "waiting", "ok", "failed"}], target' \in [Caller -> Numbers]
  PROVE  SavesInv'
<1>1. SavesTypeOK /\ pending \in Snapshot /\ pending.body \in Nat /\ owed = pending.body /\ Len(writes) \in Nat
      /\ owed <= latest
  BY ChainTypes, SnapshotTypes DEF SavesInv, Owes
<1>2. /\ writes' \in Seq(Write) /\ writes' # <<>> /\ Len(writes') = Len(writes) + 1
      /\ writes'[Len(writes')].snap = pending /\ writes'[Len(writes')].waiters = callers
      /\ \A i \in 1 .. Len(writes) : writes'[i] = writes[i]
      /\ \A i \in 1 .. Len(writes') : i \in 1 .. Len(writes) \/ i = Len(writes')
  BY <1>1, ChainGrows
<1>3. SavesTypeOK'
  BY <1>1, <1>2 DEF SavesTypeOK, QueueTypeOK
<1>4. SavesInOrder'
  <2>1. StepOK'
    <3>1. step = "renamed" => writes'[1] = writes[1]
      BY <1>1, <1>2, ChainTypes DEF SavesInv, SavesInOrder, StepOK
    <3>2. QED
      BY <1>2, <3>1 DEF SavesInv, SavesInOrder, StepOK
  <2>2. \A i, j \in 1 .. Len(writes') : i < j => i \in 1 .. Len(writes)
    BY <1>1, <1>2
  <2>3. \A i, j \in 1 .. Len(writes') : i < j => writes'[i].snap.body <= writes'[j].snap.body
    BY <1>1, <1>2, <2>2 DEF SavesInv, SavesInOrder, OrderOK
  <2>4. OrderOK'
    BY <1>1, <1>2, <2>3 DEF SavesInv, SavesInOrder, OrderOK
  <2>5. QED
    BY <2>1, <2>4 DEF SavesInOrder
<1>5. Owes'
  <2>1. Unfinished'
    BY <1>1, <1>2 DEF SavesInv, SavesInOrder, StepOK, Unfinished
  <2>2. QED
    BY <1>1, <1>2, <2>1 DEF Owes
<1>6. ASSUME NEW c \in Caller PROVE Told(c)' /\ Awaited(c)'
  <2>1. Told(c) /\ Awaited(c)
    BY DEF SavesInv, Awaits
  <2>2. CASE c \in callers
    <3>1. result[c] # "waiting" /\ result'[c] = "waiting" /\ target'[c] = owed
      BY <2>2
    <3>2. Told(c)'
      BY <1>1, <3>1 DEF Told
    <3>3. \A i \in 1 .. Len(writes) : c \notin writes[i].waiters
      BY <2>1, <3>1 DEF Awaited
    <3>4. Awaited(c)'
      BY <1>1, <1>2, <3>1, <3>3 DEF Awaited
    <3>5. QED
      BY <3>2, <3>4
  <2>3. CASE c \notin callers
    <3>1. result'[c] = result[c] /\ target'[c] = target[c]
      BY <2>3
    <3>2. Told(c)'
      BY <1>2, <2>1, <3>1 DEF Told
    <3>3. Awaited(c)'
      BY <1>2, <2>1, <2>3, <3>1 DEF Awaited
    <3>4. QED
      BY <3>2, <3>3
  <2>4. QED
    BY <2>2, <2>3
<1>7. QED
  BY <1>3, <1>4, <1>5, <1>6 DEF SavesInv, Awaits

LEMMA TimerKeeps ==
  ASSUME SavesAssumption, SavesInv, Timer PROVE SavesInv'
<1>1. /\ pending # NoSnapshot /\ pending' = NoSnapshot /\ writes' = Started(pending, {})
      /\ UNCHANGED <<file, step, sig, failed, latest, owed, result, target>>
  BY DEF Timer, TimerFires
<1>2. result \in [Caller -> {"none", "waiting", "ok", "failed"}] /\ target \in [Caller -> Numbers]
  BY DEF SavesInv, SavesTypeOK, QueueTypeOK
<1>3. QED
  BY <1>1, <1>2, StartKeeps

LEMMA FlushKeeps ==
  ASSUME SavesAssumption, SavesInv, NEW c \in Caller, FlushCall(c) PROVE SavesInv'
<1>1. /\ SavesTypeOK /\ result[c] # "waiting" /\ target' = [target EXCEPT ![c] = owed] /\ owed \in Numbers
      /\ UNCHANGED <<latest, owed>> /\ result \in [Caller -> {"none", "waiting", "ok", "failed"}]
      /\ target \in [Caller -> Numbers]
  BY DEF SavesInv, FlushCall, SavesTypeOK, QueueTypeOK
<1>2. CASE FlushPending(c)
  <2>1. /\ pending # NoSnapshot /\ pending' = NoSnapshot /\ writes' = Started(pending, {c})
        /\ result' = [result EXCEPT ![c] = "waiting"] /\ UNCHANGED <<file, step, sig, failed>>
    BY <1>2 DEF FlushPending
  <2>2. \A d \in Caller : IF d \in {c} THEN result[d] # "waiting" /\ result'[d] = "waiting" /\ target'[d] = owed
                                       ELSE result'[d] = result[d] /\ target'[d] = target[d]
    BY <1>1, <2>1
  <2>3. result' \in [Caller -> {"none", "waiting", "ok", "failed"}] /\ target' \in [Caller -> Numbers]
    BY <1>1, <2>1
  <2>4. {c} \in SUBSET Caller
    OBVIOUS
  <2>5. QED
    BY <1>1, <2>1, <2>2, <2>3, <2>4, StartKeeps
<1>3. CASE FlushIdle(c)
  <2>1. /\ pending = NoSnapshot /\ writes = <<>> /\ UNCHANGED <<file, pending, writes, step, sig, failed>>
        /\ result' = [result EXCEPT ![c] = IF failed THEN "failed" ELSE "ok"]
    BY <1>3 DEF FlushIdle
  <2>2. SavesTypeOK'
    BY <1>1, <2>1 DEF SavesTypeOK, QueueTypeOK
  <2>3. SavesInOrder' /\ Owes'
    BY <1>1, <2>1 DEF SavesInv, SavesInOrder, StepOK, OrderOK, Owes, Unfinished, Number
  <2>4. \A i : i \notin 1 .. Len(writes)
    BY <2>1
  <2>5. ~failed /\ file # NoSnapshot => owed = file.body
    BY <2>1, <2>4 DEF SavesInv, Owes, Unfinished, Number
  <2>6. ASSUME NEW d \in Caller PROVE Told(d)' /\ Awaited(d)'
    <3>1. CASE d = c
      <4>1. target'[d] = owed /\ owed <= latest /\ (result'[d] = "ok" => ~failed)
        BY <1>1, <2>1, <3>1 DEF SavesInv, Owes
      <4>2. owed \in Nat
        BY <1>1, ChainTypes
      <4>3. QED
        BY <1>1, <2>1, <2>4, <2>5, <4>1, <4>2 DEF Told, Awaited
    <3>2. CASE d # c
      BY <1>1, <2>1, <3>2 DEF SavesInv, Awaits, Told, Awaited
    <3>3. QED
      BY <3>1, <3>2
  <2>7. QED
    BY <2>2, <2>3, <2>6 DEF SavesInv, Awaits
<1>4. CASE FlushJoins(c)
  <2>1. /\ pending = NoSnapshot /\ writes # <<>> /\ UNCHANGED <<file, pending, step, sig, failed>>
        /\ writes' = [writes EXCEPT ![Len(writes)].waiters = @ \cup {c}]
        /\ result' = [result EXCEPT ![c] = "waiting"]
    BY <1>4 DEF FlushJoins
  <2>2. /\ writes' \in Seq(Write) /\ Len(writes') = Len(writes) /\ Len(writes) \in 1 .. Len(writes)
        /\ \A i \in 1 .. Len(writes) :
             /\ writes'[i].snap = writes[i].snap
             /\ writes'[i].waiters = IF i = Len(writes) THEN writes[i].waiters \cup {c} ELSE writes[i].waiters
    <3>1. writes \in Seq(Write) /\ Len(writes) \in 1 .. Len(writes)
      BY <1>1, <2>1, ChainTypes
    <3>2. PICK w : w = [writes[Len(writes)] EXCEPT !.waiters = @ \cup {c}]
      OBVIOUS
    <3>3. w \in Write /\ w.snap = writes[Len(writes)].snap /\ w.waiters = writes[Len(writes)].waiters \cup {c}
      BY <1>1, <3>1, <3>2, ChainTypes DEF Write
    <3>4. writes' = [writes EXCEPT ![Len(writes)] = w]
      BY <2>1, <3>2
    <3>5. /\ writes' \in Seq(Write) /\ Len(writes') = Len(writes)
          /\ \A i \in 1 .. Len(writes) : writes'[i] = IF i = Len(writes) THEN w ELSE writes[i]
      BY <3>1, <3>3, <3>4
    <3>6. QED
      BY <3>1, <3>3, <3>5
  <2>3. writes' # <<>> /\ 1 \in 1 .. Len(writes)
    BY <2>1, <2>2
  <2>4. SavesTypeOK'
    BY <1>1, <2>1, <2>2 DEF SavesTypeOK, QueueTypeOK
  <2>5. SavesInOrder'
    BY <1>1, <2>1, <2>2, <2>3 DEF SavesInv, SavesInOrder, StepOK, OrderOK
  <2>6. Owes'
    BY <1>1, <2>1, <2>2, <2>3 DEF SavesInv, Owes, Unfinished, Number
  <2>7. owed <= writes[Len(writes)].snap.body /\ owed <= latest
    <3>1. CASE Unfinished
      BY <1>1, <2>1, <2>2, <3>1, ChainTypes DEF SavesInv, Owes
    <3>2. CASE ~Unfinished
      <4>1. Len(writes) = 1 /\ step = "renamed"
        BY <2>2, <3>2 DEF Unfinished
      <4>2. owed = Number(file) /\ (file = NoSnapshot \/ file.body = writes[1].snap.body)
        BY <2>1, <3>2, <4>1 DEF SavesInv, Owes, SavesInOrder, StepOK
      <4>3. QED
        BY <1>1, <2>2, <4>1, <4>2, ChainTypes DEF Number, SavesInv, Owes
    <3>3. QED
      BY <3>1, <3>2
  <2>8. ASSUME NEW d \in Caller PROVE Told(d)' /\ Awaited(d)'
    <3>1. Told(d) /\ Awaited(d)
      BY DEF SavesInv, Awaits
    <3>2. CASE d = c
      <4>1. target'[d] = owed /\ result'[d] = "waiting" /\ \A i \in 1 .. Len(writes) : d \notin writes[i].waiters
        BY <1>1, <2>1, <3>1, <3>2 DEF Awaited
      <4>2. \A i \in 1 .. Len(writes) : d \in writes'[i].waiters => i = Len(writes)
        BY <2>2, <4>1
      <4>3. QED
        BY <1>1, <2>2, <2>7, <4>1, <4>2 DEF Told, Awaited
    <3>3. CASE d # c
      <4>1. target'[d] = target[d] /\ result'[d] = result[d]
        BY <1>1, <2>1, <3>3
      <4>2. \A i \in 1 .. Len(writes) : d \in writes'[i].waiters => d \in writes[i].waiters
        BY <2>2, <3>3
      <4>3. Told(d)'
        BY <1>1, <2>1, <2>2, <3>1, <4>1 DEF Told
      <4>4. Awaited(d)'
        BY <1>1, <2>1, <2>2, <3>1, <4>1, <4>2 DEF Awaited
      <4>5. QED
        BY <4>3, <4>4
    <3>4. QED
      BY <3>2, <3>3
  <2>9. QED
    BY <2>4, <2>5, <2>6, <2>8 DEF SavesInv, Awaits
<1>5. QED
  BY <1>2, <1>3, <1>4 DEF FlushCall, Flush

\* cancel and deleteSession drop what is pending and what had failed.
LEMMA DropKeeps ==
  ASSUME SavesAssumption, SavesInv, CancelCall \/ DeleteCall PROVE SavesInv'
<1>1. /\ SavesTypeOK /\ pending' = NoSnapshot /\ sig' = NoMeta /\ failed' = FALSE
      /\ UNCHANGED <<writes, result, latest, target>>
      /\ file' \in {file, NoSnapshot} /\ step' \in {step, "lost"} /\ (step' # step => step \in {"temp", "rename"})
      /\ owed' = IF Unfinished THEN writes[Len(writes)].snap.body ELSE Number(file')
  BY DEF SavesInv, CancelCall, DeleteCall, Cancel, Delete, RemoveDirectory, Held
<1>2. /\ file \in Snapshot \cup {NoSnapshot} /\ Number(file') \in Numbers /\ Number(file') <= latest
      /\ Len(writes) \in Nat /\ (Unfinished => Len(writes) \in 1 .. Len(writes))
      /\ \A i \in 1 .. Len(writes) : writes[i].snap.body \in Numbers /\ writes[i].snap.body <= latest
  <2>1. file \in Snapshot \cup {NoSnapshot} /\ latest \in Nat /\ 0 \in Numbers /\ 0 <= latest
        /\ Len(writes) \in Nat /\ \A i \in 1 .. Len(writes) : writes[i].snap \in Snapshot
    BY <1>1, ChainTypes DEF Numbers, SavesAssumption
  <2>2. Number(file') \in Numbers /\ Number(file') <= latest
    BY <1>1, <2>1, SnapshotTypes DEF Number, SavesInv, SavesInOrder, OrderOK
  <2>3. QED
    BY <2>1, <2>2, SnapshotTypes DEF Unfinished, SavesInv, SavesInOrder, OrderOK
<1>3. SavesTypeOK'
  BY <1>1, <1>2 DEF SavesTypeOK, QueueTypeOK, Step
<1>4. Unfinished' <=> Unfinished
  BY <1>1 DEF Unfinished
<1>5. SavesInOrder'
  BY <1>1 DEF SavesInv, SavesInOrder, StepOK, OrderOK
<1>6. Owes'
  BY <1>1, <1>2, <1>4 DEF Owes, Number
<1>7. Awaits'
  BY <1>1 DEF SavesInv, Awaits, Told, Awaited
<1>8. QED
  BY <1>3, <1>5, <1>6, <1>7 DEF SavesInv

-----------------------------------------------------------------------------
(* The file system calls *)

\* Merging changes the metadata only.
LEMMA MadeKeeps ==
  ASSUME SavesAssumption, SavesInv, DirectoryMade, UNCHANGED <<latest, owed, target>> PROVE SavesInv'
<1>1. /\ SavesTypeOK /\ writes # <<>> /\ step = "mkdir" /\ step' = "temp"
      /\ writes' = [writes EXCEPT ![1].snap = Merged(@)]
      /\ UNCHANGED <<file, pending, sig, failed, result>>
  BY DEF SavesInv, DirectoryMade
<1>2. writes \in Seq(Write) /\ 1 \in 1 .. Len(writes) /\ writes[1].snap \in Snapshot
      /\ writes[1] \in Write /\ Len(writes) \in Nat /\ file \in Snapshot \cup {NoSnapshot}
  BY <1>1, ChainTypes
<1>3. PICK s : s = Merged(writes[1].snap)
  OBVIOUS
<1>4. s \in Snapshot /\ s.body = writes[1].snap.body
  BY <1>2, <1>3, SnapshotTypes DEF Merged, Snapshot
<1>5. PICK w : w = [writes[1] EXCEPT !.snap = s]
  OBVIOUS
<1>6. w \in Write /\ w.snap = s /\ w.waiters = writes[1].waiters
  BY <1>2, <1>4, <1>5 DEF Write
<1>7. writes' = [writes EXCEPT ![1] = w]
  BY <1>1, <1>3, <1>5
<1>8. /\ writes' \in Seq(Write) /\ Len(writes') = Len(writes)
      /\ \A i \in 1 .. Len(writes) :
           writes'[i].snap.body = writes[i].snap.body /\ writes'[i].waiters = writes[i].waiters
  BY <1>2, <1>4, <1>6, <1>7
<1>9. writes' # <<>>
  BY <1>2, <1>8
<1>10. SavesTypeOK'
  BY <1>1, <1>8 DEF SavesTypeOK, QueueTypeOK, Step
<1>11. SavesInOrder'
  BY <1>1, <1>8, <1>9 DEF SavesInv, SavesInOrder, StepOK, OrderOK
<1>12. Owes'
  <2>1. Unfinished /\ Unfinished' /\ Len(writes) \in 1 .. Len(writes)
    BY <1>1, <1>2, <1>8 DEF Unfinished
  <2>2. QED
    BY <1>1, <1>8, <2>1 DEF SavesInv, Owes
<1>13. Awaits'
  BY <1>1, <1>8 DEF SavesInv, Awaits, Told, Awaited
<1>14. QED
  BY <1>10, <1>11, <1>12, <1>13 DEF SavesInv

LEMMA StepKeeps ==
  ASSUME SavesAssumption, SavesInv, TempWritten \/ WriteFailed, UNCHANGED <<latest, owed, target>> PROVE SavesInv'
<1>1. /\ UNCHANGED <<file, pending, writes, sig, failed, result>>
      /\ step \in {"temp", "rename", "lost"} /\ step' \in {"rename", "unwritten"}
  BY DEF TempWritten, WriteFailed
<1>2. SavesTypeOK'
  BY <1>1 DEF SavesInv, SavesTypeOK, QueueTypeOK, Step
<1>3. SavesInOrder'
  BY <1>1 DEF SavesInv, SavesInOrder, StepOK, OrderOK
<1>4. Owes'
  BY <1>1 DEF SavesInv, Owes, Unfinished
<1>5. Awaits'
  BY <1>1 DEF SavesInv, Awaits, Told, Awaited
<1>6. QED
  BY <1>2, <1>3, <1>4, <1>5 DEF SavesInv

LEMMA RenamedKeeps ==
  ASSUME SavesAssumption, SavesInv, Renamed, UNCHANGED <<latest, owed, target>> PROVE SavesInv'
<1>1. /\ SavesTypeOK /\ step = "rename" /\ writes # <<>> /\ file' = Head(writes).snap /\ sig' = Head(writes).snap.meta
      /\ step' = "renamed" /\ UNCHANGED <<pending, writes, failed, result>>
  BY DEF SavesInv, Renamed, SavesInOrder, StepOK
<1>2. Head(writes) = writes[1] /\ 1 \in 1 .. Len(writes) /\ writes[1].snap \in Snapshot /\ Len(writes) \in Nat
  BY <1>1, ChainTypes
<1>3. file' = writes[1].snap /\ file' # NoSnapshot /\ file' \in Snapshot /\ sig' \in Meta
  BY <1>1, <1>2, SnapshotTypes
<1>4. SavesTypeOK'
  BY <1>1, <1>3 DEF SavesTypeOK, QueueTypeOK, Step
<1>5. \A i \in 1 .. Len(writes) : writes[1].snap.body <= writes[i].snap.body
  <2>1. \A i \in 1 .. Len(writes) : i = 1 \/ 1 < i
    BY <1>2
  <2>2. writes[1].snap.body <= writes[1].snap.body
    BY <1>1, <1>2, ChainTypes
  <2>3. QED
    BY <1>2, <2>1, <2>2 DEF SavesInv, SavesInOrder, OrderOK
<1>6. SavesInOrder'
  BY <1>1, <1>2, <1>3, <1>5 DEF SavesInv, SavesInOrder, StepOK, OrderOK
<1>7. Owes'
  <2>1. Unfinished
    BY <1>1, <1>2 DEF Unfinished
  <2>2. ~Unfinished' => Len(writes) = 1
    <3>1. \A n \in Nat : 1 \in 1 .. n /\ ~(n > 1) => n = 1
      OBVIOUS
    <3>2. Unfinished' <=> Len(writes) > 1
      BY <1>1 DEF Unfinished
    <3>3. QED
      BY <1>2, <3>1, <3>2
  <2>3. QED
    BY <1>1, <1>3, <2>1, <2>2 DEF SavesInv, Owes, Number
<1>8. Awaits'
  BY <1>1, <1>2, <1>3 DEF SavesInv, Awaits, Told, Awaited
<1>9. QED
  BY <1>4, <1>6, <1>7, <1>8 DEF SavesInv

\* The first write settles and its callers are told.
LEMMA SettledKeeps ==
  ASSUME SavesAssumption, SavesInv, DirectoryFailed \/ Unlinked, UNCHANGED <<latest, owed, target>> PROVE SavesInv'
<1>1. PICK ok \in BOOLEAN : Settled(ok) /\ (ok => step = "renamed") /\ (~ok => step # "renamed")
  BY DEF DirectoryFailed, Unlinked
<1>2. /\ SavesTypeOK /\ writes # <<>> /\ writes' = Tail(writes) /\ step' = "mkdir" /\ failed' = ~ok
      /\ result' = [c \in Caller |->
             IF c \in Head(writes).waiters THEN IF ok THEN "ok" ELSE "failed" ELSE result[c]]
      /\ UNCHANGED <<file, pending, sig>>
  BY <1>1 DEF SavesInv, SavesInOrder, StepOK, DirectoryFailed, Unlinked, Settled
<1>3. /\ writes' \in Seq(Write) /\ Len(writes') = Len(writes) - 1 /\ Len(writes') \in Nat
      /\ Head(writes) = writes[1] /\ 1 \in 1 .. Len(writes)
      /\ \A i \in 1 .. Len(writes') : writes'[i] = writes[i + 1] /\ i + 1 \in 2 .. Len(writes)
      /\ (writes' = <<>> <=> Len(writes) = 1)
  BY <1>2, ChainShrinks
<1>4. Len(writes) \in Nat /\ \A i \in 1 .. Len(writes') : i + 1 \in 1 .. Len(writes) /\ i + 1 # 1 /\ 1 < i + 1
  BY <1>2, <1>3, ChainTypes
<1>5. SavesTypeOK'
  <2>1. result' \in [Caller -> {"none", "waiting", "ok", "failed"}]
    BY <1>2 DEF SavesTypeOK, QueueTypeOK
  <2>2. QED
    BY <1>1, <1>2, <1>3, <2>1 DEF SavesTypeOK, QueueTypeOK, Step
<1>6. SavesInOrder'
  <2>1. \A i, j \in 1 .. Len(writes') : i < j => i + 1 < j + 1
    BY <1>3
  <2>2. \A i, j \in 1 .. Len(writes') : i < j => writes'[i].snap.body <= writes'[j].snap.body
    BY <1>3, <1>4, <2>1 DEF SavesInv, SavesInOrder, OrderOK
  <2>3. OrderOK'
    BY <1>2, <1>3, <1>4, <2>2 DEF SavesInv, SavesInOrder, OrderOK
  <2>4. StepOK'
    BY <1>2 DEF StepOK
  <2>5. QED
    BY <2>3, <2>4 DEF SavesInOrder
<1>7. Owes'
  <2>1. CASE Len(writes) = 1
    <3>1. writes' = <<>> /\ Len(writes') = 0
      BY <1>3, <2>1
    <3>2. ~Unfinished'
      BY <1>2, <3>1 DEF Unfinished
    <3>3. ~failed' => ~Unfinished
      <4>1. failed' \/ step = "renamed"
        BY <1>1, <1>2
      <4>2. step = "renamed" => ~Unfinished
        BY <2>1 DEF Unfinished
      <4>3. QED
        BY <4>1, <4>2
    <3>4. QED
      BY <1>2, <3>1, <3>2, <3>3 DEF SavesInv, Owes, Number
  <2>2. CASE Len(writes) # 1
    <3>1. Unfinished /\ Unfinished' /\ Len(writes') \in 1 .. Len(writes') /\ Len(writes') + 1 = Len(writes)
      BY <1>2, <1>3, <1>4, <2>2 DEF Unfinished
    <3>2. writes'[Len(writes')] = writes[Len(writes)]
      BY <1>3, <3>1
    <3>3. QED
      BY <1>2, <3>1, <3>2 DEF SavesInv, Owes
  <2>3. QED
    BY <2>1, <2>2
<1>8. ASSUME NEW c \in Caller PROVE Told(c)' /\ Awaited(c)'
  <2>1. Told(c) /\ Awaited(c)
    BY DEF SavesInv, Awaits
  <2>2. \A i \in 1 .. Len(writes') : writes[1].snap.body <= writes'[i].snap.body
    BY <1>3, <1>4 DEF SavesInv, SavesInOrder, OrderOK
  <2>3. CASE c \in writes[1].waiters
    <3>1. target[c] <= writes[1].snap.body /\ result'[c] # "waiting" /\ (result'[c] = "ok" => step = "renamed")
          /\ \A i \in 1 .. Len(writes') : c \notin writes'[i].waiters
      BY <1>1, <1>2, <1>3, <1>4, <2>1, <2>3 DEF Awaited
    <3>2. /\ target[c] \in Nat /\ writes[1].snap.body \in Nat
          /\ \A i \in 1 .. Len(writes') : writes'[i].snap.body \in Nat
          /\ (pending # NoSnapshot => pending.body \in Nat)
      BY <1>2, <1>3, <1>4, ChainTypes, SnapshotTypes
    <3>3. /\ step = "renamed" /\ file # NoSnapshot => file.body = writes[1].snap.body
          /\ pending # NoSnapshot => writes[1].snap.body <= pending.body
      BY <1>3 DEF SavesInv, SavesInOrder, StepOK, OrderOK
    <3>4. Told(c)'
      BY <1>2, <2>1, <2>2, <3>1, <3>2, <3>3 DEF Told
    <3>5. Awaited(c)'
      BY <3>1 DEF Awaited
    <3>6. QED
      BY <3>4, <3>5
  <2>4. CASE c \notin writes[1].waiters
    <3>1. result'[c] = result[c]
      BY <1>2, <1>3, <2>4
    <3>2. Told(c)'
      BY <1>2, <1>3, <1>4, <2>1, <3>1 DEF Told
    <3>3. \A i, j \in 1 .. Len(writes') : i + 1 = j + 1 => i = j
      BY <1>3
    <3>4. Awaited(c)'
      BY <1>2, <1>3, <1>4, <2>1, <3>1, <3>3 DEF Awaited
    <3>5. QED
      BY <3>2, <3>4
  <2>5. QED
    BY <2>3, <2>4
<1>9. QED
  BY <1>5, <1>6, <1>7, <1>8 DEF SavesInv, Awaits

-----------------------------------------------------------------------------
(* Invariants of the specification *)

LEMMA SavesInvStep ==
  ASSUME SavesAssumption, SavesInv, [SavesNext]_savesVars PROVE SavesInv'
<1>1. CASE UNCHANGED savesVars
  BY <1>1 DEF savesVars, queueVars, SavesInv, SavesTypeOK, QueueTypeOK, SavesInOrder, StepOK, OrderOK, Owes, Unfinished,
     Number, Awaits, Told, Awaited
<1>2. CASE FileSystem
  BY <1>2, MadeKeeps, StepKeeps, RenamedKeeps, SettledKeeps DEF FileSystem, WriteStep
<1>3. QED
  BY <1>1, <1>2, SaveEnqueueKeeps, TimerKeeps, DropKeeps, FlushKeeps, ExitKeeps DEF SavesNext

LEMMA SavesInvCorrect ==
  ASSUME SavesAssumption PROVE SavesSpec => []SavesInv
<1>1. SavesInit => SavesInv
  BY InitInv
<1>2. SavesInv /\ [SavesNext]_savesVars => SavesInv'
  BY SavesInvStep
<1>3. QED
  BY <1>1, <1>2, PTL DEF SavesSpec

\* The file, the chain of writes and the results keep their types, and no
\* number is above the last snapshot that may be enqueued.
THEOREM SavesTypeCorrect ==
  ASSUME SavesAssumption PROVE SavesSpec => []SavesTypeOK
<1>1. SavesInv => SavesTypeOK
  BY DEF SavesInv
<1>2. QED
  BY <1>1, SavesInvCorrect, PTL

\* flush tells the truth: what it reported as stored is in the file, unless
\* the session was deleted, and nothing is lost without a failure on record.
THEOREM FlushesTellTheTruth ==
  ASSUME SavesAssumption PROVE SavesSpec => []FlushesAreTruthful
<1>1. ASSUME SavesInv PROVE FlushesAreTruthful
  <2>1. FlushedIsStored
    BY <1>1, ChainTypes, SnapshotTypes DEF SavesInv, Awaits, Told, FlushedIsStored
  <2>2. LossIsRecorded
    <3>1. writes = <<>> => ~Unfinished
      BY DEF Unfinished
    <3>2. QED
      BY <1>1, <3>1 DEF SavesInv, Owes, LossIsRecorded
  <2>3. QED
    BY <2>1, <2>2 DEF FlushesAreTruthful
<1>2. QED
  BY <1>1, SavesInvCorrect, PTL

\* However timers, flushes, deletions, failures and crashes interleave, no
\* rename puts an older snapshot in the place of a newer one.
THEOREM NoOlderSnapshot ==
  ASSUME SavesAssumption PROVE SavesSpec => NewestStays
<1>1. ASSUME SavesInv, [SavesNext]_savesVars, file # NoSnapshot, file' # NoSnapshot PROVE file'.body >= file.body
  <2>1. file' = file \/ (writes # <<>> /\ file' = Head(writes).snap)
    BY <1>1 DEF SavesInv, SavesInOrder, StepOK, SavesNext, EnqueueNext, EnqueueSnapshot, Timer, TimerFires, CancelCall, DeleteCall,
       Delete, RemoveDirectory, FlushCall, Flush, FlushPending, FlushJoins, FlushIdle, FileSystem, WriteStep,
       DirectoryMade, DirectoryFailed, TempWritten, WriteFailed, Renamed, Unlinked, Exit, Crash, savesVars, queueVars
  <2>2. file.body \in Nat
    BY <1>1, ChainTypes, SnapshotTypes DEF SavesInv
  <2>3. writes # <<>> => Head(writes) = writes[1] /\ 1 \in 1 .. Len(writes) /\ writes[1].snap.body \in Nat
    BY <1>1, ChainTypes DEF SavesInv
  <2>4. QED
    BY <1>1, <2>1, <2>2, <2>3 DEF SavesInv, SavesInOrder, OrderOK
<1>2. QED
  BY <1>1, SavesInvCorrect, PTL DEF SavesSpec, NewestStays

-----------------------------------------------------------------------------
(* The subtasks of a run *)

Phases == {"unused", "waiting", "granted", "running", "refused", "ended", "rejected", "gone"}
CallType == [run : Runs \cup {"none"}, subs : SUBSET Subtasks,
             state : {"unused", "waiting", "answered", "failed", "gone"}]

WorkOK ==
  /\ cancelled \subseteq Runs /\ expired \subseteq Subtasks
  /\ slots \in Nat /\ waiters \in Seq(Subtasks)
  /\ phase \in [Subtasks -> Phases]
RecordsOK ==
  /\ calls \in [Calls -> CallType]
  /\ status \in [Subtasks -> {"none", "queued", "running"} \cup Final]
  /\ report \in [Subtasks -> {"none", "queued", "running", "torn", "interrupted"} \cup Final]
  /\ scope \in [Runs -> Nat] /\ power \in {"on", "off", "recovered"}
SubtasksOK == WorkOK /\ RecordsOK

Owners ==
  /\ \A k \in Calls : calls[k].state = "unused" => calls[k].subs = {}
  /\ \A k, l \in Calls, c \in Subtasks : c \in calls[k].subs /\ c \in calls[l].subs => k = l
  /\ power = "on" =>
       \A c \in Subtasks : phase[c] # "unused" <=> \E k \in Calls : c \in calls[k].subs
  /\ power = "on" => \A c \in expired : phase[c] # "unused"

Queue ==
  /\ slots = Cardinality(Holders) /\ slots <= MaxSlots
  /\ waiters # <<>> => slots = MaxSlots
  /\ \A c \in Subtasks : phase[c] = "waiting" <=> \E i \in 1 .. Len(waiters) : waiters[i] = c
  /\ \A c \in Subtasks : phase[c] = "waiting" => ~Stopped(c)
  /\ \A i, j \in 1 .. Len(waiters) : waiters[i] = waiters[j] => i = j

SubtasksOf(r) == UNION {calls[k].subs : k \in {k \in Calls : calls[k].run = r}}

Budget ==
  power = "on" => \A r \in Runs : scope[r] = Cardinality(SubtasksOf(r)) /\ scope[r] <= MaxSubtasks

\* The report of a subtask says what became of it.
Accounted(c) == report[c] = status[c] /\ status[c] \in Final
Reports ==
  /\ power = "on" =>
       /\ \A c \in Subtasks : IF phase[c] = "ended" THEN Accounted(c) ELSE report[c] \notin Final
       /\ \A k \in Calls : calls[k].state = "answered" => \A c \in calls[k].subs : phase[c] = "ended"
  /\ \A k \in Calls : calls[k].state = "answered" => \A c \in calls[k].subs : Accounted(c)
  /\ \A c \in Subtasks : report[c] \in Final => Accounted(c)

SubtasksInv == SubtasksOK /\ Owners /\ Queue /\ Budget /\ Reports

-----------------------------------------------------------------------------
(* The ranks of the members of a finite set of numbers are the numbers up  *)
(* to its size, each once.                                                 *)
LEMMA Ranks ==
  ASSUME NEW n \in Nat, NEW left \in SUBSET (1 .. n)
  PROVE  /\ IsFiniteSet(left) /\ Cardinality(left) \in Nat
         /\ \A i \in left : Cardinality({h \in left : h <= i}) \in 1 .. Cardinality(left)
         /\ \A i, j \in left :
              Cardinality({h \in left : h <= i}) = Cardinality({h \in left : h <= j}) => i = j
         /\ \A r \in 1 .. Cardinality(left) :
              \E i \in left : Cardinality({h \in left : h <= i}) = r
<1> DEFINE Low(i) == {h \in left : h <= i}
           rank == [i \in left |-> Cardinality(Low(i))]
           N == Cardinality(left)
<1>1. IsFiniteSet(left) /\ N \in Nat
  <2>1. IsFiniteSet(1 .. n)
    BY FS_Interval
  <2> QED BY <2>1, FS_Subset, FS_CardinalityType
<1>2. \A i \in left : IsFiniteSet(Low(i)) /\ Cardinality(Low(i)) \in Nat
                      /\ Cardinality(Low(i)) <= N
  <2> TAKE i \in left
  <2>1. Low(i) \in SUBSET left
    OBVIOUS
  <2> HIDE DEF Low
  <2> QED BY <1>1, <2>1, FS_Subset, FS_CardinalityType
<1>3. \A i \in left : Cardinality(Low(i)) # 0
  <2> TAKE i \in left
  <2>1. i \in Low(i)
    OBVIOUS
  <2> HIDE DEF Low
  <2> QED BY <1>2, <2>1, FS_EmptySet
<1>4. ASSUME NEW i \in left, NEW j \in left, i < j
      PROVE  Cardinality(Low(i)) # Cardinality(Low(j))
  <2>1. \A h \in left : h \in Nat /\ (h <= i => h <= j)
    BY <1>4
  <2>2. j <= j /\ ~(j <= i)
    BY <1>4
  <2>3. Low(i) \in SUBSET Low(j) /\ j \in Low(j) /\ j \notin Low(i)
    BY <2>1, <2>2
  <2> HIDE DEF Low
  <2> QED BY <1>2, <2>3, FS_Subset
<1>5. rank \in Injection(left, 1 .. N)
  <2>1. rank \in [left -> 1 .. N]
    <3> HIDE DEF Low, N
    <3> QED BY <1>1, <1>2, <1>3
  <2>2. ASSUME NEW i \in left, NEW j \in left, rank[i] = rank[j] PROVE i = j
    <3>1. i \in Nat /\ j \in Nat
      OBVIOUS
    <3> HIDE DEF Low, N
    <3> QED BY <2>2, <3>1, <1>4
  <2> HIDE DEF rank
  <2> QED BY <2>1, <2>2 DEF Injection, IsInjective
<1>6. rank \in Surjection(left, 1 .. N)
  <2>1. IsFiniteSet(1 .. N) /\ Cardinality(1 .. N) = N
    BY <1>1, FS_Interval
  <2> HIDE DEF rank
  <2> QED BY <1>5, <2>1, FS_Injection
<1>7. \A r \in 1 .. N : \E i \in left : rank[i] = r
  <2> HIDE DEF rank
  <2> QED BY <1>6 DEF Surjection
<1>8. \A i, j \in left : rank[i] = rank[j] => i = j
  <2>1. rank \in [left -> 1 .. N] /\ IsInjective(rank)
    <3> HIDE DEF rank
    <3> QED BY <1>5 DEF Injection
  <2>2. DOMAIN rank = left
    OBVIOUS
  <2> HIDE DEF rank
  <2> QED BY <2>1, <2>2 DEF IsInjective
<1>9. \A i \in left : rank[i] = Cardinality(Low(i))
  OBVIOUS
<1> HIDE DEF rank
<1> QED
  <2> HIDE DEF Low, N
  <2>1. \A i \in left : rank[i] = Cardinality(Low(i)) /\ rank[i] \in 1 .. N
    BY <1>1, <1>2, <1>3, <1>9
  <2>2. \A i, j \in left : Cardinality(Low(i)) = Cardinality(Low(j)) => i = j
    BY <1>8, <2>1
  <2>3. \A r \in 1 .. N : \E i \in left : Cardinality(Low(i)) = r
    BY <1>7, <2>1
  <2> QED BY <1>1, <2>1, <2>2, <2>3 DEF Low, N

(* What Without yields: the others, each once if they were there once.     *)
OthersOf(v, q, cs) ==
  /\ v \in Seq(Subtasks)
  /\ \A j \in 1 .. Len(v) : v[j] \notin cs /\ \E i \in 1 .. Len(q) : q[i] = v[j]
  /\ \A i \in 1 .. Len(q) : q[i] \notin cs => \E j \in 1 .. Len(v) : v[j] = q[i]
  /\ v # <<>> => q # <<>>
  /\ (\A i, j \in 1 .. Len(q) : q[i] = q[j] => i = j)
       => \A i, j \in 1 .. Len(v) : v[i] = v[j] => i = j

(* A queue without some of its members: the others, once each.             *)
LEMMA WithoutIs ==
  ASSUME NEW q \in Seq(Subtasks), NEW cs
  PROVE  OthersOf(Without(q, cs), q, cs)
<1> DEFINE left == {i \in 1 .. Len(q) : q[i] \notin cs}
           Rank(i) == Cardinality({h \in left : h <= i})
           N == Cardinality(left)
           at == [j \in 1 .. N |-> CHOOSE i \in left : Rank(i) = j]
           w == [j \in 1 .. N |-> q[CHOOSE i \in left : Rank(i) = j]]
<1>1. /\ IsFiniteSet(left) /\ N \in Nat
      /\ \A i \in left : Rank(i) \in 1 .. N
      /\ \A i, j \in left : Rank(i) = Rank(j) => i = j
      /\ \A r \in 1 .. N : \E i \in left : Rank(i) = r
  <2>1. Len(q) \in Nat /\ left \in SUBSET (1 .. Len(q))
    OBVIOUS
  <2> HIDE DEF left
  <2> QED BY <2>1, Ranks
<1>2. Without(q, cs) = w
  BY DEF Without
<1>3. \A i \in left : i \in 1 .. Len(q) /\ q[i] \in Subtasks /\ q[i] \notin cs
  OBVIOUS
<1>4. \A i \in 1 .. Len(q) : q[i] \notin cs => i \in left
  OBVIOUS
<1> HIDE DEF left, Rank, N
<1>5. \A j \in 1 .. N : at[j] \in left /\ Rank(at[j]) = j /\ w[j] = q[at[j]]
  BY <1>1
<1>6. w \in Seq(Subtasks) /\ Len(w) = N
  <2>1. \A j \in 1 .. N : w[j] \in Subtasks
    BY <1>3, <1>5
  <2>2. w \in [1 .. N -> Subtasks]
    BY <2>1
  <2> HIDE DEF w
  <2> QED BY <1>1, <2>2
<1>7. \A i \in left : \E j \in 1 .. N : at[j] = i
  BY <1>1, <1>5
<1> HIDE DEF at, w
<1>8. \A i \in 1 .. Len(q) : q[i] \notin cs => \E j \in 1 .. Len(w) : w[j] = q[i]
  BY <1>4, <1>5, <1>6, <1>7
<1>9. w # <<>> => q # <<>>
  <2>1. SUFFICES ASSUME w # <<>> PROVE q # <<>>
    OBVIOUS
  <2>2. 1 \in 1 .. N
    BY <1>1, <1>6, <2>1
  <2> QED BY <2>2, <1>3, <1>5
<1>10. ASSUME \A i, j \in 1 .. Len(q) : q[i] = q[j] => i = j
       PROVE  \A i, j \in 1 .. Len(w) : w[i] = w[j] => i = j
  <2> TAKE i, j \in 1 .. Len(w)
  <2> HAVE w[i] = w[j]
  <2>1. at[i] = at[j]
    BY <1>3, <1>5, <1>6, <1>10
  <2> QED BY <2>1, <1>5, <1>6
<1>11. \A j \in 1 .. Len(w) : w[j] \notin cs /\ \E i \in 1 .. Len(q) : q[i] = w[j]
  BY <1>3, <1>5, <1>6
<1> QED BY <1>2, <1>6, <1>8, <1>9, <1>10, <1>11 DEF OthersOf

-----------------------------------------------------------------------------
(* A call of a subtask is its only one.                                    *)
LEMMA OneCall ==
  ASSUME NEW m, \A k, l \in Calls, c \in Subtasks : c \in m[k].subs /\ c \in m[l].subs => k = l,
         NEW k \in Calls, NEW c \in Subtasks, c \in m[k].subs
  PROVE  (CHOOSE l \in Calls : c \in m[l].subs) = k
OBVIOUS

(* The order o in which the subtasks of a call ask for a slot names each   *)
(* of them once, and its first f are as many as slots are free.            *)
Ordered(o, f, asking) ==
  /\ Cardinality(asking) \in Nat /\ o \in Seq(asking) /\ Len(o) = Cardinality(asking)
  /\ \A i, j \in 1 .. Len(o) : o[i] = o[j] => i = j
  /\ \A c \in asking : \E i \in 1 .. Len(o) : o[i] = c
  /\ IsFiniteSet({o[i] : i \in 1 .. f}) /\ Cardinality({o[i] : i \in 1 .. f}) = f

LEMMA Granting ==
  ASSUME IsFiniteSet(Subtasks), NEW asking \in SUBSET Subtasks,
         NEW order \in Orders(asking), NEW free \in 0 .. Cardinality(asking)
  PROVE  Ordered(order, free, asking)
<1> DEFINE n == Cardinality(asking)
           granted == {order[i] : i \in 1 .. free}
           some == [i \in 1 .. free |-> order[i]]
<1>1. IsFiniteSet(asking) /\ n \in Nat
  BY FS_Subset, FS_CardinalityType
<1>2. order \in [1 .. n -> asking] /\ {order[i] : i \in DOMAIN order} = asking
  BY DEF Orders
<1>3. DOMAIN order = 1 .. n
  BY <1>2
<1>4. \A c \in asking : \E i \in 1 .. n : order[i] = c
  BY <1>2, <1>3
<1>5. order \in Surjection(1 .. n, asking)
  BY <1>2, <1>4 DEF Surjection
<1>6. IsFiniteSet(1 .. n) /\ Cardinality(1 .. n) = n /\ IsFiniteSet(1 .. free)
      /\ Cardinality(1 .. free) = free
  <2>1. free \in Nat /\ free \in Int /\ n \in Int
    BY <1>1
  <2>2. \A m \in Nat : IsFiniteSet(1 .. m) /\ Cardinality(1 .. m) = m
    BY FS_Interval
  <2> HIDE DEF n
  <2> QED BY <1>1, <2>1, <2>2
<1>7. order \in Injection(1 .. n, asking)
  BY <1>5, <1>6, FS_SurjSameCardinalityImpliesInj
<1>8. \A i, j \in 1 .. n : order[i] = order[j] => i = j
  BY <1>3, <1>7 DEF Injection, IsInjective
<1>9. order \in Seq(asking) /\ Len(order) = n
  <2> HIDE DEF n
  <2> QED BY <1>1, <1>2
<1>10. some \in Bijection(1 .. free, granted)
  <2>1. some \in [1 .. free -> granted] /\ \A c \in granted : \E i \in 1 .. free : some[i] = c
    OBVIOUS
  <2>2. DOMAIN some = 1 .. free /\ \A i \in 1 .. free : i \in 1 .. n /\ some[i] = order[i]
    <3> HIDE DEF n
    <3> QED BY <1>1 DEF n
  <2>3. IsInjective(some)
    <3> HIDE DEF some, n
    <3> QED BY <2>2, <1>8 DEF IsInjective
  <2> HIDE DEF some, granted
  <2> QED BY <2>1, <2>3 DEF Bijection, Injection, Surjection
<1>11. IsFiniteSet(granted) /\ Cardinality(granted) = free
  <2> HIDE DEF some, granted
  <2> QED BY <1>6, <1>10, FS_Bijection DEF ExistsBijection
<1> QED BY <1>1, <1>4, <1>8, <1>9, <1>11 DEF Ordered

(* Who holds a slot is finite.                                             *)
LEMMA HoldersFinite ==
  ASSUME IsFiniteSet(Subtasks)
  PROVE  IsFiniteSet(Holders) /\ Cardinality(Holders) \in Nat
<1>1. Holders \in SUBSET Subtasks
  BY DEF Holders
<1> QED BY <1>1, FS_Subset, FS_CardinalityType

(* A subtask that ends: its slot, if it had one, goes to the first that    *)
(* waits, the others keep waiting in their order.                          *)
LEMMA Released ==
  ASSUME IsFiniteSet(Subtasks), MaxSlots \in Nat, SubtasksOK, Queue,
         NEW c \in Subtasks, NEW last \in {"ended", "rejected"},
         phase[c] \in {"refused", "granted", "running"}, ReleasedTo(c, last),
         UNCHANGED <<cancelled, expired, calls>>
  PROVE  /\ WorkOK' /\ Queue' /\ phase'[c] = last
         /\ \A d \in Subtasks \ {c} : \/ phase'[d] = phase[d]
                                      \/ phase[d] = "waiting" /\ phase'[d] = "granted"
<1> USE DEF SubtasksOK, WorkOK
<1>1. \A d \in Subtasks : Stopped(d)' <=> Stopped(d)
  BY DEF Stopped, RunOf, CallOf
<1>2. IsFiniteSet(Holders) /\ Cardinality(Holders) \in Nat
  BY HoldersFinite
<1>3. CASE phase[c] = "refused"
  <2>1. phase' = [phase EXCEPT ![c] = last] /\ UNCHANGED <<slots, waiters>>
    BY <1>3 DEF ReleasedTo
  <2>2. phase' \in [Subtasks -> Phases] /\ phase'[c] = last
        /\ \A d \in Subtasks \ {c} : phase'[d] = phase[d]
    BY <2>1 DEF Phases
  <2>3. Holders' = Holders
    BY <2>2, <1>3 DEF Holders
  <2>4. Queue'
    BY <1>1, <1>3, <2>1, <2>2, <2>3 DEF Queue
  <2> QED BY <2>1, <2>2, <2>4
<1>4. CASE phase[c] # "refused" /\ waiters = <<>>
  <2>1. phase' = [phase EXCEPT ![c] = last] /\ slots' = slots - 1 /\ waiters' = waiters
    BY <1>4 DEF ReleasedTo
  <2>2. phase' \in [Subtasks -> Phases] /\ phase'[c] = last
        /\ \A d \in Subtasks \ {c} : phase'[d] = phase[d]
    BY <2>1 DEF Phases
  <2>3. Holders' = Holders \ {c} /\ c \in Holders
    BY <2>2, <1>4 DEF Holders
  <2>4. Cardinality(Holders') = Cardinality(Holders) - 1 /\ Cardinality(Holders') \in Nat
    BY <1>2, <2>3, FS_RemoveElement, FS_CardinalityType
  <2>5. slots' = Cardinality(Holders') /\ slots' <= MaxSlots /\ slots' \in Nat
    BY <1>2, <2>1, <2>4 DEF Queue
  <2>6. Queue'
    BY <1>1, <1>4, <2>1, <2>2, <2>5 DEF Queue
  <2> QED BY <2>1, <2>2, <2>5, <2>6
<1>5. CASE phase[c] # "refused" /\ waiters # <<>>
  <2> DEFINE h == waiters[1]
             n == Len(waiters)
  <2>1. /\ phase' = [phase EXCEPT ![c] = last, ![h] = "granted"]
        /\ waiters' = Tail(waiters) /\ slots' = slots
    BY <1>5 DEF ReleasedTo
  <2>2. n \in Nat /\ n # 0 /\ 1 \in 1 .. n
    BY <1>5
  <2>3. h \in Subtasks /\ phase[h] = "waiting" /\ h # c
    BY <2>2, <1>5 DEF Queue
  <2>4. /\ phase' \in [Subtasks -> Phases] /\ phase'[c] = last /\ phase'[h] = "granted"
        /\ \A d \in Subtasks \ {c, h} : phase'[d] = phase[d]
    BY <2>1, <2>3 DEF Phases
  <2>5. /\ waiters' \in Seq(Subtasks) /\ Len(waiters') = n - 1
        /\ \A i \in 1 .. n - 1 : waiters'[i] = waiters[i + 1]
    BY <2>1, <2>2
  <2>6. Cardinality(Holders') = Cardinality(Holders)
    <3>1. Holders' = (Holders \ {c}) \cup {h} /\ c \in Holders /\ h \notin Holders
      BY <2>3, <2>4, <1>5 DEF Holders
    <3>2. /\ IsFiniteSet(Holders \ {c})
          /\ Cardinality(Holders \ {c}) = Cardinality(Holders) - 1
      BY <3>1, <1>2, FS_RemoveElement
    <3>3. Cardinality((Holders \ {c}) \cup {h}) = Cardinality(Holders \ {c}) + 1
      BY <3>1, <3>2, FS_AddElement
    <3> QED BY <1>2, <3>1, <3>2, <3>3
  <2> HIDE DEF h, n
  <2>7. \A i \in 1 .. n - 1 : i + 1 \in 1 .. n /\ i + 1 # 1
    BY <2>2
  <2>8. \A i \in 1 .. n : i # 1 => i - 1 \in 1 .. n - 1 /\ (i - 1) + 1 = i
    BY <2>2
  <2>9. /\ \A i \in 1 .. n : waiters[i] \in Subtasks
        /\ \A i, j \in 1 .. n : waiters[i] = waiters[j] => i = j
        /\ \A d \in Subtasks : phase[d] = "waiting" <=> \E i \in 1 .. n : waiters[i] = d
    BY DEF Queue, n
  <2>10. \A d \in Subtasks : (\E i \in 1 .. n - 1 : waiters'[i] = d) => phase'[d] = "waiting"
    <3> SUFFICES ASSUME NEW d \in Subtasks, NEW i \in 1 .. n - 1, waiters'[i] = d
                 PROVE  phase'[d] = "waiting"
      OBVIOUS
    <3>0. waiters[i + 1] = d /\ i + 1 \in 1 .. n /\ i + 1 # 1
      BY <2>5, <2>7
    <3>1. waiters[i + 1] = d /\ i + 1 \in 1 .. n /\ d # h
      BY <3>0, <2>2, <2>9 DEF h
    <3>2. phase[d] = "waiting"
      BY <3>1, <2>9
    <3> QED BY <3>1, <3>2, <2>4, <1>5
  <2>11. \A d \in Subtasks : phase'[d] = "waiting" => \E i \in 1 .. n - 1 : waiters'[i] = d
    <3> SUFFICES ASSUME NEW d \in Subtasks, phase'[d] = "waiting"
                 PROVE  \E i \in 1 .. n - 1 : waiters'[i] = d
      OBVIOUS
    <3>1. phase[d] = "waiting" /\ d # h
      BY <2>4
    <3>2. PICK j \in 1 .. n : waiters[j] = d
      BY <3>1, <2>9
    <3>3. j # 1
      BY <3>1, <3>2 DEF h
    <3> QED BY <3>2, <3>3, <2>5, <2>8
  <2>12. \A i, j \in 1 .. n - 1 : waiters'[i] = waiters'[j] => i = j
    <3> TAKE i, j \in 1 .. n - 1
    <3>1. waiters'[i] = waiters'[j] => i + 1 = j + 1
      BY <2>5, <2>7, <2>9
    <3> QED BY <3>1
  <2>13. waiters' # <<>> => slots' = MaxSlots
    BY <2>1, <1>5 DEF Queue
  <2>14. slots' = Cardinality(Holders') /\ slots' <= MaxSlots
    BY <2>1, <2>6 DEF Queue
  <2>15. \A d \in Subtasks : phase'[d] = "waiting" => ~Stopped(d)'
    BY <1>1, <2>4 DEF Queue
  <2>16. Queue'
    BY <2>5, <2>10, <2>11, <2>12, <2>13, <2>14, <2>15 DEF Queue
  <2> QED BY <2>1, <2>3, <2>4, <2>5, <2>16
<1> QED BY <1>3, <1>4, <1>5

(* An abort: those that it stops leave the queue, the others keep waiting. *)
LEMMA WithdrawnIs ==
  ASSUME SubtasksOK, Queue, NEW cs \in SUBSET Subtasks, Withdrawn(cs), UNCHANGED slots,
         cancelled' \subseteq Runs, expired' \subseteq Subtasks,
         \A d \in Subtasks : phase[d] = "waiting" /\ Stopped(d)' => d \in cs
  PROVE  /\ WorkOK' /\ Queue'
         /\ \A d \in Subtasks : \/ phase'[d] = phase[d]
                                \/ phase[d] = "waiting" /\ phase'[d] = "refused"
<1> USE DEF SubtasksOK, WorkOK
<1>1. waiters' = Without(waiters, cs)
  BY DEF Withdrawn
<1>2. \A d \in Subtasks :
        phase'[d] = IF d \in cs /\ phase[d] = "waiting" THEN "refused" ELSE phase[d]
  BY DEF Withdrawn
<1>3. phase' \in [Subtasks -> Phases]
  BY DEF Withdrawn, Phases
<1>4. PICK w : w = Without(waiters, cs)
  OBVIOUS
<1>5. /\ w \in Seq(Subtasks)
      /\ \A j \in 1 .. Len(w) : w[j] \notin cs /\ \E i \in 1 .. Len(waiters) : waiters[i] = w[j]
      /\ \A i \in 1 .. Len(waiters) : waiters[i] \notin cs =>
           \E j \in 1 .. Len(w) : w[j] = waiters[i]
      /\ w # <<>> => waiters # <<>>
      /\ (\A i, j \in 1 .. Len(waiters) : waiters[i] = waiters[j] => i = j)
           => \A i, j \in 1 .. Len(w) : w[i] = w[j] => i = j
  <2>1. waiters \in Seq(Subtasks)
    OBVIOUS
  <2>2. OthersOf(w, waiters, cs)
    BY <1>4, <2>1, WithoutIs
  <2> QED BY <2>2 DEF OthersOf
<1>6. Holders' = Holders
  BY <1>2 DEF Holders
<1>7. \A d \in Subtasks : phase'[d] = "waiting" <=> phase[d] = "waiting" /\ d \notin cs
  BY <1>2
<1>8. \A d \in Subtasks : phase'[d] = "waiting" <=> \E j \in 1 .. Len(w) : w[j] = d
  <2>1. \A d \in Subtasks : phase[d] = "waiting" <=> \E i \in 1 .. Len(waiters) : waiters[i] = d
    BY DEF Queue
  <2>2. \A j \in 1 .. Len(w) : w[j] \in Subtasks
    BY <1>5
  <2>3. ASSUME NEW d \in Subtasks, phase'[d] = "waiting" PROVE \E j \in 1 .. Len(w) : w[j] = d
    <3>1. PICK i \in 1 .. Len(waiters) : waiters[i] = d /\ d \notin cs
      BY <1>7, <2>1, <2>3
    <3> QED BY <3>1, <1>5
  <2>4. ASSUME NEW d \in Subtasks, NEW j \in 1 .. Len(w), w[j] = d PROVE phase'[d] = "waiting"
    <3>1. d \notin cs /\ \E i \in 1 .. Len(waiters) : waiters[i] = d
      BY <1>5, <2>4
    <3> QED BY <3>1, <1>7, <2>1
  <2> QED BY <2>3, <2>4
<1>9. Queue'
  <2>1. waiters' = w
    BY <1>1, <1>4
  <2>2. \A i, j \in 1 .. Len(w) : w[i] = w[j] => i = j
    BY <1>5 DEF Queue
  <2>3. w # <<>> => slots' = MaxSlots
    BY <1>5 DEF Queue
  <2>4. slots' = Cardinality(Holders') /\ slots' <= MaxSlots
    BY <1>6 DEF Queue
  <2>5. \A d \in Subtasks : phase'[d] = "waiting" => ~Stopped(d)'
    BY <1>7
  <2> QED BY <2>1, <2>2, <2>3, <2>4, <2>5, <1>8 DEF Queue
<1> QED BY <1>1, <1>2, <1>3, <1>4, <1>5, <1>9

(* What a call owns stays with the call while no subtask is started.       *)
LEMMA OwnersKept ==
  ASSUME SubtasksOK, Owners, Budget, UNCHANGED <<calls, scope, power>>, power = "on",
         \A d \in Subtasks : phase'[d] = "unused" <=> phase[d] = "unused",
         \A d \in expired' : d \in expired \/ phase'[d] # "unused"
  PROVE  Owners' /\ Budget'
<1>1. \A r : SubtasksOf(r)' = SubtasksOf(r)
  BY DEF SubtasksOf
<1>2. Budget'
  BY <1>1 DEF Budget
<1>3. \A d \in expired' : phase'[d] # "unused"
  BY DEF Owners, SubtasksOK, WorkOK
<1>4. Owners'
  BY <1>3 DEF Owners
<1> QED BY <1>2, <1>4

(* Whether a subtask is stopped does not change with what other calls do.  *)
LEMMA StoppedKept ==
  ASSUME SubtasksOK, Owners, power = "on", UNCHANGED <<cancelled, expired>>,
         \A k, l \in Calls, c \in Subtasks :
           c \in calls'[k].subs /\ c \in calls'[l].subs => k = l,
         \A k \in Calls : calls[k].subs # {} =>
           calls'[k].subs = calls[k].subs /\ calls'[k].run = calls[k].run
  PROVE  \A d \in Subtasks : phase[d] # "unused" => (Stopped(d)' <=> Stopped(d))
<1> SUFFICES ASSUME NEW d \in Subtasks, phase[d] # "unused"
             PROVE  Stopped(d)' <=> Stopped(d)
  OBVIOUS
<1>1. PICK k \in Calls : d \in calls[k].subs
  BY DEF Owners
<1>2. d \in calls'[k].subs /\ calls'[k].run = calls[k].run
  BY <1>1
<1>3. \A j, l \in Calls, c \in Subtasks : c \in calls[j].subs /\ c \in calls[l].subs => j = l
  BY DEF Owners
<1>4. CallOf(d) = k
  BY <1>1, <1>3, OneCall DEF CallOf
<1>5. CallOf(d)' = k
  BY <1>2, OneCall DEF CallOf
<1> QED BY <1>2, <1>4, <1>5 DEF Stopped, RunOf

(* While the program runs, what is said of the subtasks is all there is to *)
(* say of the reports.                                                     *)
LEMMA ReportsAre ==
  ASSUME \A k \in Calls : calls'[k].subs \subseteq Subtasks,
         \A c \in Subtasks : IF phase'[c] = "ended" THEN Accounted(c)' ELSE report'[c] \notin Final,
         \A k \in Calls : calls'[k].state = "answered" =>
           \A c \in calls'[k].subs : phase'[c] = "ended"
  PROVE  Reports'
<1>1. \A c \in Subtasks : report'[c] \in Final => Accounted(c)'
  OBVIOUS
<1>2. \A k \in Calls : calls'[k].state = "answered" => \A c \in calls'[k].subs : Accounted(c)'
  OBVIOUS
<1>3. Final' = Final
  BY DEF Final
<1> QED BY <1>1, <1>2, <1>3 DEF Reports

(* What is said of the reports holds while nothing is written and nobody   *)
(* ends.                                                                   *)
LEMMA ReportsKept ==
  ASSUME SubtasksOK, Reports, power = "on", UNCHANGED <<power, calls, status, report>>,
         \A d \in Subtasks : phase[d] = "ended" <=> phase'[d] = "ended"
  PROVE  Reports'
<1>1. \A k \in Calls : calls'[k].subs \subseteq Subtasks
  BY DEF SubtasksOK, RecordsOK, CallType
<1>2. \A d \in Subtasks : IF phase'[d] = "ended" THEN Accounted(d)' ELSE report'[d] \notin Final
  BY DEF Reports, Accounted
<1>3. \A k \in Calls : calls'[k].state = "answered" =>
        \A d \in calls'[k].subs : phase'[d] = "ended"
  BY <1>1 DEF Reports
<1> QED BY <1>1, <1>2, <1>3, ReportsAre

LEMMA CancelKeeps ==
  ASSUME SubtasksInv, power = "on", UNCHANGED power, NEW r \in Runs, CancelRun(r)
  PROVE  SubtasksInv'
<1> DEFINE cs == SubtasksOf(r)
<1> USE DEF SubtasksInv
<1>1. /\ cancelled' = cancelled \cup {r} /\ Withdrawn(cs)
      /\ UNCHANGED <<expired, slots, calls, status, report, scope, faults>>
  BY DEF CancelRun, SubtasksOf
<1>2. cs \in SUBSET Subtasks
  BY DEF SubtasksOf, SubtasksOK, RecordsOK, CallType
<1>3. \A d \in Subtasks : phase[d] = "waiting" /\ Stopped(d)' => d \in cs
  <2> SUFFICES ASSUME NEW d \in Subtasks, phase[d] = "waiting", Stopped(d)'
               PROVE  d \in cs
    OBVIOUS
  <2>1. ~Stopped(d) /\ RunOf(d)' = RunOf(d)
    BY <1>1 DEF Queue, RunOf, CallOf
  <2>2. RunOf(d) = r
    BY <2>1, <1>1 DEF Stopped
  <2>3. \E k \in Calls : d \in calls[k].subs
    BY DEF Owners
  <2>4. CallOf(d) \in Calls /\ d \in calls[CallOf(d)].subs
    BY <2>3 DEF CallOf
  <2> QED BY <2>2, <2>4 DEF RunOf, SubtasksOf
<1> HIDE DEF cs
<1>4. /\ WorkOK' /\ Queue'
      /\ \A d \in Subtasks : \/ phase'[d] = phase[d]
                             \/ phase[d] = "waiting" /\ phase'[d] = "refused"
  <2>1. cancelled' \subseteq Runs /\ expired' \subseteq Subtasks /\ UNCHANGED slots
    BY <1>1 DEF SubtasksOK, WorkOK
  <2> QED BY <1>1, <1>2, <1>3, <2>1, WithdrawnIs
<1>5. RecordsOK'
  BY <1>1 DEF SubtasksOK, RecordsOK, CallType
<1>6. Owners' /\ Budget'
  BY <1>1, <1>4, OwnersKept
<1>7. Reports'
  <2>1. \A d \in Subtasks : phase[d] = "ended" <=> phase'[d] = "ended"
    BY <1>4
  <2> QED BY <1>1, <2>1, ReportsKept
<1> QED BY <1>4, <1>5, <1>6, <1>7 DEF SubtasksOK

LEMMA ExpireKeeps ==
  ASSUME SubtasksInv, power = "on", UNCHANGED power, NEW c \in Subtasks, Expire(c)
  PROVE  SubtasksInv'
<1> USE DEF SubtasksInv
<1>1. /\ phase[c] \in {"waiting", "granted", "running"}
      /\ expired' = expired \cup {c} /\ Withdrawn({c})
      /\ UNCHANGED <<cancelled, slots, calls, status, report, scope, faults>>
  BY DEF Expire
<1>2. \A d \in Subtasks : phase[d] = "waiting" /\ Stopped(d)' => d \in {c}
  <2> SUFFICES ASSUME NEW d \in Subtasks, phase[d] = "waiting", Stopped(d)'
               PROVE  d \in {c}
    OBVIOUS
  <2>1. ~Stopped(d) /\ RunOf(d)' = RunOf(d)
    BY <1>1 DEF Queue, RunOf, CallOf
  <2> QED BY <2>1, <1>1 DEF Stopped
<1>3. /\ WorkOK' /\ Queue'
      /\ \A d \in Subtasks : \/ phase'[d] = phase[d]
                             \/ phase[d] = "waiting" /\ phase'[d] = "refused"
  <2>1. cancelled' \subseteq Runs /\ expired' \subseteq Subtasks /\ UNCHANGED slots
    BY <1>1 DEF SubtasksOK, WorkOK
  <2>2. {c} \in SUBSET Subtasks
    OBVIOUS
  <2> QED BY <1>1, <1>2, <2>1, <2>2, WithdrawnIs
<1>4. RecordsOK'
  BY <1>1 DEF SubtasksOK, RecordsOK, CallType
<1>5. Owners' /\ Budget'
  BY <1>1, <1>3, OwnersKept
<1>6. Reports'
  <2>1. \A d \in Subtasks : phase[d] = "ended" <=> phase'[d] = "ended"
    BY <1>3
  <2> QED BY <1>1, <2>1, ReportsKept
<1> QED BY <1>3, <1>4, <1>5, <1>6 DEF SubtasksOK

LEMMA EndsKeeps ==
  ASSUME IsFiniteSet(Subtasks), MaxSlots \in Nat, SubtasksInv, power = "on", UNCHANGED power,
         NEW c \in Subtasks, NEW with \in Final,
         phase[c] \in {"refused", "granted", "running"}, Ends(c, with)
  PROVE  SubtasksInv'
<1> USE DEF SubtasksInv
<1>1. UNCHANGED <<cancelled, expired, calls, scope>>
  BY DEF Ends
<1>2. PICK last \in {"ended", "rejected"} :
        /\ ReleasedTo(c, last) /\ (last = "ended" => report' = [report EXCEPT ![c] = status'[c]])
        /\ last = "rejected" => \E left \in {report[c], "torn"} : report' = [report EXCEPT ![c] = left]
  BY DEF Ends
<1>3. PICK s \in Final : status' = [status EXCEPT ![c] = s]
  BY DEF Ends, Final
<1>4. /\ WorkOK' /\ Queue' /\ phase'[c] = last
      /\ \A d \in Subtasks \ {c} : \/ phase'[d] = phase[d]
                                   \/ phase[d] = "waiting" /\ phase'[d] = "granted"
  BY <1>1, <1>2, Released
<1>5. /\ status' \in [Subtasks -> {"none", "queued", "running"} \cup Final]
      /\ status'[c] = s /\ \A d \in Subtasks \ {c} : status'[d] = status[d]
  BY <1>3 DEF SubtasksOK, RecordsOK
<1>6. /\ report' \in [Subtasks -> {"none", "queued", "running", "torn", "interrupted"} \cup Final]
      /\ last = "ended" => report'[c] = s
      /\ last = "rejected" => report'[c] \in {report[c], "torn"}
      /\ \A d \in Subtasks \ {c} : report'[d] = report[d]
  BY <1>2, <1>5 DEF SubtasksOK, RecordsOK
<1>7. RecordsOK'
  BY <1>1, <1>5, <1>6 DEF SubtasksOK, RecordsOK, CallType
<1>8. Owners' /\ Budget'
  BY <1>1, <1>4, OwnersKept
<1>9. Reports'
  <2>1. \A d \in Subtasks \ {c} : IF phase'[d] = "ended" THEN Accounted(d)' ELSE report'[d] \notin Final
    BY <1>4, <1>5, <1>6 DEF Reports, Accounted
  <2>2. IF phase'[c] = "ended" THEN Accounted(c)' ELSE report'[c] \notin Final
    <3>1. phase[c] # "ended" /\ report[c] \notin Final
      BY DEF Reports
    <3> QED BY <3>1, <1>4, <1>5, <1>6 DEF Accounted, Final
  <2>3. \A d \in Subtasks : IF phase'[d] = "ended" THEN Accounted(d)' ELSE report'[d] \notin Final
    BY <2>1, <2>2
  <2>4. \A d \in Subtasks : phase[d] = "ended" => phase'[d] = "ended"
    BY <1>4
  <2>5. \A k \in Calls : calls'[k].subs \subseteq Subtasks
    BY <1>1 DEF SubtasksOK, RecordsOK, CallType
  <2>6. \A k \in Calls : calls'[k].state = "answered" => \A d \in calls'[k].subs : phase'[d] = "ended"
    BY <1>1, <2>4, <2>5 DEF Reports
  <2> QED BY <2>3, <2>5, <2>6, ReportsAre
<1> QED BY <1>4, <1>7, <1>8, <1>9 DEF SubtasksOK

LEMMA BeginKeeps ==
  ASSUME SubtasksInv, power = "on", UNCHANGED power, NEW c \in Subtasks, Begin(c)
  PROVE  SubtasksInv'
<1> USE DEF SubtasksInv
<1>1. /\ phase[c] = "granted" /\ phase' = [phase EXCEPT ![c] = "running"]
      /\ status' = [status EXCEPT ![c] = "running"] /\ report' = [report EXCEPT ![c] = "running"]
      /\ UNCHANGED <<cancelled, expired, slots, waiters, calls, scope, faults>>
  BY DEF Begin
<1>2. /\ phase' \in [Subtasks -> Phases] /\ phase'[c] = "running"
      /\ \A d \in Subtasks \ {c} : /\ phase'[d] = phase[d] /\ status'[d] = status[d]
                                   /\ report'[d] = report[d]
  BY <1>1 DEF SubtasksOK, WorkOK, RecordsOK, Phases
<1>3. SubtasksOK'
  BY <1>1, <1>2 DEF SubtasksOK, WorkOK, RecordsOK, CallType
<1>4. Holders' = Holders
  BY <1>1, <1>2 DEF Holders
<1>5. \A d \in Subtasks : Stopped(d)' <=> Stopped(d)
  BY <1>1 DEF Stopped, RunOf, CallOf
<1>6. Queue'
  BY <1>1, <1>2, <1>4, <1>5 DEF Queue
<1>7. Owners' /\ Budget'
  BY <1>1, <1>2, OwnersKept
<1>8. Reports'
  <2>1. \A k \in Calls : calls'[k].subs \subseteq Subtasks
    BY <1>1 DEF SubtasksOK, RecordsOK, CallType
  <2>2. \A d \in Subtasks : IF phase'[d] = "ended" THEN Accounted(d)' ELSE report'[d] \notin Final
    <3>1. report'[c] = "running"
      BY <1>1 DEF SubtasksOK, RecordsOK
    <3> QED BY <1>2, <3>1 DEF Reports, Accounted, Final
  <2>3. \A k \in Calls : calls'[k].state = "answered" => \A d \in calls'[k].subs : phase'[d] = "ended"
    BY <1>1, <1>2, <2>1 DEF Reports
  <2> QED BY <2>1, <2>2, <2>3, ReportsAre
<1> QED BY <1>3, <1>6, <1>7, <1>8

(* The size of two sets that have nothing in common.                       *)
LEMMA Apart ==
  ASSUME NEW S, NEW T, IsFiniteSet(S), IsFiniteSet(T), S \cap T = {},
         Cardinality(S) \in Nat, Cardinality(T) \in Nat
  PROVE  IsFiniteSet(S \cup T) /\ Cardinality(S \cup T) = Cardinality(S) + Cardinality(T)
<1>1. Cardinality(S \cap T) = 0
  BY FS_EmptySet
<1>2. /\ IsFiniteSet(S \cup T)
      /\ Cardinality(S \cup T) = Cardinality(S) + Cardinality(T) - Cardinality(S \cap T)
  BY FS_Union, Zenon
<1>3. \A a, b \in Nat : a + b - 0 = a + b
  OBVIOUS
<1> QED BY ONLY <1>1, <1>2, <1>3, Cardinality(S) \in Nat, Cardinality(T) \in Nat, Zenon

(* The queue w after a call of delegate_research: those of q, that waited, *)
(* then those of the order o that found no slot, each once.                *)
Followed(w, q, o, f, asking) ==
  /\ w \in Seq(Subtasks)
  /\ \A c \in Subtasks : (\E i \in 1 .. Len(w) : w[i] = c) <=>
       \/ \E i \in 1 .. Len(q) : q[i] = c
       \/ c \in asking /\ c \notin {o[i] : i \in 1 .. f}
  /\ \A i, j \in 1 .. Len(w) : w[i] = w[j] => i = j
  /\ w # <<>> => q # <<>> \/ f # Len(o)

LEMMA Queued ==
  ASSUME NEW asking \in SUBSET Subtasks, NEW q \in Seq(Subtasks), NEW o \in Seq(asking),
         NEW f \in 0 .. Len(o),
         \A i, j \in 1 .. Len(q) : q[i] = q[j] => i = j,
         \A i, j \in 1 .. Len(o) : o[i] = o[j] => i = j,
         \A c \in asking : \E i \in 1 .. Len(o) : o[i] = c,
         \A i \in 1 .. Len(q) : q[i] \notin asking
  PROVE  Followed(q \o SubSeq(o, f + 1, Len(o)), q, o, f, asking)
<1>0. PICK n \in Nat : n = Len(o)
  OBVIOUS
<1>1. f \in 0 .. n
  BY <1>0
<1> DEFINE m == Len(q)
           granted == {o[i] : i \in 1 .. f}
<1>2. PICK t : t = SubSeq(o, f + 1, n)
  OBVIOUS
<1>3. t \in Seq(asking) /\ Len(t) = n - f /\ \A i \in 1 .. n - f : t[i] = o[f + i]
  <2>1. f + 1 \in Int /\ n \in Int /\ \A i \in f + 1 .. n : i \in 1 .. n
    BY ONLY <1>0, <1>1
  <2>2. \A i \in f + 1 .. n : o[i] \in asking
    BY ONLY <2>1, <1>0, o \in Seq(asking)
  <2>3. /\ SubSeq(o, f + 1, n) \in Seq(asking)
        /\ Len(SubSeq(o, f + 1, n)) = IF f + 1 <= n THEN n - (f + 1) + 1 ELSE 0
        /\ \A i \in 1 .. n - (f + 1) + 1 : SubSeq(o, f + 1, n)[i] = o[f + 1 + i - 1]
    BY ONLY <2>1, <2>2, SubSeqProperties
  <2>4. /\ (IF f + 1 <= n THEN n - (f + 1) + 1 ELSE 0) = n - f
        /\ n - (f + 1) + 1 = n - f /\ \A i \in 1 .. n - f : f + 1 + i - 1 = f + i
    BY ONLY <1>0, <1>1
  <2> QED BY ONLY <2>3, <2>4, <1>2
<1>4. t \in Seq(Subtasks) /\ m \in Nat
  BY ONLY <1>3, asking \in SUBSET Subtasks, q \in Seq(Subtasks)
<1> DEFINE w == q \o t
<1>5. /\ w \in Seq(Subtasks) /\ Len(w) = m + (n - f)
      /\ \A i \in 1 .. m : w[i] = q[i]
      /\ \A j \in 1 .. n - f : w[m + j] = t[j]
  <2>1. w \in Seq(Subtasks) /\ Len(w) = m + Len(t)
    BY ONLY <1>4, q \in Seq(Subtasks)
  <2>2. \A i \in 1 .. m : w[i] = q[i]
    BY ONLY <1>4, q \in Seq(Subtasks)
  <2>3. \A j \in 1 .. Len(t) : w[m + j] = t[j]
    BY ONLY <1>4, q \in Seq(Subtasks)
  <2> QED BY ONLY <1>3, <2>1, <2>2, <2>3
<1> HIDE DEF m, granted, w
<1>6. \A i \in 1 .. m : i \in 1 .. Len(w)
  BY ONLY <1>0, <1>1, <1>4, <1>5
<1>7. \A j \in 1 .. n - f : m + j \in 1 .. Len(w) /\ w[m + j] = o[f + j]
  <2>1. \A j \in 1 .. n - f : m + j \in 1 .. m + (n - f)
    BY ONLY <1>0, <1>1, <1>4
  <2> QED BY ONLY <1>3, <1>5, <2>1
<1>8. \A i \in 1 .. Len(w) : i \in 1 .. m \/ \E j \in 1 .. n - f : i = m + j
  <2>1. \A i \in 1 .. m + (n - f) :
          i \in 1 .. m \/ (i - m \in 1 .. n - f /\ i = m + (i - m))
    BY ONLY <1>0, <1>1, <1>4
  <2> QED BY ONLY <1>5, <2>1
<1>9. \A j \in 1 .. n - f : f + j \in 1 .. n /\ o[f + j] \in asking /\ o[f + j] \notin granted
  <2>1. \A j \in 1 .. n - f : f + j \in 1 .. n /\ \A i \in 1 .. f : i \in 1 .. n /\ i # f + j
    BY ONLY <1>0, <1>1
  <2>2. \A i \in 1 .. n : o[i] \in asking
    BY ONLY <1>0, o \in Seq(asking)
  <2>3. \A i, h \in 1 .. n : o[i] = o[h] => i = h
    BY <1>0
  <2>4. \A j \in 1 .. n - f : o[f + j] \notin granted
    BY ONLY <2>1, <2>3 DEF granted
  <2> QED BY ONLY <2>1, <2>2, <2>4
<1>10. ASSUME NEW c \in asking, c \notin granted
       PROVE  \E j \in 1 .. n - f : o[f + j] = c
  <2>1. PICK i \in 1 .. n : o[i] = c
    BY <1>0
  <2>2. ~(i \in 1 .. f)
    BY ONLY <1>10, <2>1 DEF granted
  <2>3. i - f \in 1 .. n - f /\ f + (i - f) = i
    BY ONLY <2>2, <1>0, <1>1, i \in 1 .. n
  <2> QED BY <2>1, <2>3
<1>11. ASSUME NEW c \in Subtasks
       PROVE  (\E i \in 1 .. Len(w) : w[i] = c) <=>
              (\E i \in 1 .. m : q[i] = c) \/ (c \in asking /\ c \notin granted)
  <2>1. ASSUME NEW i \in 1 .. Len(w), w[i] = c
        PROVE  (\E h \in 1 .. m : q[h] = c) \/ (c \in asking /\ c \notin granted)
    <3>1. CASE i \in 1 .. m
      BY ONLY <2>1, <3>1, <1>5
    <3>2. ASSUME NEW j \in 1 .. n - f, i = m + j PROVE c \in asking /\ c \notin granted
      BY ONLY <2>1, <3>2, <1>7, <1>9, j \in 1 .. n - f
    <3> QED BY <3>1, <3>2, <1>8, Zenon
  <2>2. ASSUME NEW h \in 1 .. m, q[h] = c PROVE \E i \in 1 .. Len(w) : w[i] = c
    BY ONLY <2>2, <1>5, <1>6, h \in 1 .. m
  <2>3. ASSUME c \in asking, c \notin granted PROVE \E i \in 1 .. Len(w) : w[i] = c
    <3>1. PICK j \in 1 .. n - f : o[f + j] = c
      BY ONLY <2>3, <1>10
    <3> QED BY ONLY <3>1, <1>7, j \in 1 .. n - f
  <2> QED BY ONLY <2>1, <2>2, <2>3, Zenon
<1>12. ASSUME NEW i \in 1 .. Len(w), NEW h \in 1 .. Len(w), w[i] = w[h] PROVE i = h
  <2>1. CASE i \in 1 .. m /\ h \in 1 .. m
    <3>1. q[i] = q[h]
      BY ONLY <1>5, <1>12, <2>1
    <3> QED BY <2>1, <3>1 DEF m
  <2>2. ASSUME NEW j \in 1 .. n - f, NEW l \in 1 .. n - f, i = m + j, h = m + l PROVE i = h
    <3>1. o[f + j] = o[f + l]
      BY ONLY <1>7, <1>12, <2>2, j \in 1 .. n - f, l \in 1 .. n - f
    <3>2. f + j = f + l
      BY <3>1, <1>0, <1>9
    <3>3. j = l
      BY ONLY <3>2, <1>0, <1>1, j \in 1 .. n - f, l \in 1 .. n - f
    <3> QED BY <3>3, <2>2
  <2>3. ASSUME NEW u \in 1 .. m, NEW j \in 1 .. n - f PROVE w[u] # w[m + j]
    <3>1. q[u] \notin asking
      BY DEF m
    <3> QED BY ONLY <3>1, <1>5, <1>7, <1>9, u \in 1 .. m, j \in 1 .. n - f
  <2>4. CASE i \in 1 .. m /\ h \notin 1 .. m
    BY ONLY <2>3, <2>4, <1>8, <1>12, i \in 1 .. Len(w), h \in 1 .. Len(w), Zenon
  <2>5. CASE i \notin 1 .. m /\ h \in 1 .. m
    BY ONLY <2>3, <2>5, <1>8, <1>12, i \in 1 .. Len(w), h \in 1 .. Len(w), Zenon
  <2>6. CASE i \notin 1 .. m /\ h \notin 1 .. m
    BY ONLY <2>2, <2>6, <1>8, i \in 1 .. Len(w), h \in 1 .. Len(w), Zenon
  <2> QED BY ONLY <2>1, <2>4, <2>5, <2>6, Zenon
<1>13. w # <<>> => q # <<>> \/ f # n
  <2>1. SUFFICES ASSUME w # <<>>, q = <<>>, f = n PROVE FALSE
    OBVIOUS
  <2>2. m = 0
    BY <2>1 DEF m
  <2>3. Len(w) = 0
    BY ONLY <2>1, <2>2, <1>0, <1>1, <1>5
  <2> QED BY ONLY <2>1, <2>3, <1>5
<1>14. Followed(w, q, o, f, asking)
  BY ONLY <1>0, <1>5, <1>11, <1>12, <1>13 DEF Followed, m, granted
<1>15. w = q \o SubSeq(o, f + 1, Len(o))
  BY <1>0, <1>2 DEF w
<1> QED BY <1>14, <1>15

(* A call of delegate_research: the calls and the budget.                  *)
LEMMA DelegateOwns ==
  ASSUME IsFiniteSet(Subtasks), MaxSubtasks \in Nat, SubtasksOK, Owners, Budget,
         power = "on", UNCHANGED <<power, expired>>,
         NEW k \in Calls, NEW r \in Runs, NEW subs \in SUBSET Subtasks, calls[k].state = "unused",
         \A c \in subs : phase[c] = "unused" /\ phase'[c] # "unused",
         \A c \in Subtasks \ subs : phase'[c] = phase[c],
         calls' = [calls EXCEPT ![k] = [run |-> r, subs |-> subs, state |-> "waiting"]],
         scope' = [scope EXCEPT ![r] = @ + Cardinality(subs)],
         scope[r] + Cardinality(subs) <= MaxSubtasks
  PROVE  Owners' /\ Budget'
<1>1. \A l \in Calls : calls[l].subs \in SUBSET Subtasks
  BY DEF SubtasksOK, RecordsOK, CallType
<1>2. /\ calls'[k].run = r /\ calls'[k].subs = subs /\ calls'[k].state = "waiting"
      /\ \A l \in Calls \ {k} : calls'[l] = calls[l]
  BY DEF SubtasksOK, RecordsOK
<1>3. calls[k].subs = {} /\ \A l \in Calls : calls[l].subs \cap subs = {}
  BY <1>1 DEF Owners
<1>4. \A j, l \in Calls, c \in Subtasks : c \in calls'[j].subs /\ c \in calls'[l].subs => j = l
  <2>1. SUFFICES ASSUME NEW j \in Calls, NEW l \in Calls, NEW c \in Subtasks,
                        c \in calls'[j].subs, c \in calls'[l].subs, j # l
                 PROVE  FALSE
    OBVIOUS
  <2>2. CASE j = k
    BY <2>1, <2>2, <1>2, <1>3
  <2>3. CASE l = k
    BY <2>1, <2>3, <1>2, <1>3
  <2>4. CASE j # k /\ l # k
    BY <2>1, <2>4, <1>2 DEF Owners
  <2> QED BY <2>2, <2>3, <2>4
<1>5. \A c \in Subtasks : phase'[c] # "unused" <=> \E l \in Calls : c \in calls'[l].subs
  <2> TAKE c \in Subtasks
  <2>1. phase[c] # "unused" <=> \E l \in Calls : c \in calls[l].subs
    BY DEF Owners
  <2>2. CASE c \in subs
    BY <2>2, <1>2
  <2>3. CASE c \notin subs
    <3>1. \A l \in Calls : c \in calls'[l].subs <=> c \in calls[l].subs
      BY <2>3, <1>2, <1>3
    <3> QED BY <2>1, <2>3, <3>1
  <2> QED BY <2>2, <2>3
<1>6. \A c \in expired : phase'[c] # "unused"
  BY DEF Owners, SubtasksOK, WorkOK
<1>7. \A l \in Calls : calls'[l].state = "unused" => calls'[l].subs = {}
  BY <1>2 DEF Owners
<1>8. Owners'
  BY <1>4, <1>5, <1>6, <1>7 DEF Owners
<1>9. SubtasksOf(r)' = SubtasksOf(r) \cup subs
  BY <1>2, <1>3 DEF SubtasksOf
<1>10. \A q \in Runs \ {r} : SubtasksOf(q)' = SubtasksOf(q)
  BY <1>2, <1>3 DEF SubtasksOf
<1>11. SubtasksOf(r) \in SUBSET Subtasks /\ SubtasksOf(r) \cap subs = {}
  BY <1>1, <1>3 DEF SubtasksOf
<1>12. /\ IsFiniteSet(subs) /\ IsFiniteSet(SubtasksOf(r))
       /\ Cardinality(subs) \in Nat /\ Cardinality(SubtasksOf(r)) \in Nat
  BY <1>11, FS_Subset, FS_CardinalityType
<1>13. Cardinality(SubtasksOf(r) \cup subs) = Cardinality(SubtasksOf(r)) + Cardinality(subs)
  BY <1>11, <1>12, Apart
<1>14. \A q \in Runs : scope[q] = Cardinality(SubtasksOf(q)) /\ scope[q] <= MaxSubtasks
                       /\ scope[q] \in Nat
  BY DEF Budget, SubtasksOK, RecordsOK
<1>15. /\ scope'[r] = scope[r] + Cardinality(subs)
       /\ \A q \in Runs \ {r} : scope'[q] = scope[q]
  BY DEF SubtasksOK, RecordsOK
<1>16. Budget'
  <2>1. \A q \in Runs \ {r} : scope'[q] = Cardinality(SubtasksOf(q))' /\ scope'[q] <= MaxSubtasks
    BY <1>10, <1>14, <1>15
  <2>2. scope'[r] = Cardinality(SubtasksOf(r))' /\ scope'[r] <= MaxSubtasks
    BY <1>9, <1>13, <1>14, <1>15
  <2> QED BY <2>1, <2>2 DEF Budget
<1> QED BY <1>8, <1>16

(* A call of delegate_research: the slots and the queue.  The order in     *)
(* which its subtasks ask is o, the first f of them find a slot.           *)
LEMMA DelegateQueues ==
  ASSUME IsFiniteSet(Subtasks), MaxSlots \in Nat, SubtasksOK, Queue,
         NEW asking \in SUBSET Subtasks, NEW o \in Orders(asking),
         NEW f \in 0 .. Cardinality(asking), slots + f <= MaxSlots,
         f # Cardinality(asking) => slots + f = MaxSlots,
         NEW rejected \in SUBSET Subtasks, asking \cap rejected = {},
         \A c \in asking \cup rejected : phase[c] = "unused",
         waiters' = waiters \o SubSeq(o, f + 1, Len(o)), slots' = slots + f,
         phase' = [c \in Subtasks |->
                     IF c \in rejected THEN "rejected"
                     ELSE IF c \in {o[i] : i \in 1 .. f} THEN "granted"
                     ELSE IF c \in asking THEN "waiting" ELSE phase[c]],
         UNCHANGED <<cancelled, expired>>,
         \A c \in Subtasks : phase'[c] = "waiting" => ~Stopped(c)'
  PROVE  WorkOK' /\ Queue'
<1> DEFINE granted == {o[i] : i \in 1 .. f}
<1>1. /\ Cardinality(asking) \in Nat /\ o \in Seq(asking) /\ Len(o) = Cardinality(asking)
      /\ \A i, j \in 1 .. Len(o) : o[i] = o[j] => i = j
      /\ \A c \in asking : \E i \in 1 .. Len(o) : o[i] = c
      /\ IsFiniteSet(granted) /\ Cardinality(granted) = f
  <2>1. Ordered(o, f, asking)
    BY Granting
  <2> QED BY ONLY <2>1 DEF Ordered
<1>2. waiters \in Seq(Subtasks) /\ slots \in Nat /\ slots <= MaxSlots
      /\ (waiters # <<>> => slots = MaxSlots) /\ slots = Cardinality(Holders)
  BY ONLY SubtasksOK, Queue DEF SubtasksOK, WorkOK, Queue
<1>3. /\ \A c \in Subtasks : phase[c] = "waiting" <=> \E i \in 1 .. Len(waiters) : waiters[i] = c
      /\ \A i, j \in 1 .. Len(waiters) : waiters[i] = waiters[j] => i = j
  BY ONLY Queue DEF Queue
<1>4. \A i \in 1 .. Len(waiters) : waiters[i] \notin asking
  BY ONLY <1>2, <1>3, \A c \in asking \cup rejected : phase[c] = "unused"
<1>5. f \in Nat /\ f \in 0 .. Len(o) /\ \A i \in 1 .. f : i \in 1 .. Len(o)
  BY ONLY <1>1, f \in 0 .. Cardinality(asking)
<1>6. Followed(waiters', waiters, o, f, asking)
  <2>1. Followed(waiters \o SubSeq(o, f + 1, Len(o)), waiters, o, f, asking)
    BY <1>1, <1>2, <1>3, <1>4, <1>5, Queued
  <2> QED BY <2>1
<1>7. granted \subseteq asking
  <2>1. \A i \in 1 .. Len(o) : o[i] \in asking
    BY ONLY <1>1
  <2> QED BY ONLY <2>1, <1>5
<1> HIDE DEF granted
<1>8. phase' = [c \in Subtasks |->
                  IF c \in rejected THEN "rejected"
                  ELSE IF c \in granted THEN "granted"
                  ELSE IF c \in asking THEN "waiting" ELSE phase[c]]
  BY DEF granted
<1>9. phase' \in [Subtasks -> Phases]
  BY ONLY <1>8, SubtasksOK DEF SubtasksOK, WorkOK, Phases
<1>10. \A c \in asking \cup rejected : phase[c] = "unused"
  OBVIOUS
<1>11. \A c \in Subtasks :
         phase'[c] = "waiting" <=> phase[c] = "waiting" \/ (c \in asking /\ c \notin granted)
  BY ONLY <1>7, <1>8, <1>10, asking \cap rejected = {}
<1>12. Holders' = Holders \cup granted /\ Holders \cap granted = {}
  BY ONLY <1>7, <1>8, <1>10, asking \cap rejected = {}, asking \in SUBSET Subtasks DEF Holders
<1>13. slots' = Cardinality(Holders')
  <2>1. IsFiniteSet(Holders) /\ Cardinality(Holders) \in Nat
    BY HoldersFinite
  <2>2. Cardinality(Holders \cup granted) = Cardinality(Holders) + f
    BY ONLY <1>1, <1>5, <1>12, <2>1, Apart
  <2> QED BY ONLY <1>2, <1>12, <2>2, slots' = slots + f
<1>14. waiters' \in Seq(Subtasks)
  BY ONLY <1>6 DEF Followed
<1>15. \A c \in Subtasks : phase'[c] = "waiting" <=> \E i \in 1 .. Len(waiters') : waiters'[i] = c
  BY ONLY <1>3, <1>6, <1>11 DEF Followed, granted
<1>16. \A i, j \in 1 .. Len(waiters') : waiters'[i] = waiters'[j] => i = j
  BY ONLY <1>6 DEF Followed
<1>17. slots' <= MaxSlots /\ slots' \in Nat
  BY ONLY <1>2, <1>5, slots' = slots + f, slots + f <= MaxSlots
<1>18. waiters' # <<>> => slots' = MaxSlots
  <2>1. waiters' # <<>> => waiters # <<>> \/ f # Cardinality(asking)
    BY ONLY <1>1, <1>6 DEF Followed
  <2> QED BY ONLY <2>1, <1>2, <1>5, slots' = slots + f, slots + f <= MaxSlots, MaxSlots \in Nat,
                  f # Cardinality(asking) => slots + f = MaxSlots
<1>19. \A c \in Subtasks : phase'[c] = "waiting" => ~Stopped(c)'
  OBVIOUS
<1>20. Queue'
  BY ONLY <1>13, <1>15, <1>16, <1>17, <1>18, <1>19 DEF Queue
<1>21. WorkOK'
  BY ONLY <1>9, <1>14, <1>17, SubtasksOK, UNCHANGED <<cancelled, expired>> DEF SubtasksOK, WorkOK
<1> QED BY ONLY <1>20, <1>21

LEMMA DelegateKeeps ==
  ASSUME IsFiniteSet(Subtasks), MaxSlots \in Nat, MaxSubtasks \in Nat,
         SubtasksInv, power = "on", UNCHANGED power, NEW k \in Calls, NEW r \in Runs,
         NEW subs \in SUBSET Subtasks, NEW unwritten \in SUBSET subs,
         Delegate(k, r, subs, unwritten)
  PROVE  SubtasksInv'
<1> DEFINE asking == subs \ unwritten
<1>1. asking \in SUBSET Subtasks /\ unwritten \in SUBSET Subtasks /\ asking \cap unwritten = {}
      /\ \A c \in Subtasks : c \in asking \cup unwritten <=> c \in subs
  OBVIOUS
<1> DEFINE f == IF MaxSlots - slots < Cardinality(asking) THEN MaxSlots - slots
                                                          ELSE Cardinality(asking)
<1>2. /\ calls[k].state = "unused" /\ r \notin cancelled /\ \A c \in subs : phase[c] = "unused"
      /\ scope[r] + Cardinality(subs) <= MaxSubtasks
      /\ scope' = [scope EXCEPT ![r] = @ + Cardinality(subs)]
      /\ calls' = [calls EXCEPT ![k] = [run |-> r, subs |-> subs, state |-> "waiting"]]
      /\ UNCHANGED <<cancelled, expired>>
  BY DEF Delegate
<1>3. PICK o \in Orders(asking) :
        /\ waiters' = waiters \o SubSeq(o, f + 1, Len(o)) /\ slots' = slots + f
        /\ phase' = [c \in Subtasks |->
                       IF c \in unwritten THEN "rejected"
                       ELSE IF c \in {o[i] : i \in 1 .. f} THEN "granted"
                       ELSE IF c \in asking THEN "waiting" ELSE phase[c]]
  BY DEF Delegate
<1>4. /\ status' = [c \in Subtasks |-> IF c \in subs THEN "queued" ELSE status[c]]
      /\ report' = [c \in Subtasks |-> IF c \in asking THEN "queued" ELSE report[c]]
  BY DEF Delegate
<1>5. f \in 0 .. Cardinality(asking) /\ slots + f <= MaxSlots
      /\ (f # Cardinality(asking) => slots + f = MaxSlots)
  <2>1. Cardinality(asking) \in Nat
    BY <1>1, FS_Subset, FS_CardinalityType
  <2>2. slots \in Nat /\ slots <= MaxSlots
    BY ONLY SubtasksInv DEF SubtasksInv, SubtasksOK, WorkOK, Queue
  <2> HIDE DEF asking
  <2> QED BY ONLY <2>1, <2>2, MaxSlots \in Nat
<1> HIDE DEF asking, f
<1>6. \A c \in Subtasks \ subs : phase'[c] = phase[c]
  <2>1. \A i \in 1 .. f : o[i] \in asking
    <3>1. Cardinality(asking) \in Nat
      BY <1>1, FS_Subset, FS_CardinalityType
    <3>2. Ordered(o, f, asking)
      BY <1>1, <1>5, Granting
    <3>3. o \in Seq(asking) /\ Len(o) = Cardinality(asking)
      BY ONLY <3>2 DEF Ordered
    <3>4. \A i \in 1 .. f : i \in 1 .. Len(o)
      BY ONLY <1>5, <3>1, <3>3
    <3> QED BY ONLY <3>3, <3>4
  <2>2. \A c \in Subtasks \ subs : c \notin asking /\ c \notin unwritten
    BY <1>1
  <2> QED BY ONLY <1>3, <2>1, <2>2
<1>7. \A c \in subs : phase'[c] # "unused" /\ phase'[c] # "ended"
  BY ONLY <1>1, <1>3, subs \in SUBSET Subtasks
<1>8. Owners' /\ Budget'
  BY <1>2, <1>6, <1>7, DelegateOwns DEF SubtasksInv
<1>9. \A c \in Subtasks : phase'[c] = "waiting" => ~Stopped(c)'
  <2>1. \A j, l \in Calls, c \in Subtasks : c \in calls'[j].subs /\ c \in calls'[l].subs => j = l
    BY ONLY <1>8 DEF Owners
  <2>2. ASSUME NEW c \in subs PROVE ~Stopped(c)'
    <3>1. c \in calls'[k].subs /\ calls'[k].run = r /\ c \in Subtasks
      BY <1>2 DEF SubtasksInv, SubtasksOK, RecordsOK
    <3>2. CallOf(c)' = k
      BY ONLY <3>1, <2>1, OneCall, k \in Calls DEF CallOf
    <3>3. c \notin expired
      BY <1>2 DEF SubtasksInv, Owners
    <3> QED BY <1>2, <3>1, <3>2, <3>3 DEF Stopped, RunOf
  <2>3. \A l \in Calls : calls[l].subs # {} =>
          calls'[l].subs = calls[l].subs /\ calls'[l].run = calls[l].run
    BY <1>2 DEF SubtasksInv, Owners, SubtasksOK, RecordsOK
  <2>4. \A c \in Subtasks : phase[c] # "unused" => (Stopped(c)' <=> Stopped(c))
    BY <1>2, <2>1, <2>3, StoppedKept DEF SubtasksInv
  <2>5. \A c \in Subtasks \ subs : phase'[c] = "waiting" => ~Stopped(c)'
    BY ONLY <1>6, <2>4, SubtasksInv DEF SubtasksInv, Queue
  <2> QED BY <2>2, <2>5
<1>10. WorkOK' /\ Queue'
  <2>1. \A c \in asking \cup unwritten : phase[c] = "unused"
    BY <1>1, <1>2
  <2> QED BY <1>1, <1>2, <1>3, <1>5, <1>9, <2>1, DelegateQueues DEF SubtasksInv
<1>11. RecordsOK'
  <2>1. calls' \in [Calls -> CallType]
    BY ONLY <1>2, SubtasksInv, r \in Runs, subs \in SUBSET Subtasks, k \in Calls
            DEF SubtasksInv, SubtasksOK, RecordsOK, CallType
  <2>2. /\ status' \in [Subtasks -> {"none", "queued", "running"} \cup Final]
        /\ report' \in [Subtasks -> {"none", "queued", "running", "torn", "interrupted"} \cup Final]
    BY ONLY <1>4, SubtasksInv DEF SubtasksInv, SubtasksOK, RecordsOK
  <2>3. scope' \in [Runs -> Nat]
    <3>1. Cardinality(subs) \in Nat
      BY FS_Subset, FS_CardinalityType
    <3> QED BY ONLY <1>2, <3>1, SubtasksInv, r \in Runs DEF SubtasksInv, SubtasksOK, RecordsOK
  <2> QED BY <2>1, <2>2, <2>3 DEF SubtasksInv, SubtasksOK, RecordsOK
<1>12. Reports'
  <2>1. \A c \in Subtasks \ subs : IF phase'[c] = "ended" THEN Accounted(c)' ELSE report'[c] \notin Final
    <3> SUFFICES ASSUME NEW c \in Subtasks \ subs
                 PROVE  IF phase'[c] = "ended" THEN Accounted(c)' ELSE report'[c] \notin Final
      OBVIOUS
    <3>2. phase'[c] = phase[c] /\ report'[c] = report[c] /\ status'[c] = status[c]
      BY <1>1, <1>4, <1>6
    <3> QED BY <3>2 DEF SubtasksInv, Reports, Accounted
  <2>3. \A c \in subs : phase'[c] # "ended" /\ report'[c] \notin Final
    <3> SUFFICES ASSUME NEW c \in subs PROVE report'[c] \notin Final
      BY <1>7
    <3>1. c \in Subtasks /\ phase[c] = "unused" /\ report[c] \notin Final
      BY <1>2 DEF SubtasksInv, Reports
    <3>2. report'[c] \in {"queued", report[c]}
      BY <3>1, <1>4
    <3> QED BY <3>1, <3>2 DEF Final
  <2>4. \A l \in Calls : calls'[l].subs \subseteq Subtasks
    BY <1>11 DEF RecordsOK, CallType
  <2>2. \A l \in Calls : calls'[l].state = "answered" => \A c \in calls'[l].subs : phase'[c] = "ended"
    <3> SUFFICES ASSUME NEW l \in Calls, calls'[l].state = "answered", NEW c \in calls'[l].subs
                 PROVE  phase'[c] = "ended"
      OBVIOUS
    <3>1. calls'[l] = calls[l]
      BY <1>2 DEF SubtasksInv, SubtasksOK, RecordsOK
    <3>2. phase[c] = "ended" /\ c \in Subtasks
      BY <3>1 DEF SubtasksInv, Reports, SubtasksOK, RecordsOK, CallType
    <3>3. c \notin subs
      BY <1>2, <3>2
    <3> QED BY <3>2, <3>3, <1>6
  <2>5. \A c \in Subtasks : IF phase'[c] = "ended" THEN Accounted(c)' ELSE report'[c] \notin Final
    BY <2>1, <2>3
  <2> QED BY <2>2, <2>4, <2>5, ReportsAre
<1> QED BY <1>8, <1>10, <1>11, <1>12 DEF SubtasksInv, SubtasksOK

LEMMA ReturnKeeps ==
  ASSUME SubtasksInv, power = "on", UNCHANGED power, NEW k \in Calls, Return(k)
  PROVE  SubtasksInv'
<1> DEFINE how == IF \E c \in calls[k].subs : phase[c] = "rejected" THEN "failed" ELSE "answered"
<1>1. /\ calls[k].state = "waiting" /\ calls' = [calls EXCEPT ![k].state = how]
      /\ \A c \in calls[k].subs : phase[c] \in {"ended", "rejected"}
      /\ UNCHANGED <<cancelled, expired, slots, waiters, phase, status, report, scope, faults>>
  BY DEF Return
<1>2. how \in {"failed", "answered"}
      /\ (how = "answered" => \A c \in calls[k].subs : phase[c] = "ended")
  BY <1>1
<1> HIDE DEF how
<1>3. /\ calls' \in [Calls -> CallType] /\ calls'[k].state = how
      /\ \A l \in Calls : /\ calls'[l].subs = calls[l].subs /\ calls'[l].run = calls[l].run
                          /\ l # k => calls'[l].state = calls[l].state
  BY ONLY <1>1, <1>2, SubtasksInv, k \in Calls DEF SubtasksInv, SubtasksOK, RecordsOK, CallType
<1>4. SubtasksOK'
  BY <1>1, <1>3 DEF SubtasksInv, SubtasksOK, WorkOK, RecordsOK
<1>5. Owners'
  BY <1>1, <1>2, <1>3 DEF SubtasksInv, Owners
<1>6. Budget'
  <2>1. \A r \in Runs : SubtasksOf(r)' = SubtasksOf(r)
    BY <1>3 DEF SubtasksOf
  <2> QED BY <1>1, <2>1 DEF SubtasksInv, Budget
<1>7. Queue'
  <2>1. \A j, l \in Calls, c \in Subtasks : c \in calls'[j].subs /\ c \in calls'[l].subs => j = l
    BY ONLY <1>5 DEF Owners
  <2>2. \A c \in Subtasks : phase[c] # "unused" => (Stopped(c)' <=> Stopped(c))
    BY <1>1, <1>3, <2>1, StoppedKept DEF SubtasksInv
  <2>3. \A c \in Subtasks : phase'[c] = "waiting" => ~Stopped(c)'
    BY <1>1, <2>2 DEF SubtasksInv, Queue
  <2>4. Holders' = Holders
    BY <1>1 DEF Holders
  <2> QED BY <1>1, <2>3, <2>4 DEF SubtasksInv, Queue
<1>8. Reports'
  <2>1. \A l \in Calls : calls'[l].subs \subseteq Subtasks
    BY <1>4 DEF SubtasksOK, RecordsOK, CallType
  <2>2. \A c \in Subtasks : IF phase'[c] = "ended" THEN Accounted(c)' ELSE report'[c] \notin Final
    BY <1>1 DEF SubtasksInv, Reports, Accounted
  <2>3. \A l \in Calls : calls'[l].state = "answered" => \A c \in calls'[l].subs : phase'[c] = "ended"
    BY <1>1, <1>2, <1>3 DEF SubtasksInv, Reports
  <2> QED BY <2>1, <2>2, <2>3, ReportsAre
<1> QED BY <1>4, <1>5, <1>6, <1>7, <1>8 DEF SubtasksInv

LEMMA CrashKeeps ==
  ASSUME MaxSlots \in Nat, SubtasksInv, power = "on", EndProcess
  PROVE  SubtasksInv'
<1>1. PICK torn \in SUBSET {c \in Subtasks : phase[c] \in {"granted", "running", "refused"}} :
        report' = [c \in Subtasks |-> IF c \in torn THEN "torn" ELSE report[c]]
  BY DEF EndProcess
<1>2. /\ power' = "off" /\ phase' = [c \in Subtasks |-> "gone"]
      /\ calls' = [k \in Calls |-> [calls[k] EXCEPT !.state = IF @ = "waiting" THEN "gone" ELSE @]]
      /\ slots' = 0 /\ waiters' = <<>>
      /\ UNCHANGED <<cancelled, expired, status, scope, faults>>
  BY DEF EndProcess
<1>3. \A k \in Calls : /\ calls'[k] \in CallType /\ calls'[k].subs = calls[k].subs
                       /\ calls'[k].state \in {calls[k].state, "gone"}
  BY ONLY <1>2, SubtasksInv DEF SubtasksInv, SubtasksOK, RecordsOK, CallType
<1>4. WorkOK'
  BY ONLY <1>2, SubtasksInv DEF SubtasksInv, SubtasksOK, WorkOK, Phases
<1>5. RecordsOK'
  BY ONLY <1>1, <1>2, <1>3, SubtasksInv DEF SubtasksInv, SubtasksOK, RecordsOK
<1>6. Owners'
  BY <1>2, <1>3 DEF SubtasksInv, Owners
<1>7. Queue'
  <2>1. Holders' = {}
    BY <1>2 DEF Holders
  <2>2. Cardinality(Holders') = 0
    BY <2>1, FS_EmptySet
  <2>3. Len(waiters') = 0 /\ 1 .. 0 = {}
    BY <1>2
  <2>4. \A c \in Subtasks : phase'[c] # "waiting"
    BY <1>2
  <2> QED BY <1>2, <2>2, <2>3, <2>4 DEF Queue
<1>8. Budget'
  BY <1>2 DEF Budget
<1>9. Reports'
  <2>1. \A c \in Subtasks : report'[c] \in {report[c], "torn"} /\ status'[c] = status[c]
    BY <1>1, <1>2
  <2>2. \A c \in Subtasks : report'[c] \in Final => Accounted(c)'
    BY <2>1 DEF SubtasksInv, Reports, Accounted, Final
  <2>3. ASSUME NEW k \in Calls, calls'[k].state = "answered", NEW c \in calls'[k].subs
        PROVE  Accounted(c)'
    <3>1. calls[k].state = "answered" /\ c \in calls[k].subs
      BY <2>3, <1>3
    <3>2. c \in Subtasks /\ phase[c] = "ended" /\ Accounted(c)
      BY <3>1 DEF SubtasksInv, SubtasksOK, RecordsOK, CallType, Reports
    <3> QED BY <3>2, <1>1, <1>2 DEF Accounted
  <2> QED BY <1>2, <2>2, <2>3 DEF Reports
<1> QED BY <1>4, <1>5, <1>6, <1>7, <1>8, <1>9 DEF SubtasksInv, SubtasksOK

LEMMA RecoverKeeps == SubtasksInv /\ Recover => SubtasksInv'
<1> SUFFICES ASSUME SubtasksInv, Recover PROVE SubtasksInv'
  OBVIOUS
<1>1. /\ power # "on" /\ power' = "recovered"
      /\ UNCHANGED <<cancelled, expired, slots, waiters, calls, phase, status, scope>>
  BY DEF Recover
<1>2. PICK listed \in SUBSET Runs :
        LET orphans == {c \in Subtasks : report[c] \in {"queued", "running"} /\ RunOf(c) \in listed}
        IN \E unwritten \in SUBSET orphans : \E torn \in SUBSET unwritten :
             report' = [c \in Subtasks |->
                          IF c \in torn THEN "torn"
                          ELSE IF c \in orphans \ unwritten THEN "interrupted" ELSE report[c]]
  BY DEF Recover
<1> DEFINE orphans == {c \in Subtasks : report[c] \in {"queued", "running"} /\ RunOf(c) \in listed}
<1>3. /\ report' \in [Subtasks -> {"none", "queued", "running", "torn", "interrupted"} \cup Final]
      /\ \A c \in Subtasks : \/ report'[c] = report[c]
                             \/ report[c] \notin Final /\ report'[c] \notin Final
  <2>1. PICK unwritten \in SUBSET orphans, torn \in SUBSET orphans :
          report' = [c \in Subtasks |->
                       IF c \in torn THEN "torn"
                       ELSE IF c \in orphans \ unwritten THEN "interrupted" ELSE report[c]]
    BY <1>2
  <2>2. \A c \in orphans : report[c] \in {"queued", "running"}
    OBVIOUS
  <2> HIDE DEF orphans
  <2> QED BY <2>1, <2>2 DEF SubtasksInv, SubtasksOK, RecordsOK, Final
<1>4. SubtasksOK'
  BY ONLY <1>1, <1>3, SubtasksInv DEF SubtasksInv, SubtasksOK, WorkOK, RecordsOK
<1>5. Owners' /\ Budget'
  BY <1>1 DEF SubtasksInv, Owners, Budget
<1>6. Queue'
  <2>1. Holders' = Holders /\ \A c : Stopped(c)' <=> Stopped(c)
    BY <1>1 DEF Holders, Stopped, RunOf, CallOf
  <2> QED BY <1>1, <2>1 DEF SubtasksInv, Queue
<1>7. Reports'
  <2>1. \A c \in Subtasks : (report'[c] \in Final => Accounted(c)') /\ (Accounted(c) => Accounted(c)')
    BY <1>1, <1>3 DEF SubtasksInv, Reports, Accounted
  <2>2. \A k \in Calls : calls[k].subs \subseteq Subtasks
    BY DEF SubtasksInv, SubtasksOK, RecordsOK, CallType
  <2> QED BY <1>1, <2>1, <2>2 DEF SubtasksInv, Reports
<1> QED BY <1>4, <1>5, <1>6, <1>7 DEF SubtasksInv

LEMMA SubtasksStarted ==
  ASSUME MaxSlots \in Nat, MaxSubtasks \in Nat, ResearchInit
  PROVE  SubtasksInv
<1>1. SubtasksOK
  BY DEF ResearchInit, SubtasksOK, WorkOK, RecordsOK, CallType, NoCall, Phases
<1>2. Owners
  BY DEF ResearchInit, Owners, NoCall
<1>3. Queue
  <2>1. Holders = {}
    BY DEF ResearchInit, Holders
  <2>2. Cardinality(Holders) = 0
    BY <2>1, FS_EmptySet
  <2>3. Len(waiters) = 0 /\ 1 .. 0 = {}
    BY DEF ResearchInit
  <2>4. \A c \in Subtasks : phase[c] # "waiting"
    BY DEF ResearchInit
  <2> QED BY <2>2, <2>3, <2>4 DEF ResearchInit, Queue
<1>4. Budget
  <2>1. \A r \in Runs : SubtasksOf(r) = {}
    BY DEF ResearchInit, SubtasksOf, NoCall
  <2>2. \A r \in Runs : Cardinality(SubtasksOf(r)) = 0
    BY <2>1, FS_EmptySet
  <2> QED BY <2>2 DEF ResearchInit, Budget
<1>5. Reports
  BY DEF ResearchInit, Reports, NoCall, Accounted, Final
<1> QED BY <1>1, <1>2, <1>3, <1>4, <1>5 DEF SubtasksInv

LEMMA Inductive ==
  ASSUME ResearchAssumption, SubtasksInv, [ResearchNext]_researchVars
  PROVE  SubtasksInv'
<1> USE DEF ResearchAssumption
<1>1. ASSUME power = "on", UNCHANGED power, Steps PROVE SubtasksInv'
  <2>1. ASSUME NEW k \in Calls, NEW r \in Runs, NEW subs \in SUBSET Subtasks,
               NEW unwritten \in SUBSET subs, Delegate(k, r, subs, unwritten)
        PROVE  SubtasksInv'
    BY <1>1, <2>1, DelegateKeeps
  <2>2. ASSUME NEW k \in Calls, Return(k) PROVE SubtasksInv'
    BY <1>1, <2>2, ReturnKeeps
  <2>3. ASSUME NEW r \in Runs, CancelRun(r) PROVE SubtasksInv'
    BY <1>1, <2>3, CancelKeeps
  <2>4. ASSUME NEW c \in Subtasks, Expire(c) PROVE SubtasksInv'
    BY <1>1, <2>4, ExpireKeeps
  <2>5. ASSUME NEW c \in Subtasks, Begin(c) PROVE SubtasksInv'
    BY <1>1, <2>5, BeginKeeps
  <2>6. ASSUME NEW c \in Subtasks,
               EndRefused(c) \/ EndAtStart(c) \/ EndAnswered(c) \/ EndFailed(c) \/ EndStopped(c)
        PROVE  SubtasksInv'
    <3>1. PICK with \in Final : Ends(c, with)
      BY <2>6 DEF EndRefused, EndAtStart, EndAnswered, EndFailed, EndStopped, Final
    <3>2. phase[c] \in {"refused", "granted", "running"}
      BY <2>6 DEF EndRefused, EndAtStart, EndAnswered, EndFailed, EndStopped
    <3> QED BY <1>1, <3>1, <3>2, EndsKeeps
  <2> QED BY <1>1, <2>1, <2>2, <2>3, <2>4, <2>5, <2>6 DEF Steps
<1>2. CASE UNCHANGED researchVars
  <2>1. SubtasksOK' /\ Owners' /\ Budget' /\ Reports'
    <3>1. SubtasksOK'
      BY ONLY <1>2, SubtasksInv DEF researchVars, SubtasksInv, SubtasksOK, WorkOK, RecordsOK
    <3>2. Owners' /\ Reports'
      BY ONLY <1>2, SubtasksInv DEF researchVars, SubtasksInv, Owners, Reports, Accounted
    <3>3. Budget'
      BY ONLY <1>2, SubtasksInv DEF researchVars, SubtasksInv, Budget, SubtasksOf
    <3> QED BY <3>1, <3>2, <3>3
  <2>2. Queue'
    <3>1. Holders' = Holders /\ \A c : Stopped(c)' <=> Stopped(c)
      BY <1>2 DEF researchVars, Holders, Stopped, RunOf, CallOf
    <3> QED BY <1>2, <3>1 DEF researchVars, SubtasksInv, Queue
  <2> QED BY <2>1, <2>2 DEF SubtasksInv
<1> QED BY <1>1, <1>2, CrashKeeps, RecoverKeeps DEF ResearchNext

\* The invariant of slots, queue and budgets holds throughout (execute, runChild and
\* recoverSession of the research tools).
THEOREM Invariance == ASSUME ResearchAssumption PROVE ResearchSpec => []SubtasksInv
<1>1. ResearchInit => SubtasksInv
  BY SubtasksStarted DEF ResearchAssumption
<1>2. SubtasksInv /\ [ResearchNext]_researchVars => SubtasksInv'
  BY Inductive
<1> QED BY <1>1, <1>2, PTL DEF ResearchSpec

(* Slots are held by those that were granted one and have not ended, no    *)
(* slot is free while somebody waits, nobody waits in vain, and the        *)
(* subtasks of a run stay within its budget, however many runs delegate at *)
(* once and whatever is cancelled or times out between (ResearchSlots,     *)
(* ResearchTools.execute).                                                 *)
THEOREM LimitsAreKept == ASSUME ResearchAssumption PROVE ResearchSpec => []LimitsHold
<1>1. SubtasksInv => LimitsHold
  <2>1. SUFFICES ASSUME SubtasksInv PROVE LimitsHold
    OBVIOUS
  <2>2. Len(waiters) \in Nat /\ DOMAIN waiters = 1 .. Len(waiters)
        /\ \A i \in 1 .. Len(waiters) : waiters[i] \in Subtasks
    BY <2>1 DEF SubtasksInv, SubtasksOK, WorkOK
  <2>3. /\ slots = Cardinality(Holders) /\ slots <= MaxSlots
        /\ waiters # <<>> => slots = MaxSlots
    BY <2>1 DEF SubtasksInv, Queue
  <2>4. /\ \A i \in DOMAIN waiters : phase[waiters[i]] = "waiting" /\ ~Stopped(waiters[i])
        /\ \A c \in Subtasks : phase[c] = "waiting" => \E i \in DOMAIN waiters : waiters[i] = c
    BY <2>1, <2>2 DEF SubtasksInv, Queue
  <2>5. power = "on" =>
          \A r \in Runs :
            Cardinality(UNION {calls[k].subs : k \in {k \in Calls : calls[k].run = r}})
              <= MaxSubtasks
    <3>1. power = "on" => \A r \in Runs : Cardinality(SubtasksOf(r)) <= MaxSubtasks
      BY <2>1 DEF SubtasksInv, Budget
    <3> QED BY <3>1 DEF SubtasksOf
  <2> QED BY <2>3, <2>4, <2>5 DEF LimitsHold
<1> QED BY <1>1, Invariance, PTL

(* What a call answers with is in files that say of every subtask what     *)
(* became of it, through stops and starts and writes that fail, and no     *)
(* file that says how its subtask ended says anything else than what it    *)
(* was (runChild, recoverSession).                                         *)
THEOREM ReportsTellTheTruth == ASSUME ResearchAssumption PROVE ResearchSpec => []ReportsAreTrue
<1>1. SubtasksInv => ReportsAreTrue
  <2>1. SUFFICES ASSUME SubtasksInv PROVE ReportsAreTrue
    OBVIOUS
  <2>2. \A k \in Calls : calls[k].subs \subseteq Subtasks
    BY <2>1 DEF SubtasksInv, SubtasksOK, RecordsOK, CallType
  <2> QED BY <2>1, <2>2 DEF SubtasksInv, Reports, ReportsAreTrue, Accounted
<1> QED BY <1>1, Invariance, PTL
=============================================================================
