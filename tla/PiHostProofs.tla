---------------------------- MODULE PiHostProofs ----------------------------
(***************************************************************************)
(* PiHost for every value of its bounds.                                   *)
(*                                                                         *)
(* Journey: a prompt is in one place at a time (not sent yet, on the pipe, *)
(* in the child's chain, begun), and an abort is behind the prompt it      *)
(* names.  So a prompt that was cancelled in the chain is not begun, and a *)
(* line of the child that names this turn's prompt answers this turn.      *)
(*                                                                         *)
(* Texts: what the child said for a turn that nothing disturbed has been   *)
(* read, is in the queue or is on the pipe, and its agent_end is behind.   *)
(*                                                                         *)
(* Stream: every step is a step of EventStream or leaves it alone.         *)
(***************************************************************************)
EXTENDS PiHost, FiniteSetTheorems, TLAPS

KidRecord ==
  [pc : {"init", "idle", "choosing", "running", "ended", "broken"}, prompt : Prompts,
   serial : Seq(Prompts), cancelled : SUBSET Prompts, interrupted : BOOLEAN,
   requests : SUBSET (1 .. MaxTools), counter : 0 .. MaxTools]

\* A tool request on the pipe has a number.
ToolLines == \A i \in 1 .. Len(toHost) : toHost[i].t = "tool" => toHost[i].id # 0

Types == TypeOK /\ kid \in KidRecord /\ ToolLines

-----------------------------------------------------------------------------
(* The lines of one kind and prompt on a pipe, and the prompts of a chain *)

Is(line, t, p) == line.t = t /\ line.p = p
Has(s, t, p) == \E i \in 1 .. Len(s) : Is(s[i], t, p)
AtMostOne(s, t, p) == \A i, j \in 1 .. Len(s) : Is(s[i], t, p) /\ Is(s[j], t, p) => i = j
NoneAfter(s, t, u, p) ==
  \A i, j \in 1 .. Len(s) : i < j /\ Is(s[i], t, p) => ~Is(s[j], u, p)
Places(s, t, p) == {i \in 1 .. Len(s) : Is(s[i], t, p)}
Count(s, t, p) == Cardinality(Places(s, t, p))

Chained(p) == \E i \in 1 .. Len(kid.serial) : kid.serial[i] = p

-----------------------------------------------------------------------------
(* The inductive invariant *)

\* A turn has a number.
Numbered == pc # "idle" => prompt # 0

Unsent(p) == p > prompt \/ (p = prompt /\ pc = "starting" /\ active = prompt)

JourneyOf(p) ==
  /\ AtMostOne(toChild, "prompt", p)
  /\ \A i, j \in 1 .. Len(kid.serial) : kid.serial[i] = p /\ kid.serial[j] = p => i = j
  /\ NoneAfter(toChild, "abort", "prompt", p)
  /\ Unsent(p) => /\ ~Has(toChild, "prompt", p) /\ ~Chained(p) /\ ~Has(toChild, "abort", p)
                  /\ p # kid.prompt /\ p \notin asked /\ p \notin refused
  /\ Has(toChild, "prompt", p) => ~Chained(p)
  /\ Has(toChild, "prompt", p) \/ Chained(p) => p # kid.prompt /\ p \notin asked
  /\ p \in refused => /\ p \notin asked /\ ~Has(toChild, "prompt", p)
                      /\ Chained(p) => p \in kid.cancelled
  /\ kid.pc = "choosing" /\ p = kid.prompt => p \notin asked /\ p \notin refused

\* What the child is busy with, and what it says, it was asked.
BusyIsAsked ==
  /\ 0 \notin asked /\ 0 \notin refused
  /\ \A i \in 1 .. Len(kid.serial) : kid.serial[i] # 0
  /\ \A i \in 1 .. Len(toChild) : toChild[i].t = "prompt" => toChild[i].p # 0
  /\ kid.pc \in {"choosing", "running", "ended"} => kid.prompt # 0
  /\ kid.pc \in {"running", "ended"} => kid.prompt \in asked
  /\ \A t \in {"text", "end", "tool"}, p \in Prompts : Has(toHost, t, p) => p \in asked

Journey == BusyIsAsked /\ \A p \in 1 .. MaxPrompts : JourneyOf(p)

\* Tools run only in a turn that has not been told to stop.
ToolsOfTurn ==
  /\ pc \in {"idle", "finishing"} => aborted
  /\ pc \in {"idle", "starting"} => tools = {}
  /\ pc = "finishing" => tools \subseteq awaited

\* Nothing has gone wrong with the turn so far as its reader can tell.
Undisturbed ==
  /\ ~failed /\ ~stop /\ ~destroyed
  /\ \A i \in 1 .. Len(queue) : queue[i].k # "error"

EndSeen ==
  /\ Has(toHost, "end", prompt) => ended
  /\ NoneAfter(toHost, "end", "text", prompt)
  /\ ended => prompt \in asked /\ ~(kid.pc = "running" /\ kid.prompt = prompt)

Flow ==
  Reading /\ Undisturbed =>
    /\ active = prompt
    /\ got + Len(queue) + Count(toHost, "text", prompt) = said
    /\ done => ended /\ got + Len(queue) = said

Texts == EndSeen /\ Flow

-----------------------------------------------------------------------------
(* A line joins a pipe at its end and leaves it at its head *)

LEMMA AppendLine ==
  ASSUME NEW s \in Seq(Line), NEW x \in Line, NEW t, NEW u, NEW p
  PROVE  /\ Append(s, x) \in Seq(Line)
         /\ Has(Append(s, x), t, p) <=> Has(s, t, p) \/ Is(x, t, p)
         /\ AtMostOne(s, t, p) /\ (Is(x, t, p) => ~Has(s, t, p)) => AtMostOne(Append(s, x), t, p)
         /\ NoneAfter(s, t, u, p) /\ (Is(x, u, p) => ~Has(s, t, p)) => NoneAfter(Append(s, x), t, u, p)
<1> DEFINE a == Append(s, x)
<1>1. /\ a \in Seq(Line) /\ Len(a) = Len(s) + 1 /\ Len(s) \in Nat
      /\ \A i \in 1 .. Len(s) : a[i] = s[i] /\ i \in 1 .. Len(a)
      /\ a[Len(s) + 1] = x /\ Len(s) + 1 \in 1 .. Len(a)
      /\ \A i \in 1 .. Len(a) : i \in 1 .. Len(s) \/ i = Len(s) + 1
  OBVIOUS
<1> HIDE DEF a
<1>2. Has(a, t, p) <=> Has(s, t, p) \/ Is(x, t, p)
  BY <1>1 DEF Has
<1>3. AtMostOne(s, t, p) /\ (Is(x, t, p) => ~Has(s, t, p)) => AtMostOne(a, t, p)
  BY <1>1 DEF AtMostOne, Has
<1>4. NoneAfter(s, t, u, p) /\ (Is(x, u, p) => ~Has(s, t, p)) => NoneAfter(a, t, u, p)
  BY <1>1 DEF NoneAfter, Has
<1>5. QED
  BY <1>1, <1>2, <1>3, <1>4 DEF a

LEMMA TailLine ==
  ASSUME NEW s \in Seq(Line), s # <<>>, NEW t, NEW u, NEW p
  PROVE  /\ Tail(s) \in Seq(Line) /\ Head(s) \in Line
         /\ Is(Head(s), t, p) => Has(s, t, p)
         /\ Has(Tail(s), t, p) => Has(s, t, p)
         /\ AtMostOne(s, t, p) => /\ AtMostOne(Tail(s), t, p)
                                  /\ Is(Head(s), t, p) => ~Has(Tail(s), t, p)
         /\ NoneAfter(s, t, u, p) => /\ NoneAfter(Tail(s), t, u, p)
                                     /\ Is(Head(s), t, p) => ~Has(Tail(s), u, p)
<1> DEFINE a == Tail(s)
<1> DEFINE h == Head(s)
<1>1. /\ a \in Seq(Line) /\ h \in Line /\ Len(a) = Len(s) - 1 /\ Len(s) \in Nat /\ Len(a) \in Nat
      /\ \A i \in 1 .. Len(a) : a[i] = s[i + 1] /\ i + 1 \in 1 .. Len(s)
      /\ h = s[1] /\ 1 \in 1 .. Len(s)
  OBVIOUS
<1> HIDE DEF a, h
<1>2. (Is(h, t, p) => Has(s, t, p)) /\ (Has(a, t, p) => Has(s, t, p))
  BY <1>1 DEF Has
<1>3. AtMostOne(s, t, p) => AtMostOne(a, t, p) /\ (Is(h, t, p) => ~Has(a, t, p))
  BY <1>1 DEF AtMostOne, Has
<1>4. NoneAfter(s, t, u, p) => NoneAfter(a, t, u, p) /\ (Is(h, t, p) => ~Has(a, u, p))
  BY <1>1 DEF NoneAfter, Has
<1>5. QED
  BY <1>1, <1>2, <1>3, <1>4 DEF a, h

LEMMA EmptyLine ==
  ASSUME NEW t, NEW u, NEW p
  PROVE  /\ <<>> \in Seq(Line) /\ ~Has(<<>>, t, p) /\ AtMostOne(<<>>, t, p)
         /\ NoneAfter(<<>>, t, u, p)
BY DEF Has, AtMostOne, NoneAfter

LEMMA CountIsNat ==
  ASSUME NEW s \in Seq(Line), NEW t, NEW p
  PROVE  /\ IsFiniteSet(Places(s, t, p)) /\ Count(s, t, p) \in Nat
         /\ Count(s, t, p) = 0 <=> ~Has(s, t, p)
<1>1. IsFiniteSet(1 .. Len(s)) /\ Places(s, t, p) \subseteq 1 .. Len(s)
  BY FS_Interval DEF Places
<1>2. IsFiniteSet(Places(s, t, p)) /\ Count(s, t, p) \in Nat
  BY <1>1, FS_Subset, FS_CardinalityType DEF Count
<1>3. Count(s, t, p) = 0 <=> Places(s, t, p) = {}
  BY <1>2, FS_EmptySet DEF Count
<1>4. QED
  BY <1>2, <1>3 DEF Places, Has

LEMMA CountAppend ==
  ASSUME NEW s \in Seq(Line), NEW x \in Line, NEW t, NEW p
  PROVE  Count(Append(s, x), t, p) = Count(s, t, p) + (IF Is(x, t, p) THEN 1 ELSE 0)
<1> DEFINE a == Append(s, x)
<1>1. /\ Len(a) = Len(s) + 1 /\ Len(s) \in Nat
      /\ \A i \in 1 .. Len(s) : a[i] = s[i] /\ i \in 1 .. Len(a)
      /\ a[Len(s) + 1] = x /\ Len(s) + 1 \in 1 .. Len(a)
      /\ \A i \in 1 .. Len(a) : i \in 1 .. Len(s) \/ i = Len(s) + 1
      /\ Len(s) + 1 \notin 1 .. Len(s)
  OBVIOUS
<1> HIDE DEF a
<1>2. Places(a, t, p) = IF Is(x, t, p) THEN Places(s, t, p) \cup {Len(s) + 1} ELSE Places(s, t, p)
  BY <1>1 DEF Places
<1>3. IsFiniteSet(Places(s, t, p)) /\ Count(s, t, p) \in Nat /\ Len(s) + 1 \notin Places(s, t, p)
  BY <1>1, CountIsNat DEF Places
<1>4. Cardinality(Places(s, t, p) \cup {Len(s) + 1}) = Cardinality(Places(s, t, p)) + 1
  BY <1>3, FS_AddElement
<1>5. QED
  BY <1>2, <1>3, <1>4 DEF a, Count

LEMMA CountTail ==
  ASSUME NEW s \in Seq(Line), s # <<>>, NEW t, NEW p
  PROVE  Count(Tail(s), t, p) = Count(s, t, p) - (IF Is(Head(s), t, p) THEN 1 ELSE 0)
<1> DEFINE a == Tail(s)
<1> DEFINE rest == Places(s, t, p) \ {1}
<1>1. /\ Len(a) = Len(s) - 1 /\ Len(s) \in Nat /\ Len(a) \in Nat
      /\ \A i \in 1 .. Len(a) : a[i] = s[i + 1] /\ i + 1 \in 1 .. Len(s)
      /\ \A i \in 1 .. Len(s) : i # 1 => i - 1 \in 1 .. Len(a) /\ s[i] = a[i - 1]
      /\ Head(s) = s[1] /\ 1 \in 1 .. Len(s)
  OBVIOUS
<1> HIDE DEF a
<1>2. IsFiniteSet(Places(s, t, p)) /\ Count(s, t, p) \in Nat
  BY CountIsNat
<1>3. IsFiniteSet(rest) /\ Cardinality(rest) = Count(s, t, p) - (IF Is(Head(s), t, p) THEN 1 ELSE 0)
  <2>1. 1 \in Places(s, t, p) <=> Is(Head(s), t, p)
    BY <1>1 DEF Places
  <2>2. QED
    BY <1>2, <2>1, FS_RemoveElement DEF Count
<1>4. ExistsBijection(rest, Places(a, t, p))
  <2> DEFINE f == [i \in rest |-> i - 1]
  <2>1. f \in [rest -> Places(a, t, p)]
    BY <1>1 DEF Places
  <2>2. \A i, j \in rest : f[i] = f[j] => i = j
    BY DEF Places
  <2>3. ASSUME NEW k \in Places(a, t, p) PROVE \E i \in rest : f[i] = k
    <3>1. k \in 1 .. Len(a) /\ k + 1 \in rest
      BY <1>1, <2>3 DEF Places
    <3>2. f[k + 1] = k
      BY <3>1
    <3>3. QED
      BY <3>1, <3>2
  <2> HIDE DEF f
  <2>4. f \in Bijection(rest, Places(a, t, p))
    BY <2>1, <2>2, <2>3 DEF Bijection, Injection, Surjection, IsInjective
  <2>5. QED
    BY <2>4 DEF ExistsBijection
<1>5. Cardinality(Places(a, t, p)) = Cardinality(rest)
  BY <1>3, <1>4, FS_Bijection
<1>6. QED
  BY <1>3, <1>5 DEF a, Count

-----------------------------------------------------------------------------
(* Types *)

LEMMA InitTypes == Init => Types
<1> SUFFICES ASSUME Init PROVE Types
  OBVIOUS
<1>1. 0 \in Prompts /\ 0 \in 0 .. MaxTools /\ 0 \in 0 .. MaxChildren
  BY PiHostAssumption DEF Prompts
<1>2. /\ kid = NewKid /\ NewKid \in KidRecord
      /\ NewKid.pc = "init" /\ NewKid.prompt = 0 /\ NewKid.counter = 0
  BY <1>1 DEF Init, KidRecord, NewKid
<1>3. ToolLines
  BY DEF Init, ToolLines
<1>4. FlagsOK
  BY DEF Init, FlagsOK
<1>5. TypeOK
  BY <1>1, <1>2, <1>4 DEF Init, TypeOK
<1>6. QED
  BY <1>2, <1>3, <1>5 DEF Types

LEMMA SentTypes ==
  ASSUME Types, NEW line \in Line PROVE Sent(line) \in Seq(Line)
BY DEF Types, TypeOK, Sent

LEMMA FlagsStep ==
  ASSUME Types, Next PROVE FlagsOK'
<1>1. CASE Chat
  BY <1>1 DEF Chat, ChatOnChild, ChatSpawns, ChatDestroyed, BeginTurn, linkVars, Types, TypeOK, FlagsOK
<1>2. CASE Continues
  BY <1>2 DEF Continues, ChatReady, ChatGivenUp, ChatFails, GiveUpChild, Take, TakeAndLeave, Drained,
     Finish, Finally, queueVars, linkVars, kidVars, Types, TypeOK, FlagsOK
<1>3. CASE Interrupts
  BY <1>3 DEF Interrupts, Cancel, Timeout, Interrupt, Destroy, Exit, PipeBreaks, LateWriteFails,
     GiveUpChild, FailTurn, hostVars, linkVars, kidVars, Types, TypeOK, FlagsOK
<1>4. CASE Reads
  BY <1>4 DEF Reads, ReadReady, ReadText, ReadEnd, ReadTool, ReadError, hostVars, queueVars, linkVars,
     kidVars, Types, TypeOK, FlagsOK
<1>5. CASE ToolReturns
  BY <1>5 DEF ToolReturns, ToolEnds, queueVars, linkVars, kidVars, Types, TypeOK, FlagsOK
<1>6. CASE Child
  BY <1>6 DEF Child, ChildReadsPrompt, ChildReadsAbort, ChildReadsAnswer, ChildReady, ChildInitFails,
     ChildTakes, ChildAsks, ChildText, ChildTool, ChildToolGivesUp, ChildEnds, ChildThrows, ChildDone,
     ChildStep, hostVars, queueVars, linkVars, Types, TypeOK, FlagsOK
<1>7. QED
  BY <1>1, <1>2, <1>3, <1>4, <1>5, <1>6 DEF Next

LEMMA TypesChat ==
  ASSUME Types, Chat, FlagsOK' PROVE Types'
<1> USE PiHostAssumption
<1>1. prompt + 1 \in Prompts /\ Say("prompt", prompt + 1, 0) \in Line
  BY DEF Chat, ChatOnChild, ChatSpawns, ChatDestroyed, BeginTurn, Types, TypeOK, Say, Line, Prompts
<1>2. CASE ChatOnChild
  BY <1>1, <1>2, SentTypes DEF ChatOnChild, BeginTurn, linkVars, Types, TypeOK, ToolLines
<1>3. CASE ChatSpawns
  <2>1. NewKid \in KidRecord
    BY DEF NewKid, KidRecord, Prompts
  <2>2. kid'.pc = "init" /\ kid'.prompt = 0 /\ kid'.counter = 0 /\ 0 \in Prompts
    BY <1>3 DEF ChatSpawns, NewKid, Prompts
  <2>3. QED
    BY <1>1, <1>3, <2>1, <2>2 DEF ChatSpawns, BeginTurn, Types, TypeOK, ToolLines
<1>4. CASE ChatDestroyed
  BY <1>1, <1>4 DEF ChatDestroyed, BeginTurn, linkVars, Types, TypeOK, ToolLines
<1>5. QED
  BY <1>2, <1>3, <1>4 DEF Chat

\* A child that is given up.
LEMMA GiveUpTypes ==
  ASSUME Types, GiveUpChild \/ UNCHANGED <<child, writable, owed, toHost, toChild, kid>>
  PROVE  /\ toHost' \in Seq(Line) /\ toChild' \in Seq(Line) /\ kid' \in KidRecord /\ ToolLines'
         /\ kid'.pc \in {"init", "idle", "choosing", "running", "ended", "broken"}
         /\ kid'.prompt \in Prompts /\ kid'.counter \in 0 .. MaxTools
<1>1. CASE GiveUpChild
  <2>1. /\ NewKid \in KidRecord /\ NewKid.pc = "init" /\ NewKid.prompt = 0 /\ NewKid.counter = 0
        /\ 0 \in Prompts /\ 0 \in 0 .. MaxTools
    BY PiHostAssumption DEF NewKid, KidRecord, Prompts
  <2>2. ToolLines'
    BY <1>1 DEF GiveUpChild, ToolLines
  <2>3. QED
    BY <1>1, <2>1, <2>2 DEF GiveUpChild, Types, TypeOK
<1>2. CASE UNCHANGED <<child, writable, owed, toHost, toChild, kid>>
  BY <1>2 DEF Types, TypeOK, ToolLines
<1>3. QED
  BY <1>1, <1>2

LEMMA TypesContinues ==
  ASSUME Types, Continues, FlagsOK' PROVE Types'
<1>1. CASE ChatReady
  <2>1. Say("prompt", prompt, 0) \in Line
    BY PiHostAssumption DEF Types, TypeOK, Say, Line, Prompts
  <2>2. QED
    BY <1>1, <2>1, SentTypes DEF ChatReady, queueVars, linkVars, kidVars, Types, TypeOK, ToolLines
<1>2. CASE ChatGivenUp
  BY <1>2 DEF ChatGivenUp, queueVars, linkVars, kidVars, Types, TypeOK, ToolLines
<1>3. CASE ChatFails
  BY <1>3, GiveUpTypes DEF ChatFails, queueVars, Types, TypeOK
<1>4. CASE Take
  BY <1>4 DEF Take, queueVars, linkVars, kidVars, Types, TypeOK, ToolLines
<1>5. CASE TakeAndLeave
  BY <1>5 DEF TakeAndLeave, Finally, linkVars, kidVars, Types, TypeOK, ToolLines
<1>6. CASE Drained
  BY <1>6 DEF Drained, Finally, queueVars, linkVars, kidVars, Types, TypeOK, ToolLines
<1>7. CASE Finish
  BY <1>7 DEF Finish, queueVars, linkVars, kidVars, Types, TypeOK, ToolLines
<1>8. QED
  BY <1>1, <1>2, <1>3, <1>4, <1>5, <1>6, <1>7 DEF Continues

LEMMA TypesInterrupts ==
  ASSUME Types, Interrupts, FlagsOK' PROVE Types'
<1>1. HostError \in Event /\ Say("abort", active, 0) \in Line /\ Append(queue, HostError) \in Seq(Event)
  BY PiHostAssumption DEF Types, TypeOK, HostError, Event, Say, Line, Prompts
<1>2. Sent(Say("abort", active, 0)) \in Seq(Line)
  BY <1>1, SentTypes
<1>3. CASE Cancel
  BY <1>2, <1>3 DEF Cancel, Interrupt, linkVars, kidVars, Types, TypeOK, ToolLines
<1>4. CASE Timeout
  BY <1>1, <1>2, <1>4 DEF Timeout, Interrupt, linkVars, kidVars, Types, TypeOK, ToolLines
<1>5. CASE Destroy
  BY <1>5, GiveUpTypes DEF Destroy, Rejected, Types, TypeOK
<1>6. CASE Exit
  BY <1>1, <1>6, GiveUpTypes DEF Exit, Rejected, Types, TypeOK
<1>7. CASE PipeBreaks
  BY <1>1, <1>7 DEF PipeBreaks, FailTurn, Rejected, kidVars, Types, TypeOK, ToolLines
<1>8. CASE LateWriteFails
  BY <1>1, <1>8 DEF LateWriteFails, FailTurn, hostVars, kidVars, Types, TypeOK, ToolLines
<1>9. QED
  BY <1>3, <1>4, <1>5, <1>6, <1>7, <1>8 DEF Interrupts

\* What the host finds at the head of the pipe, and what stays on it.
LEMMA NextLineTypes ==
  ASSUME Types, NEW t, NextLine(t)
  PROVE  /\ toHost \in Seq(Line) /\ toHost # <<>>
         /\ Head(toHost) \in Line /\ toHost' \in Seq(Line) /\ ToolLines'
         /\ t = "tool" => Head(toHost).id \in 1 .. MaxTools
<1>1. /\ Head(toHost) \in Line /\ Tail(toHost) \in Seq(Line) /\ Head(toHost) = toHost[1]
      /\ Len(toHost) \in Nat /\ 1 \in 1 .. Len(toHost) /\ Len(Tail(toHost)) = Len(toHost) - 1
      /\ \A i \in 1 .. Len(Tail(toHost)) : i + 1 \in 1 .. Len(toHost) /\ Tail(toHost)[i] = toHost[i + 1]
  BY DEF Types, TypeOK, NextLine
<1>2. ToolLines'
  BY <1>1 DEF Types, ToolLines, NextLine
<1>3. t = "tool" => Head(toHost).id \in 1 .. MaxTools
  BY <1>1, PiHostAssumption DEF Types, ToolLines, NextLine, Line
<1>4. QED
  BY <1>1, <1>2, <1>3 DEF NextLine, Types, TypeOK

LEMMA TypesReads ==
  ASSUME Types, Reads, FlagsOK' PROVE Types'
<1>1. CASE ReadReady
  BY <1>1, NextLineTypes DEF ReadReady, hostVars, queueVars, kidVars, Types, TypeOK
<1>2. CASE ReadText
  <2>1. [k |-> "text", p |-> Head(toHost).p] \in Event
    BY <1>2, NextLineTypes DEF ReadText, Line, Event
  <2>2. queue' \in Seq(Event)
    BY <1>2, <2>1 DEF ReadText, Types, TypeOK
  <2>3. QED
    BY <1>2, <2>2, NextLineTypes DEF ReadText, hostVars, linkVars, kidVars, Types, TypeOK
<1>3. CASE ReadEnd
  BY <1>3, NextLineTypes DEF ReadEnd, hostVars, linkVars, kidVars, Types, TypeOK
<1>4. CASE ReadTool
  <2>1. Head(toHost).id \in 1 .. MaxTools
    BY <1>4, NextLineTypes DEF ReadTool
  <2>2. Say("answer", 0, Head(toHost).id) \in Line
    BY <2>1, PiHostAssumption DEF Say, Line, Prompts
  <2>3. toChild' \in Seq(Line) /\ tools' \subseteq 1 .. MaxTools
    BY <1>4, <2>1, <2>2, SentTypes DEF ReadTool, Types, TypeOK
  <2>4. QED
    BY <1>4, <2>3, NextLineTypes DEF ReadTool, queueVars, linkVars, kidVars, Types, TypeOK
<1>5. CASE ReadError
  <2>1. [k |-> "error", p |-> Head(toHost).p] \in Event
    BY <1>5, NextLineTypes DEF ReadError, Line, Event
  <2>2. queue' \in Seq(Event) /\ ready' \in {"pending", "resolved", "rejected"}
    <3>1. CASE Mine(Head(toHost))
      <4>1. queue' = Append(queue, [k |-> "error", p |-> Head(toHost).p]) /\ ready' = Rejected
        BY <1>5, <3>1 DEF ReadError
      <4>2. queue' \in Seq(Event)
        BY <2>1, <4>1 DEF Types, TypeOK
      <4>3. QED
        BY <4>1, <4>2 DEF Rejected, Types, TypeOK
    <3>2. CASE ~Mine(Head(toHost))
      BY <1>5, <3>2 DEF ReadError, Types, TypeOK
    <3>3. QED
      BY <3>1, <3>2
  <2>3. QED
    BY <1>5, <2>2, NextLineTypes DEF ReadError, hostVars, kidVars, Types, TypeOK
<1>6. QED
  BY <1>1, <1>2, <1>3, <1>4, <1>5 DEF Reads

LEMMA TypesTools ==
  ASSUME Types, ToolReturns, FlagsOK' PROVE Types'
<1>1. PICK id \in 1 .. MaxTools : ToolEnds(id)
  BY DEF ToolReturns
<1>2. Say("answer", 0, id) \in Line
  BY PiHostAssumption DEF Say, Line, Prompts
<1>3. QED
  BY <1>1, <1>2, SentTypes DEF ToolEnds, queueVars, linkVars, kidVars, Types, TypeOK, ToolLines

\* A step of the child leaves the host alone.
LEMMA ChildTypes ==
  ASSUME Types, ChildStep, FlagsOK', kid' \in KidRecord, toChild' \in Seq(Line),
         toHost' \in Seq(Line), ToolLines', asked' \subseteq Prompts, refused' \subseteq Prompts,
         said' \in Nat
  PROVE  Types'
<1>1. /\ kid'.pc \in {"init", "idle", "choosing", "running", "ended", "broken"}
      /\ kid'.prompt \in Prompts /\ kid'.counter \in 0 .. MaxTools
  BY DEF KidRecord
<1>2. QED
  BY <1>1 DEF ChildStep, hostVars, queueVars, linkVars, Types, TypeOK

\* The line that the child writes.
LEMMA WritesTypes ==
  ASSUME Types, NEW t \in {"ready", "text", "end", "tool", "error"}, NEW id \in 0 .. MaxTools,
         Writes(t, id), t = "tool" => id # 0
  PROVE  toHost' \in Seq(Line) /\ ToolLines' /\ Say(t, kid.prompt, id) \in Line
<1> DEFINE x == Say(t, kid.prompt, id)
<1>1. x \in Line /\ x.t = t /\ x.id = id
  BY DEF Types, TypeOK, Say, Line
<1>2. /\ Append(toHost, x) \in Seq(Line) /\ Len(Append(toHost, x)) = Len(toHost) + 1
      /\ Len(toHost) \in Nat /\ Append(toHost, x)[Len(toHost) + 1] = x
      /\ \A i \in 1 .. Len(toHost) : Append(toHost, x)[i] = toHost[i]
  BY <1>1 DEF Types, TypeOK
<1>3. toHost' = Append(toHost, x)
  BY DEF Writes
<1> HIDE DEF x
<1>4. ToolLines'
  BY <1>1, <1>2, <1>3 DEF Types, ToolLines
<1>5. QED
  BY <1>1, <1>2, <1>3, <1>4 DEF x

LEMMA TypesChild ==
  ASSUME Types, Child, FlagsOK' PROVE Types'
<1>1. /\ kid \in KidRecord /\ asked \subseteq Prompts /\ refused \subseteq Prompts /\ said \in Nat
      /\ toHost \in Seq(Line) /\ toChild \in Seq(Line) /\ ToolLines
  BY DEF Types, TypeOK
<1>2. /\ kid.serial \in Seq(Prompts) /\ kid.prompt \in Prompts /\ kid.cancelled \subseteq Prompts
      /\ kid.requests \subseteq 1 .. MaxTools /\ kid.counter \in 0 .. MaxTools
      /\ 0 \in Prompts /\ 0 \in 0 .. MaxTools
  BY <1>1, PiHostAssumption DEF KidRecord, Prompts
<1>3. CASE ChildReadsPrompt \/ ChildReadsAbort \/ ChildReadsAnswer
  <2>1. Head(toChild) \in Line /\ Tail(toChild) \in Seq(Line) /\ Head(toChild).p \in Prompts
    <3>1. toChild # <<>>
      BY <1>3 DEF ChildReadsPrompt, ChildReadsAbort, ChildReadsAnswer
    <3>2. Head(toChild) \in Line /\ Tail(toChild) \in Seq(Line)
      BY <1>1, <3>1
    <3>3. QED
      BY <3>2 DEF Line
  <2>2. /\ toChild' \in Seq(Line) /\ UNCHANGED <<toHost, asked, said>> /\ ChildStep
        /\ refused' \subseteq Prompts
    BY <1>1, <1>3, <2>1 DEF ChildReadsPrompt, ChildReadsAbort, ChildReadsAnswer
  <2>3. CASE ChildReadsPrompt
    <3>1. Append(kid.serial, Head(toChild).p) \in Seq(Prompts)
      BY <1>2, <2>1
    <3>2. kid' \in KidRecord
      BY <1>1, <2>3, <3>1 DEF ChildReadsPrompt, KidRecord
    <3>3. QED
      BY <1>1, <2>2, <3>2, ChildTypes DEF ToolLines
  <2>4. CASE ChildReadsAbort
    <3>1. kid' \in KidRecord
      BY <1>1, <1>2, <2>1, <2>4 DEF ChildReadsAbort, KidRecord
    <3>2. QED
      BY <1>1, <2>2, <3>1, ChildTypes DEF ToolLines
  <2>5. CASE ChildReadsAnswer
    BY <1>1, <1>2, <2>1, <2>2, <2>5, ChildTypes DEF ChildReadsAnswer, KidRecord, ToolLines
  <2>6. QED
    BY <1>3, <2>3, <2>4, <2>5
<1>4. CASE ChildReady \/ ChildInitFails \/ ChildText \/ ChildTool \/ ChildEnds \/ ChildThrows
  <2>1. /\ UNCHANGED <<toChild, asked, refused>> /\ ChildStep
        /\ said' \in Nat
    BY <1>1, <1>4 DEF ChildReady, ChildInitFails, ChildText, ChildTool, ChildEnds, ChildThrows
  <2>2. kid' \in KidRecord
    <3>1. CASE ChildReady \/ ChildInitFails
      BY <1>1, <3>1 DEF ChildReady, ChildInitFails, KidRecord
    <3>2. CASE ChildText
      BY <1>1, <3>2 DEF ChildText
    <3>3. CASE ChildTool
      <4>1. kid.counter + 1 \in 0 .. MaxTools /\ kid.counter + 1 \in 1 .. MaxTools
        BY <1>2, <3>3, PiHostAssumption DEF ChildTool
      <4>2. QED
        BY <1>1, <1>2, <3>3, <4>1 DEF ChildTool, KidRecord
    <3>4. CASE ChildEnds
      BY <1>1, <3>4 DEF ChildEnds, KidRecord
    <3>5. CASE ChildThrows
      BY <1>1, <1>2, <3>5 DEF ChildThrows, PromptOver, KidRecord
    <3>6. QED
      BY <1>4, <3>1, <3>2, <3>3, <3>4, <3>5
  <2>3. toHost' \in Seq(Line) /\ ToolLines'
    <3>1. CASE ChildTool
      <4>1. kid.counter + 1 \in 0 .. MaxTools /\ kid.counter + 1 # 0
        BY <1>2, <3>1, PiHostAssumption DEF ChildTool
      <4>2. QED
        BY <3>1, <4>1, WritesTypes DEF ChildTool
    <3>2. CASE ~ChildTool
      BY <1>2, <1>4, <3>2, WritesTypes DEF ChildReady, ChildInitFails, ChildText, ChildEnds, ChildThrows
    <3>3. QED
      BY <3>1, <3>2
  <2>4. QED
    BY <1>1, <2>1, <2>2, <2>3, ChildTypes
<1>5. CASE ChildTakes \/ ChildAsks \/ ChildDone \/ \E id \in 1 .. MaxTools : ChildToolGivesUp(id)
  <2>1. /\ UNCHANGED <<toHost, toChild, refused, said>> /\ ChildStep /\ asked' \subseteq Prompts
    BY <1>1, <1>2, <1>5 DEF ChildTakes, ChildAsks, ChildDone, ChildToolGivesUp
  <2>2. kid' \in KidRecord
    <3>1. CASE ChildTakes
      <4>1. Head(kid.serial) \in Prompts /\ Tail(kid.serial) \in Seq(Prompts)
        BY <1>2, <3>1 DEF ChildTakes
      <4>2. QED
        BY <1>1, <1>2, <3>1, <4>1 DEF ChildTakes, KidRecord
    <3>2. CASE ChildAsks
      BY <1>1, <3>2 DEF ChildAsks, KidRecord
    <3>3. CASE ChildDone
      BY <1>1, <1>2, <3>3 DEF ChildDone, PromptOver, KidRecord
    <3>4. CASE \E id \in 1 .. MaxTools : ChildToolGivesUp(id)
      BY <1>1, <1>2, <3>4 DEF ChildToolGivesUp, KidRecord
    <3>5. QED
      BY <1>5, <3>1, <3>2, <3>3, <3>4
  <2>3. QED
    BY <1>1, <2>1, <2>2, ChildTypes DEF ToolLines
<1>6. QED
  BY <1>3, <1>4, <1>5 DEF Child

LEMMA TypesStep == Types /\ [Next]_vars => Types'
<1> SUFFICES ASSUME Types, [Next]_vars PROVE Types'
  OBVIOUS
<1>1. CASE Next
  BY <1>1, FlagsStep, TypesChat, TypesContinues, TypesInterrupts, TypesReads, TypesTools, TypesChild
     DEF Next
<1>2. CASE UNCHANGED vars
  BY <1>2 DEF vars, hostVars, queueVars, linkVars, kidVars, Types, TypeOK, FlagsOK, ToolLines
<1>3. QED
  BY <1>1, <1>2

\* Every variable of the backend keeps its type, whatever is lost.
THEOREM TypeCorrect == Spec => []TypeOK
<1>1. Spec => []Types
  BY InitTypes, TypesStep, PTL DEF Spec
<1>2. Types => TypeOK
  BY DEF Types
<1>3. QED
  BY <1>1, <1>2, PTL

-----------------------------------------------------------------------------
(* Journey *)

LEMMA InitJourney == Init => Journey
<1> SUFFICES ASSUME Init PROVE Journey
  OBVIOUS
<1>1. /\ toChild = <<>> /\ toHost = <<>> /\ kid.serial = <<>> /\ kid.prompt = 0 /\ kid.pc = "init"
      /\ asked = {} /\ refused = {} /\ pc = "idle"
  BY DEF Init, NewKid
<1>2. BusyIsAsked
  BY <1>1 DEF BusyIsAsked, Has
<1>3. ASSUME NEW p \in 1 .. MaxPrompts PROVE JourneyOf(p)
  BY <1>1, EmptyLine DEF JourneyOf, Chained, Unsent
<1>4. QED
  BY <1>2, <1>3 DEF Journey

\* The pipe to the child gains at most the line that is sent.
LEMMA SentPipe ==
  ASSUME Types, NEW line \in Line, toChild' = Sent(line), NEW p, NEW t, NEW u
  PROVE  /\ Has(toChild', t, p) => Has(toChild, t, p) \/ Is(line, t, p)
         /\ AtMostOne(toChild, t, p) /\ (Is(line, t, p) => ~Has(toChild, t, p)) =>
              AtMostOne(toChild', t, p)
         /\ NoneAfter(toChild, t, u, p) /\ (Is(line, u, p) => ~Has(toChild, t, p)) =>
              NoneAfter(toChild', t, u, p)
BY AppendLine DEF Sent, Types, TypeOK

LEMMA SentIsPrompted ==
  ASSUME Types, BusyIsAsked, NEW line \in Line, toChild' = Sent(line), line.t = "prompt" => line.p # 0
  PROVE  \A i \in 1 .. Len(toChild') : toChild'[i].t = "prompt" => toChild'[i].p # 0
<1>1. CASE toChild' = Append(toChild, line)
  <2>1. /\ \A i \in 1 .. Len(toChild) : toChild'[i] = toChild[i]
        /\ Len(toChild') = Len(toChild) + 1 /\ Len(toChild) \in Nat
        /\ toChild'[Len(toChild) + 1] = line
    BY <1>1 DEF Types, TypeOK
  <2>2. QED
    BY <2>1 DEF BusyIsAsked
<1>2. CASE toChild' = toChild
  BY <1>2 DEF BusyIsAsked
<1>3. QED
  BY <1>1, <1>2 DEF Sent

\* The host does not take part in a prompt's journey when it sends nothing, or
\* an answer to the child, or an abort of the turn that it gives up.
LEMMA HostJourney ==
  ASSUME Types, Journey, UNCHANGED <<kid, asked, refused>>,
         \/ toChild' = toChild
         \/ \E line \in Line : toChild' = Sent(line) /\ line.t = "answer"
         \/ toChild' = Sent(Say("abort", active, 0)) /\ active' = 0,
         \A t \in {"text", "end", "tool"}, p \in Prompts : Has(toHost', t, p) => Has(toHost, t, p),
         prompt' = prompt,
         \A p \in 1 .. MaxPrompts : Unsent(p)' => Unsent(p)
  PROVE  Journey'
<1>1. CASE toChild' = toChild
  BY <1>1 DEF Journey, BusyIsAsked, JourneyOf, Chained
<1>2. CASE \E line \in Line : toChild' = Sent(line) /\ line.t = "answer"
  <2>1. PICK line \in Line : toChild' = Sent(line) /\ line.t = "answer"
    BY <1>2
  <2>2. BusyIsAsked'
    BY <2>1, SentIsPrompted DEF Journey, BusyIsAsked
  <2>3. ASSUME NEW p \in 1 .. MaxPrompts PROVE JourneyOf(p)'
    <3>1. /\ \A t \in {"prompt", "abort"} : Has(toChild', t, p) => Has(toChild, t, p)
          /\ AtMostOne(toChild, "prompt", p) => AtMostOne(toChild', "prompt", p)
          /\ NoneAfter(toChild, "abort", "prompt", p) => NoneAfter(toChild', "abort", "prompt", p)
      BY <2>1, SentPipe DEF Is
    <3>2. QED
      BY <3>1 DEF Journey, JourneyOf, Chained
  <2>4. QED
    BY <2>2, <2>3 DEF Journey
<1>3. CASE toChild' = Sent(Say("abort", active, 0)) /\ active' = 0
  <2>1. /\ Say("abort", active, 0) \in Line /\ Say("abort", active, 0).t = "abort"
        /\ Say("abort", active, 0).p = active
    BY PiHostAssumption DEF Say, Line, Types, TypeOK, Prompts
  <2>2. BusyIsAsked'
    BY <1>3, <2>1, SentIsPrompted DEF Journey, BusyIsAsked
  <2>3. ASSUME NEW p \in 1 .. MaxPrompts PROVE JourneyOf(p)'
    <3>1. /\ Has(toChild', "prompt", p) => Has(toChild, "prompt", p)
          /\ Has(toChild', "abort", p) => Has(toChild, "abort", p) \/ p = active
          /\ AtMostOne(toChild, "prompt", p) => AtMostOne(toChild', "prompt", p)
          /\ NoneAfter(toChild, "abort", "prompt", p) => NoneAfter(toChild', "abort", "prompt", p)
      BY <1>3, <2>1, SentPipe DEF Is
    <3>2. Unsent(p)' => Unsent(p) /\ p # active
      BY <1>3 DEF Unsent, Types, TypeOK, Prompts
    <3>3. QED
      BY <3>1, <3>2 DEF Journey, JourneyOf, Chained
  <2>4. QED
    BY <2>2, <2>3 DEF Journey
<1>4. QED
  BY <1>1, <1>2, <1>3

\* A prompt is sent once: when its turn begins, or when its child is ready.
LEMMA PromptSent ==
  ASSUME Types, Journey, NEW q \in 1 .. MaxPrompts, Unsent(q), UNCHANGED <<kid, asked, refused, toHost>>,
         toChild' = Sent(Say("prompt", q, 0)), prompt' = q, pc' = "draining",
         prompt' >= prompt
  PROVE  Journey'
<1> DEFINE line == Say("prompt", q, 0)
<1>1. line \in Line /\ line.t = "prompt" /\ line.p = q /\ q # 0
  BY PiHostAssumption DEF Say, Line, Prompts
<1> HIDE DEF line
<1>2. BusyIsAsked'
  BY <1>1, SentIsPrompted DEF Journey, BusyIsAsked, line
<1>3. ASSUME NEW p \in 1 .. MaxPrompts PROVE JourneyOf(p)'
  <2>1. /\ Has(toChild', "prompt", p) => Has(toChild, "prompt", p) \/ p = q
        /\ Has(toChild', "abort", p) => Has(toChild, "abort", p)
        /\ AtMostOne(toChild, "prompt", p) /\ (p = q => ~Has(toChild, "prompt", p)) =>
             AtMostOne(toChild', "prompt", p)
        /\ NoneAfter(toChild, "abort", "prompt", p) /\ (p = q => ~Has(toChild, "abort", p)) =>
             NoneAfter(toChild', "abort", "prompt", p)
    BY <1>1, SentPipe DEF Is, line
  <2>2. Unsent(p)' => Unsent(p) /\ p # q
    BY DEF Unsent, Types, TypeOK, Prompts
  <2>3. JourneyOf(p) /\ JourneyOf(q)
    BY DEF Journey
  <2>4. QED
    BY <2>1, <2>2, <2>3 DEF JourneyOf, Chained
<1>4. QED
  BY <1>2, <1>3 DEF Journey

\* A new child, or none: whatever was under way is lost.
LEMMA JourneyLost ==
  ASSUME Types, Journey, UNCHANGED <<asked, refused>>, kid' = NewKid, toHost' = <<>>, toChild' = <<>>,
         \A p \in 1 .. MaxPrompts : Unsent(p)' => Unsent(p)
  PROVE  Journey'
<1>1. kid'.serial = <<>> /\ kid'.prompt = 0 /\ kid'.pc = "init"
  BY DEF NewKid
<1>2. BusyIsAsked'
  BY <1>1 DEF Journey, BusyIsAsked, Has
<1>3. ASSUME NEW p \in 1 .. MaxPrompts PROVE JourneyOf(p)'
  <2>1. ~Has(toChild', "prompt", p) /\ ~Has(toChild', "abort", p) /\ ~Chained(p)'
    BY <1>1 DEF Has, Chained
  <2>2. AtMostOne(toChild', "prompt", p) /\ NoneAfter(toChild', "abort", "prompt", p)
    BY DEF AtMostOne, NoneAfter
  <2>3. QED
    BY <1>1, <2>1, <2>2 DEF Journey, JourneyOf, Chained
<1>4. QED
  BY <1>2, <1>3 DEF Journey

LEMMA JourneyChat ==
  ASSUME Types, Journey, Chat PROVE Journey'
<1>1. pc = "idle" /\ prompt' = prompt + 1 /\ prompt + 1 \in 1 .. MaxPrompts /\ prompt \in Nat
  BY PiHostAssumption
     DEF Chat, ChatOnChild, ChatSpawns, ChatDestroyed, BeginTurn, Types, TypeOK, Prompts
<1>2. \A p \in 1 .. MaxPrompts : Unsent(p)' => Unsent(p)
  BY <1>1 DEF Unsent
<1>3. CASE ChatOnChild
  BY <1>1, <1>3, PromptSent DEF ChatOnChild, Unsent
<1>4. CASE ChatSpawns
  BY <1>2, <1>4, JourneyLost DEF ChatSpawns
<1>5. CASE ChatDestroyed
  <2>1. \A p \in 1 .. MaxPrompts : Unsent(p)' => Unsent(p)
    BY <1>2
  <2>2. UNCHANGED <<kid, asked, refused, toHost, toChild>>
    BY <1>5 DEF ChatDestroyed
  <2>3. QED
    BY <2>1, <2>2 DEF Journey, BusyIsAsked, JourneyOf, Chained
<1>6. QED
  BY <1>3, <1>4, <1>5 DEF Chat

LEMMA JourneyContinues ==
  ASSUME Types, Numbered, Journey, Continues PROVE Journey'
<1>1. CASE ChatReady
  <2>1. /\ pc = "starting" /\ active = prompt /\ toChild' = Sent(Say("prompt", prompt, 0))
        /\ UNCHANGED <<kid, asked, refused, toHost, prompt>> /\ pc' = "draining"
    BY <1>1 DEF ChatReady, kidVars
  <2>2. CASE prompt \in 1 .. MaxPrompts
    BY <2>1, <2>2, PromptSent DEF Unsent
  <2>3. QED
    BY <2>1, <2>2 DEF Numbered, Types, TypeOK, Prompts
<1>2. CASE ChatFails
  <2>1. /\ UNCHANGED <<asked, refused, prompt>> /\ pc' = "idle"
        /\ GiveUpChild \/ UNCHANGED <<toHost, toChild, kid>>
    BY <1>2 DEF ChatFails
  <2>2. \A p \in 1 .. MaxPrompts : Unsent(p)' => Unsent(p)
    BY <2>1 DEF Unsent
  <2>3. QED
    BY <2>1, <2>2, JourneyLost, HostJourney DEF GiveUpChild
<1>3. CASE ChatGivenUp \/ Take \/ TakeAndLeave \/ Drained \/ Finish
  <2>1. /\ UNCHANGED <<kid, asked, refused, toHost, toChild, prompt>>
        /\ pc' = "starting" => pc = "starting" /\ active' = active
    BY <1>3 DEF ChatGivenUp, Take, TakeAndLeave, Drained, Finish, Finally, kidVars
  <2>2. \A p \in 1 .. MaxPrompts : Unsent(p)' => Unsent(p)
    BY <2>1 DEF Unsent
  <2>3. QED
    BY <2>1, <2>2, HostJourney
<1>4. QED
  BY <1>1, <1>2, <1>3 DEF Continues

LEMMA JourneyInterrupts ==
  ASSUME Types, Journey, Interrupts PROVE Journey'
<1>1. /\ UNCHANGED <<asked, refused, prompt, pc>> /\ active' \in {active, 0}
      /\ \/ UNCHANGED <<kid, toHost>> /\ toChild' = Sent(Say("abort", active, 0)) /\ active' = 0
         \/ UNCHANGED <<kid, toHost, toChild>>
         \/ GiveUpChild
  BY DEF Interrupts, Cancel, Timeout, Interrupt, Destroy, Exit, PipeBreaks, LateWriteFails,
     hostVars, linkVars, kidVars
<1>2. \A p \in 1 .. MaxPrompts : Unsent(p)' => Unsent(p)
  BY <1>1 DEF Unsent
<1>3. QED
  BY <1>1, <1>2, JourneyLost, HostJourney DEF GiveUpChild

LEMMA JourneyReads ==
  ASSUME Types, Journey, Reads PROVE Journey'
<1>1. /\ UNCHANGED <<kid, asked, refused, prompt, pc, active>>
      /\ toHost # <<>> /\ toHost' = Tail(toHost)
      /\ toChild' = toChild \/ toChild' = Sent(Say("answer", 0, Head(toHost).id))
  BY DEF Reads, ReadReady, ReadText, ReadEnd, ReadTool, ReadError, NextLine, hostVars, kidVars
<1>2. Head(toHost).id \in 0 .. MaxTools
  <2>1. Head(toHost) \in Line
    BY <1>1 DEF Types, TypeOK
  <2>2. QED
    BY <2>1 DEF Line
<1>3. Say("answer", 0, Head(toHost).id) \in Line /\ Say("answer", 0, Head(toHost).id).t = "answer"
  BY <1>2, PiHostAssumption DEF Say, Line, Prompts
<1>4. \A t \in {"text", "end", "tool"}, p \in Prompts : Has(toHost', t, p) => Has(toHost, t, p)
  BY <1>1, TailLine DEF Types, TypeOK
<1>5. \A p \in 1 .. MaxPrompts : Unsent(p)' => Unsent(p)
  BY <1>1 DEF Unsent
<1>6. QED
  BY <1>1, <1>3, <1>4, <1>5, HostJourney

LEMMA JourneyTools ==
  ASSUME Types, Journey, ToolReturns PROVE Journey'
<1>1. PICK id \in 1 .. MaxTools : ToolEnds(id)
  BY DEF ToolReturns
<1>2. Say("answer", 0, id) \in Line /\ Say("answer", 0, id).t = "answer"
  BY PiHostAssumption DEF Say, Line, Prompts
<1>3. /\ UNCHANGED <<kid, asked, refused, prompt, pc, active, toHost>>
      /\ toChild' = Sent(Say("answer", 0, id))
  BY <1>1 DEF ToolEnds, kidVars
<1>4. \A p \in 1 .. MaxPrompts : Unsent(p)' => Unsent(p)
  BY <1>3 DEF Unsent
<1>5. QED
  BY <1>2, <1>3, <1>4, HostJourney

\* The child reads a line: a prompt joins its chain, an abort or an answer
\* leaves the pipe.
LEMMA ReadPipe ==
  ASSUME Types, Journey, toChild # <<>>, toChild' = Tail(toChild), NEW p
  PROVE  /\ \A t \in {"prompt", "abort"} : Has(toChild', t, p) => Has(toChild, t, p)
         /\ AtMostOne(toChild, "prompt", p) =>
              /\ AtMostOne(toChild', "prompt", p)
              /\ Is(Head(toChild), "prompt", p) => ~Has(toChild', "prompt", p)
         /\ NoneAfter(toChild, "abort", "prompt", p) =>
              /\ NoneAfter(toChild', "abort", "prompt", p)
              /\ Is(Head(toChild), "abort", p) => ~Has(toChild', "prompt", p)
         /\ \A t \in {"prompt", "abort"} : Is(Head(toChild), t, p) => Has(toChild, t, p)
         /\ Head(toChild) \in Line
         /\ Head(toChild).t = "prompt" => Head(toChild).p # 0
         /\ \A i \in 1 .. Len(toChild') : toChild'[i].t = "prompt" => toChild'[i].p # 0
<1>1. toChild \in Seq(Line)
  BY DEF Types, TypeOK
<1>2. /\ Head(toChild) = toChild[1] /\ 1 \in 1 .. Len(toChild) /\ Len(toChild) \in Nat
      /\ Len(Tail(toChild)) = Len(toChild) - 1
      /\ \A i \in 1 .. Len(Tail(toChild)) : i + 1 \in 1 .. Len(toChild) /\ Tail(toChild)[i] = toChild[i + 1]
  BY <1>1
<1>3. \A i \in 1 .. Len(toChild) : toChild[i].t = "prompt" => toChild[i].p # 0
  BY DEF Journey, BusyIsAsked
<1>4. QED
  BY <1>1, <1>2, <1>3, TailLine

LEMMA JourneyReadsPrompt ==
  ASSUME Types, Journey, ChildReadsPrompt PROVE Journey'
<1> DEFINE q == Head(toChild).p
<1>1. /\ toChild # <<>> /\ Is(Head(toChild), "prompt", q) /\ toChild' = Tail(toChild)
      /\ UNCHANGED <<toHost, asked, refused, prompt, pc, active>>
  BY DEF ChildReadsPrompt, ChildStep, hostVars, Is
<1>2. /\ kid.serial \in Seq(Prompts) /\ kid \in KidRecord
      /\ kid' = [kid EXCEPT !.serial = Append(kid.serial, q)]
  BY DEF ChildReadsPrompt, Types, KidRecord
<1>3. q \in 1 .. MaxPrompts /\ q # 0
  BY <1>1, ReadPipe, PiHostAssumption DEF Line, Prompts, Is
<1> HIDE DEF q
<1>4. /\ kid'.serial = Append(kid.serial, q) /\ kid'.prompt = kid.prompt /\ kid'.pc = kid.pc
      /\ kid'.cancelled = kid.cancelled
  BY <1>2 DEF KidRecord
<1>5. /\ Len(kid'.serial) = Len(kid.serial) + 1 /\ Len(kid.serial) \in Nat
      /\ \A i \in 1 .. Len(kid.serial) :
           kid'.serial[i] = kid.serial[i] /\ i \in 1 .. Len(kid'.serial)
      /\ kid'.serial[Len(kid.serial) + 1] = q /\ Len(kid.serial) + 1 \in 1 .. Len(kid'.serial)
      /\ \A i \in 1 .. Len(kid'.serial) : i \in 1 .. Len(kid.serial) \/ i = Len(kid.serial) + 1
  BY <1>2, <1>3, <1>4 DEF Prompts
<1>6. JourneyOf(q) /\ Has(toChild, "prompt", q) /\ ~Has(toChild', "prompt", q)
  BY <1>1, <1>3, ReadPipe DEF Journey, JourneyOf
<1>7. BusyIsAsked'
  <2>1. \A i \in 1 .. Len(kid'.serial) : kid'.serial[i] # 0
    BY <1>3, <1>5 DEF Journey, BusyIsAsked
  <2>2. QED
    BY <1>1, <1>4, <2>1, ReadPipe DEF Journey, BusyIsAsked
<1>8. ASSUME NEW p \in 1 .. MaxPrompts PROVE JourneyOf(p)'
  <2>1. Chained(p)' <=> Chained(p) \/ p = q
    BY <1>5 DEF Chained
  <2> Unsent(p)' <=> Unsent(p)
    BY <1>1 DEF Unsent
  <2>2. JourneyOf(p) /\ (Chained(q) => FALSE)
    BY <1>6 DEF Journey, JourneyOf
  <2>3. \A i, j \in 1 .. Len(kid'.serial) : kid'.serial[i] = p /\ kid'.serial[j] = p => i = j
    BY <1>5, <2>2 DEF JourneyOf, Chained
  <2>4. /\ \A t \in {"prompt", "abort"} : Has(toChild', t, p) => Has(toChild, t, p)
        /\ AtMostOne(toChild', "prompt", p) /\ NoneAfter(toChild', "abort", "prompt", p)
    BY <1>1, <2>2, ReadPipe DEF JourneyOf
  <2>5. CASE p = q
    BY <1>1, <1>4, <1>6, <2>1, <2>3, <2>4, <2>5 DEF JourneyOf
  <2>6. CASE p # q
    BY <1>1, <1>4, <2>1, <2>2, <2>3, <2>4, <2>6 DEF JourneyOf
  <2>7. QED
    BY <2>5, <2>6
<1>9. QED
  BY <1>7, <1>8 DEF Journey

LEMMA JourneyReadsAbort ==
  ASSUME Types, Journey, ChildReadsAbort PROVE Journey'
<1> DEFINE q == Head(toChild).p
<1>1. /\ toChild # <<>> /\ Is(Head(toChild), "abort", q) /\ toChild' = Tail(toChild)
      /\ UNCHANGED <<toHost, asked, prompt, pc, active>>
      /\ refused' = IF q = kid.prompt \/ q \in asked THEN refused ELSE refused \cup ({q} \ {0})
  BY DEF ChildReadsAbort, ChildStep, hostVars, Is
<1>2. /\ kid'.serial = kid.serial /\ kid'.prompt = kid.prompt /\ kid'.pc = kid.pc
      /\ kid'.cancelled = kid.cancelled \cup ({q} \ {0})
  BY DEF ChildReadsAbort, Types, KidRecord
<1> HIDE DEF q
<1>3. BusyIsAsked'
  BY <1>1, <1>2, ReadPipe DEF Journey, BusyIsAsked
<1>4. ASSUME NEW p \in 1 .. MaxPrompts PROVE JourneyOf(p)'
  <2>1. JourneyOf(p) /\ (Chained(p)' <=> Chained(p)) /\ Unsent(p)' = Unsent(p)
    BY <1>1, <1>2 DEF Journey, Chained, Unsent
  <2>2. /\ \A t \in {"prompt", "abort"} : Has(toChild', t, p) => Has(toChild, t, p)
        /\ AtMostOne(toChild', "prompt", p) /\ NoneAfter(toChild', "abort", "prompt", p)
        /\ p = q => ~Has(toChild', "prompt", p) /\ Has(toChild, "abort", p)
    BY <1>1, <2>1, ReadPipe DEF JourneyOf
  <2>3. p \in refused' => p \in refused \/ (p = q /\ p \notin asked /\ p # kid.prompt)
    BY <1>1
  <2>4. p # 0
    OBVIOUS
  <2>5. QED
    BY <1>1, <1>2, <2>1, <2>2, <2>3, <2>4 DEF JourneyOf
<1>5. QED
  BY <1>3, <1>4 DEF Journey

LEMMA JourneyReadsAnswer ==
  ASSUME Types, Journey, ChildReadsAnswer PROVE Journey'
<1>1. /\ toChild # <<>> /\ toChild' = Tail(toChild)
      /\ UNCHANGED <<toHost, asked, refused, prompt, pc, active>>
  BY DEF ChildReadsAnswer, ChildStep, hostVars
<1>2. /\ kid'.serial = kid.serial /\ kid'.prompt = kid.prompt /\ kid'.pc = kid.pc
      /\ kid'.cancelled = kid.cancelled
  BY DEF ChildReadsAnswer, Types, KidRecord
<1>3. BusyIsAsked'
  BY <1>1, <1>2, ReadPipe DEF Journey, BusyIsAsked
<1>4. ASSUME NEW p \in 1 .. MaxPrompts PROVE JourneyOf(p)'
  <2>1. JourneyOf(p) /\ (Chained(p)' <=> Chained(p)) /\ Unsent(p)' = Unsent(p)
    BY <1>1, <1>2 DEF Journey, Chained, Unsent
  <2>2. /\ \A t \in {"prompt", "abort"} : Has(toChild', t, p) => Has(toChild, t, p)
        /\ AtMostOne(toChild', "prompt", p) /\ NoneAfter(toChild', "abort", "prompt", p)
    BY <1>1, <2>1, ReadPipe DEF JourneyOf
  <2>3. QED
    BY <1>1, <1>2, <2>1, <2>2 DEF JourneyOf
<1>5. QED
  BY <1>3, <1>4 DEF Journey

\* The child takes a prompt out of its chain, or passes over a cancelled one.
LEMMA JourneyTakes ==
  ASSUME Types, Journey, ChildTakes PROVE Journey'
<1>0. PICK q : q = Head(kid.serial)
  OBVIOUS
<1>1. /\ kid.pc = "idle" /\ kid.serial # <<>> /\ kid.serial \in Seq(Prompts) /\ kid \in KidRecord
      /\ UNCHANGED <<toHost, toChild, asked, refused, prompt, pc, active>>
  BY DEF ChildTakes, ChildStep, hostVars, Types, KidRecord
<1>2. /\ q = kid.serial[1] /\ 1 \in 1 .. Len(kid.serial) /\ q \in Prompts
      /\ Len(Tail(kid.serial)) = Len(kid.serial) - 1 /\ Len(kid.serial) \in Nat
      /\ \A i \in 1 .. Len(Tail(kid.serial)) :
           i + 1 \in 1 .. Len(kid.serial) /\ Tail(kid.serial)[i] = kid.serial[i + 1]
  BY <1>0, <1>1
<1>3. /\ kid'.serial = Tail(kid.serial)
      /\ \/ /\ q \in kid.cancelled /\ kid'.cancelled = kid.cancelled \ {q}
            /\ kid'.pc = kid.pc /\ kid'.prompt = kid.prompt
         \/ /\ q \notin kid.cancelled /\ kid'.cancelled = kid.cancelled
            /\ kid'.pc = "choosing" /\ kid'.prompt = q
  BY <1>0, <1>1 DEF ChildTakes, KidRecord
<1>4. q \in 1 .. MaxPrompts /\ Chained(q)
  BY <1>2, PiHostAssumption DEF Journey, BusyIsAsked, Chained, Prompts
<1>5. BusyIsAsked'
  BY <1>1, <1>2, <1>3, <1>4 DEF Journey, BusyIsAsked
<1>6. ASSUME NEW p \in 1 .. MaxPrompts PROVE JourneyOf(p)'
  <2>1. JourneyOf(p) /\ JourneyOf(q)
    BY <1>4 DEF Journey
  <2> (Unsent(p)' <=> Unsent(p)) /\ (Chained(p)' => Chained(p))
    BY <1>1, <1>2, <1>3 DEF Unsent, Chained
  <2>2. ~Chained(q)'
    <3>1. \A i, j \in 1 .. Len(kid.serial) : kid.serial[i] = q /\ kid.serial[j] = q => i = j
      BY <2>1 DEF JourneyOf
    <3>2. ASSUME NEW i \in 1 .. Len(kid'.serial), kid'.serial[i] = q PROVE FALSE
      <4>1. i + 1 \in 1 .. Len(kid.serial) /\ kid.serial[i + 1] = q /\ i + 1 # 1
        BY <1>2, <1>3, <3>2
      <4>2. QED
        BY <1>2, <3>1, <4>1
    <3>3. ~\E i \in 1 .. Len(kid'.serial) : kid'.serial[i] = q
      BY <3>2
    <3>4. QED
      BY <3>3 DEF Chained
  <2>3. \A i, j \in 1 .. Len(kid'.serial) : kid'.serial[i] = p /\ kid'.serial[j] = p => i = j
    BY <1>2, <1>3, <2>1 DEF JourneyOf
  <2>4. CASE p = q
    <3>1. /\ q \notin asked /\ q # kid.prompt /\ ~Has(toChild, "prompt", q) /\ ~Unsent(q)
          /\ q \in refused => q \in kid.cancelled
      BY <1>4, <2>1 DEF JourneyOf
    <3>2. CASE q \in kid.cancelled
      <4>1. kid'.pc = kid.pc /\ kid'.prompt = kid.prompt
        BY <1>3, <3>2
      <4>2. QED
        BY <1>1, <2>1, <2>2, <2>3, <2>4, <3>1, <4>1 DEF JourneyOf
    <3>3. CASE q \notin kid.cancelled
      <4>1. kid'.pc = "choosing" /\ kid'.prompt = q /\ q \notin refused
        BY <1>3, <3>1, <3>3
      <4>2. QED
        BY <1>1, <2>1, <2>2, <2>3, <2>4, <3>1, <4>1 DEF JourneyOf
    <3>4. QED
      BY <3>2, <3>3
  <2>5. CASE p # q
    BY <1>1, <1>3, <1>4, <2>1, <2>3, <2>5 DEF JourneyOf
  <2>6. QED
    BY <2>4, <2>5
<1>7. QED
  BY <1>5, <1>6 DEF Journey

\* What the child writes names the prompt that it is busy with.
LEMMA WritesJourney ==
  ASSUME Types, Journey, NEW t \in {"ready", "text", "end", "tool", "error"}, NEW id \in 0 .. MaxTools,
         Writes(t, id), t = "tool" => id # 0, t \in {"text", "end", "tool"} => kid.prompt \in asked
  PROVE  \A u \in {"text", "end", "tool"}, p \in Prompts : Has(toHost', u, p) => p \in asked
<1> DEFINE x == Say(t, kid.prompt, id)
<1>1. x \in Line /\ x.t = t /\ x.p = kid.prompt /\ toHost' = Append(toHost, x) /\ toHost \in Seq(Line)
  BY WritesTypes DEF Say, Types, TypeOK, Writes
<1> HIDE DEF x
<1>2. QED
  BY <1>1, AppendLine DEF Is, Journey, BusyIsAsked

LEMMA JourneySays ==
  ASSUME Types, Journey, ChildReady \/ ChildInitFails \/ ChildText \/ ChildTool \/ ChildEnds \/ ChildThrows
  PROVE  Journey'
<1>1. /\ UNCHANGED <<toChild, asked, refused, prompt, pc, active>>
  BY DEF ChildReady, ChildInitFails, ChildText, ChildTool, ChildEnds, ChildThrows, ChildStep, hostVars
<1>2. /\ kid'.serial = kid.serial
      /\ \/ kid'.prompt = kid.prompt /\ kid'.cancelled = kid.cancelled
         \/ kid'.prompt = 0 /\ kid'.cancelled = kid.cancelled \ {kid.prompt} /\ kid.prompt # 0
      /\ kid'.pc \in {kid.pc, "idle", "broken"} \/ (kid'.pc = "ended" /\ kid.pc = "running")
      /\ kid'.prompt = kid.prompt \/ kid'.pc = "idle"
  <2>1. CASE ChildThrows
    BY <2>1 DEF ChildThrows, PromptOver, Types, KidRecord, Journey, BusyIsAsked
  <2>2. CASE ChildReady \/ ChildInitFails \/ ChildText \/ ChildTool \/ ChildEnds
    BY <2>2 DEF ChildReady, ChildInitFails, ChildText, ChildTool, ChildEnds, Types, KidRecord
  <2>3. QED
    BY <2>1, <2>2
<1>3. \A u \in {"text", "end", "tool"}, p \in Prompts : Has(toHost', u, p) => p \in asked
  <2>1. 0 \in 0 .. MaxTools
    BY PiHostAssumption
  <2>2. CASE ChildTool
    <3>1. kid.counter + 1 \in 0 .. MaxTools /\ kid.counter + 1 # 0
      BY <2>2, PiHostAssumption DEF ChildTool, Types, KidRecord
    <3>2. QED
      BY <2>2, <3>1, WritesJourney DEF ChildTool, Journey, BusyIsAsked
  <2>3. CASE ChildText \/ ChildEnds
    BY <2>1, <2>3, WritesJourney DEF ChildText, ChildEnds, Journey, BusyIsAsked
  <2>4. CASE ChildReady \/ ChildInitFails \/ ChildThrows
    BY <2>1, <2>4, WritesJourney DEF ChildReady, ChildInitFails, ChildThrows
  <2>5. QED
    BY <2>2, <2>3, <2>4
<1>4. BusyIsAsked'
  BY <1>1, <1>2, <1>3 DEF Journey, BusyIsAsked
<1>5. ASSUME NEW p \in 1 .. MaxPrompts PROVE JourneyOf(p)'
  <2>1. JourneyOf(p)
    BY DEF Journey
  <2> (Unsent(p)' <=> Unsent(p)) /\ (Chained(p)' <=> Chained(p))
    BY <1>1, <1>2 DEF Unsent, Chained
  <2>2. p # 0
    OBVIOUS
  <2>3. QED
    BY <1>1, <1>2, <2>1, <2>2 DEF JourneyOf
<1>6. QED
  BY <1>4, <1>5 DEF Journey

LEMMA JourneyWorks ==
  ASSUME Types, Journey, ChildAsks \/ ChildDone \/ \E id \in 1 .. MaxTools : ChildToolGivesUp(id)
  PROVE  Journey'
<1>1. UNCHANGED <<toChild, toHost, refused, prompt, pc, active>>
  BY DEF ChildAsks, ChildDone, ChildToolGivesUp, ChildStep, hostVars
<1>2. CASE ChildAsks
  <2>1. /\ kid.pc = "choosing" /\ kid'.pc = "running" /\ asked' = asked \cup {kid.prompt}
        /\ kid'.serial = kid.serial /\ kid'.prompt = kid.prompt /\ kid'.cancelled = kid.cancelled
    BY <1>2 DEF ChildAsks, Types, KidRecord
  <2>2. BusyIsAsked'
    BY <1>1, <2>1 DEF Journey, BusyIsAsked
  <2>3. ASSUME NEW p \in 1 .. MaxPrompts PROVE JourneyOf(p)'
    <3>1. JourneyOf(p)
      BY DEF Journey
    <3> (Unsent(p)' <=> Unsent(p)) /\ (Chained(p)' <=> Chained(p))
      BY <1>1, <2>1 DEF Unsent, Chained
    <3>2. QED
      BY <1>1, <2>1, <3>1 DEF JourneyOf
  <2>4. QED
    BY <2>2, <2>3 DEF Journey
<1>3. CASE ChildDone
  <2>1. /\ kid'.pc = "idle" /\ UNCHANGED asked /\ kid.pc = "ended"
        /\ kid'.serial = kid.serial /\ kid'.prompt = 0 /\ kid'.cancelled = kid.cancelled \ {kid.prompt}
    BY <1>3 DEF ChildDone, PromptOver, Types, KidRecord
  <2>2. BusyIsAsked'
    BY <1>1, <2>1 DEF Journey, BusyIsAsked
  <2>3. ASSUME NEW p \in 1 .. MaxPrompts PROVE JourneyOf(p)'
    <3>1. JourneyOf(p) /\ p # 0
      BY DEF Journey
    <3> (Unsent(p)' <=> Unsent(p)) /\ (Chained(p)' <=> Chained(p))
      BY <1>1, <2>1 DEF Unsent, Chained
    <3>2. QED
      BY <1>1, <2>1, <3>1 DEF JourneyOf
  <2>4. QED
    BY <2>2, <2>3 DEF Journey
<1>4. CASE \E id \in 1 .. MaxTools : ChildToolGivesUp(id)
  <2>1. /\ kid'.pc = kid.pc /\ UNCHANGED asked
        /\ kid'.serial = kid.serial /\ kid'.prompt = kid.prompt /\ kid'.cancelled = kid.cancelled
    BY <1>4 DEF ChildToolGivesUp, Types, KidRecord
  <2>2. BusyIsAsked'
    BY <1>1, <2>1 DEF Journey, BusyIsAsked
  <2>3. ASSUME NEW p \in 1 .. MaxPrompts PROVE JourneyOf(p)'
    BY <1>1, <2>1 DEF Journey, JourneyOf, Unsent, Chained
  <2>4. QED
    BY <2>2, <2>3 DEF Journey
<1>5. QED
  BY <1>2, <1>3, <1>4

LEMMA JourneyStep == Types /\ Numbered /\ Journey /\ [Next]_vars => Journey'
<1> SUFFICES ASSUME Types, Numbered, Journey, [Next]_vars PROVE Journey'
  OBVIOUS
<1>1. CASE Child
  BY <1>1, JourneyReadsPrompt, JourneyReadsAbort, JourneyReadsAnswer, JourneyTakes, JourneySays,
     JourneyWorks DEF Child
<1>2. CASE UNCHANGED vars
  BY <1>2 DEF vars, hostVars, kidVars, Journey, BusyIsAsked, JourneyOf, Unsent, Chained
<1>3. QED
  BY <1>1, <1>2, JourneyChat, JourneyContinues, JourneyInterrupts, JourneyReads, JourneyTools DEF Next

LEMMA NumberedStep == Types /\ Numbered /\ [Next]_vars => Numbered'
<1> SUFFICES ASSUME Types, Numbered, [Next]_vars PROVE Numbered'
  OBVIOUS
<1>1. CASE Chat
  BY <1>1 DEF Chat, ChatOnChild, ChatSpawns, ChatDestroyed, BeginTurn, Numbered, Types, TypeOK, Prompts
<1>2. CASE Continues
  BY <1>2 DEF Continues, ChatReady, ChatGivenUp, ChatFails, Take, TakeAndLeave, Drained, Finish,
     Finally, Numbered
<1>3. CASE Interrupts \/ Reads \/ ToolReturns \/ Child \/ UNCHANGED vars
  <2>1. UNCHANGED <<pc, prompt>>
    BY <1>3 DEF Interrupts, Cancel, Timeout, Interrupt, Destroy, Exit, PipeBreaks, LateWriteFails,
     Reads, ReadReady, ReadText, ReadEnd, ReadTool, ReadError, ToolReturns, ToolEnds,
     Child, ChildReadsPrompt, ChildReadsAbort, ChildReadsAnswer, ChildReady, ChildInitFails,
     ChildTakes, ChildAsks, ChildText, ChildTool, ChildToolGivesUp, ChildEnds, ChildThrows, ChildDone,
     ChildStep, hostVars, vars
  <2>2. QED
    BY <2>1 DEF Numbered
<1>4. QED
  BY <1>1, <1>2, <1>3 DEF Next

LEMMA JourneyCorrect == Spec => [](Types /\ Numbered /\ Journey)
<1>1. Init => Numbered
  BY DEF Init, Numbered
<1>2. QED
  BY <1>1, InitTypes, TypesStep, InitJourney, JourneyStep, NumberedStep, PTL DEF Spec

\* A prompt that was cancelled while it waited in the child's chain is never
\* handed to the provider.
THEOREM CancelInTheChain == Spec => []QueuedCancelStays
<1>1. Types /\ Journey => QueuedCancelStays
  <2> SUFFICES ASSUME Types, Journey, NEW p \in asked, p \in refused PROVE FALSE
    BY DEF QueuedCancelStays
  <2>1. p \in 1 .. MaxPrompts
    BY PiHostAssumption DEF Types, TypeOK, Journey, BusyIsAsked, Prompts
  <2>2. QED
    BY <2>1 DEF Journey, JourneyOf
<1>2. QED
  BY <1>1, JourneyCorrect, PTL

-----------------------------------------------------------------------------
(* The events of the queue *)

\* The host's own errors, the lines without a prompt and those of this turn
\* are the only ones that join the queue.
LEMMA OwnStep == Types /\ OwnEvents /\ [Next]_vars => OwnEvents'
<1> SUFFICES ASSUME Types, OwnEvents, [Next]_vars PROVE OwnEvents'
  OBVIOUS
<1>1. queue \in Seq(Event)
  BY DEF Types, TypeOK
<1>2. ASSUME NEW e, e.p \in {0, prompt}, queue' = Append(queue, e), prompt' = prompt PROVE OwnEvents'
  <2>1. /\ Len(queue') = Len(queue) + 1 /\ Len(queue) \in Nat /\ queue'[Len(queue) + 1] = e
        /\ \A i \in 1 .. Len(queue) : queue'[i] = queue[i]
        /\ \A i \in 1 .. Len(queue') : i \in 1 .. Len(queue) \/ i = Len(queue) + 1
    BY <1>1, <1>2
  <2>2. QED
    BY <1>2, <2>1 DEF OwnEvents
<1>3. ASSUME UNCHANGED <<queue, prompt>> PROVE OwnEvents'
  BY <1>3 DEF OwnEvents
<1>4. CASE Chat
  BY <1>4 DEF Chat, ChatOnChild, ChatSpawns, ChatDestroyed, BeginTurn, OwnEvents
<1>5. CASE Take \/ TakeAndLeave
  <2>1. queue # <<>> /\ queue' = Tail(queue) /\ prompt' = prompt
    BY <1>5 DEF Take, TakeAndLeave
  <2>2. /\ Len(queue') = Len(queue) - 1 /\ Len(queue) \in Nat
        /\ \A i \in 1 .. Len(queue') : queue'[i] = queue[i + 1] /\ i + 1 \in 1 .. Len(queue)
    BY <1>1, <2>1
  <2>3. QED
    BY <2>1, <2>2 DEF OwnEvents
<1>6. CASE ChatReady \/ ChatGivenUp \/ ChatFails \/ Drained \/ Finish
  BY <1>3, <1>6 DEF ChatReady, ChatGivenUp, ChatFails, Drained, Finish, Finally, queueVars
<1>7. CASE Interrupts
  <2>1. HostError.p \in {0, prompt}
    BY DEF HostError
  <2>2. prompt' = prompt /\ (queue' = queue \/ queue' = Append(queue, HostError))
    BY <1>7 DEF Interrupts, Cancel, Timeout, Interrupt, Destroy, Exit, PipeBreaks, LateWriteFails,
       FailTurn, hostVars
  <2>3. QED
    BY <1>2, <1>3, <2>1, <2>2
<1>8. CASE Reads
  <2>1. /\ prompt' = prompt
        /\ \/ queue' = queue
           \/ /\ Mine(Head(toHost))
              /\ \E k \in {"text", "error"} : queue' = Append(queue, [k |-> k, p |-> Head(toHost).p])
    BY <1>8 DEF Reads, ReadReady, ReadText, ReadEnd, ReadTool, ReadError, hostVars, queueVars
  <2>2. Mine(Head(toHost)) => Head(toHost).p \in {0, prompt}
    BY DEF Mine, Types, TypeOK
  <2>3. ASSUME NEW k \in {"text", "error"}, Mine(Head(toHost)),
               queue' = Append(queue, [k |-> k, p |-> Head(toHost).p])
        PROVE  OwnEvents'
    <3>1. [k |-> k, p |-> Head(toHost).p].p \in {0, prompt}
      BY <2>2, <2>3
    <3>2. QED
      BY <1>2, <2>1, <2>3, <3>1
  <2>4. QED
    BY <1>3, <2>1, <2>3
<1>9. CASE ToolReturns \/ Child \/ UNCHANGED vars
  <2>1. UNCHANGED <<queue, prompt>>
    BY <1>9 DEF ToolReturns, ToolEnds, Child, ChildReadsPrompt, ChildReadsAbort, ChildReadsAnswer,
       ChildReady, ChildInitFails, ChildTakes, ChildAsks, ChildText, ChildTool, ChildToolGivesUp,
       ChildEnds, ChildThrows, ChildDone, ChildStep, hostVars, queueVars, vars
  <2>2. QED
    BY <1>3, <2>1
<1>10. QED
  BY <1>4, <1>5, <1>6, <1>7, <1>8, <1>9 DEF Next, Continues

\* The reader of a turn is given events of its own prompt and errors of the
\* host only, whatever earlier turns left in the child and on the pipe.
THEOREM TurnsAreIsolated == Spec => []OwnEvents
<1>1. Init => OwnEvents
  BY DEF Init, OwnEvents
<1>2. QED
  BY <1>1, InitTypes, TypesStep, OwnStep, PTL DEF Spec

-----------------------------------------------------------------------------
(* The tools of a turn *)

LEMMA ToolsStep == Types /\ Numbered /\ Journey /\ ToolsOfTurn /\ [Next]_vars => ToolsOfTurn'
<1> SUFFICES ASSUME Types, Numbered, Journey, ToolsOfTurn, [Next]_vars PROVE ToolsOfTurn'
  OBVIOUS
<1>1. CASE Chat
  BY <1>1 DEF Chat, ChatOnChild, ChatSpawns, ChatDestroyed, BeginTurn, ToolsOfTurn
<1>2. CASE Continues
  BY <1>2 DEF Continues, ChatReady, ChatGivenUp, ChatFails, Take, TakeAndLeave, Drained, Finish,
     Finally, ToolsOfTurn
<1>3. CASE Interrupts
  <2>1. UNCHANGED <<pc, tools, awaited>> /\ (aborted' = aborted \/ aborted')
    BY <1>3 DEF Interrupts, Cancel, Timeout, Interrupt, Destroy, Exit, PipeBreaks, LateWriteFails,
       hostVars
  <2>2. QED
    BY <2>1 DEF ToolsOfTurn
<1>4. CASE ReadTool
  <2>1. /\ UNCHANGED <<pc, awaited, aborted>>
        /\ tools' # tools => Mine(Head(toHost)) /\ ~aborted
        /\ toHost # <<>> /\ Head(toHost).t = "tool"
    BY <1>4 DEF ReadTool, NextLine
  <2>2. pc = "starting" => ~Mine(Head(toHost))
    <3> SUFFICES ASSUME pc = "starting", Mine(Head(toHost)) PROVE FALSE
      OBVIOUS
    <3>1. /\ Head(toHost).p \in Prompts /\ Has(toHost, "tool", Head(toHost).p)
      <4>1. Head(toHost) \in Line /\ toHost \in Seq(Line)
        BY <2>1 DEF Types, TypeOK
      <4>2. QED
        BY <2>1, <4>1, TailLine DEF Line, Is
    <3>2. Head(toHost).p \in asked /\ 0 \notin asked
      BY <3>1 DEF Journey, BusyIsAsked
    <3>3. Head(toHost).p = prompt /\ active = prompt /\ prompt # 0
      BY <3>2 DEF Mine, Numbered, Types, TypeOK
    <3>4. prompt \in 1 .. MaxPrompts /\ Unsent(prompt)
      BY <3>3, PiHostAssumption DEF Unsent, Types, TypeOK, Prompts
    <3>5. QED
      BY <3>2, <3>3, <3>4 DEF Journey, JourneyOf
  <2>3. QED
    BY <2>1, <2>2 DEF ToolsOfTurn
<1>5. CASE ReadReady \/ ReadText \/ ReadEnd \/ ReadError
  BY <1>5 DEF ReadReady, ReadText, ReadEnd, ReadError, hostVars, ToolsOfTurn
<1>6. CASE ToolReturns
  BY <1>6 DEF ToolReturns, ToolEnds, ToolsOfTurn
<1>7. CASE Child \/ UNCHANGED vars
  <2>1. UNCHANGED <<pc, tools, awaited, aborted>>
    BY <1>7 DEF Child, ChildReadsPrompt, ChildReadsAbort, ChildReadsAnswer,
       ChildReady, ChildInitFails, ChildTakes, ChildAsks, ChildText, ChildTool, ChildToolGivesUp,
       ChildEnds, ChildThrows, ChildDone, ChildStep, hostVars, vars
  <2>2. QED
    BY <2>1 DEF ToolsOfTurn
<1>8. QED
  BY <1>1, <1>2, <1>3, <1>4, <1>5, <1>6, <1>7 DEF Next, Reads

\* No tool outlives its turn.
THEOREM ToolsEnd == Spec => []ToolsEndWithTurn
<1>1. Init => ToolsOfTurn
  BY DEF Init, ToolsOfTurn
<1>2. ToolsOfTurn => ToolsEndWithTurn
  BY DEF ToolsOfTurn, ToolsEndWithTurn
<1>3. QED
  BY <1>1, <1>2, JourneyCorrect, ToolsStep, PTL DEF Spec

-----------------------------------------------------------------------------
(* The texts of a turn *)

Everything == Types /\ Numbered /\ Journey /\ Texts /\ CompleteIsTrue

\* A step that leaves the reader, its queue and the count alone.
LEMMA FlowKept ==
  ASSUME Flow, UNCHANGED <<prompt, active, queue, done, got, said, failed, stop, destroyed>>,
         Reading' => Reading, ended => ended',
         Count(toHost', "text", prompt) = Count(toHost, "text", prompt)
  PROVE  Flow'
BY DEF Flow, Undisturbed

LEMMA TextsChat ==
  ASSUME Everything, Chat PROVE Texts' /\ CompleteIsTrue'
<1>1. /\ prompt' = prompt + 1 /\ prompt + 1 \in 1 .. MaxPrompts /\ UNCHANGED asked
      /\ ended' = FALSE /\ got' = 0 /\ said' = 0 /\ queue' = <<>> /\ done' = FALSE
      /\ active' = prompt + 1 /\ pc' # "finishing"
      /\ toHost' \in {toHost, <<>>} /\ prompt \in Nat
  BY PiHostAssumption
     DEF Chat, ChatOnChild, ChatSpawns, ChatDestroyed, BeginTurn, Everything, Types, TypeOK, Prompts
<1>2. prompt + 1 \notin asked /\ prompt + 1 \in Prompts
  BY <1>1, PiHostAssumption DEF Everything, Journey, JourneyOf, Unsent, Prompts
<1>3. \A t \in {"text", "end"} : ~Has(toHost', t, prompt + 1)
  <2>1. \A t \in {"text", "end"} : ~Has(toHost, t, prompt + 1)
    BY <1>2 DEF Everything, Journey, BusyIsAsked
  <2>2. \A t \in {"text", "end"} : ~Has(<<>>, t, prompt + 1)
    BY DEF Has
  <2>3. QED
    BY <1>1, <2>1, <2>2
<1>4. toHost' \in Seq(Line)
  <2>1. toHost \in Seq(Line)
    BY DEF Everything, Types, TypeOK
  <2>2. <<>> \in Seq(Line)
    OBVIOUS
  <2>3. QED
    BY <1>1, <2>1, <2>2
<1>5. Count(toHost', "text", prompt') = 0
  BY <1>1, <1>3, <1>4, CountIsNat
<1>6. EndSeen'
  <2>1. NoneAfter(toHost', "end", "text", prompt')
    BY <1>1, <1>3 DEF NoneAfter, Has
  <2>2. QED
    BY <1>1, <1>3, <2>1 DEF EndSeen
<1>7. Flow'
  BY <1>1, <1>5 DEF Flow
<1>8. CompleteIsTrue'
  BY <1>1 DEF CompleteIsTrue
<1>9. QED
  BY <1>6, <1>7, <1>8 DEF Texts

\* A step after which the child is the same, or a new one or none.
LEMMA EndSeenKept ==
  ASSUME Everything, UNCHANGED <<asked, ended, prompt>>,
         UNCHANGED <<toHost, kid>> \/ GiveUpChild
  PROVE  EndSeen'
<1>1. CASE UNCHANGED <<toHost, kid>>
  BY <1>1 DEF Everything, Texts, EndSeen
<1>2. CASE GiveUpChild
  <2>1. toHost' = <<>> /\ kid'.pc = "init"
    BY <1>2 DEF GiveUpChild, NewKid
  <2>2. ~Has(toHost', "end", prompt) /\ NoneAfter(toHost', "end", "text", prompt)
    BY <2>1 DEF Has, NoneAfter
  <2>3. QED
    BY <2>1, <2>2 DEF Everything, Texts, EndSeen
<1>3. QED
  BY <1>1, <1>2

LEMMA TextsContinues ==
  ASSUME Everything, Continues PROVE Texts' /\ CompleteIsTrue'
<1>1. Types /\ queue \in Seq(Event) /\ got \in Nat /\ said \in Nat
  BY DEF Everything, Types, TypeOK
<1>2. EndSeen'
  <2>1. UNCHANGED <<asked, ended, prompt>> /\ (UNCHANGED <<toHost, kid>> \/ GiveUpChild)
    BY DEF Continues, ChatReady, ChatGivenUp, ChatFails, Take, TakeAndLeave, Drained, Finish,
       Finally, kidVars
  <2>2. QED
    BY <2>1, EndSeenKept
<1>3. CASE ChatReady
  <2>1. UNCHANGED <<prompt, active, queue, done, got, said, failed, stop, destroyed, ended, toHost>>
    BY <1>3 DEF ChatReady, queueVars, linkVars, kidVars
  <2>2. Flow'
    BY <1>3, <2>1, FlowKept DEF ChatReady, Reading, Everything, Texts
  <2>3. CompleteIsTrue'
    BY <1>3 DEF ChatReady, CompleteIsTrue
  <2>4. QED
    BY <1>2, <2>2, <2>3 DEF Texts
<1>4. CASE ChatGivenUp \/ ChatFails \/ Finish
  BY <1>2, <1>4 DEF ChatGivenUp, ChatFails, Finish, Texts, Flow, Reading, CompleteIsTrue
<1>5. CASE Take
  <2>1. /\ pc = "draining" /\ queue # <<>> /\ queue' = Tail(queue)
        /\ got' = (IF Head(queue).k = "text" THEN got + 1 ELSE got)
        /\ ~failed' => ~failed /\ Head(queue).k # "error"
        /\ UNCHANGED <<pc, prompt, active, done, said, stop, destroyed, ended, toHost>>
    BY <1>5 DEF Take, linkVars, kidVars
  <2>2. /\ Len(queue') = Len(queue) - 1 /\ Len(queue) \in Nat /\ Head(queue) = queue[1]
        /\ \A i \in 1 .. Len(queue') : queue'[i] = queue[i + 1] /\ i + 1 \in 1 .. Len(queue)
        /\ \A i \in 1 .. Len(queue) : i = 1 \/ (i - 1 \in 1 .. Len(queue') /\ queue[i] = queue'[i - 1])
        /\ Head(queue) \in Event
    BY <1>1, <2>1
  <2>3. Undisturbed' => Undisturbed /\ Head(queue).k = "text"
    <3>1. Head(queue).k \in {"text", "error"}
      BY <2>2 DEF Event
    <3>2. QED
      BY <2>1, <2>2, <3>1 DEF Undisturbed
  <2>4. Count(toHost, "text", prompt) \in Nat
    BY CountIsNat DEF Everything, Types, TypeOK
  <2>5. Flow'
    <3> SUFFICES ASSUME Undisturbed'
                 PROVE  /\ active' = prompt'
                        /\ got' + Len(queue') + Count(toHost', "text", prompt') = said'
                        /\ done' => ended' /\ got' + Len(queue') = said'
      BY DEF Flow
    <3>1. /\ active = prompt
          /\ got + Len(queue) + Count(toHost, "text", prompt) = said
          /\ done => ended /\ got + Len(queue) = said
      BY <2>1, <2>3 DEF Everything, Texts, Flow, Reading
    <3>2. got' + Len(queue') = got + Len(queue)
      BY <1>1, <2>1, <2>2, <2>3
    <3>3. QED
      BY <2>1, <3>1, <3>2
  <2>6. CompleteIsTrue'
    BY <2>1 DEF CompleteIsTrue
  <2>7. QED
    BY <1>2, <2>5, <2>6 DEF Texts
<1>6. CASE TakeAndLeave
  BY <1>2, <1>6 DEF TakeAndLeave, Finally, Texts, Flow, Reading, CompleteIsTrue
<1>7. CASE Drained
  <2>1. /\ pc = "draining" /\ queue = <<>> /\ done /\ pc' = "finishing"
        /\ UNCHANGED <<got, said, failed, stop, destroyed, ended>>
    BY <1>7 DEF Drained, Finally, linkVars, kidVars
  <2>2. ~failed /\ ~stop /\ ~destroyed => Undisturbed
    BY <2>1 DEF Undisturbed
  <2>3. CompleteIsTrue'
    BY <1>1, <2>1, <2>2 DEF CompleteIsTrue, Everything, Texts, Flow, Reading
  <2>4. QED
    BY <1>2, <2>1, <2>3 DEF Texts, Flow, Reading
<1>8. QED
  BY <1>3, <1>4, <1>5, <1>6, <1>7 DEF Continues

LEMMA TextsInterrupts ==
  ASSUME Everything, Interrupts PROVE Texts' /\ CompleteIsTrue'
<1>1. UNCHANGED <<pc, prompt, got, failed, asked, said, ended>>
  BY DEF Interrupts, Cancel, Timeout, Interrupt, Destroy, Exit, PipeBreaks, LateWriteFails,
     hostVars, linkVars, kidVars
<1>2. UNCHANGED <<toHost, kid>> \/ GiveUpChild
  BY DEF Interrupts, Cancel, Timeout, Interrupt, Destroy, Exit, PipeBreaks, LateWriteFails, kidVars
<1>3. (stop => stop') /\ (destroyed => destroyed')
  BY DEF Interrupts, Cancel, Timeout, Interrupt, Destroy, Exit, PipeBreaks, LateWriteFails,
     hostVars, linkVars
<1>4. EndSeen'
  BY <1>1, <1>2, EndSeenKept
<1>5. CompleteIsTrue'
  BY <1>1, <1>3 DEF CompleteIsTrue, Everything
<1>6. ASSUME queue' = Append(queue, HostError) PROVE ~Undisturbed'
  <2>1. Len(queue') = Len(queue) + 1 /\ Len(queue) \in Nat /\ queue'[Len(queue) + 1] = HostError
    BY <1>6 DEF Everything, Types, TypeOK
  <2>2. HostError.k = "error" /\ Len(queue) + 1 \in 1 .. Len(queue')
    BY <2>1 DEF HostError
  <2>3. QED
    BY <2>1, <2>2 DEF Undisturbed
<1>7. ~(Reading /\ Undisturbed)'
  <2>1. CASE Cancel \/ Destroy
    BY <2>1 DEF Cancel, Destroy, Undisturbed
  <2>2. CASE Timeout
    BY <1>6, <2>2 DEF Timeout
  <2>3. CASE PipeBreaks \/ LateWriteFails
    BY <1>6, <2>3 DEF PipeBreaks, LateWriteFails, FailTurn, Undisturbed
  <2>4. CASE Exit
    <3>1. CASE active # 0
      BY <1>6, <2>4, <3>1 DEF Exit
    <3>2. CASE active = 0
      <4>1. UNCHANGED <<queue, pc, failed, stop, destroyed>>
        BY <2>4, <3>2 DEF Exit
      <4>2. Reading => prompt # 0
        BY DEF Everything, Numbered, Reading
      <4>3. QED
        BY <3>2, <4>1, <4>2 DEF Undisturbed, Reading, Everything, Texts, Flow
    <3>3. QED
      BY <3>1, <3>2
  <2>5. QED
    BY <2>1, <2>2, <2>3, <2>4 DEF Interrupts
<1>8. QED
  BY <1>4, <1>5, <1>7 DEF Texts, Flow

LEMMA TextsReads ==
  ASSUME Everything, Reads PROVE Texts' /\ CompleteIsTrue'
<1> DEFINE h == Head(toHost)
<1>1. /\ toHost # <<>> /\ toHost' = Tail(toHost)
      /\ UNCHANGED <<pc, prompt, active, got, failed, stop, destroyed, asked, said, ended, kid>>
  BY DEF Reads, ReadReady, ReadText, ReadEnd, ReadTool, ReadError, NextLine, hostVars, linkVars, kidVars
<1>2. /\ toHost \in Seq(Line) /\ queue \in Seq(Event) /\ got \in Nat /\ said \in Nat
      /\ prompt \in Prompts
  BY DEF Everything, Types, TypeOK
<1>3. h \in Line /\ h.p \in Prompts
  <2>1. h \in Line
    BY <1>1, <1>2, TailLine
  <2>2. QED
    BY <2>1 DEF Line
<1>4. EndSeen'
  BY <1>1, <1>2, TailLine DEF EndSeen, Everything, Texts
<1>5. CompleteIsTrue'
  BY <1>1 DEF CompleteIsTrue, Everything
<1>6. \A t \in {"text", "end"} : h.t = t => Has(toHost, t, h.p) /\ h.p # 0
  <2>1. \A t \in {"text", "end"} : h.t = t => Has(toHost, t, h.p)
    BY <1>1, <1>2, TailLine DEF Is
  <2>2. QED
    BY <1>3, <2>1 DEF Everything, Journey, BusyIsAsked
<1>7. /\ Count(toHost', "text", prompt) = Count(toHost, "text", prompt)
                                           - (IF Is(h, "text", prompt) THEN 1 ELSE 0)
      /\ Count(toHost, "text", prompt) \in Nat /\ Count(toHost', "text", prompt) \in Nat
      /\ Count(toHost, "text", prompt) = 0 => ~Has(toHost, "text", prompt)
      /\ ~Has(toHost', "text", prompt) => Count(toHost', "text", prompt) = 0
  BY <1>1, <1>2, TailLine, CountTail, CountIsNat
<1>8. Flow'
  <2>1. CASE ReadText /\ Mine(h)
    <3> SUFFICES ASSUME Reading', Undisturbed'
                 PROVE  /\ active' = prompt'
                        /\ got' + Len(queue') + Count(toHost', "text", prompt') = said'
                        /\ done' => ended' /\ got' + Len(queue') = said'
      BY DEF Flow
    <3>1. queue' = Append(queue, [k |-> "text", p |-> h.p]) /\ done' = done /\ h.t = "text"
      BY <2>1 DEF ReadText, NextLine
    <3>2. Len(queue') = Len(queue) + 1 /\ Len(queue) \in Nat
          /\ \A i \in 1 .. Len(queue) : queue'[i] = queue[i] /\ i \in 1 .. Len(queue')
      BY <1>2, <3>1
    <3>3. Reading /\ Undisturbed
      BY <1>1, <3>2 DEF Reading, Undisturbed
    <3>4. /\ active = prompt
          /\ got + Len(queue) + Count(toHost, "text", prompt) = said
          /\ done => ended /\ got + Len(queue) = said
      BY <3>3 DEF Everything, Texts, Flow
    <3>5. Is(h, "text", prompt) /\ Has(toHost, "text", prompt)
      BY <1>6, <2>1, <3>1, <3>4 DEF Mine, Is
    <3>6. Count(toHost', "text", prompt) = Count(toHost, "text", prompt) - 1
      BY <1>7, <3>5
    <3>7. ~done
      <4>1. Count(toHost, "text", prompt) # 0 /\ Count(toHost, "text", prompt) \in Nat
        BY <1>7, <3>5
      <4>2. \A c \in Nat : got + Len(queue) + c = said /\ got + Len(queue) = said => c = 0
        BY <1>2, <3>2
      <4>3. QED
        BY <3>4, <4>1, <4>2
    <3>8. got + Len(queue') + Count(toHost', "text", prompt) = said
      BY <1>2, <1>7, <3>2, <3>4, <3>6
    <3>9. QED
      BY <1>1, <3>1, <3>4, <3>7, <3>8
  <2>2. CASE ReadEnd /\ Mine(h)
    <3> SUFFICES ASSUME Reading', Undisturbed'
                 PROVE  /\ active' = prompt'
                        /\ got' + Len(queue') + Count(toHost', "text", prompt') = said'
                        /\ ended' /\ got' + Len(queue') = said'
      BY DEF Flow
    <3>1. queue' = queue /\ h.t = "end"
      BY <2>2 DEF ReadEnd, NextLine
    <3>2. Reading /\ Undisturbed
      BY <1>1, <3>1 DEF Reading, Undisturbed
    <3>3. active = prompt /\ got + Len(queue) + Count(toHost, "text", prompt) = said
      BY <3>2 DEF Everything, Texts, Flow
    <3>4. Is(h, "end", prompt) /\ Has(toHost, "end", prompt)
      BY <1>6, <2>2, <3>1, <3>3 DEF Mine, Is
    <3>5. ended /\ ~Has(toHost', "text", prompt)
      BY <1>1, <1>2, <3>4, TailLine DEF Everything, Texts, EndSeen
    <3>6. Count(toHost', "text", prompt) = 0 /\ Count(toHost, "text", prompt) = 0
      <4>1. ~Is(h, "text", prompt)
        BY <3>1 DEF Is
      <4>2. QED
        BY <1>7, <3>5, <4>1
    <3>7. Len(queue) \in Nat
      BY <1>2
    <3>8. QED
      BY <1>1, <1>2, <3>1, <3>3, <3>5, <3>6, <3>7
  <2>3. CASE ReadError /\ Mine(h)
    <3>1. queue' = Append(queue, [k |-> "error", p |-> h.p])
      BY <2>3 DEF ReadError
    <3>2. queue'[Len(queue) + 1].k = "error" /\ Len(queue) + 1 \in 1 .. Len(queue')
      BY <1>2, <3>1
    <3>3. QED
      BY <3>2 DEF Flow, Undisturbed
  <2>4. CASE ReadReady \/ ReadTool \/ ~Mine(h)
    <3>1. queue' = queue /\ (done' => done) /\ (h.t = "text" => ReadText)
      BY <2>4 DEF Reads, ReadReady, ReadText, ReadEnd, ReadTool, ReadError, NextLine, queueVars
    <3>2. Reading /\ Undisturbed => active = prompt
      BY DEF Everything, Texts, Flow
    <3>3. Reading /\ Undisturbed => ~Is(h, "text", prompt)
      <4>1. ReadReady \/ ReadTool => h.t # "text"
        BY DEF ReadReady, ReadTool, NextLine
      <4>2. QED
        BY <2>4, <3>2, <4>1 DEF Is, Mine
    <3>4. Reading' = Reading /\ Undisturbed' = Undisturbed
      BY <1>1, <3>1 DEF Reading, Undisturbed
    <3>5. QED
      BY <1>1, <1>7, <3>1, <3>3, <3>4 DEF Flow, Everything, Texts
  <2>5. QED
    BY <2>1, <2>2, <2>3, <2>4 DEF Reads
<1>9. QED
  BY <1>4, <1>5, <1>8 DEF Texts

LEMMA TextsTools ==
  ASSUME Everything, ToolReturns \/ UNCHANGED vars PROVE Texts' /\ CompleteIsTrue'
<1>1. /\ UNCHANGED <<pc, prompt, active, queue, done, got, said, failed, stop, destroyed, ended>>
      /\ UNCHANGED <<asked, toHost, kid>>
  BY DEF ToolReturns, ToolEnds, vars, hostVars, queueVars, linkVars, kidVars
<1>2. EndSeen'
  BY <1>1, EndSeenKept
<1>3. Flow'
  BY <1>1, FlowKept DEF Everything, Texts, Reading
<1>4. CompleteIsTrue'
  BY <1>1 DEF Everything, CompleteIsTrue
<1>5. QED
  BY <1>2, <1>3, <1>4 DEF Texts

\* A step of the child that says nothing about a text or an end.
LEMMA TextsQuiet ==
  ASSUME Everything, ChildStep, UNCHANGED <<said, ended>>,
         toHost' \in Seq(Line),
         \A t \in {"text", "end"} : Has(toHost', t, prompt) <=> Has(toHost, t, prompt),
         NoneAfter(toHost', "end", "text", prompt),
         Count(toHost', "text", prompt) = Count(toHost, "text", prompt),
         asked \subseteq asked',
         ended => ~(kid'.pc = "running" /\ kid'.prompt = prompt)
  PROVE  Texts' /\ CompleteIsTrue'
<1>1. UNCHANGED <<pc, prompt, active, queue, done, got, said, failed, stop, destroyed, ended>>
  BY DEF ChildStep, hostVars, queueVars, linkVars
<1>2. EndSeen'
  BY <1>1 DEF EndSeen, Everything, Texts
<1>3. Flow'
  BY <1>1, FlowKept DEF Everything, Texts, Reading
<1>4. CompleteIsTrue'
  BY <1>1 DEF Everything, CompleteIsTrue
<1>5. QED
  BY <1>2, <1>3, <1>4 DEF Texts

LEMMA TextsChild ==
  ASSUME Everything, Child PROVE Texts' /\ CompleteIsTrue'
<1>1. /\ Types /\ toHost \in Seq(Line) /\ said \in Nat /\ got \in Nat /\ prompt \in Prompts
      /\ kid \in KidRecord /\ EndSeen /\ Flow /\ CompleteIsTrue /\ Journey
  BY DEF Everything, Types, TypeOK, Texts
<1>2. ChildStep
  BY DEF Child, ChildReadsPrompt, ChildReadsAbort, ChildReadsAnswer, ChildReady, ChildInitFails,
     ChildTakes, ChildAsks, ChildText, ChildTool, ChildToolGivesUp, ChildEnds, ChildThrows, ChildDone
<1>3. UNCHANGED <<pc, prompt, active, queue, done, got, failed, stop, destroyed>>
  BY <1>2 DEF ChildStep, hostVars, queueVars, linkVars
<1>4. 0 \in 0 .. MaxTools /\ (kid.counter < MaxTools => kid.counter + 1 \in 0 .. MaxTools)
  BY <1>1, PiHostAssumption DEF KidRecord
<1>5. CASE UNCHANGED <<toHost, said, ended>> /\ asked \subseteq asked'
           /\ (kid'.pc = "running" => kid.pc = "running" /\ kid'.prompt = kid.prompt)
  BY <1>1, <1>2, <1>5, TextsQuiet DEF EndSeen
<1>6. CASE ChildReadsPrompt \/ ChildReadsAbort \/ ChildReadsAnswer
  <2>1. UNCHANGED <<toHost, said, ended, asked>>
    BY <1>6 DEF ChildReadsPrompt, ChildReadsAbort, ChildReadsAnswer
  <2>2. kid'.pc = kid.pc /\ kid'.prompt = kid.prompt
    BY <1>1, <1>6 DEF ChildReadsPrompt, ChildReadsAbort, ChildReadsAnswer, KidRecord
  <2>3. QED
    BY <1>5, <2>1, <2>2
<1>7. CASE ChildTakes \/ ChildDone \/ \E id \in 1 .. MaxTools : ChildToolGivesUp(id)
  <2>1. UNCHANGED <<toHost, said, ended, asked>>
    BY <1>7 DEF ChildTakes, ChildDone, ChildToolGivesUp
  <2>2. kid'.pc = "running" => kid.pc = "running" /\ kid'.prompt = kid.prompt
    <3>1. CASE ChildTakes
      BY <1>1, <3>1 DEF ChildTakes, KidRecord
    <3>2. CASE ChildDone
      BY <1>1, <3>2 DEF ChildDone, PromptOver, KidRecord
    <3>3. CASE \E id \in 1 .. MaxTools : ChildToolGivesUp(id)
      BY <1>1, <3>3 DEF ChildToolGivesUp, KidRecord
    <3>4. QED
      BY <1>7, <3>1, <3>2, <3>3
  <2>3. QED
    BY <1>5, <2>1, <2>2
<1>8. CASE ChildAsks
  <2>1. /\ UNCHANGED <<toHost, said, ended>> /\ asked \subseteq asked'
        /\ kid.pc = "choosing" /\ kid'.prompt = kid.prompt
    BY <1>1, <1>8 DEF ChildAsks, KidRecord
  <2>2. kid.prompt \notin asked
    <3>1. kid.prompt \in 1 .. MaxPrompts
      BY <1>1, <2>1, PiHostAssumption DEF KidRecord, Prompts, Journey, BusyIsAsked
    <3>2. QED
      BY <1>1, <2>1, <3>1 DEF Journey, JourneyOf
  <2>3. QED
    BY <1>1, <1>2, <2>1, <2>2, TextsQuiet DEF EndSeen
<1>9. ASSUME NEW t \in {"ready", "tool", "error"}, NEW id \in 0 .. MaxTools, Writes(t, id),
             UNCHANGED <<said, ended, asked>>,
             kid'.pc = "running" => kid.pc = "running" /\ kid'.prompt = kid.prompt
      PROVE  Texts' /\ CompleteIsTrue'
  <2> DEFINE x == Say(t, kid.prompt, id)
  <2>1. x \in Line /\ toHost' = Append(toHost, x)
    BY <1>1, <1>9 DEF Say, Line, Writes, KidRecord
  <2>2. ~Is(x, "text", prompt) /\ ~Is(x, "end", prompt)
    BY DEF Say, Is
  <2> HIDE DEF x
  <2>3. /\ toHost' \in Seq(Line)
        /\ \A u \in {"text", "end"} : Has(toHost', u, prompt) <=> Has(toHost, u, prompt)
        /\ NoneAfter(toHost', "end", "text", prompt)
    BY <1>1, <2>1, <2>2, AppendLine DEF EndSeen
  <2>4. Count(toHost', "text", prompt) = Count(toHost, "text", prompt)
    BY <1>1, <2>1, <2>2, CountAppend, CountIsNat
  <2>5. QED
    BY <1>1, <1>2, <1>9, <2>3, <2>4, TextsQuiet DEF EndSeen
<1>10. CASE ChildReady \/ ChildInitFails \/ ChildTool \/ ChildThrows
  <2>1. UNCHANGED <<said, ended, asked>>
    BY <1>10 DEF ChildReady, ChildInitFails, ChildTool, ChildThrows
  <2>2. kid'.pc = "running" => kid.pc = "running" /\ kid'.prompt = kid.prompt
    <3>1. CASE ChildReady \/ ChildInitFails \/ ChildTool
      BY <1>1, <3>1 DEF ChildReady, ChildInitFails, ChildTool, KidRecord
    <3>2. CASE ChildThrows
      BY <1>1, <3>2 DEF ChildThrows, PromptOver, KidRecord
    <3>3. QED
      BY <1>10, <3>1, <3>2
  <2>3. \E t \in {"ready", "tool", "error"}, id \in 0 .. MaxTools : Writes(t, id)
    BY <1>4, <1>10 DEF ChildReady, ChildInitFails, ChildTool, ChildThrows
  <2>4. QED
    BY <1>9, <2>1, <2>2, <2>3
<1>11. CASE ChildText
  <2> DEFINE x == Say("text", kid.prompt, 0)
  <2>1. /\ x \in Line /\ toHost' = Append(toHost, x) /\ UNCHANGED <<kid, asked, ended>>
        /\ kid.pc = "running"
        /\ said' = IF kid.prompt = prompt THEN said + 1 ELSE said
    BY <1>1, <1>4, <1>11 DEF Say, Line, Writes, KidRecord, ChildText
  <2>2. ~Is(x, "end", prompt) /\ (Is(x, "text", prompt) <=> kid.prompt = prompt)
    BY DEF Say, Is
  <2> HIDE DEF x
  <2>3. kid.prompt = prompt => ~ended /\ ~Has(toHost, "end", prompt)
    BY <1>1, <2>1 DEF EndSeen
  <2>4. EndSeen'
    BY <1>1, <1>3, <2>1, <2>2, <2>3, AppendLine DEF EndSeen
  <2>5. /\ Count(toHost', "text", prompt) = Count(toHost, "text", prompt)
                                             + (IF kid.prompt = prompt THEN 1 ELSE 0)
        /\ Count(toHost, "text", prompt) \in Nat
    BY <1>1, <2>1, <2>2, CountAppend, CountIsNat
  <2>6. Flow'
    <3> SUFFICES ASSUME Reading', Undisturbed'
                 PROVE  /\ active' = prompt'
                        /\ got' + Len(queue') + Count(toHost', "text", prompt') = said'
                        /\ done' => ended' /\ got' + Len(queue') = said'
      BY DEF Flow
    <3>1. /\ active = prompt
          /\ got + Len(queue) + Count(toHost, "text", prompt) = said
          /\ done => ended /\ got + Len(queue) = said
      BY <1>1, <1>3 DEF Reading, Undisturbed, Flow
    <3>2. Len(queue) \in Nat
      BY <1>1 DEF Types, TypeOK
    <3>3. got + Len(queue) + Count(toHost', "text", prompt) = said'
      BY <1>1, <2>1, <2>5, <3>1, <3>2
    <3>4. done => kid.prompt # prompt /\ said' = said
      BY <2>1, <2>3, <3>1
    <3>5. QED
      BY <1>3, <2>1, <3>1, <3>3, <3>4
  <2>7. CompleteIsTrue'
    BY <1>1, <1>3, <2>1, <2>3 DEF CompleteIsTrue
  <2>8. QED
    BY <2>4, <2>6, <2>7 DEF Texts
<1>12. CASE ChildEnds
  <2> DEFINE x == Say("end", kid.prompt, 0)
  <2>1. /\ x \in Line /\ toHost' = Append(toHost, x) /\ UNCHANGED <<said, asked>>
        /\ kid.pc = "running" /\ kid'.pc = "ended"
        /\ ended' = (ended \/ kid.prompt = prompt)
    BY <1>1, <1>4, <1>12 DEF Say, Line, Writes, KidRecord, ChildEnds
  <2>2. ~Is(x, "text", prompt) /\ (Is(x, "end", prompt) <=> kid.prompt = prompt)
    BY DEF Say, Is
  <2> HIDE DEF x
  <2>3. kid.prompt \in asked
    BY <1>1, <2>1 DEF Journey, BusyIsAsked
  <2>4. EndSeen'
    <3>1. Has(toHost', "end", prompt) => ended'
      BY <1>1, <2>1, <2>2, AppendLine DEF EndSeen
    <3>2. NoneAfter(toHost', "end", "text", prompt)
      BY <1>1, <2>1, <2>2, AppendLine DEF EndSeen
    <3>3. QED
      BY <1>1, <1>3, <2>1, <2>3, <3>1, <3>2 DEF EndSeen
  <2>5. Count(toHost', "text", prompt) = Count(toHost, "text", prompt)
    BY <1>1, <2>1, <2>2, CountAppend, CountIsNat
  <2>6. Flow'
    BY <1>1, <1>3, <2>1, <2>5, FlowKept DEF Reading
  <2>7. CompleteIsTrue'
    BY <1>1, <1>3, <2>1 DEF CompleteIsTrue
  <2>8. QED
    BY <2>4, <2>6, <2>7 DEF Texts
<1>13. QED
  BY <1>6, <1>7, <1>8, <1>10, <1>11, <1>12 DEF Child

LEMMA InitTexts == Init => Texts /\ CompleteIsTrue
<1> SUFFICES ASSUME Init PROVE Texts /\ CompleteIsTrue
  OBVIOUS
<1>1. toHost = <<>> /\ pc = "idle" /\ ended = FALSE
  BY DEF Init
<1>2. ~Has(toHost, "end", prompt) /\ NoneAfter(toHost, "end", "text", prompt)
  BY <1>1 DEF Has, NoneAfter
<1>3. QED
  BY <1>1, <1>2 DEF Texts, EndSeen, Flow, Reading, CompleteIsTrue

\* A turn that is read to its end, unstopped and without an error, has had its
\* agent_end and every text the child sent before it, wherever the child died
\* and whatever earlier turns left on the pipe.
THEOREM CompleteIsComplete == Spec => []CompleteIsTrue
<1>1. Everything /\ [Next]_vars => Texts' /\ CompleteIsTrue'
  BY TextsChat, TextsContinues, TextsInterrupts, TextsReads, TextsTools, TextsChild DEF Next
<1>2. Types /\ Numbered /\ Journey /\ Texts /\ CompleteIsTrue => Everything
  BY DEF Everything
<1>3. QED
  BY <1>1, <1>2, InitTexts, JourneyCorrect, PTL DEF Spec

-----------------------------------------------------------------------------
(* The queue as a stream *)

LEMMA HostPushes ==
  ASSUME Types, pc' = pc PROVE
    /\ HostError \in Event
    /\ queue' = Append(queue, HostError) /\ done' = TRUE => Stream!Next
    /\ queue' = queue /\ done' = TRUE => Stream!Next
<1>1. HostError \in Event
  BY PiHostAssumption DEF HostError, Event, Prompts
<1>2. Reading' = Reading
  BY DEF Reading
<1>3. queue' = Append(queue, HostError) /\ done' = TRUE => Stream!PushLast(HostError)
  BY <1>2 DEF Stream!PushLast
<1>4. queue' = queue /\ done' = TRUE => Stream!Close
  BY <1>2 DEF Stream!Close
<1>5. QED
  BY <1>1, <1>3, <1>4 DEF Stream!Next

LEMMA StreamStep ==
  ASSUME Types, [Next]_vars PROVE [Stream!Next]_(Stream!streamVars)
<1>1. CASE Chat
  <2>1. Stream!Start
    BY <1>1 DEF Chat, ChatOnChild, ChatSpawns, ChatDestroyed, BeginTurn, Reading, Stream!Start
  <2>2. QED
    BY <2>1 DEF Stream!Next
<1>2. CASE Continues
  <2>1. CASE ChatReady \/ Finish
    BY <2>1 DEF ChatReady, Finish, Reading, queueVars, Stream!streamVars
  <2>2. CASE ChatGivenUp \/ ChatFails
    <3>1. Stream!Leave
      BY <2>2 DEF ChatGivenUp, ChatFails, Reading, queueVars, Stream!Leave
    <3>2. QED
      BY <3>1 DEF Stream!Next
  <2>3. CASE Take \/ TakeAndLeave
    <3>1. Stream!Take
      BY <2>3 DEF Take, TakeAndLeave, Finally, Reading, Stream!Take
    <3>2. QED
      BY <3>1 DEF Stream!Next
  <2>4. CASE Drained
    <3>1. Stream!End
      BY <2>4 DEF Drained, Finally, Reading, queueVars, Stream!End
    <3>2. QED
      BY <3>1 DEF Stream!Next
  <2>5. QED
    BY <1>2, <2>1, <2>2, <2>3, <2>4 DEF Continues
<1>3. CASE Interrupts
  <2>1. pc' = pc
    BY <1>3 DEF Interrupts, Cancel, Timeout, Destroy, Exit, PipeBreaks, LateWriteFails, hostVars
  <2>2. done' = TRUE /\ (queue' = queue \/ queue' = Append(queue, HostError))
    BY <1>3 DEF Interrupts, Cancel, Timeout, Interrupt, Destroy, Exit, PipeBreaks, LateWriteFails,
       FailTurn
  <2>3. QED
    BY <2>1, <2>2, HostPushes
<1>4. CASE Reads
  <2> DEFINE h == Head(toHost)
  <2>1. pc' = pc /\ Reading' = Reading
    BY <1>4 DEF Reads, ReadReady, ReadText, ReadEnd, ReadTool, ReadError, hostVars, Reading
  <2>2. \A k \in {"text", "error"} : [k |-> k, p |-> h.p] \in Event
    <3>1. toHost # <<>> /\ toHost \in Seq(Line)
      BY <1>4 DEF Reads, ReadReady, ReadText, ReadEnd, ReadTool, ReadError, NextLine, Types, TypeOK
    <3>2. h \in Line
      BY <3>1, TailLine
    <3>3. h.p \in Prompts
      BY <3>2 DEF Line
    <3>4. QED
      BY <3>3 DEF Event
  <2>3. CASE ReadReady \/ ReadTool
    BY <2>1, <2>3 DEF ReadReady, ReadTool, queueVars, Stream!streamVars
  <2>4. CASE ReadText
    <3>1. CASE Mine(h)
      <4>1. Stream!Push([k |-> "text", p |-> h.p])
        BY <2>1, <2>4, <3>1 DEF ReadText, Stream!Push
      <4>2. QED
        BY <2>2, <4>1 DEF Stream!Next
    <3>2. CASE ~Mine(h)
      BY <2>1, <2>4, <3>2 DEF ReadText, Stream!streamVars
    <3>3. QED
      BY <3>1, <3>2
  <2>5. CASE ReadEnd
    <3>1. CASE Mine(h)
      <4>1. done' = TRUE /\ queue' = queue
        BY <2>5, <3>1 DEF ReadEnd
      <4>2. QED
        BY <2>1, <4>1, HostPushes
    <3>2. CASE ~Mine(h)
      <4>1. done \in BOOLEAN
        BY DEF Types, TypeOK, FlagsOK
      <4>2. done' = done /\ queue' = queue
        BY <2>5, <3>2, <4>1 DEF ReadEnd
      <4>3. QED
        BY <2>1, <4>2 DEF Stream!streamVars
    <3>3. QED
      BY <3>1, <3>2
  <2>6. CASE ReadError
    <3>1. CASE Mine(h)
      <4>1. Stream!PushLast([k |-> "error", p |-> h.p])
        BY <2>1, <2>6, <3>1 DEF ReadError, Stream!PushLast
      <4>2. QED
        BY <2>2, <4>1 DEF Stream!Next
    <3>2. CASE ~Mine(h)
      BY <2>1, <2>6, <3>2 DEF ReadError, Stream!streamVars
    <3>3. QED
      BY <3>1, <3>2
  <2>7. QED
    BY <1>4, <2>3, <2>4, <2>5, <2>6 DEF Reads
<1>5. CASE ToolReturns \/ Child \/ UNCHANGED vars
  <2>1. UNCHANGED <<pc, queue, done>>
    BY <1>5 DEF ToolReturns, ToolEnds, Child, ChildReadsPrompt, ChildReadsAbort, ChildReadsAnswer,
       ChildReady, ChildInitFails, ChildTakes, ChildAsks, ChildText, ChildTool, ChildToolGivesUp,
       ChildEnds, ChildThrows, ChildDone, ChildStep, hostVars, queueVars, vars
  <2>2. QED
    BY <2>1 DEF Reading, Stream!streamVars
<1>6. QED
  BY <1>1, <1>2, <1>3, <1>4, <1>5 DEF Next

\* Whatever the child and its pipes do, the host uses its event queue as a
\* stream: never re-armed under a reader, always re-armed for the next one.
THEOREM UsesAStream == Spec => UsesStream
<1>1. Init => Stream!Init
  BY DEF Init, Reading, Stream!Init
<1>2. QED
  BY <1>1, InitTypes, TypesStep, StreamStep, PTL DEF Spec, UsesStream, Stream!Spec
=============================================================================
