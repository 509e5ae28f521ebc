--------------------------- MODULE RpcLinkProofs ---------------------------
(***************************************************************************)
(* RpcLink for all sets of requests and all bounds.                        *)
(*                                                                         *)
(* Ends: how the two ends of a connection can differ, and what the client  *)
(* knows of the only one it uses.  Mail: a request is under way at most    *)
(* once and before its handler runs, an answer after it has.  Greeted: no  *)
(* event overtakes the acknowledgement of its connection.  Ordered: the    *)
(* numbers of the events on one connection.                                *)
(***************************************************************************)
EXTENDS RpcLink, FiniteSetTheorems, TLAPS

-----------------------------------------------------------------------------
(* The inductive invariant *)

EndsOf(c) ==
  /\ near[c] # "closed" => ws = c \/ disposed
  /\ near[c] \in {"opening", "open"} => ws = c /\ ~disposed /\ ~fatal
  /\ near[c] = "opening" => far[c] = "closed" /\ greeting[c] = "new" /\ state = "connecting"
  /\ near[c] \in {"closed", "opening"} => down[c] = <<>> /\ got[c] = <<>> /\ pushed[c] = <<>>
  /\ far[c] = "closed" => greeting[c] \in {"new", "validating"}
  /\ far[c] = "open" => serving

ClientKnows ==
  /\ retry => ws = 0 /\ state = "reconnecting" /\ ~disposed /\ ~fatal
  /\ shake # 0 => shake = ws /\ near[shake] \in {"opening", "open"}
  /\ disposed => ws = 0 /\ state = "disconnected"
  /\ fatal => state \in {"failed", "disconnected"}

Ends == ClientKnows /\ \A c \in Conns : EndsOf(c)

IsMade(r) == call[r] \notin {"idle", "refused"}

RequestAt(c, i, r) == up[c][i].t = "request" /\ up[c][i].r = r

UpOf(c) ==
  \A i \in 1 .. Len(up[c]) :
    /\ up[c][i].t = "handshake" => i = 1 /\ greeting[c] = "new"
    /\ up[c][i].t # "handshake" =>
         /\ up[c][i].t = "request"
         /\ IsMade(up[c][i].r) /\ ran[up[c][i].r] = "no"

OnceUnderWay ==
  \A r \in Requests, c, d \in Conns : \A i \in 1 .. Len(up[c]), j \in 1 .. Len(up[d]) :
    RequestAt(c, i, r) /\ RequestAt(d, j, r) => c = d /\ i = j

DownOf(c) == \A i \in 1 .. Len(down[c]) : down[c][i].t = "done" => ran[down[c][i].r] = "done"

Mail ==
  /\ pending = {r \in Requests : call[r] = "open"}
  /\ \A r \in Requests : ran[r] # "no" => IsMade(r)
  /\ OnceUnderWay
  /\ \A c \in Conns : UpOf(c) /\ DownOf(c)

\* The acknowledgement is under way.
AckAt(c, i) == i \in 1 .. Len(down[c]) /\ down[c][i].t = "ack"
AckUnderWay(c) == \E i \in 1 .. Len(down[c]) : down[c][i].t = "ack"

GreetedOf(c) ==
  near[c] = "open" =>
    /\ AckUnderWay(c) => c \in clients \/ far[c] # "open"
    /\ state # "connected" =>
         /\ got[c] = <<>>
         /\ c \in clients /\ far[c] = "open" => AckUnderWay(c)
         /\ \A i \in 1 .. Len(down[c]) :
              down[c][i].t = "event" => \E j \in 1 .. Len(down[c]) : j < i /\ down[c][j].t = "ack"

Greeted == ViewsAgree /\ \A c \in Conns : GreetedOf(c)

-----------------------------------------------------------------------------
(* Types *)

LEMMA MessageTypes ==
  /\ \A x \in {"handshake", "ack", "error"} : [t |-> x] \in Message
  /\ \A x \in {"request", "threw", "done"}, r \in Requests : [t |-> x, r |-> r] \in Message
  /\ \A n \in 1 .. MaxEvents : [t |-> "event", n |-> n] \in Message
  /\ \A m \in Message : m.t \in {"request", "threw", "done"} => m.r \in Requests
  /\ \A m \in Message : m.t = "event" => m.n \in 1 .. MaxEvents
BY DEF Message

LEMMA HeadTypes ==
  ASSUME NEW s \in Seq(Message), s # <<>>
  PROVE  /\ Head(s) \in Message /\ Tail(s) \in Seq(Message)
         /\ Len(s) \in Nat /\ Len(Tail(s)) = Len(s) - 1 /\ Head(s) = s[1] /\ 1 \in 1 .. Len(s)
         /\ \A i \in 1 .. Len(Tail(s)) : Tail(s)[i] = s[i + 1] /\ i + 1 \in 1 .. Len(s)
OBVIOUS

LEMMA AppendTypes ==
  ASSUME NEW s \in Seq(Message), NEW m \in Message
  PROVE  /\ Append(s, m) \in Seq(Message)
         /\ Len(Append(s, m)) = Len(s) + 1 /\ Len(s) \in Nat
         /\ Append(s, m)[Len(s) + 1] = m
         /\ \A i \in 1 .. Len(s) : Append(s, m)[i] = s[i] /\ i \in 1 .. Len(Append(s, m))
         /\ \A i \in 1 .. Len(Append(s, m)) : i \in 1 .. Len(s) \/ i = Len(s) + 1
OBVIOUS

LEMMA SendTypes ==
  ASSUME TypeOK, NEW m \in Message
  PROVE  /\ \A c \in Conns : Sent(c, m) \in [Conns -> Seq(Message)]
         /\ \A c \in 0 .. MaxConns : SafeSent(c, m) \in [Conns -> Seq(Message)]
<1>1. up \in [Conns -> Seq(Message)] /\ down \in [Conns -> Seq(Message)]
  BY DEF TypeOK, LinkOK
<1>2. ASSUME NEW c \in Conns PROVE Sent(c, m) \in [Conns -> Seq(Message)]
  <2>1. up[c] \in Seq(Message)
    BY <1>1
  <2>2. Append(up[c], m) \in Seq(Message)
    BY <2>1, AppendTypes
  <2>3. QED
    BY <1>1, <2>2 DEF Sent
<1>3. ASSUME NEW c \in 0 .. MaxConns PROVE SafeSent(c, m) \in [Conns -> Seq(Message)]
  <2>1. CASE c = 0
    BY <1>1, <2>1 DEF SafeSent
  <2>2. CASE c # 0
    <3>1. c \in Conns
      BY <2>2 DEF Conns
    <3>2. Append(down[c], m) \in Seq(Message)
      BY <1>1, <3>1, AppendTypes
    <3>3. QED
      BY <1>1, <3>2 DEF SafeSent
  <2>3. QED
    BY <2>1, <2>2
<1>4. QED
  BY <1>2, <1>3

LEMMA FreshIsOver ==
  ASSUME NEW c \in Conns, Over(c) PROVE Fresh \in Conns /\ Over(Fresh)
BY DEF Fresh
LEMMA InitTypes == Init => TypeOK
<1> SUFFICES ASSUME Init PROVE TypeOK
  OBVIOUS
<1>1. /\ <<>> \in Seq(Message) /\ <<>> \in Seq(1 .. MaxEvents)
      /\ 0 \in 0 .. MaxConns /\ 0 \in 0 .. MaxAttempts /\ 0 \in 0 .. MaxEvents /\ 0 \in 0 .. MaxFaults
  BY RpcLinkAssumption
<1>2. ClientOK
  BY <1>1 DEF Init, ClientOK, States
<1>3. LinkOK
  BY <1>1 DEF Init, LinkOK
<1>4. ServerOK /\ EventsOK
  BY <1>1 DEF Init, ServerOK, EventsOK
<1>5. QED
  BY <1>2, <1>3, <1>4 DEF TypeOK

LEMMA ConnectTypes ==
  ASSUME TypeOK, Connect
  PROVE  /\ state' \in States /\ ws' \in 0 .. MaxConns /\ shake' \in 0 .. MaxConns
         /\ near' \in [Conns -> {"opening", "open", "closing", "closed"}]
<1>1. CASE UNCHANGED <<state, ws, shake, near>>
  BY <1>1 DEF TypeOK, ClientOK, LinkOK
<1>2. CASE /\ \E c \in Conns : Over(c)
           /\ state' = "connecting" /\ ws' = Fresh /\ shake' = Fresh
           /\ near' = [near EXCEPT ![Fresh] = "opening"]
  <2>1. Fresh \in Conns /\ Fresh \in 0 .. MaxConns
    BY <1>2, FreshIsOver DEF Conns
  <2>2. QED
    BY <1>2, <2>1 DEF TypeOK, LinkOK, States
<1>3. QED
  BY <1>1, <1>2 DEF Connect

LEMMA ScheduleTypes ==
  ASSUME TypeOK, ScheduleReconnect
  PROVE  state' \in States /\ attempts' \in 0 .. MaxAttempts /\ retry' \in BOOLEAN
<1>1. attempts \in 0 .. MaxAttempts /\ retry \in BOOLEAN /\ state \in States
  BY DEF TypeOK, ClientOK
<1>2. CASE UNCHANGED <<attempts, retry>> /\ state' \in {state, "failed"}
  BY <1>1, <1>2 DEF States
<1>3. CASE attempts < MaxAttempts /\ state' = "reconnecting" /\ attempts' = attempts + 1 /\ retry' = TRUE
  BY <1>1, <1>3, RpcLinkAssumption DEF States
<1>4. attempts >= MaxAttempts \/ attempts < MaxAttempts
  BY <1>1, RpcLinkAssumption
<1>5. QED
  BY <1>2, <1>3, <1>4 DEF ScheduleReconnect

LEMMA ClientTypes ==
  ASSUME TypeOK,
         \/ FirstConnect \/ HandshakeTimeout \/ ReconnectTimer \/ Disconnect
         \/ \E r \in Requests : Invoke(r) \/ InvokeRefused(r) \/ RequestTimeout(r)
  PROVE  TypeOK'
<1>1. ServerOK' /\ EventsOK'
  BY DEF FirstConnect, HandshakeTimeout, ReconnectTimer, Disconnect, Invoke, InvokeRefused,
     RequestTimeout, linkVars, serverVars, TypeOK, ServerOK, EventsOK
<1>2. CASE FirstConnect \/ ReconnectTimer
  <2>1. Connect /\ UNCHANGED <<attempts, fatal, disposed, pending, call, far, up, down, cut>>
        /\ retry' \in BOOLEAN
    BY <1>2 DEF FirstConnect, ReconnectTimer, TypeOK, ClientOK
  <2>2. ClientOK'
    BY <2>1, ConnectTypes DEF TypeOK, ClientOK
  <2>3. LinkOK'
    BY <2>1, ConnectTypes DEF TypeOK, LinkOK
  <2>4. QED
    BY <1>1, <2>2, <2>3 DEF TypeOK
<1>3. CASE HandshakeTimeout \/ Disconnect
  <2>1. 0 \in 0 .. MaxConns
    BY RpcLinkAssumption
  <2>2. ClientOK'
    BY <1>3, <2>1 DEF HandshakeTimeout, Disconnect, AllFail, TypeOK, ClientOK, States
  <2>3. LinkOK'
    BY <1>3 DEF HandshakeTimeout, Disconnect, TypeOK, LinkOK
  <2>4. QED
    BY <1>1, <2>2, <2>3 DEF TypeOK
<1>4. ASSUME NEW r \in Requests, Invoke(r) PROVE TypeOK'
  <2>1. ws \in Conns
    BY <1>4 DEF Invoke, TypeOK, ClientOK, Conns
  <2>2. Sent(ws, [t |-> "request", r |-> r]) \in [Conns -> Seq(Message)]
    BY <2>1, SendTypes, MessageTypes
  <2>3. ClientOK'
    BY <1>4 DEF Invoke, TypeOK, ClientOK
  <2>4. LinkOK'
    BY <1>4, <2>2 DEF Invoke, TypeOK, LinkOK
  <2>5. QED
    BY <1>1, <2>3, <2>4 DEF TypeOK
<1>5. ASSUME NEW r \in Requests, InvokeRefused(r) \/ RequestTimeout(r) PROVE TypeOK'
  <2>1. ClientOK'
    BY <1>5 DEF InvokeRefused, RequestTimeout, TypeOK, ClientOK
  <2>2. LinkOK'
    BY <1>5 DEF InvokeRefused, RequestTimeout, linkVars, TypeOK, LinkOK
  <2>3. QED
    BY <1>1, <2>1, <2>2 DEF TypeOK
<1>6. QED
  BY <1>2, <1>3, <1>4, <1>5

LEMMA ClosedTypes ==
  ASSUME TypeOK, NEW c \in Conns, ClientClosed(c) PROVE TypeOK'
<1>1. state' \in States /\ attempts' \in 0 .. MaxAttempts /\ retry' \in BOOLEAN
  <2>1. CASE disposed \/ fatal
    BY <2>1 DEF ClientClosed, TypeOK, ClientOK, States
  <2>2. CASE ~disposed /\ ~fatal
    BY <2>2, ScheduleTypes DEF ClientClosed
  <2>3. QED
    BY <2>1, <2>2
<1>2. ClientOK'
  <2>1. 0 \in 0 .. MaxConns
    BY RpcLinkAssumption
  <2>2. UNCHANGED <<fatal, disposed>> /\ shake' = 0 /\ ws' \in {ws, 0} /\ call' = AllFail /\ pending' = {}
    BY DEF ClientClosed
  <2>3. AllFail \in [Requests -> {"idle", "refused", "open", "ok", "failed"}]
    BY DEF AllFail, TypeOK, ClientOK
  <2>4. QED
    BY <1>1, <2>1, <2>2, <2>3 DEF TypeOK, ClientOK
<1>3. LinkOK'
  <2>1. <<>> \in Seq(Message)
    OBVIOUS
  <2>2. QED
    BY <2>1 DEF ClientClosed, TypeOK, LinkOK
<1>4. EventsOK'
  <2>1. <<>> \in Seq(1 .. MaxEvents)
    OBVIOUS
  <2>2. QED
    BY <2>1 DEF ClientClosed, TypeOK, EventsOK
<1>5. ServerOK'
  BY DEF ClientClosed, TypeOK, ServerOK
<1>6. QED
  BY <1>2, <1>3, <1>4, <1>5 DEF TypeOK

LEMMA ReadTypes ==
  ASSUME TypeOK, NEW c \in Conns, ClientReads(c) PROVE TypeOK'
<1>1. down[c] \in Seq(Message) /\ down[c] # <<>>
  BY DEF ClientReads, TypeOK, LinkOK
<1>2. Head(down[c]) \in Message /\ Tail(down[c]) \in Seq(Message)
  BY <1>1, HeadTypes
<1>3. down' \in [Conns -> Seq(Message)]
  BY <1>2 DEF ClientReads, Taken, TypeOK, LinkOK
<1>4. UNCHANGED <<far, up, cut, serverVars, faults>>
  BY DEF ClientReads
<1>5. LinkOK'
  <2>1. near' \in [Conns -> {"opening", "open", "closing", "closed"}]
    BY DEF ClientReads, ReadAck, ReadError, ReadResponse, ReadEvent, TypeOK, LinkOK
  <2>2. QED
    BY <1>3, <1>4, <2>1 DEF TypeOK, LinkOK
<1>6. ServerOK'
  BY <1>4 DEF TypeOK, ServerOK, serverVars
<1>7. ClientOK'
  <2>1. 0 \in 0 .. MaxConns /\ 0 \in 0 .. MaxAttempts
    BY RpcLinkAssumption
  <2>2. CASE ReadAck(c)
    BY <2>1, <2>2 DEF ReadAck, TypeOK, ClientOK, States
  <2>3. CASE ReadError(c)
    BY <2>1, <2>3 DEF ReadError, AllFail, TypeOK, ClientOK, States
  <2>4. CASE ReadResponse(c)
    <3>1. Head(down[c]).r \in Requests
      BY <1>2, <2>4, MessageTypes DEF ReadResponse
    <3>2. QED
      BY <2>4, <3>1 DEF ReadResponse, TypeOK, ClientOK
  <2>5. CASE ReadEvent(c)
    BY <2>5 DEF ReadEvent, TypeOK, ClientOK
  <2>6. QED
    BY <2>2, <2>3, <2>4, <2>5 DEF ClientReads
<1>8. EventsOK'
  <2>1. CASE ReadAck(c) \/ ReadError(c) \/ ReadResponse(c)
    BY <1>4, <2>1 DEF ReadAck, ReadError, ReadResponse, TypeOK, EventsOK, serverVars
  <2>2. CASE ReadEvent(c)
    <3>1. Head(down[c]).n \in 1 .. MaxEvents
      BY <1>2, <2>2, MessageTypes DEF ReadEvent
    <3>2. Append(got[c], Head(down[c]).n) \in Seq(1 .. MaxEvents)
      BY <3>1 DEF TypeOK, EventsOK
    <3>3. QED
      BY <1>4, <2>2, <3>2 DEF ReadEvent, TypeOK, EventsOK, serverVars
  <2>3. QED
    BY <2>1, <2>2 DEF ClientReads
<1>9. QED
  BY <1>5, <1>6, <1>7, <1>8 DEF TypeOK

LEMMA GreetingTypes ==
  ASSUME TypeOK, NEW c \in Conns,
         Open(c) \/ ReadHandshake(c) \/ Refuse(c) \/ Deny(c) \/ Register(c) \/ HandshakeDeadline(c)
  PROVE  TypeOK'
<1>1. UNCHANGED clientVars /\ ClientOK' /\ EventsOK'
  BY DEF Open, ReadHandshake, Refuse, Deny, Register, HandshakeDeadline, clientVars, serverVars,
     TypeOK, ClientOK, EventsOK
<1>2. ServerOK'
  <2>1. Rejected(c) \in [Conns -> {"new", "validating", "registered", "rejected"}]
    BY DEF Rejected, TypeOK, ServerOK
  <2>2. QED
    BY <2>1 DEF Open, ReadHandshake, Refuse, Deny, Register, HandshakeDeadline, serverVars, TypeOK, ServerOK
<1>3. LinkOK'
  <2>1. c \in 0 .. MaxConns /\ [t |-> "error"] \in Message /\ [t |-> "ack"] \in Message
        /\ <<[t |-> "handshake"]>> \in Seq(Message)
    BY MessageTypes DEF Conns
  <2>2. /\ SafeSent(c, [t |-> "error"]) \in [Conns -> Seq(Message)]
        /\ SafeSent(c, [t |-> "ack"]) \in [Conns -> Seq(Message)]
    BY <2>1, SendTypes
  <2>3. Closed(c) \in [Conns -> {"open", "closing", "closed"}]
    BY DEF Closed, TypeOK, LinkOK
  <2>4. CASE ReadHandshake(c)
    <3>1. Tail(up[c]) \in Seq(Message)
      BY <2>4, HeadTypes DEF ReadHandshake, TypeOK, LinkOK
    <3>2. QED
      BY <2>4, <3>1 DEF ReadHandshake, TypeOK, LinkOK
  <2>5. CASE Open(c)
    BY <2>1, <2>5 DEF Open, TypeOK, LinkOK
  <2>6. CASE Refuse(c) \/ Deny(c)
    BY <2>2, <2>3, <2>6 DEF Refuse, Deny, TypeOK, LinkOK
  <2>7. CASE Register(c) \/ HandshakeDeadline(c)
    BY <2>2, <2>7 DEF Register, HandshakeDeadline, TypeOK, LinkOK
  <2>8. QED
    BY <2>4, <2>5, <2>6, <2>7
<1>4. QED
  BY <1>1, <1>2, <1>3 DEF TypeOK

\* A connection that is registered has its handshake behind it.
LEMMA RequestIsNext ==
  ASSUME TypeOK, Mail, NEW c \in Conns, ReadsRequest(c)
  PROVE  /\ up[c] \in Seq(Message) /\ up[c] # <<>> /\ Tail(up[c]) \in Seq(Message)
         /\ RequestAt(c, 1, Request(c)) /\ Request(c) \in Requests /\ 1 \in 1 .. Len(up[c])
         /\ IsMade(Request(c)) /\ ran[Request(c)] = "no"
<1>1. up[c] \in Seq(Message) /\ up[c] # <<>> /\ greeting[c] = "registered"
  BY DEF ReadsRequest, TypeOK, LinkOK
<1>2. Tail(up[c]) \in Seq(Message) /\ Head(up[c]) \in Message /\ Head(up[c]) = up[c][1] /\ 1 \in 1 .. Len(up[c])
  BY <1>1, HeadTypes
<1>3. up[c][1].t = "request"
  BY <1>1, <1>2 DEF Mail, UpOf
<1>4. QED
  BY <1>1, <1>2, <1>3, MessageTypes DEF Mail, UpOf, RequestAt, Request

LEMMA ServerTypes ==
  ASSUME TypeOK, Mail, NEW c \in Conns,
         ServerClosed(c) \/ DropRequest(c) \/ RejectRequest(c) \/ StartHandler(c) \/ Break(c)
  PROVE  TypeOK'
<1>1. c \in 0 .. MaxConns /\ 0 \in 0 .. MaxConns /\ <<>> \in Seq(Message)
  BY RpcLinkAssumption DEF Conns
<1>2. ClientOK'
  BY DEF ServerClosed, DropRequest, RejectRequest, StartHandler, ReadsRequest, Break, clientVars,
     TypeOK, ClientOK
<1>3. EventsOK'
  <2>1. UNCHANGED <<got, pushed, events>> /\ (faults' = faults \/ (faults < MaxFaults /\ faults' = faults + 1))
    BY DEF ServerClosed, DropRequest, RejectRequest, StartHandler, ReadsRequest, Break, clientVars, serverVars
  <2>2. faults' \in 0 .. MaxFaults
    BY <2>1, RpcLinkAssumption DEF TypeOK, EventsOK
  <2>3. QED
    BY <2>1, <2>2 DEF TypeOK, EventsOK
<1>4. CASE ServerClosed(c)
  <2>1. LinkOK'
    BY <1>1, <1>4 DEF ServerClosed, TypeOK, LinkOK
  <2>2. ServerOK'
    BY <1>1, <1>4 DEF ServerClosed, TypeOK, ServerOK
  <2>3. QED
    BY <1>2, <1>3, <2>1, <2>2 DEF TypeOK
<1>5. CASE DropRequest(c) \/ RejectRequest(c) \/ StartHandler(c)
  <2>1. ReadsRequest(c)
    BY <1>5 DEF DropRequest, RejectRequest, StartHandler
  <2>2. Tail(up[c]) \in Seq(Message) /\ Request(c) \in Requests
    BY <2>1, RequestIsNext
  <2>3. SafeSent(c, [t |-> "threw", r |-> Request(c)]) \in [Conns -> Seq(Message)]
    BY <1>1, <2>2, SendTypes, MessageTypes
  <2>4. LinkOK'
    BY <1>5, <2>1, <2>2, <2>3 DEF DropRequest, RejectRequest, StartHandler, ReadsRequest, TypeOK, LinkOK
  <2>5. ServerOK'
    BY <1>1, <1>5, <2>1, <2>2 DEF DropRequest, RejectRequest, StartHandler, ReadsRequest, TypeOK, ServerOK
  <2>6. QED
    BY <1>2, <1>3, <2>4, <2>5 DEF TypeOK
<1>6. CASE Break(c)
  <2>1. LinkOK' /\ ServerOK'
    BY <1>6 DEF Break, serverVars, TypeOK, LinkOK, ServerOK
  <2>2. QED
    BY <1>2, <1>3, <2>1 DEF TypeOK
<1>7. QED
  BY <1>4, <1>5, <1>6

LEMMA RunningTypes ==
  ASSUME TypeOK, Broadcast \/ Stop \/ StartServer \/ \E r \in Requests : HandlerEnds(r)
  PROVE  TypeOK'
<1>1. ClientOK'
  BY DEF Broadcast, Stop, StartServer, HandlerEnds, clientVars, TypeOK, ClientOK
<1>2. CASE Broadcast
  <2>1. events + 1 \in 1 .. MaxEvents /\ events + 1 \in 0 .. MaxEvents
    BY <1>2, RpcLinkAssumption DEF Broadcast, TypeOK, EventsOK
  <2>2. [t |-> "event", n |-> events + 1] \in Message
    BY <2>1, MessageTypes
  <2>3. \A c \in Conns : Append(down[c], [t |-> "event", n |-> events + 1]) \in Seq(Message)
    BY <2>2, AppendTypes DEF TypeOK, LinkOK
  <2>4. LinkOK'
    BY <1>2, <2>3 DEF Broadcast, TypeOK, LinkOK
  <2>5. \A c \in Conns : Append(pushed[c], events + 1) \in Seq(1 .. MaxEvents)
    BY <2>1 DEF TypeOK, EventsOK
  <2>6. EventsOK'
    BY <1>2, <2>1, <2>5 DEF Broadcast, TypeOK, EventsOK, clientVars
  <2>7. ServerOK'
    BY <1>2 DEF Broadcast, TypeOK, ServerOK
  <2>8. QED
    BY <1>1, <2>4, <2>6, <2>7 DEF TypeOK
<1>3. CASE Stop \/ StartServer
  <2>1. LinkOK'
    BY <1>3 DEF Stop, StartServer, linkVars, TypeOK, LinkOK
  <2>2. ServerOK'
    BY <1>3 DEF Stop, StartServer, TypeOK, ServerOK
  <2>3. EventsOK'
    <3>1. CASE Stop
      BY <3>1, RpcLinkAssumption DEF Stop, clientVars, TypeOK, EventsOK
    <3>2. CASE StartServer
      BY <3>2 DEF StartServer, clientVars, TypeOK, EventsOK
    <3>3. QED
      BY <1>3, <3>1, <3>2
  <2>4. QED
    BY <1>1, <2>1, <2>2, <2>3 DEF TypeOK
<1>4. ASSUME NEW r \in Requests, HandlerEnds(r) PROVE TypeOK'
  <2>1. PICK result \in {"done", "threw"} : /\ ran' = [ran EXCEPT ![r] = result]
                                            /\ down' = SafeSent(job[r], [t |-> result, r |-> r])
    BY <1>4 DEF HandlerEnds
  <2>2. down' \in [Conns -> Seq(Message)]
    <3>1. job[r] \in 0 .. MaxConns /\ [t |-> result, r |-> r] \in Message
      BY MessageTypes DEF TypeOK, ServerOK
    <3>2. QED
      BY <2>1, <3>1, SendTypes
  <2>3. LinkOK'
    BY <1>4, <2>2 DEF HandlerEnds, TypeOK, LinkOK
  <2>4. 0 \in 0 .. MaxConns
    BY RpcLinkAssumption
  <2>5. ServerOK'
    BY <1>4, <2>1, <2>4 DEF HandlerEnds, TypeOK, ServerOK
  <2>6. EventsOK'
    BY <1>4 DEF HandlerEnds, clientVars, TypeOK, EventsOK
  <2>7. QED
    BY <1>1, <2>3, <2>5, <2>6 DEF TypeOK
<1>5. QED
  BY <1>2, <1>3, <1>4

LEMMA TypesStep == TypeOK /\ Mail /\ [Next]_vars => TypeOK'
<1> SUFFICES ASSUME TypeOK, Mail, [Next]_vars PROVE TypeOK'
  OBVIOUS
<1>1. CASE UNCHANGED vars
  BY <1>1 DEF vars, clientVars, linkVars, serverVars, TypeOK, ClientOK, LinkOK, ServerOK, EventsOK
<1>2. QED
  BY <1>1, ClientTypes, ClosedTypes, ReadTypes, GreetingTypes, ServerTypes, RunningTypes DEF Next

-----------------------------------------------------------------------------
(* The ends of a connection *)

LEMMA InitEnds == Init => Ends
BY DEF Init, Ends, ClientKnows, EndsOf

LEMMA EndsConnect ==
  ASSUME TypeOK, Ends, FirstConnect \/ ReconnectTimer PROVE Ends'
<1>1. /\ Connect /\ retry' = FALSE
      /\ UNCHANGED <<fatal, disposed, got, far, down, greeting, serving, pushed>>
  BY DEF FirstConnect, ReconnectTimer, serverVars, Ends, ClientKnows, TypeOK, ClientOK
<1>2. CASE UNCHANGED <<state, ws, shake, near>>
  BY <1>1, <1>2 DEF Ends, ClientKnows, EndsOf
<1>3. CASE /\ ~disposed /\ ws = 0 /\ ~fatal
           /\ \E c \in Conns : Over(c)
           /\ state' = "connecting" /\ ws' = Fresh /\ shake' = Fresh
           /\ near' = [near EXCEPT ![Fresh] = "opening"]
  <2>1. Fresh \in Conns /\ Over(Fresh)
    BY <1>3, FreshIsOver
  <2>2. \A d \in Conns : near[d] = "closed"
    BY <1>3 DEF Ends, EndsOf, Conns, TypeOK, LinkOK
  <2>3. ClientKnows'
    BY <1>1, <1>3, <2>1 DEF ClientKnows, TypeOK, LinkOK
  <2>4. ASSUME NEW d \in Conns PROVE EndsOf(d)'
    <3>1. near[d] = "closed" /\ near' = [near EXCEPT ![Fresh] = "opening"] /\ EndsOf(d)
          /\ near \in [Conns -> {"opening", "open", "closing", "closed"}]
      BY <1>3, <2>2 DEF TypeOK, LinkOK, Ends
    <3>2. CASE d = Fresh
      BY <1>1, <1>3, <2>1, <3>1, <3>2 DEF EndsOf, Over
    <3>3. CASE d # Fresh
      BY <1>1, <1>3, <3>1, <3>3 DEF EndsOf
    <3>4. QED
      BY <3>2, <3>3
  <2>5. QED
    BY <2>3, <2>4 DEF Ends
<1>4. QED
  BY <1>1, <1>2, <1>3 DEF Connect

LEMMA EndsClient ==
  ASSUME TypeOK, Ends,
         \/ HandshakeTimeout \/ Disconnect
         \/ \E r \in Requests : Invoke(r) \/ InvokeRefused(r) \/ RequestTimeout(r)
  PROVE  Ends'
<1>1. UNCHANGED <<fatal, got, far, down, greeting, serving, pushed>>
  BY DEF HandshakeTimeout, Disconnect, Invoke, InvokeRefused, RequestTimeout, linkVars, serverVars
<1>2. CASE HandshakeTimeout
  <2>1. shake \in Conns /\ near[shake] \in {"opening", "open"} /\ shake = ws /\ ~disposed /\ near[ws] # "closed"
    BY <1>2 DEF HandshakeTimeout, Ends, ClientKnows, EndsOf, TypeOK, ClientOK, Conns
  <2>2. ClientKnows'
    BY <1>1, <1>2, <2>1 DEF HandshakeTimeout, Ends, ClientKnows
  <2>3. ASSUME NEW d \in Conns PROVE EndsOf(d)'
    BY <1>1, <1>2, <2>1 DEF HandshakeTimeout, Ends, EndsOf, TypeOK, LinkOK
  <2>4. QED
    BY <2>2, <2>3 DEF Ends
<1>3. CASE Disconnect
  <2>1. ClientKnows'
    BY <1>1, <1>3 DEF Disconnect, Ends, ClientKnows
  <2>2. ASSUME NEW d \in Conns PROVE EndsOf(d)'
    <3>1. near'[d] = (IF ws = d THEN "closing" ELSE near[d])
      BY <1>3 DEF Disconnect, TypeOK, LinkOK, Conns
    <3>2. near'[d] \notin {"opening", "open"} /\ (near'[d] = "closed" => near[d] = "closed")
      BY <3>1 DEF Ends, EndsOf
    <3>3. disposed'
      BY <1>3 DEF Disconnect
    <3>4. QED
      BY <1>1, <3>2, <3>3 DEF Ends, EndsOf
  <2>3. QED
    BY <2>1, <2>2 DEF Ends
<1>4. CASE \E r \in Requests : Invoke(r) \/ InvokeRefused(r) \/ RequestTimeout(r)
  <2>1. UNCHANGED <<state, ws, retry, shake, disposed, near>>
    BY <1>4 DEF Invoke, InvokeRefused, RequestTimeout, linkVars
  <2>2. QED
    BY <1>1, <2>1 DEF Ends, ClientKnows, EndsOf
<1>5. QED
  BY <1>2, <1>3, <1>4

\* The connection that closes is the only one of a client that goes on.
LEMMA EndsClosed ==
  ASSUME TypeOK, Ends, NEW c \in Conns, ClientClosed(c) PROVE Ends'
<1>1. /\ near[c] # "closed" /\ near' = [near EXCEPT ![c] = "closed"] /\ shake' = 0
      /\ ws' = (IF ws = c THEN 0 ELSE ws)
      /\ down' = [down EXCEPT ![c] = <<>>]
      /\ got' = [got EXCEPT ![c] = <<>>] /\ pushed' = [pushed EXCEPT ![c] = <<>>]
      /\ UNCHANGED <<fatal, disposed, far, greeting, serving>>
  BY DEF ClientClosed, serverVars
<1>2. ws = c \/ disposed
  BY <1>1 DEF Ends, EndsOf
<1>3. /\ ~disposed => ~retry
      /\ disposed => state' = "disconnected" /\ retry' = retry
      /\ ~disposed /\ fatal => state' = state /\ retry' = retry
      /\ ~disposed /\ ~fatal => \/ state' = "failed" /\ retry' = retry
                                \/ state' = "reconnecting" /\ retry'
  <2>1. ~disposed => ~retry
    <3>1. c # 0
      BY DEF Conns
    <3>2. QED
      BY <1>2, <3>1 DEF Ends, ClientKnows
  <2>2. QED
    BY <2>1 DEF ClientClosed, ScheduleReconnect
<1>4. ClientKnows'
  BY <1>1, <1>2, <1>3 DEF Ends, ClientKnows
<1>5. ASSUME NEW d \in Conns PROVE EndsOf(d)'
  <2>1. EndsOf(d) /\ (near[d] # "closed" => d = ws \/ disposed)
    BY DEF Ends, EndsOf
  <2>2. CASE d = c
    BY <1>1, <2>1, <2>2 DEF EndsOf, TypeOK, LinkOK, EventsOK
  <2>3. CASE d # c
    <3>1. near'[d] = near[d] /\ down'[d] = down[d] /\ got'[d] = got[d] /\ pushed'[d] = pushed[d]
      BY <1>1, <2>3 DEF TypeOK, LinkOK, EventsOK
    <3>2. near[d] \notin {"opening", "open"}
      BY <1>2, <2>1, <2>3 DEF EndsOf
    <3>3. near[d] # "closed" => disposed
      BY <1>2, <2>1, <2>3
    <3>4. QED
      BY <1>1, <2>1, <3>1, <3>2, <3>3 DEF EndsOf
  <2>4. QED
    BY <2>2, <2>3
<1>6. QED
  BY <1>4, <1>5 DEF Ends

LEMMA EndsReads ==
  ASSUME TypeOK, Ends, NEW c \in Conns, ClientReads(c) PROVE Ends'
<1>1. /\ near[c] = "open" /\ ws = c /\ ~disposed /\ ~fatal
      /\ \A d \in Conns : d # c => near[d] = "closed"
  BY DEF ClientReads, Ends, EndsOf, TypeOK, LinkOK
<1>2. /\ UNCHANGED <<ws, disposed, far, greeting, serving, pushed>>
      /\ \A d \in Conns : d # c => near'[d] = near[d] /\ down'[d] = down[d] /\ got'[d] = got[d]
      /\ near'[c] \in {"open", "closing"}
      /\ shake' = 0 \/ (shake' = shake /\ near'[c] = "open")
      /\ retry' => retry
      /\ fatal' => near'[c] = "closing" /\ state' = "failed"
  BY <1>1 DEF ClientReads, Taken, ReadAck, ReadError, ReadResponse, ReadEvent, TypeOK, LinkOK, EventsOK,
     serverVars
<1>3. ClientKnows'
  <2>1. ~retry
    BY <1>1 DEF Ends, ClientKnows, Conns
  <2>2. QED
    BY <1>1, <1>2, <2>1 DEF Ends, ClientKnows
<1>4. ASSUME NEW d \in Conns PROVE EndsOf(d)'
  <2>1. EndsOf(d)
    BY DEF Ends
  <2>2. CASE d = c
    BY <1>1, <1>2, <2>1, <2>2 DEF EndsOf
  <2>3. CASE d # c
    BY <1>1, <1>2, <2>1, <2>3 DEF EndsOf
  <2>4. QED
    BY <2>2, <2>3
<1>5. QED
  BY <1>3, <1>4 DEF Ends

LEMMA EndsGreeting ==
  ASSUME TypeOK, Ends, NEW c \in Conns,
         \/ Open(c) \/ ReadHandshake(c) \/ Refuse(c) \/ Deny(c) \/ Register(c) \/ HandshakeDeadline(c)
         \/ ServerClosed(c)
  PROVE  Ends'
<1>1. UNCHANGED <<clientVars, serving, pushed>>
  BY DEF Open, ReadHandshake, Refuse, Deny, Register, HandshakeDeadline, ServerClosed, serverVars
<1>2. /\ \A d \in Conns : d # c => /\ near'[d] = near[d] /\ far'[d] = far[d]
                                   /\ greeting'[d] = greeting[d] /\ down'[d] = down[d]
  BY DEF Open, ReadHandshake, Refuse, Deny, Register, HandshakeDeadline, ServerClosed, Rejected, Closed,
     SafeSent, serverVars, TypeOK, LinkOK, ServerOK
<1>3. CASE Open(c)
  <2>1. near[c] = "opening" /\ near'[c] = "open" /\ far'[c] = "open" /\ serving /\ UNCHANGED <<greeting, down>>
    BY <1>3 DEF Open, TypeOK, LinkOK, serverVars
  <2>2. ClientKnows'
    BY <1>1, <1>2, <2>1 DEF Ends, ClientKnows, clientVars, EndsOf, TypeOK, ClientOK, Conns
  <2>3. ASSUME NEW d \in Conns PROVE EndsOf(d)'
    BY <1>1, <1>2, <2>1 DEF Ends, EndsOf, clientVars
  <2>4. QED
    BY <2>2, <2>3 DEF Ends
<1>4. CASE \/ ReadHandshake(c) \/ Refuse(c) \/ Deny(c) \/ Register(c) \/ HandshakeDeadline(c)
           \/ ServerClosed(c)
  <2>1. near' = near
    BY <1>4 DEF ReadHandshake, Refuse, Deny, Register, HandshakeDeadline, ServerClosed
  <2>2. ClientKnows'
    BY <1>1, <2>1 DEF Ends, ClientKnows, clientVars
  <2>3. near[c] \in {"closed", "opening"} => down'[c] = <<>>
    <3>1. near[c] = "opening" => far[c] = "closed"
      BY DEF Ends, EndsOf
    <3>2. ASSUME NEW m, near[c] \in {"closed", "opening"} PROVE SafeSent(c, m) = down
      BY <3>1, <3>2 DEF SafeSent, Reaches
    <3>3. near[c] \in {"closed", "opening"} => down' = down
      BY <1>4, <3>2 DEF ReadHandshake, Refuse, Deny, Register, HandshakeDeadline, ServerClosed
    <3>4. QED
      BY <3>3 DEF Ends, EndsOf
  <2>4. near[c] = "opening" => far'[c] = "closed" /\ greeting'[c] = "new"
    <3>1. near[c] = "opening" => far[c] = "closed" /\ greeting[c] = "new"
      BY DEF Ends, EndsOf
    <3>2. QED
      BY <1>4, <3>1 DEF ReadHandshake, Refuse, Deny, Register, HandshakeDeadline, ServerClosed
  <2>5. far'[c] = "closed" => greeting'[c] \in {"new", "validating"}
    <3>1. far[c] = "closed" => greeting[c] \in {"new", "validating"}
      BY DEF Ends, EndsOf
    <3>2. CASE ReadHandshake(c) \/ HandshakeDeadline(c) \/ ServerClosed(c)
      BY <3>1, <3>2 DEF ReadHandshake, HandshakeDeadline, ServerClosed, serverVars, TypeOK, LinkOK, ServerOK
    <3>3. CASE Refuse(c) \/ Deny(c) \/ Register(c)
      BY <3>1, <3>3 DEF Refuse, Deny, Register, Rejected, Closed, TypeOK, LinkOK, ServerOK
    <3>4. QED
      BY <1>4, <3>2, <3>3
  <2>6. far'[c] = "open" => far[c] = "open"
    BY <1>4 DEF ReadHandshake, Refuse, Deny, Register, HandshakeDeadline, ServerClosed, Closed, TypeOK, LinkOK
  <2>7. ASSUME NEW d \in Conns PROVE EndsOf(d)'
    BY <1>1, <1>2, <2>1, <2>3, <2>4, <2>5, <2>6 DEF Ends, EndsOf, clientVars
  <2>8. QED
    BY <2>2, <2>7 DEF Ends
<1>5. QED
  BY <1>3, <1>4

LEMMA EndsServer ==
  ASSUME TypeOK, Ends,
         \/ \E c \in Conns : DropRequest(c) \/ RejectRequest(c) \/ StartHandler(c) \/ Break(c)
         \/ \E r \in Requests : HandlerEnds(r)
         \/ Broadcast \/ Stop \/ StartServer \/ UNCHANGED vars
  PROVE  Ends'
<1>1. UNCHANGED <<clientVars, near, greeting>>
  BY DEF DropRequest, RejectRequest, StartHandler, ReadsRequest, Break, HandlerEnds, Broadcast, Stop,
     StartServer, vars, serverVars, linkVars
<1>2. ClientKnows'
  BY <1>1 DEF Ends, ClientKnows, clientVars
<1>3. ASSUME NEW d \in Conns PROVE EndsOf(d)'
  <2>1. near[d] = "opening" => far[d] = "closed"
    BY DEF Ends, EndsOf
  <2>2. near[d] \in {"closed", "opening"} => ~Reaches(d)
    BY <2>1 DEF Reaches
  <2>3. near[d] \in {"closed", "opening"} => down'[d] = down[d]
    <3>1. \A e \in 0 .. MaxConns : \A m : ~Reaches(d) => SafeSent(e, m)[d] = down[d]
      BY DEF SafeSent, TypeOK, LinkOK, Conns
    <3>2. ASSUME NEW e \in Conns, DropRequest(e) \/ RejectRequest(e) \/ StartHandler(e) \/ Break(e), ~Reaches(d)
          PROVE  down'[d] = down[d]
      BY <3>1, <3>2 DEF DropRequest, RejectRequest, StartHandler, Break, Conns
    <3>3. ASSUME NEW r \in Requests, HandlerEnds(r), ~Reaches(d) PROVE down'[d] = down[d]
      BY <3>1, <3>3 DEF HandlerEnds, TypeOK, ServerOK
    <3>4. ASSUME Broadcast \/ Stop \/ StartServer \/ UNCHANGED vars, ~Reaches(d) PROVE down'[d] = down[d]
      BY <3>4 DEF Broadcast, Stop, StartServer, vars, linkVars
    <3>5. QED
      BY <2>2, <3>2, <3>3, <3>4
  <2>4. near[d] \in {"closed", "opening"} => pushed'[d] = pushed[d]
    BY <2>2 DEF DropRequest, RejectRequest, StartHandler, ReadsRequest, Break, HandlerEnds, Broadcast, Stop,
       StartServer, vars, serverVars, linkVars
  <2>5. (far'[d] = "closed" <=> far[d] = "closed") /\ (far'[d] = "open" => serving')
    <3>1. CASE Stop
      BY <3>1 DEF Stop, TypeOK, LinkOK
    <3>2. CASE ~Stop
      <4>1. far' = far /\ (serving' = serving \/ serving')
        BY <3>2 DEF DropRequest, RejectRequest, StartHandler, ReadsRequest, Break, HandlerEnds, Broadcast,
           StartServer, vars, serverVars, linkVars
      <4>2. QED
        BY <4>1 DEF Ends, EndsOf
    <3>3. QED
      BY <3>1, <3>2
  <2>6. QED
    BY <1>1, <2>3, <2>4, <2>5 DEF Ends, EndsOf, clientVars
<1>4. QED
  BY <1>2, <1>3 DEF Ends

LEMMA EndsStep == TypeOK /\ Ends /\ [Next]_vars => Ends'
BY EndsConnect, EndsClient, EndsClosed, EndsReads, EndsGreeting, EndsServer DEF Next

-----------------------------------------------------------------------------
(* What both sides know of each other *)

LEMMA SafeSentIs ==
  ASSUME TypeOK, NEW e \in 0 .. MaxConns, NEW m \in Message, NEW d \in Conns
  PROVE  SafeSent(e, m)[d] = IF d = e /\ Reaches(d) THEN Append(down[d], m) ELSE down[d]
BY DEF SafeSent, TypeOK, LinkOK, Conns

LEMMA InitGreeted == Init => Greeted
BY DEF Init, Greeted, ViewsAgree, NoGhostClients, ConnectedIsTrue, GreetedOf

\* A step that neither makes nor ends the client's connection, and says
\* nothing on connection c.
LEMMA GreetedKept ==
  ASSUME NEW c \in Conns, GreetedOf(c), near'[c] = "open" => near[c] = "open",
         near'[c] = "open" => (state' = "connected" <=> state = "connected"),
         down'[c] = down[c], got'[c] = got[c],
         c \in clients' => c \in clients, c \in clients => c \in clients' \/ far'[c] # "open",
         far'[c] = "open" => far[c] = "open"
  PROVE  GreetedOf(c)'
BY DEF GreetedOf, AckUnderWay

\* One that says something else than the acknowledgement; an event only to a
\* registered client.
LEMMA GreetedSaid ==
  ASSUME TypeOK, NEW c \in Conns, GreetedOf(c), UNCHANGED <<near, state, clients, got>>,
         NEW m \in Message, m.t # "ack", down'[c] = Append(down[c], m),
         m.t = "event" => c \in clients /\ far[c] = "open",
         far'[c] = "open" => far[c] = "open", far[c] # "open" => far'[c] # "open"
  PROVE  GreetedOf(c)'
<1>1. down[c] \in Seq(Message)
  BY DEF TypeOK, LinkOK
<1>2. /\ Len(down'[c]) = Len(down[c]) + 1 /\ Len(down[c]) \in Nat /\ down'[c][Len(down[c]) + 1] = m
      /\ \A i \in 1 .. Len(down[c]) : down'[c][i] = down[c][i] /\ i \in 1 .. Len(down'[c])
      /\ \A i \in 1 .. Len(down'[c]) : i \in 1 .. Len(down[c]) \/ i = Len(down[c]) + 1
  BY <1>1, AppendTypes
<1>3. AckUnderWay(c)' <=> AckUnderWay(c)
  <2>1. AckUnderWay(c)' => AckUnderWay(c)
    BY <1>2 DEF AckUnderWay
  <2>2. AckUnderWay(c) => AckUnderWay(c)'
    BY <1>2 DEF AckUnderWay
  <2>3. QED
    BY <2>1, <2>2
<1>4. SUFFICES ASSUME near[c] = "open", state # "connected", NEW i \in 1 .. Len(down'[c]),
                      down'[c][i].t = "event"
               PROVE  \E j \in 1 .. Len(down'[c]) : j < i /\ down'[c][j].t = "ack"
  BY <1>3 DEF GreetedOf
<1>5. CASE i \in 1 .. Len(down[c])
  <2>1. PICK j \in 1 .. Len(down[c]) : j < i /\ down[c][j].t = "ack"
    BY <1>2, <1>4, <1>5 DEF GreetedOf
  <2>2. QED
    BY <1>2, <2>1
<1>6. CASE i = Len(down[c]) + 1
  <2>1. AckUnderWay(c)
    BY <1>2, <1>4, <1>6 DEF GreetedOf
  <2>2. PICK j \in 1 .. Len(down[c]) : down[c][j].t = "ack"
    BY <2>1 DEF AckUnderWay
  <2>3. j < i /\ j \in 1 .. Len(down'[c]) /\ down'[c][j].t = "ack"
    BY <1>2, <1>6, <2>2
  <2>4. QED
    BY <2>3
<1>7. QED
  BY <1>2, <1>5, <1>6

LEMMA GreetedClient ==
  ASSUME TypeOK, Ends, Greeted,
         \/ FirstConnect \/ HandshakeTimeout \/ ReconnectTimer \/ Disconnect
         \/ \E r \in Requests : Invoke(r) \/ InvokeRefused(r) \/ RequestTimeout(r)
         \/ \E c \in Conns : ClientClosed(c)
  PROVE  Greeted'
<1>1. UNCHANGED <<clients, far, serving>>
  BY DEF FirstConnect, HandshakeTimeout, ReconnectTimer, Disconnect, Invoke, InvokeRefused, RequestTimeout,
     ClientClosed, linkVars, serverVars
<1>2. \A d \in Conns : near'[d] = "open" => near[d] = "open"
  <2>1. CASE FirstConnect \/ ReconnectTimer
    <3>1. near' = near \/ near' = [near EXCEPT ![Fresh] = "opening"]
      BY <2>1 DEF FirstConnect, ReconnectTimer, Connect
    <3>2. QED
      BY <3>1 DEF TypeOK, LinkOK
  <2>2. CASE HandshakeTimeout \/ Disconnect
    BY <2>2 DEF HandshakeTimeout, Disconnect, TypeOK, LinkOK
  <2>3. CASE \/ \E r \in Requests : Invoke(r) \/ InvokeRefused(r) \/ RequestTimeout(r)
             \/ \E c \in Conns : ClientClosed(c)
    BY <2>3 DEF Invoke, InvokeRefused, RequestTimeout, ClientClosed, linkVars, TypeOK, LinkOK
  <2>4. QED
    BY <2>1, <2>2, <2>3
<1>3. \A d \in Conns : near[d] = "open" => ws = d /\ ~disposed /\ ~fatal
  BY DEF Ends, EndsOf
<1>4. \A d \in Conns : near'[d] = "open" => (state' = "connected" <=> state = "connected")
  <2>1. CASE FirstConnect \/ ReconnectTimer
    BY <1>2, <1>3, <2>1 DEF FirstConnect, ReconnectTimer, Connect, Conns
  <2>2. CASE Disconnect
    BY <1>2, <1>3, <2>2 DEF Disconnect, TypeOK, LinkOK, Conns
  <2>3. CASE HandshakeTimeout \/ \E r \in Requests : Invoke(r) \/ InvokeRefused(r) \/ RequestTimeout(r)
    BY <2>3 DEF HandshakeTimeout, Invoke, InvokeRefused, RequestTimeout
  <2>4. ASSUME NEW c \in Conns, ClientClosed(c), NEW d \in Conns, near'[d] = "open" PROVE FALSE
    <3>1. near[c] # "closed" /\ near'[c] = "closed" /\ near[d] = "open"
      BY <1>2, <2>4 DEF ClientClosed, TypeOK, LinkOK
    <3>2. ws = c \/ disposed
      BY <3>1 DEF Ends, EndsOf
    <3>3. QED
      BY <1>3, <2>4, <3>1, <3>2
  <2>5. QED
    BY <2>1, <2>2, <2>3, <2>4
<1>5. \A d \in Conns : near'[d] = "open" => down'[d] = down[d] /\ got'[d] = got[d]
  <2>1. CASE \E c \in Conns : ClientClosed(c)
    BY <2>1 DEF ClientClosed, TypeOK, LinkOK, EventsOK
  <2>2. CASE ~\E c \in Conns : ClientClosed(c)
    BY <2>2 DEF FirstConnect, HandshakeTimeout, ReconnectTimer, Disconnect, Invoke, InvokeRefused,
       RequestTimeout, linkVars
  <2>3. QED
    BY <2>1, <2>2
<1>6. ConnectedIsTrue'
  <2>1. state' = "connected" => state = "connected" /\ ws' = ws
    <3>1. CASE FirstConnect \/ ReconnectTimer
      BY <3>1 DEF FirstConnect, ReconnectTimer, Connect, Greeted, ViewsAgree, ConnectedIsTrue
    <3>2. CASE HandshakeTimeout \/ Disconnect \/ \E r \in Requests : Invoke(r) \/ InvokeRefused(r) \/ RequestTimeout(r)
      BY <3>2 DEF HandshakeTimeout, Disconnect, Invoke, InvokeRefused, RequestTimeout
    <3>3. ASSUME NEW c \in Conns, ClientClosed(c) PROVE state' # "connected"
      <4>1. near[c] # "closed" /\ c # 0
        BY <3>3 DEF ClientClosed, Conns
      <4>2. ~disposed => ~retry
        BY <4>1 DEF Ends, EndsOf, ClientKnows
      <4>3. QED
        BY <3>3, <4>2 DEF ClientClosed, ScheduleReconnect, Ends, ClientKnows
    <3>4. QED
      BY <3>1, <3>2, <3>3
  <2>2. QED
    BY <1>1, <2>1 DEF Greeted, ViewsAgree, ConnectedIsTrue
<1>7. NoGhostClients'
  BY <1>1 DEF Greeted, ViewsAgree, NoGhostClients
<1>8. ASSUME NEW d \in Conns PROVE GreetedOf(d)'
  <2>1. CASE near'[d] = "open"
    BY <1>1, <1>2, <1>4, <1>5, <2>1, GreetedKept DEF Greeted
  <2>2. CASE near'[d] # "open"
    BY <2>2 DEF GreetedOf
  <2>3. QED
    BY <2>1, <2>2
<1>9. QED
  BY <1>6, <1>7, <1>8 DEF Greeted, ViewsAgree

LEMMA GreetedReads ==
  ASSUME TypeOK, Ends, Greeted, NEW c \in Conns, ClientReads(c) PROVE Greeted'
<1>1. /\ near[c] = "open" /\ ws = c /\ c # 0 /\ down[c] # <<>> /\ down[c] \in Seq(Message)
      /\ UNCHANGED <<clients, far, serving, ws>>
      /\ down'[c] = Tail(down[c])
  BY DEF ClientReads, Taken, ReadAck, ReadError, ReadResponse, ReadEvent, Ends, EndsOf, serverVars,
     TypeOK, LinkOK, Conns
<1>2. /\ Head(down[c]) = down[c][1] /\ 1 \in 1 .. Len(down[c]) /\ Len(down[c]) \in Nat
      /\ Len(down'[c]) = Len(down[c]) - 1
      /\ \A i \in 1 .. Len(down'[c]) : down'[c][i] = down[c][i + 1] /\ i + 1 \in 1 .. Len(down[c])
      /\ \A i \in 1 .. Len(down[c]) : i = 1 \/ (i - 1 \in 1 .. Len(down'[c]) /\ down'[c][i - 1] = down[c][i])
  BY <1>1, HeadTypes
<1>3. AckUnderWay(c)' => AckUnderWay(c)
  BY <1>2 DEF AckUnderWay
<1>4. ASSUME NEW d \in Conns, d # c PROVE near'[d] # "open"
  <2>1. near[d] # "open"
    BY <1>1, <1>4 DEF Ends, EndsOf
  <2>2. near'[d] = near[d]
    BY <1>4 DEF ClientReads, ReadAck, ReadError, ReadResponse, ReadEvent, TypeOK, LinkOK
  <2>3. QED
    BY <2>1, <2>2
<1>5. NoGhostClients'
  BY <1>1 DEF Greeted, ViewsAgree, NoGhostClients
<1>6. CASE ReadAck(c)
  <2>1. AckUnderWay(c) /\ state' = "connected"
    BY <1>2, <1>6 DEF ReadAck, AckUnderWay
  <2>2. c \in clients \/ far[c] # "open"
    BY <1>1, <2>1 DEF Greeted, GreetedOf
  <2>3. ConnectedIsTrue'
    BY <1>1, <2>2 DEF ConnectedIsTrue
  <2>4. \A d \in Conns : GreetedOf(d)'
    BY <1>1, <1>4, <2>1, <2>2 DEF GreetedOf
  <2>5. QED
    BY <1>5, <2>3, <2>4 DEF Greeted, ViewsAgree
<1>7. CASE ReadError(c)
  <2>1. state' = "failed" /\ near'[c] = "closing"
    BY <1>7 DEF ReadError, TypeOK, LinkOK
  <2>2. QED
    BY <1>4, <1>5, <2>1 DEF Greeted, ViewsAgree, ConnectedIsTrue, GreetedOf
<1>8. CASE ReadResponse(c) \/ ReadEvent(c)
  <2>1. UNCHANGED <<state, near>> /\ Head(down[c]).t # "ack"
        /\ (got'[c] # got[c] => Head(down[c]).t = "event")
    BY <1>8 DEF ReadResponse, ReadEvent
  <2>2. ConnectedIsTrue'
    BY <1>1, <2>1 DEF Greeted, ViewsAgree, ConnectedIsTrue
  <2>3. GreetedOf(c)
    BY DEF Greeted
  <2>4. state # "connected" => Head(down[c]).t # "event"
    BY <1>1, <1>2, <2>3 DEF GreetedOf
  <2>5. AckUnderWay(c) => AckUnderWay(c)'
    BY <1>2, <2>1 DEF AckUnderWay
  <2>6. ASSUME state # "connected", NEW i \in 1 .. Len(down'[c]), down'[c][i].t = "event"
        PROVE  \E j \in 1 .. Len(down'[c]) : j < i /\ down'[c][j].t = "ack"
    <3>1. PICK j \in 1 .. Len(down[c]) : j < i + 1 /\ down[c][j].t = "ack"
      BY <1>1, <1>2, <2>3, <2>6 DEF GreetedOf
    <3>2. j # 1
      BY <1>2, <2>1, <3>1
    <3>3. j - 1 \in 1 .. Len(down'[c]) /\ j - 1 < i /\ down'[c][j - 1].t = "ack"
      BY <1>2, <3>1, <3>2
    <3>4. QED
      BY <3>3
  <2>7. GreetedOf(c)'
    BY <1>1, <1>3, <2>1, <2>3, <2>4, <2>5, <2>6 DEF GreetedOf
  <2>8. \A d \in Conns : GreetedOf(d)'
    BY <1>4, <2>7 DEF GreetedOf
  <2>9. QED
    BY <1>5, <2>2, <2>8 DEF Greeted, ViewsAgree
<1>9. QED
  BY <1>6, <1>7, <1>8 DEF ClientReads

LEMMA GreetedOpen ==
  ASSUME TypeOK, Ends, Greeted, NEW c \in Conns, Open(c) PROVE Greeted'
<1>1. /\ near[c] = "opening" /\ near'[c] = "open" /\ far'[c] = "open" /\ far[c] = "closed"
      /\ UNCHANGED <<down, got, clients, state, ws, serving>>
      /\ \A d \in Conns : d # c => near'[d] = near[d] /\ far'[d] = far[d]
      /\ state = "connecting" /\ down[c] = <<>> /\ got[c] = <<>>
  BY DEF Open, Ends, EndsOf, clientVars, serverVars, TypeOK, LinkOK
<1>2. c \notin clients
  BY <1>1 DEF Greeted, ViewsAgree, NoGhostClients
<1>3. NoGhostClients' /\ ConnectedIsTrue'
  BY <1>1, <1>2 DEF Greeted, ViewsAgree, NoGhostClients, ConnectedIsTrue, TypeOK, ServerOK
<1>4. ASSUME NEW d \in Conns PROVE GreetedOf(d)'
  <2>1. CASE d = c
    BY <1>1, <1>2, <2>1 DEF GreetedOf, AckUnderWay
  <2>2. CASE d # c
    <3>1. GreetedOf(d)
      BY DEF Greeted
    <3>2. QED
      BY <1>1, <2>2, <3>1 DEF GreetedOf, AckUnderWay
  <2>3. QED
    BY <2>1, <2>2
<1>5. QED
  BY <1>3, <1>4 DEF Greeted, ViewsAgree

LEMMA GreetedRegister ==
  ASSUME TypeOK, Ends, Greeted, NEW c \in Conns, Register(c), far[c] = "open" PROVE Greeted'
<1>1. /\ clients' = clients \cup {c} /\ down' = SafeSent(c, [t |-> "ack"])
      /\ UNCHANGED <<near, far, got, state, ws, serving>>
  BY DEF Register, clientVars
<1>2. serving
  BY DEF Ends, EndsOf
<1>3. [t |-> "ack"] \in Message /\ c \in 0 .. MaxConns
  BY MessageTypes DEF Conns
<1>4. NoGhostClients' /\ ConnectedIsTrue'
  BY <1>1, <1>2 DEF Greeted, ViewsAgree, NoGhostClients, ConnectedIsTrue
<1>5. ASSUME NEW d \in Conns, d # c PROVE GreetedOf(d)'
  <2>1. down'[d] = down[d] /\ got'[d] = got[d]
    BY <1>1, <1>3, <1>5, SafeSentIs
  <2>2. QED
    BY <1>1, <1>5, <2>1, GreetedKept DEF Greeted
<1>6. GreetedOf(c)'
  <2> SUFFICES ASSUME near[c] = "open" PROVE GreetedOf(c)'
    BY <1>1 DEF GreetedOf
  <2>1. down'[c] = Append(down[c], [t |-> "ack"])
    BY <1>1, <1>3, SafeSentIs DEF Reaches
  <2>2. /\ Len(down'[c]) = Len(down[c]) + 1 /\ Len(down[c]) \in Nat
        /\ down'[c][Len(down[c]) + 1] = [t |-> "ack"]
        /\ \A i \in 1 .. Len(down[c]) : down'[c][i] = down[c][i] /\ i \in 1 .. Len(down'[c])
        /\ \A i \in 1 .. Len(down'[c]) : i \in 1 .. Len(down[c]) \/ i = Len(down[c]) + 1
    BY <1>3, <2>1, AppendTypes DEF TypeOK, LinkOK
  <2>3. AckUnderWay(c)' /\ c \in clients'
    <3>1. Len(down[c]) + 1 \in 1 .. Len(down'[c]) /\ down'[c][Len(down[c]) + 1].t = "ack"
      BY <2>2
    <3>2. QED
      BY <1>1, <3>1 DEF AckUnderWay
  <2>4. ASSUME state # "connected", NEW i \in 1 .. Len(down'[c]), down'[c][i].t = "event"
        PROVE  \E j \in 1 .. Len(down'[c]) : j < i /\ down'[c][j].t = "ack"
    <3>1. i \in 1 .. Len(down[c]) /\ down[c][i].t = "event"
      BY <2>2, <2>4
    <3>2. PICK j \in 1 .. Len(down[c]) : j < i /\ down[c][j].t = "ack"
      BY <2>4, <3>1 DEF Greeted, GreetedOf
    <3>3. QED
      BY <2>2, <3>2
  <2>5. GreetedOf(c)
    BY DEF Greeted
  <2>6. QED
    BY <1>1, <2>3, <2>4, <2>5 DEF GreetedOf
<1>7. QED
  BY <1>4, <1>5, <1>6 DEF Greeted, ViewsAgree

\* A message of the server that is no acknowledgement and no event.
LEMMA GreetedAnswers ==
  ASSUME TypeOK, Ends, Greeted, NEW e \in 0 .. MaxConns, NEW m \in Message, m.t \notin {"ack", "event"},
         down' = SafeSent(e, m) \/ down' = down,
         UNCHANGED <<near, got, state, ws, clients, serving>>,
         \A d \in Conns : far'[d] = far[d] \/ (far[d] = "open" /\ far'[d] = "closing")
  PROVE  Greeted'
<1>1. NoGhostClients' /\ ConnectedIsTrue'
  BY DEF Greeted, ViewsAgree, NoGhostClients, ConnectedIsTrue, Ends, EndsOf, TypeOK, ServerOK, ClientOK, Conns
<1>2. ASSUME NEW d \in Conns PROVE GreetedOf(d)'
  <2>1. GreetedOf(d) /\ got'[d] = got[d] /\ (far'[d] = "open" => far[d] = "open")
        /\ (far[d] # "open" => far'[d] # "open")
    BY DEF Greeted
  <2>2. CASE down'[d] = down[d]
    BY <2>1, <2>2, GreetedKept
  <2>3. CASE down'[d] = Append(down[d], m)
    BY <2>1, <2>3, GreetedSaid
  <2>4. QED
    BY <2>2, <2>3, SafeSentIs
<1>3. QED
  BY <1>1, <1>2 DEF Greeted, ViewsAgree

LEMMA GreetedServer ==
  ASSUME TypeOK, Ends, Mail, Greeted, NEW c \in Conns,
         \/ ReadHandshake(c) \/ Refuse(c) \/ Deny(c) \/ (Register(c) /\ far[c] # "open")
         \/ HandshakeDeadline(c) \/ DropRequest(c) \/ RejectRequest(c) \/ StartHandler(c) \/ Break(c)
  PROVE  Greeted'
<1>1. UNCHANGED <<near, got, state, ws, clients, serving>>
  BY DEF ReadHandshake, Refuse, Deny, Register, HandshakeDeadline, DropRequest, RejectRequest, StartHandler,
     ReadsRequest, Break, clientVars, serverVars
<1>2. c \in 0 .. MaxConns
  BY DEF Conns
<1>3. \A d \in Conns : far'[d] = far[d] \/ (far[d] = "open" /\ far'[d] = "closing")
  <2>1. CASE Refuse(c) \/ Deny(c)
    BY <2>1 DEF Refuse, Deny, Closed, TypeOK, LinkOK
  <2>2. CASE HandshakeDeadline(c)
    BY <2>2 DEF HandshakeDeadline, TypeOK, LinkOK
  <2>3. CASE \/ ReadHandshake(c) \/ Register(c) \/ DropRequest(c) \/ RejectRequest(c) \/ StartHandler(c)
             \/ Break(c)
    BY <2>3 DEF ReadHandshake, Register, DropRequest, RejectRequest, StartHandler, ReadsRequest, Break
  <2>4. QED
    BY <2>1, <2>2, <2>3
<1>4. \E m \in Message : m.t \notin {"ack", "event"} /\ (down' = SafeSent(c, m) \/ down' = down)
  <2>1. [t |-> "error"] \in Message
    BY MessageTypes
  <2>2. CASE RejectRequest(c)
    <3>1. Request(c) \in Requests
      BY <2>2, RequestIsNext DEF RejectRequest
    <3>2. [t |-> "threw", r |-> Request(c)] \in Message
      BY <3>1, MessageTypes
    <3>3. QED
      BY <2>2, <3>2 DEF RejectRequest
  <2>3. CASE Refuse(c)
    BY <2>1, <2>3 DEF Refuse
  <2>4. CASE ~RejectRequest(c) /\ ~Refuse(c)
    <3>1. down' = down
      BY <2>4 DEF ReadHandshake, Deny, Register, HandshakeDeadline, DropRequest, StartHandler, Break
    <3>2. QED
      BY <2>1, <3>1
  <2>5. QED
    BY <2>2, <2>3, <2>4
<1>5. QED
  BY <1>1, <1>2, <1>3, <1>4, GreetedAnswers

LEMMA GreetedRunning ==
  ASSUME TypeOK, Ends, Greeted,
         \/ \E c \in Conns : ServerClosed(c)
         \/ \E r \in Requests : HandlerEnds(r)
         \/ Broadcast \/ Stop \/ StartServer \/ UNCHANGED vars
  PROVE  Greeted'
<1>1. CASE \E r \in Requests : HandlerEnds(r)
  <2>1. PICK r \in Requests : HandlerEnds(r)
    BY <1>1
  <2>2. PICK result \in {"done", "threw"} : down' = SafeSent(job[r], [t |-> result, r |-> r])
    BY <2>1 DEF HandlerEnds
  <2>3. [t |-> result, r |-> r] \in Message /\ job[r] \in 0 .. MaxConns
    BY MessageTypes DEF TypeOK, ServerOK
  <2>4. UNCHANGED <<near, got, state, ws, clients, serving, far>>
    BY <2>1 DEF HandlerEnds, clientVars
  <2>5. [t |-> result, r |-> r].t \notin {"ack", "event"}
    OBVIOUS
  <2>6. QED
    BY <2>2, <2>3, <2>4, <2>5, GreetedAnswers
<1>2. CASE Broadcast
  <2> DEFINE m == [t |-> "event", n |-> events + 1]
  <2>1. UNCHANGED <<near, got, state, ws, clients, serving, far>>
    BY <1>2 DEF Broadcast, clientVars
  <2>2. m \in Message /\ m.t = "event"
    BY <1>2, MessageTypes, RpcLinkAssumption DEF Broadcast, TypeOK, EventsOK
  <2>3. \A d \in Conns : IF d \in clients /\ Reaches(d) THEN down'[d] = Append(down[d], m) ELSE down'[d] = down[d]
    BY <1>2 DEF Broadcast
  <2> HIDE DEF m
  <2>4. ASSUME NEW d \in Conns PROVE GreetedOf(d)'
    <3>1. GreetedOf(d) /\ got'[d] = got[d]
      BY <2>1 DEF Greeted
    <3>2. CASE d \in clients /\ Reaches(d)
      BY <2>1, <2>2, <2>3, <3>1, <3>2, GreetedSaid DEF Reaches
    <3>3. CASE ~(d \in clients /\ Reaches(d))
      BY <2>1, <2>3, <3>1, <3>3, GreetedKept
    <3>4. QED
      BY <3>2, <3>3
  <2>5. QED
    BY <2>1, <2>4 DEF Greeted, ViewsAgree, NoGhostClients, ConnectedIsTrue
<1>3. CASE \/ \E c \in Conns : ServerClosed(c)
           \/ Stop \/ StartServer \/ UNCHANGED vars
  <2>1. UNCHANGED <<near, got, state, ws, down>>
    BY <1>3 DEF ServerClosed, Stop, StartServer, clientVars, linkVars, vars
  <2>2. \A d \in Conns : /\ far'[d] = "open" => far[d] = "open" /\ (d \in clients => d \in clients')
                         /\ d \in clients' => d \in clients /\ far'[d] = far[d] /\ serving'
    <3>1. \A d \in clients : serving
      BY DEF Greeted, ViewsAgree, NoGhostClients
    <3>2. ASSUME NEW c \in Conns, ServerClosed(c), NEW d \in Conns
          PROVE  /\ far'[d] = IF d = c THEN "closed" ELSE far[d]
                 /\ d \in clients' <=> d \in clients /\ d # c
                 /\ serving' = serving
      BY <3>2 DEF ServerClosed, TypeOK, LinkOK
    <3>3. CASE Stop
      BY <3>3 DEF Stop, TypeOK, LinkOK
    <3>4. CASE StartServer \/ UNCHANGED vars
      BY <3>1, <3>4 DEF StartServer, linkVars, serverVars, vars
    <3>5. QED
      BY <1>3, <3>1, <3>2, <3>3, <3>4
  <2>3. clients' \subseteq Conns /\ (state = "connected" => ws \in Conns)
    <3>1. clients \subseteq Conns /\ ws \in 0 .. MaxConns
      BY DEF TypeOK, ServerOK, ClientOK
    <3>2. clients' \subseteq clients
      BY <1>3 DEF ServerClosed, Stop, StartServer, serverVars, vars
    <3>3. state = "connected" => ws # 0
      BY DEF Greeted, ViewsAgree, ConnectedIsTrue
    <3>4. QED
      BY <3>1, <3>2, <3>3 DEF Conns
  <2>4. NoGhostClients'
    BY <2>2, <2>3 DEF Greeted, ViewsAgree, NoGhostClients
  <2>5. ConnectedIsTrue'
    BY <2>1, <2>2, <2>3 DEF Greeted, ViewsAgree, ConnectedIsTrue
  <2>6. ASSUME NEW d \in Conns PROVE GreetedOf(d)'
    BY <2>1, <2>2, GreetedKept DEF Greeted
  <2>7. QED
    BY <2>4, <2>5, <2>6 DEF Greeted, ViewsAgree
<1>4. QED
  BY <1>1, <1>2, <1>3

LEMMA GreetedStep == TypeOK /\ Ends /\ Mail /\ Greeted /\ [Next]_vars => Greeted'
BY GreetedClient, GreetedReads, GreetedOpen, GreetedRegister, GreetedServer, GreetedRunning DEF Next

-----------------------------------------------------------------------------
(* The order of the events *)

EventsIn(s, i) == {j \in 1 .. i : s[j].t = "event"}

LEMMA UpToIsNat ==
  ASSUME NEW s \in Seq(Message), NEW i \in 0 .. Len(s)
  PROVE  /\ IsFiniteSet(EventsIn(s, i)) /\ EventsUpTo(s, i) = Cardinality(EventsIn(s, i))
         /\ EventsUpTo(s, i) \in Nat /\ EventsUpTo(s, 0) = 0
<1>1. IsFiniteSet(1 .. i) /\ EventsIn(s, i) \subseteq 1 .. i
  BY FS_Interval DEF EventsIn
<1>2. IsFiniteSet(EventsIn(s, i)) /\ Cardinality(EventsIn(s, i)) \in Nat
  BY <1>1, FS_Subset, FS_CardinalityType
<1>3. EventsIn(s, 0) = {} /\ Cardinality({}) = 0
  BY FS_EmptySet DEF EventsIn
<1>4. \A k : EventsUpTo(s, k) = Cardinality(EventsIn(s, k))
  BY DEF EventsUpTo, EventsIn
<1>5. QED
  BY <1>2, <1>3, <1>4

LEMMA UpToNext ==
  ASSUME NEW s \in Seq(Message), NEW i \in 1 .. Len(s)
  PROVE  EventsUpTo(s, i) = EventsUpTo(s, i - 1) + (IF s[i].t = "event" THEN 1 ELSE 0)
<1>1. /\ i - 1 \in 0 .. Len(s) /\ i \in 0 .. Len(s) /\ i \notin 1 .. i - 1
      /\ \A j \in 1 .. i : j \in 1 .. i - 1 \/ j = i
      /\ \A j \in 1 .. i - 1 : j \in 1 .. i
  OBVIOUS
<1>2. EventsIn(s, i) = IF s[i].t = "event" THEN EventsIn(s, i - 1) \cup {i} ELSE EventsIn(s, i - 1)
  BY <1>1 DEF EventsIn
<1>3. IsFiniteSet(EventsIn(s, i - 1)) /\ i \notin EventsIn(s, i - 1)
  BY <1>1, UpToIsNat DEF EventsIn
<1>4. Cardinality(EventsIn(s, i - 1) \cup {i}) = Cardinality(EventsIn(s, i - 1)) + 1
  BY <1>3, FS_AddElement
<1>5. /\ EventsUpTo(s, i) = Cardinality(EventsIn(s, i)) /\ Cardinality(EventsIn(s, i - 1)) \in Nat
      /\ EventsUpTo(s, i - 1) = Cardinality(EventsIn(s, i - 1))
  BY <1>1, UpToIsNat
<1>6. QED
  BY <1>2, <1>4, <1>5

LEMMA UpToGrows ==
  ASSUME NEW s \in Seq(Message), NEW i \in 1 .. Len(s), s[i].t = "event"
  PROVE  EventsUpTo(s, i) \in 1 .. EventsUpTo(s, Len(s))
<1>1. i \in 0 .. Len(s) /\ Len(s) \in 0 .. Len(s) /\ i - 1 \in 0 .. Len(s)
  OBVIOUS
<1>2. EventsIn(s, i) \subseteq EventsIn(s, Len(s)) /\ IsFiniteSet(EventsIn(s, Len(s)))
  BY <1>1, UpToIsNat DEF EventsIn
<1>3. Cardinality(EventsIn(s, i)) <= Cardinality(EventsIn(s, Len(s)))
  BY <1>2, FS_Subset
<1>4. /\ EventsUpTo(s, i) = Cardinality(EventsIn(s, i)) /\ EventsUpTo(s, i) \in Nat
      /\ EventsUpTo(s, Len(s)) = Cardinality(EventsIn(s, Len(s))) /\ EventsUpTo(s, Len(s)) \in Nat
      /\ EventsUpTo(s, i - 1) \in Nat
  BY <1>1, UpToIsNat
<1>5. EventsUpTo(s, i) = EventsUpTo(s, i - 1) + 1
  BY UpToNext
<1>6. QED
  BY <1>3, <1>4, <1>5

LEMMA UpToAppend ==
  ASSUME NEW s \in Seq(Message), NEW m \in Message, NEW i \in 0 .. Len(s)
  PROVE  EventsUpTo(Append(s, m), i) = EventsUpTo(s, i)
<1>1. \A j \in 1 .. i : Append(s, m)[j] = s[j]
  BY AppendTypes
<1>2. EventsIn(Append(s, m), i) = EventsIn(s, i)
  BY <1>1 DEF EventsIn
<1>3. QED
  BY <1>2 DEF EventsUpTo, EventsIn

LEMMA UpToTail ==
  ASSUME NEW s \in Seq(Message), s # <<>>, NEW i \in 0 .. Len(Tail(s))
  PROVE  EventsUpTo(s, i + 1) = EventsUpTo(Tail(s), i) + (IF Head(s).t = "event" THEN 1 ELSE 0)
<1> DEFINE a == Tail(s)
<1> DEFINE rest == EventsIn(s, i + 1) \ {1}
<1>1. /\ a \in Seq(Message) /\ Len(a) = Len(s) - 1 /\ Len(s) \in Nat /\ Head(s) = s[1]
      /\ \A j \in 1 .. Len(a) : a[j] = s[j + 1] /\ j + 1 \in 1 .. Len(s)
      /\ i + 1 \in 0 .. Len(s) /\ i \in Nat /\ i \in 0 .. Len(a)
  BY HeadTypes
<1> HIDE DEF a
<1>2. IsFiniteSet(EventsIn(s, i + 1)) /\ EventsUpTo(s, i + 1) = Cardinality(EventsIn(s, i + 1))
      /\ EventsUpTo(s, i + 1) \in Nat
  BY <1>1, UpToIsNat
<1>3. /\ IsFiniteSet(rest)
      /\ Cardinality(EventsIn(s, i + 1)) = Cardinality(rest) + (IF Head(s).t = "event" THEN 1 ELSE 0)
      /\ Cardinality(rest) \in Nat
  <2>1. 1 \in EventsIn(s, i + 1) <=> Head(s).t = "event"
    BY <1>1 DEF EventsIn
  <2>2. IsFiniteSet(rest) /\ Cardinality(rest) \in Nat
    BY <1>2, FS_Subset, FS_CardinalityType
  <2>3. CASE 1 \in EventsIn(s, i + 1)
    BY <1>2, <2>1, <2>2, <2>3, FS_RemoveElement
  <2>4. CASE 1 \notin EventsIn(s, i + 1)
    <3>1. rest = EventsIn(s, i + 1) /\ Head(s).t # "event"
      BY <2>1, <2>4
    <3> HIDE DEF rest
    <3>2. Cardinality(EventsIn(s, i + 1)) = Cardinality(rest)
      BY <3>1
    <3>3. QED
      BY <2>2, <3>1, <3>2
  <2>5. QED
    BY <2>3, <2>4
<1>4. ExistsBijection(rest, EventsIn(a, i))
  <2> DEFINE f == [j \in rest |-> j - 1]
  <2>1. \A j \in rest : j - 1 \in 1 .. i /\ j - 1 \in 1 .. Len(a) /\ s[j].t = "event" /\ j \in Nat
    BY <1>1 DEF EventsIn
  <2>2. f \in [rest -> EventsIn(a, i)]
    <3>1. \A j \in rest : a[j - 1] = s[j]
      BY <1>1, <2>1
    <3>2. QED
      BY <2>1, <3>1 DEF EventsIn
  <2>3. \A j, k \in rest : f[j] = f[k] => j = k
    BY <2>1
  <2>4. ASSUME NEW k \in EventsIn(a, i) PROVE \E j \in rest : f[j] = k
    <3>1. k \in 1 .. i /\ k \in 1 .. Len(a) /\ a[k].t = "event"
      BY <1>1, <2>4 DEF EventsIn
    <3>2. k + 1 \in 1 .. i + 1 /\ s[k + 1].t = "event" /\ k + 1 # 1
      BY <1>1, <3>1
    <3>3. k + 1 \in rest
      BY <3>2 DEF EventsIn
    <3>4. f[k + 1] = k
      BY <3>1, <3>3
    <3>5. QED
      BY <3>3, <3>4
  <2> HIDE DEF f
  <2>5. f \in Bijection(rest, EventsIn(a, i))
    BY <2>2, <2>3, <2>4 DEF Bijection, Injection, Surjection, IsInjective
  <2>6. QED
    BY <2>5 DEF ExistsBijection
<1>5. Cardinality(EventsIn(a, i)) = Cardinality(rest)
  BY <1>3, <1>4, FS_Bijection
<1>6. EventsUpTo(a, i) = Cardinality(EventsIn(a, i))
  BY <1>1, UpToIsNat
<1>7. QED
  BY <1>2, <1>3, <1>5, <1>6 DEF a

Numbers == Seq(1 .. MaxEvents)

One(m) == IF m.t = "event" THEN 1 ELSE 0

\* What a list of numbers is after a message: an event adds its own.
LEMMA NumbersAfter ==
  ASSUME NEW p \in Numbers, NEW m \in Message, NEW q \in Numbers,
         IF m.t = "event" THEN q = Append(p, m.n) ELSE q = p
  PROVE  /\ Len(p) \in Nat /\ Len(q) \in Nat /\ One(m) \in Nat /\ Len(q) = Len(p) + One(m)
         /\ \A k \in 1 .. Len(p) : q[k] = p[k]
         /\ \A k \in 1 .. Len(q) : k \in 1 .. Len(p) \/ (k = Len(p) + 1 /\ m.t = "event")
         /\ m.t = "event" => q[Len(p) + 1] = m.n /\ One(m) = 1
<1>1. CASE m.t = "event"
  <2>1. m.n \in 1 .. MaxEvents /\ q = Append(p, m.n) /\ One(m) = 1
    BY <1>1, MessageTypes DEF One
  <2>2. /\ Len(q) = Len(p) + 1 /\ Len(p) \in Nat /\ Len(q) \in Nat /\ q[Len(p) + 1] = m.n
        /\ \A k \in 1 .. Len(p) : q[k] = p[k]
    BY <2>1 DEF Numbers
  <2>3. \A k \in 1 .. Len(q) : k \in 1 .. Len(p) \/ k = Len(p) + 1
    BY <2>2
  <2>4. QED
    BY <1>1, <2>1, <2>2, <2>3
<1>2. CASE m.t # "event"
  <2>1. q = p /\ One(m) = 0 /\ Len(p) \in Nat
    BY <1>2 DEF One, Numbers
  <2>2. QED
    BY <1>2, <2>1
<1>3. QED
  BY <1>1, <1>2

\* A message joins the pipe: an event with its number, another without.
LEMMA OrderSent ==
  ASSUME NEW g \in Numbers, NEW s \in Seq(Message), NEW p \in Numbers, InOrder(g, s, p),
         NEW m \in Message, NEW q \in Numbers,
         IF m.t = "event" THEN q = Append(p, m.n) ELSE q = p
  PROVE  InOrder(g, Append(s, m), q)
<1> DEFINE a == Append(s, m)
<1>1. /\ a \in Seq(Message) /\ Len(a) = Len(s) + 1 /\ Len(s) \in Nat /\ a[Len(s) + 1] = m
      /\ \A i \in 1 .. Len(s) : a[i] = s[i] /\ i \in 1 .. Len(a)
      /\ \A i \in 1 .. Len(a) : i \in 1 .. Len(s) \/ i = Len(s) + 1
      /\ Len(s) + 1 \in 1 .. Len(a) /\ Len(s) \in 0 .. Len(s)
  BY AppendTypes
<1>2. \A i \in 0 .. Len(s) : EventsUpTo(a, i) = EventsUpTo(s, i)
  BY UpToAppend
<1> HIDE DEF a
<1>3. EventsUpTo(a, Len(a)) = EventsUpTo(s, Len(s)) + One(m) /\ EventsUpTo(s, Len(s)) \in Nat
  <2>1. EventsUpTo(a, Len(a)) = EventsUpTo(a, Len(a) - 1) + One(a[Len(a)])
    BY <1>1, UpToNext DEF One
  <2>2. Len(a) - 1 = Len(s)
    BY <1>1
  <2>3. QED
    BY <1>1, <1>2, <2>1, <2>2, UpToIsNat
<1>4. /\ Len(p) \in Nat /\ Len(q) \in Nat /\ One(m) \in Nat /\ Len(q) = Len(p) + One(m)
      /\ \A k \in 1 .. Len(p) : q[k] = p[k]
      /\ m.t = "event" => q[Len(p) + 1] = m.n /\ One(m) = 1
      /\ Len(p) = Len(g) + EventsUpTo(s, Len(s)) /\ Len(g) \in Nat
  BY NumbersAfter DEF InOrder, Numbers
<1>5. Len(q) = Len(g) + EventsUpTo(a, Len(a))
  BY <1>3, <1>4
<1>6. \A i \in 1 .. Len(g) : g[i] = q[i]
  BY <1>3, <1>4 DEF InOrder
<1>7. ASSUME NEW i \in 1 .. Len(a), a[i].t = "event"
      PROVE  a[i].n = q[Len(g) + EventsUpTo(a, i)]
  <2>1. CASE i \in 1 .. Len(s)
    <3>1. EventsUpTo(s, i) \in 1 .. EventsUpTo(s, Len(s)) /\ EventsUpTo(a, i) = EventsUpTo(s, i)
      BY <1>1, <1>2, <1>7, <2>1, UpToGrows
    <3>2. s[i].n = p[Len(g) + EventsUpTo(s, i)]
      BY <1>1, <1>7, <2>1 DEF InOrder
    <3>3. Len(g) + EventsUpTo(s, i) \in 1 .. Len(p)
      <4>1. \A u, v, w \in Nat : v \in 1 .. w => u + v \in 1 .. u + w
        OBVIOUS
      <4>2. EventsUpTo(s, i) \in Nat
        BY <1>1, <2>1, UpToIsNat
      <4>3. QED
        BY <1>3, <1>4, <3>1, <4>1, <4>2
    <3>4. QED
      BY <1>1, <1>4, <2>1, <3>1, <3>2, <3>3
  <2>2. CASE i = Len(s) + 1
    <3>1. m.t = "event" /\ a[i] = m /\ i = Len(a)
      BY <1>1, <1>7, <2>2
    <3>2. EventsUpTo(a, i) = EventsUpTo(s, Len(s)) + 1
      BY <1>3, <1>4, <3>1
    <3>3. Len(g) + EventsUpTo(a, i) = Len(p) + 1
      <4>1. \A u, v, w \in Nat : w = u + v => u + (v + 1) = w + 1
        OBVIOUS
      <4>2. QED
        BY <1>3, <1>4, <3>2, <4>1
    <3>4. QED
      BY <1>4, <3>1, <3>3
  <2>3. QED
    BY <1>1, <2>1, <2>2
<1>8. QED
  BY <1>5, <1>6, <1>7 DEF InOrder, a

\* The next message is read: an event is seen.
LEMMA OrderRead ==
  ASSUME NEW g \in Numbers, NEW s \in Seq(Message), NEW p \in Numbers, InOrder(g, s, p), s # <<>>,
         NEW h \in Numbers,
         IF Head(s).t = "event" THEN h = Append(g, Head(s).n) ELSE h = g
  PROVE  InOrder(h, Tail(s), p)
<1> DEFINE a == Tail(s)
<1> DEFINE one == One(Head(s))
<1>1. /\ a \in Seq(Message) /\ Len(a) = Len(s) - 1 /\ Len(s) \in Nat /\ Len(a) \in Nat
      /\ Head(s) = s[1] /\ 1 \in 1 .. Len(s)
      /\ \A j \in 1 .. Len(a) : a[j] = s[j + 1] /\ j + 1 \in 1 .. Len(s) /\ j \in 0 .. Len(a)
      /\ Len(a) \in 0 .. Len(a)
  BY HeadTypes
<1>2. \A i \in 0 .. Len(a) : EventsUpTo(s, i + 1) = EventsUpTo(a, i) + one /\ EventsUpTo(a, i) \in Nat
  BY <1>1, UpToTail, UpToIsNat DEF One
<1> HIDE DEF a
<1>3. /\ Len(g) \in Nat /\ Len(h) \in Nat /\ one \in Nat /\ Len(h) = Len(g) + one
      /\ \A k \in 1 .. Len(g) : h[k] = g[k] /\ g[k] = p[k]
      /\ \A k \in 1 .. Len(h) : k \in 1 .. Len(g) \/ (k = Len(g) + 1 /\ Head(s).t = "event")
      /\ Head(s).t = "event" => h[Len(g) + 1] = Head(s).n /\ one = 1
      /\ Len(p) = Len(g) + EventsUpTo(s, Len(s))
  BY NumbersAfter DEF InOrder
<1>4. EventsUpTo(s, Len(s)) = EventsUpTo(a, Len(a)) + one
  BY <1>1, <1>2
<1>5. Len(p) = Len(h) + EventsUpTo(a, Len(a))
  <2>1. EventsUpTo(a, Len(a)) \in Nat
    BY <1>1, UpToIsNat
  <2>2. \A u, v, w \in Nat : u + (w + v) = (u + v) + w
    OBVIOUS
  <2>3. QED
    BY <1>3, <1>4, <2>1, <2>2
<1>6. Head(s).t = "event" => Head(s).n = p[Len(g) + 1]
  <2>1. EventsUpTo(s, 1) = EventsUpTo(s, 0) + one /\ EventsUpTo(s, 0) = 0
    <3>1. EventsUpTo(s, 1) = EventsUpTo(s, 1 - 1) + one
      BY <1>1, UpToNext DEF One
    <3>2. 1 - 1 = 0 /\ 0 \in 0 .. Len(s)
      BY <1>1
    <3>3. QED
      BY <3>1, <3>2, UpToIsNat
  <2>2. Head(s).t = "event" => s[1].n = p[Len(g) + EventsUpTo(s, 1)]
    BY <1>1 DEF InOrder
  <2>3. Head(s).t = "event" => EventsUpTo(s, 1) = 1
    BY <1>3, <2>1
  <2>4. QED
    BY <1>1, <2>2, <2>3
<1>7. \A k \in 1 .. Len(h) : h[k] = p[k]
  BY <1>3, <1>6
<1>8. ASSUME NEW i \in 1 .. Len(a), a[i].t = "event"
      PROVE  a[i].n = p[Len(h) + EventsUpTo(a, i)]
  <2>1. s[i + 1].n = p[Len(g) + EventsUpTo(s, i + 1)] /\ a[i] = s[i + 1]
    BY <1>1, <1>8 DEF InOrder
  <2>2. Len(g) + EventsUpTo(s, i + 1) = Len(h) + EventsUpTo(a, i)
    BY <1>1, <1>2, <1>3
  <2>3. QED
    BY <2>1, <2>2
<1>9. QED
  BY <1>5, <1>7, <1>8 DEF InOrder, a

OrderOf(c) == near[c] = "open" => InOrder(got[c], down[c], pushed[c])
Ordered == \A c \in Conns : OrderOf(c)

LEMMA OrderTypes ==
  ASSUME TypeOK, NEW c \in Conns
  PROVE  /\ got[c] \in Numbers /\ pushed[c] \in Numbers /\ down[c] \in Seq(Message)
         /\ Len(got[c]) \in Nat /\ Len(down[c]) \in Nat /\ Len(pushed[c]) \in Nat
BY DEF TypeOK, EventsOK, LinkOK, Numbers

LEMMA OrderKept ==
  ASSUME NEW c \in Conns, OrderOf(c), near'[c] = "open" => near[c] = "open",
         got'[c] = got[c], down'[c] = down[c], pushed'[c] = pushed[c]
  PROVE  OrderOf(c)'
BY DEF OrderOf, InOrder, EventsUpTo

LEMMA OrderNow ==
  ASSUME NEW c \in Conns, NEW g, NEW s, NEW p,
         got'[c] = g, down'[c] = s, pushed'[c] = p, near'[c] = "open" => InOrder(g, s, p)
  PROVE  OrderOf(c)'
BY DEF OrderOf, InOrder, EventsUpTo

\* Nothing has been sent on a connection that just opened.
LEMMA OrderOpen ==
  ASSUME TypeOK, Ends, Ordered, NEW c \in Conns, Open(c) PROVE Ordered'
<1>1. got' = got /\ down' = down /\ pushed' = pushed /\ near' = [near EXCEPT ![c] = "open"]
  BY DEF Open, clientVars, serverVars
<1>2. got[c] = <<>> /\ down[c] = <<>> /\ pushed[c] = <<>>
  BY DEF Open, Ends, EndsOf
<1>3. InOrder(<<>>, <<>>, <<>>)
  <2>1. <<>> \in Seq(Message) /\ Len(<<>>) = 0 /\ 0 \in 0 .. Len(<<>>)
    OBVIOUS
  <2>2. EventsUpTo(<<>>, 0) = 0
    BY <2>1, UpToIsNat
  <2>3. QED
    BY <2>1, <2>2 DEF InOrder
<1>4. OrderOf(c)'
  BY <1>1, <1>2, <1>3 DEF OrderOf, InOrder, EventsUpTo
<1>5. ASSUME NEW d \in Conns, d # c PROVE OrderOf(d)'
  BY <1>1, <1>5, OrderKept DEF Ordered, TypeOK, LinkOK
<1>6. QED
  BY <1>4, <1>5 DEF Ordered

LEMMA OrderReads ==
  ASSUME TypeOK, Ordered, NEW c \in Conns, ClientReads(c) PROVE Ordered'
<1>1. /\ near[c] = "open" /\ down[c] # <<>> /\ down' = [down EXCEPT ![c] = Tail(@)]
      /\ pushed' = pushed /\ near' \in {near, [near EXCEPT ![c] = "closing"]}
  BY DEF ClientReads, Taken, ReadAck, ReadError, ReadResponse, ReadEvent, serverVars
<1>2. InOrder(got[c], down[c], pushed[c])
  BY <1>1 DEF Ordered, OrderOf
<1>3. IF Head(down[c]).t = "event" THEN got' = [got EXCEPT ![c] = Append(@, Head(down[c]).n)] ELSE got' = got
  BY DEF ClientReads, ReadAck, ReadError, ReadResponse, ReadEvent
<1>4. PICK h : h = got'[c]
  OBVIOUS
<1>5. IF Head(down[c]).t = "event" THEN h = Append(got[c], Head(down[c]).n) ELSE h = got[c]
  BY <1>3, <1>4 DEF TypeOK, EventsOK
<1>6. h \in Numbers
  <2>1. Head(down[c]).t = "event" => Head(down[c]).n \in 1 .. MaxEvents
    BY <1>1, OrderTypes, HeadTypes, MessageTypes
  <2>2. got[c] \in Seq(1 .. MaxEvents)
    BY DEF TypeOK, EventsOK
  <2>3. \A n \in 1 .. MaxEvents : Append(got[c], n) \in Seq(1 .. MaxEvents)
    BY <2>2
  <2>4. QED
    BY <1>5, <2>1, <2>2, <2>3 DEF Numbers
<1>7. InOrder(h, Tail(down[c]), pushed[c])
  BY <1>1, <1>2, <1>5, <1>6, OrderRead, OrderTypes
<1>8. OrderOf(c)'
  <2>1. down'[c] = Tail(down[c]) /\ pushed'[c] = pushed[c]
    BY <1>1 DEF TypeOK, LinkOK
  <2>2. QED
    BY <1>4, <1>7, <2>1, OrderNow
<1>9. ASSUME NEW d \in Conns, d # c PROVE OrderOf(d)'
  BY <1>1, <1>3, <1>9, OrderKept DEF Ordered, TypeOK, LinkOK, EventsOK
<1>10. QED
  BY <1>8, <1>9 DEF Ordered

\* An answer takes a place among the events and moves none.
LEMMA OrderAnswered ==
  ASSUME TypeOK, Ordered, NEW c \in Conns, NEW m \in Message, m.t # "event",
         UNCHANGED <<got, pushed, near>>, down'[c] = down[c] \/ down'[c] = Append(down[c], m)
  PROVE  OrderOf(c)'
<1>1. OrderOf(c)
  BY DEF Ordered
<1>2. CASE down'[c] = down[c]
  BY <1>1, <1>2, OrderKept
<1>3. CASE down'[c] = Append(down[c], m)
  <2>1. near[c] = "open" => InOrder(got[c], Append(down[c], m), pushed[c])
    BY <1>1, OrderSent, OrderTypes DEF OrderOf
  <2>2. QED
    BY <1>3, <2>1, OrderNow
<1>4. QED
  BY <1>2, <1>3

LEMMA OrderServer ==
  ASSUME TypeOK, Mail, Ordered,
         \/ \E c \in Conns : Refuse(c) \/ Register(c) \/ RejectRequest(c)
         \/ \E r \in Requests : HandlerEnds(r)
  PROVE  Ordered'
<1>1. UNCHANGED <<got, pushed, near>>
  BY DEF Refuse, Register, RejectRequest, ReadsRequest, HandlerEnds, clientVars
<1>2. \E x \in 0 .. MaxConns, m \in Message : m.t # "event" /\ (down' = down \/ down' = SafeSent(x, m))
  <2>1. ASSUME NEW c \in Conns, Refuse(c) \/ Register(c)
        PROVE \E x \in 0 .. MaxConns, m \in Message : m.t # "event" /\ (down' = down \/ down' = SafeSent(x, m))
    <3>1. c \in 0 .. MaxConns /\ [t |-> "error"] \in Message /\ [t |-> "ack"] \in Message
      BY MessageTypes DEF Conns
    <3>2. down' = down \/ down' = SafeSent(c, [t |-> "ack"]) \/ down' = SafeSent(c, [t |-> "error"])
      BY <2>1 DEF Refuse, Register
    <3>3. [t |-> "error"].t # "event" /\ [t |-> "ack"].t # "event"
      OBVIOUS
    <3>4. QED
      BY <3>1, <3>2, <3>3
  <2>2. ASSUME NEW c \in Conns, RejectRequest(c)
        PROVE \E x \in 0 .. MaxConns, m \in Message : m.t # "event" /\ (down' = down \/ down' = SafeSent(x, m))
    <3>1. c \in 0 .. MaxConns
      BY DEF Conns
    <3>2. [t |-> "threw", r |-> Request(c)] \in Message
      BY <2>2, RequestIsNext, MessageTypes DEF RejectRequest, Request
    <3>3. [t |-> "threw", r |-> Request(c)].t # "event"
      OBVIOUS
    <3>4. QED
      BY <2>2, <3>1, <3>2, <3>3 DEF RejectRequest
  <2>3. ASSUME NEW r \in Requests, HandlerEnds(r)
        PROVE \E x \in 0 .. MaxConns, m \in Message : m.t # "event" /\ (down' = down \/ down' = SafeSent(x, m))
    <3>1. job[r] \in 0 .. MaxConns
      BY DEF TypeOK, ServerOK
    <3>2. PICK result \in {"done", "threw"} : down' = SafeSent(job[r], [t |-> result, r |-> r])
      BY <2>3 DEF HandlerEnds
    <3>3. [t |-> result, r |-> r] \in Message /\ [t |-> result, r |-> r].t # "event"
      BY MessageTypes
    <3>4. QED
      BY <3>1, <3>2, <3>3
  <2>4. QED
    BY <2>1, <2>2, <2>3
<1>3. PICK x \in 0 .. MaxConns, m \in Message : m.t # "event" /\ (down' = down \/ down' = SafeSent(x, m))
  BY <1>2
<1>4. ASSUME NEW d \in Conns PROVE OrderOf(d)'
  <2>1. down'[d] = down[d] \/ down'[d] = Append(down[d], m)
    BY <1>3 DEF SafeSent, TypeOK, LinkOK
  <2>2. QED
    BY <1>1, <1>3, <2>1, OrderAnswered
<1>5. QED
  BY <1>4 DEF Ordered

LEMMA OrderBroadcast ==
  ASSUME TypeOK, Ordered, Broadcast PROVE Ordered'
<1> DEFINE m == [t |-> "event", n |-> events + 1]
<1>1. events + 1 \in 1 .. MaxEvents /\ m \in Message /\ m.t = "event" /\ m.n = events + 1
  BY RpcLinkAssumption, MessageTypes DEF Broadcast, TypeOK, EventsOK
<1>2. UNCHANGED <<got, near>>
  BY DEF Broadcast, clientVars
<1>3. \A d \in Conns :
        \/ down'[d] = down[d] /\ pushed'[d] = pushed[d]
        \/ down'[d] = Append(down[d], m) /\ pushed'[d] = Append(pushed[d], m.n)
  BY <1>1 DEF Broadcast
<1> HIDE DEF m
<1>4. ASSUME NEW d \in Conns PROVE OrderOf(d)'
  <2>1. OrderOf(d)
    BY DEF Ordered
  <2>2. CASE down'[d] = down[d] /\ pushed'[d] = pushed[d]
    BY <1>2, <2>1, <2>2, OrderKept
  <2>3. CASE down'[d] = Append(down[d], m) /\ pushed'[d] = Append(pushed[d], m.n)
    <3>1. Append(pushed[d], m.n) \in Numbers
      BY <1>1, OrderTypes DEF Numbers
    <3>2. near[d] = "open" => InOrder(got[d], Append(down[d], m), Append(pushed[d], m.n))
      BY <1>1, <2>1, <3>1, OrderSent, OrderTypes DEF OrderOf
    <3>3. QED
      BY <1>2, <2>3, <3>2, OrderNow
  <2>4. QED
    BY <1>3, <2>2, <2>3
<1>5. QED
  BY <1>4 DEF Ordered

LEMMA OrderClient ==
  ASSUME TypeOK, Ordered,
         \/ FirstConnect \/ HandshakeTimeout \/ ReconnectTimer \/ Disconnect
         \/ \E c \in Conns : ClientClosed(c)
  PROVE  Ordered'
<1>1. CASE FirstConnect \/ ReconnectTimer
  <2>1. UNCHANGED <<got, down, pushed>> /\ Connect
    BY <1>1 DEF FirstConnect, ReconnectTimer, serverVars
  <2>2. \A d \in Conns : near'[d] = "open" => near[d] = "open"
    BY <2>1, FreshIsOver DEF Connect, TypeOK, LinkOK
  <2>3. QED
    BY <2>1, <2>2, OrderKept DEF Ordered
<1>2. CASE HandshakeTimeout \/ Disconnect
  <2>1. UNCHANGED <<got, down, pushed>>
    BY <1>2 DEF HandshakeTimeout, Disconnect, serverVars
  <2>2. \A d \in Conns : near'[d] = "open" => near[d] = "open"
    BY <1>2 DEF HandshakeTimeout, Disconnect, TypeOK, LinkOK
  <2>3. QED
    BY <2>1, <2>2, OrderKept DEF Ordered
<1>3. ASSUME NEW c \in Conns, ClientClosed(c) PROVE Ordered'
  <2>1. near'[c] = "closed"
    BY <1>3 DEF ClientClosed, TypeOK, LinkOK
  <2>2. ASSUME NEW d \in Conns, d # c PROVE OrderOf(d)'
    BY <1>3, <2>2, OrderKept DEF ClientClosed, Ordered, TypeOK, LinkOK, EventsOK
  <2>3. QED
    BY <2>1, <2>2 DEF Ordered, OrderOf
<1>4. QED
  BY <1>1, <1>2, <1>3

LEMMA OrderStep == TypeOK /\ Ends /\ Mail /\ Ordered /\ [Next]_vars => Ordered'
<1> SUFFICES ASSUME TypeOK, Ends, Mail, Ordered, [Next]_vars PROVE Ordered'
  OBVIOUS
<1>1. CASE UNCHANGED <<got, down, pushed, near>>
  BY <1>1, OrderKept DEF Ordered
<1>2. ASSUME NEW r \in Requests, Invoke(r) \/ InvokeRefused(r) \/ RequestTimeout(r)
      PROVE  UNCHANGED <<got, down, pushed, near>>
  BY <1>2 DEF Invoke, InvokeRefused, RequestTimeout, linkVars, serverVars
<1>3. ASSUME NEW c \in Conns,
             \/ ReadHandshake(c) \/ Deny(c) \/ HandshakeDeadline(c) \/ ServerClosed(c)
             \/ DropRequest(c) \/ StartHandler(c) \/ Break(c)
      PROVE  UNCHANGED <<got, down, pushed, near>>
  BY <1>3 DEF ReadHandshake, Deny, HandshakeDeadline, ServerClosed, DropRequest, StartHandler, Break,
     ReadsRequest, clientVars, serverVars
<1>4. Stop \/ StartServer \/ UNCHANGED vars => UNCHANGED <<got, down, pushed, near>>
  BY DEF Stop, StartServer, vars, clientVars, linkVars, serverVars
<1>5. QED
  BY <1>1, <1>2, <1>3, <1>4, OrderOpen, OrderReads, OrderServer, OrderBroadcast, OrderClient DEF Next

-----------------------------------------------------------------------------
(* Requests and answers under way *)

LEMMA InitMail == Init => Mail
<1> SUFFICES ASSUME Init PROVE Mail
  OBVIOUS
<1>1. \A c \in Conns : up[c] = <<>> /\ down[c] = <<>>
  BY DEF Init
<1>2. pending = {} /\ \A r \in Requests : call[r] = "idle"
  BY DEF Init
<1>3. \A i : i \notin 1 .. Len(<<>>)
  OBVIOUS
<1>4. OnceUnderWay /\ \A c \in Conns : UpOf(c) /\ DownOf(c)
  BY <1>1, <1>3 DEF OnceUnderWay, UpOf, DownOf
<1>5. QED
  BY <1>2, <1>4 DEF Init, Mail

PendingIsOpen == pending = {r \in Requests : call[r] = "open"}

\* The map pending has the open calls, and no call is unmade.
LEMMA CallsMove ==
  ASSUME TypeOK, Mail, [Next]_vars
  PROVE  PendingIsOpen' /\ \A r \in Requests : IsMade(r) => IsMade(r)'
<1> USE DEF PendingIsOpen, IsMade
<1>1. pending = {r \in Requests : call[r] = "open"} /\ pending \subseteq Requests
      /\ call \in [Requests -> {"idle", "refused", "open", "ok", "failed"}]
  BY DEF Mail, TypeOK, ClientOK
<1>2. CASE UNCHANGED <<pending, call>>
  BY <1>1, <1>2
<1>3. CASE pending' = {} /\ call' = AllFail
  BY <1>1, <1>3 DEF AllFail
<1>4. ASSUME NEW r \in Requests, Invoke(r)
      PROVE PendingIsOpen' /\ \A q \in Requests : IsMade(q) => IsMade(q)'
  BY <1>1, <1>4 DEF Invoke
<1>5. ASSUME NEW r \in Requests, InvokeRefused(r)
      PROVE PendingIsOpen' /\ \A q \in Requests : IsMade(q) => IsMade(q)'
  BY <1>1, <1>5 DEF InvokeRefused
<1>6. ASSUME NEW r \in Requests, RequestTimeout(r)
      PROVE PendingIsOpen' /\ \A q \in Requests : IsMade(q) => IsMade(q)'
  BY <1>1, <1>6 DEF RequestTimeout
<1>7. ASSUME NEW c \in Conns, ReadResponse(c)
      PROVE PendingIsOpen' /\ \A q \in Requests : IsMade(q) => IsMade(q)'
  BY <1>1, <1>7 DEF ReadResponse
<1>8. ASSUME NEW c \in Conns, ReadError(c) \/ ClientClosed(c) PROVE pending' = {} /\ call' = AllFail
  BY <1>8 DEF ReadError, ClientClosed
<1>9. Disconnect => pending' = {} /\ call' = AllFail
  BY DEF Disconnect
<1>10. ASSUME NEW c \in Conns, ReadAck(c) \/ ReadEvent(c) PROVE UNCHANGED <<pending, call>>
  BY <1>10 DEF ReadAck, ReadEvent
<1>11. ASSUME NEW c \in Conns,
              \/ Open(c) \/ ReadHandshake(c) \/ Refuse(c) \/ Deny(c) \/ Register(c) \/ HandshakeDeadline(c)
              \/ ServerClosed(c) \/ DropRequest(c) \/ RejectRequest(c) \/ StartHandler(c) \/ Break(c)
       PROVE  UNCHANGED <<pending, call>>
  BY <1>11 DEF Open, ReadHandshake, Refuse, Deny, Register, HandshakeDeadline, ServerClosed, DropRequest,
     RejectRequest, StartHandler, ReadsRequest, Break, clientVars
<1>12. FirstConnect \/ HandshakeTimeout \/ ReconnectTimer \/ Broadcast \/ Stop \/ StartServer \/ UNCHANGED vars
       \/ (\E r \in Requests : HandlerEnds(r)) => UNCHANGED <<pending, call>>
  BY DEF FirstConnect, HandshakeTimeout, ReconnectTimer, Broadcast, Stop, StartServer, HandlerEnds,
     vars, clientVars
<1>13. QED
  BY <1>2, <1>3, <1>4, <1>5, <1>6, <1>7, <1>8, <1>9, <1>10, <1>11, <1>12 DEF Next, ClientReads

\* Only StartHandler starts a request, and a request that is done stays done.
LEMMA RunsMove ==
  ASSUME TypeOK, Mail, [Next]_vars
  PROVE  /\ \A r \in Requests : ran[r] = "done" => ran'[r] = "done"
         /\ \A r \in Requests : ran[r] = "no" /\ ran'[r] # "no" => \E c \in Conns : StartHandler(c) /\ r = Request(c)
<1>1. CASE ran' = ran
  BY <1>1
<1>2. ASSUME NEW c \in Conns, StartHandler(c)
      PROVE  /\ \A r \in Requests : ran[r] = "done" => ran'[r] = "done"
             /\ \A r \in Requests : ran[r] = "no" /\ ran'[r] # "no" => r = Request(c)
  <2>1. ran' = [ran EXCEPT ![Request(c)] = "running"] /\ ran[Request(c)] = "no"
    BY <1>2, RequestIsNext DEF StartHandler
  <2>2. QED
    BY <2>1 DEF TypeOK, ServerOK
<1>3. ASSUME NEW q \in Requests, HandlerEnds(q)
      PROVE  /\ \A r \in Requests : ran[r] = "done" => ran'[r] = "done"
             /\ \A r \in Requests : ran[r] = "no" => ran'[r] = "no"
  BY <1>3 DEF HandlerEnds, TypeOK, ServerOK
<1>4. ASSUME NEW c \in Conns,
             \/ Open(c) \/ ClientClosed(c) \/ ClientReads(c) \/ ReadHandshake(c) \/ Refuse(c) \/ Deny(c)
             \/ Register(c) \/ HandshakeDeadline(c) \/ ServerClosed(c) \/ DropRequest(c) \/ RejectRequest(c)
             \/ Break(c)
      PROVE  ran' = ran
  BY <1>4 DEF Open, ClientClosed, ClientReads, ReadHandshake, Refuse, Deny, Register, HandshakeDeadline,
     ServerClosed, DropRequest, RejectRequest, Break, serverVars
<1>5. ASSUME NEW r \in Requests, Invoke(r) \/ InvokeRefused(r) \/ RequestTimeout(r) PROVE ran' = ran
  BY <1>5 DEF Invoke, InvokeRefused, RequestTimeout, serverVars
<1>6. FirstConnect \/ HandshakeTimeout \/ ReconnectTimer \/ Disconnect \/ Broadcast \/ Stop \/ StartServer
      \/ UNCHANGED vars => ran' = ran
  BY DEF FirstConnect, HandshakeTimeout, ReconnectTimer, Disconnect, Broadcast, Stop, StartServer,
     serverVars, vars
<1>7. QED
  BY <1>1, <1>2, <1>3, <1>4, <1>5, <1>6 DEF Next

\* What is under way to the client: shorter, or with a message more that is
\* true when it says that a handler is done.
LEMMA DownMoves ==
  ASSUME TypeOK, NEW c \in Conns, DownOf(c), NEW m \in Message,
         \A r \in Requests : ran[r] = "done" => ran'[r] = "done",
         m.t = "done" => ran'[m.r] = "done",
         \/ down'[c] = down[c] \/ down'[c] = <<>> \/ (down[c] # <<>> /\ down'[c] = Tail(down[c]))
         \/ down'[c] = Append(down[c], m)
  PROVE  DownOf(c)'
<1>1. down[c] \in Seq(Message)
  BY DEF TypeOK, LinkOK
<1>2. \A i \in 1 .. Len(down[c]) : down[c][i] \in Message
  BY <1>1
<1>3. \A i \in 1 .. Len(down[c]) : down[c][i].t = "done" => ran'[down[c][i].r] = "done"
  BY <1>2, MessageTypes DEF DownOf
<1>4. \A i \in 1 .. Len(down'[c]) :
        (\E k \in 1 .. Len(down[c]) : down'[c][i] = down[c][k]) \/ down'[c][i] = m
  <2>1. CASE down'[c] = <<>>
    BY <2>1
  <2>2. CASE down[c] # <<>> /\ down'[c] = Tail(down[c])
    BY <1>1, <2>2, HeadTypes
  <2>3. CASE down'[c] = Append(down[c], m)
    BY <1>1, <2>3, AppendTypes
  <2>4. QED
    BY <2>1, <2>2, <2>3
<1>5. \A i \in 1 .. Len(down'[c]) : down'[c][i].t = "done" => ran'[down'[c][i].r] = "done"
  BY <1>3, <1>4
<1>6. QED
  BY <1>5 DEF DownOf

LEMMA DownStep ==
  ASSUME TypeOK, Mail, [Next]_vars, NEW c \in Conns
  PROVE  DownOf(c)'
<1>1. DownOf(c) /\ \A r \in Requests : ran[r] = "done" => ran'[r] = "done"
  BY RunsMove DEF Mail
<1>2. [t |-> "ack"] \in Message /\ [t |-> "error"] \in Message /\ [t |-> "ack"].t # "done" /\ [t |-> "error"].t # "done"
  BY MessageTypes
<1>3. down \in [Conns -> Seq(Message)] /\ \A r \in Requests : job[r] \in 0 .. MaxConns
  BY DEF TypeOK, LinkOK, ServerOK
<1>4. CASE down'[c] = down[c] \/ down'[c] = <<>> \/ (down[c] # <<>> /\ down'[c] = Tail(down[c]))
  BY <1>1, <1>2, <1>4, DownMoves
<1>5. ASSUME NEW m \in Message, NEW e \in 0 .. MaxConns, m.t = "done" => ran'[m.r] = "done", down' = SafeSent(e, m)
      PROVE  DownOf(c)'
  BY <1>1, <1>3, <1>5, DownMoves DEF SafeSent
<1>6. ASSUME NEW d \in Conns, Refuse(d) \/ Register(d) PROVE DownOf(c)'
  <2>1. \/ down' = down \/ down' = SafeSent(d, [t |-> "ack"]) \/ down' = SafeSent(d, [t |-> "error"])
    BY <1>6 DEF Refuse, Register
  <2>2. d \in 0 .. MaxConns
    BY DEF Conns
  <2>3. QED
    BY <1>2, <1>4, <1>5, <2>1, <2>2
<1>7. ASSUME NEW d \in Conns, RejectRequest(d) PROVE DownOf(c)'
  <2>1. [t |-> "threw", r |-> Request(d)] \in Message /\ [t |-> "threw", r |-> Request(d)].t # "done"
    BY <1>7, RequestIsNext, MessageTypes DEF RejectRequest
  <2>2. d \in 0 .. MaxConns /\ down' = SafeSent(d, [t |-> "threw", r |-> Request(d)])
    BY <1>7 DEF Conns, RejectRequest
  <2>3. QED
    BY <1>5, <2>1, <2>2
<1>8. ASSUME NEW r \in Requests, HandlerEnds(r) PROVE DownOf(c)'
  <2>1. PICK result \in {"done", "threw"} :
          ran' = [ran EXCEPT ![r] = result] /\ down' = SafeSent(job[r], [t |-> result, r |-> r])
    BY <1>8 DEF HandlerEnds
  <2>2. PICK m : m = [t |-> result, r |-> r]
    OBVIOUS
  <2>3. m \in Message /\ (m.t = "done" => ran'[m.r] = "done")
    BY <2>1, <2>2, MessageTypes DEF TypeOK, ServerOK
  <2>4. QED
    BY <1>3, <1>5, <2>1, <2>2, <2>3
<1>9. ASSUME Broadcast PROVE DownOf(c)'
  <2> DEFINE m == [t |-> "event", n |-> events + 1]
  <2>1. m \in Message /\ m.t # "done"
    BY <1>9, MessageTypes, RpcLinkAssumption DEF Broadcast, TypeOK, EventsOK
  <2>2. down'[c] = down[c] \/ down'[c] = Append(down[c], m)
    BY <1>9 DEF Broadcast
  <2> HIDE DEF m
  <2>3. QED
    BY <1>1, <2>1, <2>2, DownMoves
<1>10. ASSUME NEW d \in Conns, ClientReads(d) PROVE DownOf(c)'
  BY <1>3, <1>4, <1>10 DEF ClientReads, Taken
<1>11. ASSUME NEW d \in Conns, ClientClosed(d) PROVE DownOf(c)'
  BY <1>3, <1>4, <1>11 DEF ClientClosed
<1>12. ASSUME NEW d \in Conns,
              \/ Open(d) \/ ReadHandshake(d) \/ Deny(d) \/ HandshakeDeadline(d)
              \/ ServerClosed(d) \/ DropRequest(d) \/ StartHandler(d) \/ Break(d)
       PROVE  DownOf(c)'
  BY <1>4, <1>12 DEF Open, ReadHandshake, Deny, HandshakeDeadline, ServerClosed, DropRequest, StartHandler, Break
<1>13. ASSUME NEW r \in Requests, Invoke(r) \/ InvokeRefused(r) \/ RequestTimeout(r) PROVE DownOf(c)'
  BY <1>4, <1>13 DEF Invoke, InvokeRefused, RequestTimeout, linkVars
<1>14. ASSUME FirstConnect \/ HandshakeTimeout \/ ReconnectTimer \/ Disconnect \/ Stop \/ StartServer
              \/ UNCHANGED vars
       PROVE  DownOf(c)'
  BY <1>4, <1>14 DEF FirstConnect, HandshakeTimeout, ReconnectTimer, Disconnect, Stop, StartServer, linkVars, vars
<1>15. QED
  BY <1>6, <1>7, <1>8, <1>9, <1>10, <1>11, <1>12, <1>13, <1>14 DEF Next

\* Nothing joins what is under way to the server on connection c.
Shorter(c) == up'[c] = up[c] \/ up'[c] = <<>> \/ (up[c] # <<>> /\ up'[c] = Tail(up[c]))

LEMMA ShorterHas ==
  ASSUME TypeOK, NEW c \in Conns, Shorter(c)
  PROVE  \E k \in {0, 1} : \A i \in 1 .. Len(up'[c]) :
           i + k \in 1 .. Len(up[c]) /\ up'[c][i] = up[c][i + k] /\ (k = 0 => up'[c] = up[c])
<1>1. up[c] \in Seq(Message)
  BY DEF TypeOK, LinkOK
<1>2. CASE up'[c] = up[c]
  <2>1. \A i \in 1 .. Len(up[c]) : i + 0 = i
    BY <1>1
  <2>2. QED
    BY <1>2, <2>1
<1>3. CASE up'[c] = <<>>
  <2>1. \A i : i \notin 1 .. Len(up'[c])
    BY <1>3
  <2>2. QED
    BY <2>1
<1>4. CASE up[c] # <<>> /\ up'[c] = Tail(up[c])
  <2>1. \A i \in 1 .. Len(up'[c]) : i + 1 \in 1 .. Len(up[c]) /\ up'[c][i] = up[c][i + 1]
    BY <1>1, <1>4, HeadTypes
  <2>2. QED
    BY <2>1
<1>5. QED
  BY <1>2, <1>3, <1>4 DEF Shorter

LEMMA OnceShorter ==
  ASSUME TypeOK, OnceUnderWay, \A c \in Conns : Shorter(c) PROVE OnceUnderWay'
<1> SUFFICES ASSUME NEW r \in Requests, NEW c \in Conns, NEW d \in Conns,
                    NEW i \in 1 .. Len(up'[c]), NEW j \in 1 .. Len(up'[d]),
                    up'[c][i].t = "request", up'[c][i].r = r, up'[d][j].t = "request", up'[d][j].r = r
             PROVE  c = d /\ i = j
  BY DEF OnceUnderWay, RequestAt
<1>1. PICK k \in {0, 1} : \A x \in 1 .. Len(up'[c]) : x + k \in 1 .. Len(up[c]) /\ up'[c][x] = up[c][x + k] /\ (k = 0 => up'[c] = up[c])
  BY ShorterHas
<1>2. PICK l \in {0, 1} : \A x \in 1 .. Len(up'[d]) : x + l \in 1 .. Len(up[d]) /\ up'[d][x] = up[d][x + l] /\ (l = 0 => up'[d] = up[d])
  BY ShorterHas
<1>3. c = d /\ i + k = j + l
  <2>1. i + k \in 1 .. Len(up[c]) /\ RequestAt(c, i + k, r)
    BY <1>1 DEF RequestAt
  <2>2. j + l \in 1 .. Len(up[d]) /\ RequestAt(d, j + l, r)
    BY <1>2 DEF RequestAt
  <2>3. QED
    BY <2>1, <2>2 DEF OnceUnderWay
<1>4. CASE k = l
  BY <1>3, <1>4
<1>5. CASE k # l
  <2>1. up'[c] = up[c] /\ up[c] \in Seq(Message)
    BY <1>1, <1>2, <1>3, <1>5 DEF TypeOK, LinkOK
  <2>2. i \in 1 .. Len(up[c]) /\ j \in 1 .. Len(up[c])
    BY <1>3, <2>1
  <2>3. RequestAt(c, i, r) /\ RequestAt(c, j, r)
    BY <1>3, <2>1 DEF RequestAt
  <2>4. QED
    BY <1>3, <2>2, <2>3 DEF OnceUnderWay
<1>6. QED
  BY <1>3, <1>4, <1>5

LEMMA UpShorter ==
  ASSUME TypeOK, NEW c \in Conns, UpOf(c), Shorter(c),
         up'[c] = up[c] => greeting'[c] = greeting[c] \/ greeting[c] # "new",
         \A r \in Requests : IsMade(r) => IsMade(r)',
         \A i \in 1 .. Len(up'[c]) : up'[c][i].t = "request" => (ran[up'[c][i].r] = "no" => ran'[up'[c][i].r] = "no")
  PROVE  UpOf(c)'
<1>1. up[c] \in Seq(Message) /\ \A x \in 1 .. Len(up[c]) : up[c][x] \in Message
  BY DEF TypeOK, LinkOK
<1>2. PICK k \in {0, 1} : \A i \in 1 .. Len(up'[c]) : i + k \in 1 .. Len(up[c]) /\ up'[c][i] = up[c][i + k] /\ (k = 0 => up'[c] = up[c])
  BY ShorterHas
<1>3. ASSUME NEW i \in 1 .. Len(up'[c])
      PROVE  /\ up'[c][i].t = "handshake" => i = 1 /\ greeting'[c] = "new"
             /\ up'[c][i].t # "handshake" =>
                  /\ up'[c][i].t = "request"
                  /\ call'[up'[c][i].r] \notin {"idle", "refused"} /\ ran'[up'[c][i].r] = "no"
  <2>1. up'[c][i] = up[c][i + k] /\ i + k \in 1 .. Len(up[c]) /\ up[c][i + k] \in Message
    BY <1>1, <1>2
  <2>2. /\ up[c][i + k].t = "handshake" => i + k = 1 /\ greeting[c] = "new"
        /\ up[c][i + k].t # "handshake" =>
             /\ up[c][i + k].t = "request"
             /\ IsMade(up[c][i + k].r) /\ ran[up[c][i + k].r] = "no"
    BY <2>1 DEF UpOf
  <2>3. CASE up'[c][i].t = "handshake"
    <3>1. i + k = 1 /\ greeting[c] = "new"
      BY <2>1, <2>2, <2>3
    <3>2. k = 0 /\ i = 1
      BY <3>1
    <3>3. QED
      BY <1>2, <2>3, <3>1, <3>2
  <2>4. CASE up'[c][i].t # "handshake"
    BY <2>1, <2>2, <2>4, MessageTypes DEF IsMade
  <2>5. QED
    BY <2>3, <2>4
<1>4. QED
  BY <1>3 DEF UpOf, IsMade

UpMail ==
  /\ OnceUnderWay
  /\ \A c \in Conns : UpOf(c)
  /\ \A r \in Requests : ran[r] # "no" => IsMade(r)

\* A new request was under way nowhere.
LEMMA UpInvoke ==
  ASSUME TypeOK, Mail, NEW r \in Requests, Invoke(r), \A q \in Requests : IsMade(q) => IsMade(q)'
  PROVE  UpMail'
<1> DEFINE m == [t |-> "request", r |-> r]
<1>1. m \in Message /\ m.t = "request" /\ m.r = r
  BY MessageTypes
<1>2. ws \in Conns /\ UNCHANGED <<greeting, ran>>
  BY DEF Invoke, serverVars, TypeOK, ClientOK, Conns
<1>3. \A c \in Conns : up[c] \in Seq(Message) /\ (up'[c] = up[c] \/ (c = ws /\ up'[c] = Append(up[c], m)))
  BY DEF Invoke, Sent, TypeOK, LinkOK
<1>4. IsMade(r)' /\ ~IsMade(r) /\ ran[r] = "no"
  BY DEF Invoke, IsMade, TypeOK, ClientOK, Mail
<1> HIDE DEF m
<1>5. ASSUME NEW c \in Conns, NEW i \in 1 .. Len(up'[c])
      PROVE  \/ /\ i \in 1 .. Len(up[c]) /\ up'[c][i] = up[c][i] /\ up[c][i] \in Message
                /\ up[c][i].t = "request" => up[c][i].r # r
             \/ c = ws /\ i = Len(up[ws]) + 1 /\ up'[c][i] = m
  <2>1. CASE i \in 1 .. Len(up[c])
    <3>1. up'[c][i] = up[c][i] /\ up[c][i] \in Message
      BY <1>1, <1>3, <2>1, AppendTypes
    <3>2. up[c][i].t = "request" => IsMade(up[c][i].r)
      BY <2>1 DEF Mail, UpOf
    <3>3. QED
      BY <1>4, <2>1, <3>1, <3>2
  <2>2. CASE i \notin 1 .. Len(up[c])
    BY <1>1, <1>3, <2>2, AppendTypes
  <2>3. QED
    BY <2>1, <2>2
<1>6. OnceUnderWay'
  <2> SUFFICES ASSUME NEW q \in Requests, NEW c \in Conns, NEW d \in Conns,
                      NEW i \in 1 .. Len(up'[c]), NEW j \in 1 .. Len(up'[d]),
                      up'[c][i].t = "request", up'[c][i].r = q, up'[d][j].t = "request", up'[d][j].r = q
               PROVE  c = d /\ i = j
    BY DEF OnceUnderWay, RequestAt
  <2>1. CASE q = r
    BY <1>5, <2>1
  <2>2. CASE q # r
    <3>1. i \in 1 .. Len(up[c]) /\ RequestAt(c, i, q) /\ j \in 1 .. Len(up[d]) /\ RequestAt(d, j, q)
      BY <1>1, <1>5, <2>2 DEF RequestAt
    <3>2. QED
      BY <3>1 DEF Mail, OnceUnderWay
  <2>3. QED
    BY <2>1, <2>2
<1>7. ASSUME NEW c \in Conns, NEW i \in 1 .. Len(up'[c])
      PROVE  /\ up'[c][i].t = "handshake" => i = 1 /\ greeting'[c] = "new"
             /\ up'[c][i].t # "handshake" =>
                  /\ up'[c][i].t = "request"
                  /\ call'[up'[c][i].r] \notin {"idle", "refused"} /\ ran'[up'[c][i].r] = "no"
  <2>1. CASE i \in 1 .. Len(up[c]) /\ up'[c][i] = up[c][i] /\ up[c][i] \in Message
    <3>1. /\ up[c][i].t = "handshake" => i = 1 /\ greeting[c] = "new"
          /\ up[c][i].t # "handshake" =>
               up[c][i].t = "request" /\ IsMade(up[c][i].r) /\ ran[up[c][i].r] = "no" /\ up[c][i].r \in Requests
      BY <2>1, MessageTypes DEF Mail, UpOf
    <3>2. QED
      BY <1>2, <2>1, <3>1 DEF IsMade
  <2>2. CASE up'[c][i] = m
    BY <1>1, <1>2, <1>4, <2>2 DEF IsMade
  <2>3. QED
    BY <1>5, <2>1, <2>2
<1>8. \A q \in Requests : ran'[q] # "no" => IsMade(q)'
  BY <1>2 DEF Mail
<1>9. QED
  BY <1>6, <1>7, <1>8 DEF UpMail, UpOf, IsMade

LEMMA UpOpen ==
  ASSUME TypeOK, Ends, Mail, NEW o \in Conns, Open(o) PROVE UpMail'
<1>1. UNCHANGED <<call, ran, greeting>> /\ greeting[o] = "new"
  BY DEF Open, clientVars, serverVars, Ends, EndsOf
<1>2. \A c \in Conns : up'[c] = IF c = o THEN <<[t |-> "handshake"]>> ELSE up[c]
  BY DEF Open, TypeOK, LinkOK
<1>3. Len(up'[o]) = 1 /\ up'[o][1].t = "handshake" /\ \A i \in 1 .. 1 : i = 1
  BY <1>2
<1>4. OnceUnderWay'
  <2> SUFFICES ASSUME NEW q \in Requests, NEW c \in Conns, NEW d \in Conns,
                      NEW i \in 1 .. Len(up'[c]), NEW j \in 1 .. Len(up'[d]),
                      up'[c][i].t = "request", up'[c][i].r = q, up'[d][j].t = "request", up'[d][j].r = q
               PROVE  c = d /\ i = j
    BY DEF OnceUnderWay, RequestAt
  <2>1. c # o /\ d # o
    BY <1>3
  <2>2. i \in 1 .. Len(up[c]) /\ RequestAt(c, i, q) /\ j \in 1 .. Len(up[d]) /\ RequestAt(d, j, q)
    BY <1>2, <2>1 DEF RequestAt
  <2>3. QED
    BY <2>2 DEF Mail, OnceUnderWay
<1>5. ASSUME NEW c \in Conns PROVE UpOf(c)'
  <2>1. CASE c = o
    BY <1>1, <1>3, <2>1 DEF UpOf
  <2>2. CASE c # o
    BY <1>1, <1>2, <2>2 DEF Mail, UpOf, IsMade
  <2>3. QED
    BY <2>1, <2>2
<1>6. QED
  BY <1>1, <1>4, <1>5 DEF UpMail, Mail, IsMade

\* The server reads the handshake or a request, which then may start.
LEMMA UpReads ==
  ASSUME TypeOK, Mail, NEW e \in Conns,
         ReadHandshake(e) \/ DropRequest(e) \/ RejectRequest(e) \/ StartHandler(e)
  PROVE  UpMail'
<1>1. UNCHANGED call /\ up[e] # <<>> /\ up' = [up EXCEPT ![e] = Tail(@)]
      /\ greeting' \in {greeting, [greeting EXCEPT ![e] = "validating"]}
  BY DEF ReadHandshake, DropRequest, RejectRequest, StartHandler, ReadsRequest, clientVars
<1>2. \A c \in Conns : Shorter(c) /\ (c # e => up'[c] = up[c] /\ greeting'[c] = greeting[c])
  BY <1>1 DEF Shorter, TypeOK, LinkOK, ServerOK
<1>3. OnceUnderWay'
  BY <1>2, OnceShorter DEF Mail
<1>4. up[e] \in Seq(Message) /\ up'[e] = Tail(up[e]) /\ Len(Tail(up[e])) = Len(up[e]) - 1 /\ Len(up[e]) \in Nat
      /\ \A i \in 1 .. Len(up'[e]) : i + 1 \in 1 .. Len(up[e]) /\ up'[e][i] = up[e][i + 1]
  BY <1>1, HeadTypes DEF TypeOK, LinkOK
<1>5. up'[e] # up[e]
  <2>1. \A n \in Nat : n - 1 # n
    OBVIOUS
  <2>2. Len(up'[e]) # Len(up[e])
    BY <1>4, <2>1
  <2>3. QED
    BY <2>2
<1>6. CASE ran' = ran
  <2>1. ASSUME NEW c \in Conns PROVE UpOf(c)'
    BY <1>1, <1>2, <1>5, <1>6, UpShorter DEF Mail, IsMade
  <2>2. QED
    BY <1>1, <1>3, <1>6, <2>1 DEF UpMail, Mail, IsMade
<1>7. CASE StartHandler(e)
  <2> DEFINE q == Request(e)
  <2>1. /\ q \in Requests /\ RequestAt(e, 1, q) /\ 1 \in 1 .. Len(up[e]) /\ IsMade(q)
        /\ ran' = [ran EXCEPT ![q] = "running"]
    BY <1>7, RequestIsNext DEF StartHandler
  <2> HIDE DEF q
  <2>2. ASSUME NEW c \in Conns, NEW i \in 1 .. Len(up'[c]), up'[c][i].t = "request"
        PROVE  up'[c][i].r # q
    <3>1. CASE c = e
      <4>1. i + 1 \in 1 .. Len(up[e]) /\ up'[c][i] = up[e][i + 1] /\ i + 1 # 1
        <5>1. i \in 1 .. Len(up'[e])
          BY <3>1
        <5>2. i + 1 # 1
          BY <5>1
        <5>3. QED
          BY <1>4, <3>1, <5>1, <5>2
      <4>2. QED
        BY <2>1, <2>2, <3>1, <4>1 DEF Mail, OnceUnderWay, RequestAt
    <3>2. CASE c # e
      <4>1. up'[c] = up[c]
        BY <1>2, <3>2
      <4>2. QED
        BY <2>1, <2>2, <3>2, <4>1 DEF Mail, OnceUnderWay, RequestAt
    <3>3. QED
      BY <3>1, <3>2
  <2>3. ASSUME NEW c \in Conns PROVE UpOf(c)'
    <3>1. \A i \in 1 .. Len(up'[c]) : up'[c][i].t = "request" => (ran[up'[c][i].r] = "no" => ran'[up'[c][i].r] = "no")
      <4>1. up'[c] \in Seq(Message)
        BY <1>2, <1>4, HeadTypes, <1>1 DEF TypeOK, LinkOK
      <4>2. \A i \in 1 .. Len(up'[c]) : up'[c][i] \in Message
        BY <4>1
      <4>3. QED
        BY <2>1, <2>2, <4>2, MessageTypes DEF TypeOK, ServerOK
    <3>2. UpOf(c) /\ Shorter(c) /\ \A r \in Requests : IsMade(r) => IsMade(r)'
      BY <1>1, <1>2 DEF Mail, IsMade
    <3>3. QED
      BY <1>2, <1>5, <3>1, <3>2, UpShorter
  <2>4. \A r \in Requests : ran'[r] # "no" => IsMade(r)'
    BY <1>1, <2>1 DEF Mail, IsMade, TypeOK, ServerOK
  <2>5. QED
    BY <1>3, <2>3, <2>4 DEF UpMail
<1>8. QED
  BY <1>6, <1>7 DEF ReadHandshake, DropRequest, RejectRequest

LEMMA UpStep ==
  ASSUME TypeOK, Ends, Mail, [Next]_vars
  PROVE  UpMail'
<1>1. \A q \in Requests : IsMade(q) => IsMade(q)'
  BY CallsMove
<1>2. ASSUME UNCHANGED <<greeting, ran>>, \A c \in Conns : Shorter(c) PROVE UpMail'
  <2>1. OnceUnderWay'
    BY <1>2, OnceShorter DEF Mail
  <2>2. ASSUME NEW c \in Conns PROVE UpOf(c)'
    BY <1>1, <1>2, UpShorter DEF Mail
  <2>3. \A r \in Requests : ran'[r] # "no" => IsMade(r)'
    BY <1>1, <1>2 DEF Mail
  <2>4. QED
    BY <2>1, <2>2, <2>3 DEF UpMail
<1>3. CASE UNCHANGED <<greeting, ran, up>>
  BY <1>2, <1>3 DEF Shorter
<1>4. ASSUME NEW e \in Conns, Refuse(e) \/ Deny(e) \/ Register(e) PROVE UpMail'
  <2>1. UNCHANGED <<ran, up>> /\ greeting[e] = "validating"
    BY <1>4 DEF Refuse, Deny, Register
  <2>2. \A c \in Conns : c # e => greeting'[c] = greeting[c]
    BY <1>4 DEF Refuse, Deny, Register, Rejected, TypeOK, ServerOK
  <2>3. \A c \in Conns : Shorter(c)
    BY <2>1 DEF Shorter
  <2>4. OnceUnderWay'
    BY <2>3, OnceShorter DEF Mail
  <2>5. ASSUME NEW c \in Conns PROVE UpOf(c)'
    <3>1. greeting'[c] = greeting[c] \/ greeting[c] # "new"
      BY <2>1, <2>2
    <3>2. QED
      BY <1>1, <2>1, <2>3, <3>1, UpShorter DEF Mail
  <2>6. \A r \in Requests : ran'[r] # "no" => IsMade(r)'
    BY <1>1, <2>1 DEF Mail
  <2>7. QED
    BY <2>4, <2>5, <2>6 DEF UpMail
<1>5. ASSUME NEW e \in Conns, ServerClosed(e) PROVE UpMail'
  <2>1. /\ UNCHANGED ran /\ up'[e] = <<>>
        /\ \A c \in Conns : c # e => greeting'[c] = greeting[c] /\ up'[c] = up[c]
    BY <1>5 DEF ServerClosed, TypeOK, ServerOK, LinkOK
  <2>2. \A c \in Conns : Shorter(c)
    BY <2>1 DEF Shorter
  <2>3. OnceUnderWay'
    BY <2>2, OnceShorter DEF Mail
  <2>4. ASSUME NEW c \in Conns PROVE UpOf(c)'
    <3>1. CASE c = e
      <4>1. \A i : i \notin 1 .. Len(up'[c])
        BY <2>1, <3>1
      <4>2. QED
        BY <4>1 DEF UpOf
    <3>2. CASE c # e
      BY <1>1, <2>1, <2>2, <3>2, UpShorter DEF Mail
    <3>3. QED
      BY <3>1, <3>2
  <2>5. \A r \in Requests : ran'[r] # "no" => IsMade(r)'
    BY <1>1, <2>1 DEF Mail
  <2>6. QED
    BY <2>3, <2>4, <2>5 DEF UpMail
<1>6. ASSUME NEW q \in Requests, HandlerEnds(q) PROVE UpMail'
  <2>1. UNCHANGED <<up, greeting, call>> /\ ran[q] = "running"
        /\ \A r \in Requests : r # q => ran'[r] = ran[r]
    BY <1>6 DEF HandlerEnds, clientVars, TypeOK, ServerOK
  <2>2. \A c \in Conns : Shorter(c)
    BY <2>1 DEF Shorter
  <2>3. OnceUnderWay'
    BY <2>2, OnceShorter DEF Mail
  <2>4. ASSUME NEW c \in Conns PROVE UpOf(c)'
    <3>1. \A i \in 1 .. Len(up'[c]) : up'[c][i].t = "request" => (ran[up'[c][i].r] = "no" => ran'[up'[c][i].r] = "no")
      <4>1. up[c] \in Seq(Message) /\ up'[c] = up[c]
        BY <2>1 DEF TypeOK, LinkOK
      <4>2. \A i \in 1 .. Len(up'[c]) : up'[c][i] \in Message
        BY <4>1
      <4>3. QED
        BY <2>1, <4>2, MessageTypes
    <3>2. UpOf(c) /\ greeting'[c] = greeting[c]
      BY <2>1 DEF Mail
    <3>3. QED
      BY <1>1, <2>2, <3>1, <3>2, UpShorter
  <2>5. \A r \in Requests : ran'[r] # "no" => IsMade(r)'
    BY <1>1, <2>1 DEF Mail
  <2>6. QED
    BY <2>3, <2>4, <2>5 DEF UpMail
<1>7. ASSUME NEW e \in Conns, ClientClosed(e) \/ ClientReads(e) \/ HandshakeDeadline(e) \/ Break(e)
      PROVE  UNCHANGED <<greeting, ran, up>>
  BY <1>7 DEF ClientClosed, ClientReads, HandshakeDeadline, Break, serverVars
<1>8. ASSUME NEW r \in Requests, InvokeRefused(r) \/ RequestTimeout(r)
      PROVE  UNCHANGED <<greeting, ran, up>>
  BY <1>8 DEF InvokeRefused, RequestTimeout, linkVars, serverVars
<1>9. FirstConnect \/ HandshakeTimeout \/ ReconnectTimer \/ Disconnect \/ Broadcast \/ Stop \/ StartServer
      \/ UNCHANGED vars => UNCHANGED <<greeting, ran, up>>
  BY DEF FirstConnect, HandshakeTimeout, ReconnectTimer, Disconnect, Broadcast, Stop, StartServer,
     linkVars, serverVars, vars
<1>10. QED
  BY <1>1, <1>3, <1>4, <1>5, <1>6, <1>7, <1>8, <1>9, UpInvoke, UpOpen, UpReads DEF Next

LEMMA MailStep == TypeOK /\ Ends /\ Mail /\ [Next]_vars => Mail'
<1> SUFFICES ASSUME TypeOK, Ends, Mail, [Next]_vars PROVE Mail'
  OBVIOUS
<1>1. UpMail' /\ PendingIsOpen'
  BY UpStep, CallsMove
<1>2. \A c \in Conns : DownOf(c)'
  BY DownStep
<1>3. QED
  BY <1>1, <1>2 DEF Mail, UpMail, PendingIsOpen

-----------------------------------------------------------------------------
(* Invariants of the specification *)

LEMMA Together == Spec => [](TypeOK /\ Ends /\ Mail /\ Greeted /\ Ordered)
<1>1. Init => Ordered
  <2>1. InOrder(<<>>, <<>>, <<>>)
    <3>1. <<>> \in Seq(Message) /\ Len(<<>>) = 0 /\ 0 \in 0 .. Len(<<>>)
      OBVIOUS
    <3>2. EventsUpTo(<<>>, 0) = 0
      BY <3>1, UpToIsNat
    <3>3. QED
      BY <3>1, <3>2 DEF InOrder
  <2>2. QED
    BY <2>1 DEF Init, Ordered, OrderOf
<1>2. QED
  BY <1>1, InitTypes, InitEnds, InitMail, InitGreeted, TypesStep, EndsStep, MailStep, GreetedStep,
     OrderStep, PTL DEF Spec

\* Every variable keeps its type: a request or an answer names a request, and
\* a connection, a counter and a number of an event stays within its bound.
THEOREM TypeCorrect == Spec => []TypeOK
BY Together, PTL

\* Both sides agree on who is connected: handleConnection registers no
\* connection whose close was handled already, and a client that shows
\* connected has an entry on the server or will learn of the close.
THEOREM BothAgree == Spec => []ViewsAgree
<1>1. Greeted => ViewsAgree
  BY DEF Greeted
<1>2. QED
  BY <1>1, Together, PTL

\* The listeners of a connection see its events in the order of the
\* broadcasts, without a gap, and only after the acknowledgement.
THEOREM EventsAreInOrder == Spec => []EventsInOrder
<1>1. Ordered /\ Greeted => EventsInOrder
  BY DEF Ordered, OrderOf, Greeted, GreetedOf, EventsInOrder
<1>2. QED
  BY <1>1, Together, PTL

-----------------------------------------------------------------------------
(* The client and the server implement RemoteCalls. *)

LEMMA CallsStutter ==
  ASSUME UNCHANGED <<call, ran>> PROVE [Calls!Next]_(Calls!vars)
BY DEF Calls!vars

LEMMA CallsReads ==
  ASSUME TypeOK, Mail, NEW c \in Conns, ClientReads(c) PROVE [Calls!Next]_(Calls!vars)
<1>1. down[c] \in Seq(Message) /\ down[c] # <<>> /\ UNCHANGED ran
  BY DEF ClientReads, TypeOK, LinkOK, serverVars
<1>2. CASE ReadAck(c) \/ ReadEvent(c)
  BY <1>1, <1>2, CallsStutter DEF ReadAck, ReadEvent
<1>3. CASE ReadError(c)
  <2>1. call' = [r \in Requests |-> IF call[r] = "open" THEN "failed" ELSE call[r]]
    BY <1>3 DEF ReadError, AllFail, Mail
  <2>2. QED
    BY <1>1, <2>1 DEF Calls!Next, Calls!FailAll
<1>4. CASE ReadResponse(c)
  <2> DEFINE r == Head(down[c]).r
  <2>1. r \in Requests /\ Head(down[c]) = down[c][1] /\ 1 \in 1 .. Len(down[c])
        /\ Head(down[c]).t \in {"done", "threw"}
    BY <1>1, <1>4, HeadTypes, MessageTypes DEF ReadResponse
  <2>2. Head(down[c]).t = "done" => ran[r] = "done"
    BY <2>1 DEF Mail, DownOf
  <2>3. CASE r \notin pending
    BY <1>1, <1>4, <2>3, CallsStutter DEF ReadResponse
  <2>4. CASE r \in pending
    <3>1. call[r] = "open"
      BY <2>4 DEF Mail
    <3>2. call' = [call EXCEPT ![r] = IF Head(down[c]).t = "done" THEN "ok" ELSE "failed"]
      BY <1>4, <2>4 DEF ReadResponse
    <3> HIDE DEF r
    <3>3. Calls!Succeed(r) \/ Calls!Fail(r)
      BY <1>1, <2>1, <2>2, <3>1, <3>2 DEF Calls!Succeed, Calls!Fail
    <3>4. QED
      BY <2>1, <3>3 DEF Calls!Next
  <2>5. QED
    BY <2>3, <2>4
<1>5. QED
  BY <1>2, <1>3, <1>4 DEF ClientReads

LEMMA CallsStep ==
  ASSUME TypeOK, Mail, [Next]_vars PROVE [Calls!Next]_(Calls!vars)
<1>1. ASSUME NEW r \in Requests, Invoke(r) PROVE [Calls!Next]_(Calls!vars)
  BY <1>1 DEF Invoke, serverVars, Calls!Next, Calls!Start
<1>2. ASSUME NEW r \in Requests, InvokeRefused(r) PROVE [Calls!Next]_(Calls!vars)
  BY <1>2 DEF InvokeRefused, serverVars, Calls!Next, Calls!Refuse
<1>3. ASSUME NEW r \in Requests, RequestTimeout(r) PROVE [Calls!Next]_(Calls!vars)
  <2>1. call[r] = "open"
    BY <1>3 DEF RequestTimeout, Mail
  <2>2. QED
    BY <1>3, <2>1 DEF RequestTimeout, serverVars, Calls!Next, Calls!Fail
<1>4. ASSUME NEW r \in Requests, HandlerEnds(r) PROVE [Calls!Next]_(Calls!vars)
  BY <1>4 DEF HandlerEnds, clientVars, Calls!Next, Calls!Finish
<1>5. ASSUME NEW c \in Conns, StartHandler(c) PROVE [Calls!Next]_(Calls!vars)
  <2>1. ReadsRequest(c) /\ ran' = [ran EXCEPT ![Request(c)] = "running"] /\ UNCHANGED call
    BY <1>5 DEF StartHandler, ReadsRequest, clientVars
  <2>2. Request(c) \in Requests /\ IsMade(Request(c)) /\ ran[Request(c)] = "no"
    BY <2>1, RequestIsNext
  <2>3. QED
    BY <2>1, <2>2 DEF IsMade, Calls!Next, Calls!Run
<1>6. CASE Disconnect \/ \E c \in Conns : ClientClosed(c)
  <2>1. call' = AllFail /\ UNCHANGED ran
    BY <1>6 DEF Disconnect, ClientClosed, serverVars
  <2>2. call' = [r \in Requests |-> IF call[r] = "open" THEN "failed" ELSE call[r]]
    BY <2>1 DEF AllFail, Mail
  <2>3. QED
    BY <2>1, <2>2 DEF Calls!Next, Calls!FailAll
<1>7. ASSUME NEW c \in Conns,
             \/ Open(c) \/ ReadHandshake(c) \/ Refuse(c) \/ Deny(c) \/ Register(c) \/ HandshakeDeadline(c)
             \/ ServerClosed(c) \/ DropRequest(c) \/ RejectRequest(c) \/ Break(c)
      PROVE  UNCHANGED <<call, ran>>
  BY <1>7 DEF Open, ReadHandshake, Refuse, Deny, Register, HandshakeDeadline, ServerClosed, DropRequest,
     RejectRequest, ReadsRequest, Break, clientVars, serverVars
<1>8. FirstConnect \/ HandshakeTimeout \/ ReconnectTimer \/ Broadcast \/ Stop \/ StartServer \/ UNCHANGED vars
      => UNCHANGED <<call, ran>>
  BY DEF FirstConnect, HandshakeTimeout, ReconnectTimer, Broadcast, Stop, StartServer, clientVars, serverVars, vars
<1>9. QED
  BY <1>1, <1>2, <1>3, <1>4, <1>5, <1>6, <1>7, <1>8, CallsReads, CallsStutter DEF Next

\* Every step of invoke, of the handlers and of whatever breaks or comes late
\* is one that RemoteCalls allows: no request runs twice, and no call
\* succeeds unless its own handler ended well.  (That every call is settled
\* is left to the run.)
THEOREM CallsAreSafe == Spec => Calls!Safety
<1>1. Init => Calls!Init
  BY DEF Init, Calls!Init
<1>2. TypeOK /\ Mail /\ [Next]_vars => [Calls!Next]_(Calls!vars)
  BY CallsStep
<1>3. QED
  BY <1>1, <1>2, Together, PTL DEF Spec, Calls!Safety
=============================================================================
