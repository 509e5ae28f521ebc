------------------------------ MODULE RpcLink ------------------------------
(***************************************************************************)
(* One WsRpcClient and the WsRpcServer it calls, with the WebSocket        *)
(* connections between them: handshake, requests, pushed events, time      *)
(* limits, lost connections, reconnection, restarts of the server and      *)
(* disconnect().  Each end of a connection has a state of its own, and     *)
(* what one end sends the other reads later, in order, or never.           *)
(*                                                                         *)
(* Left out: invokeClient and its answers, which nothing in the program    *)
(* calls; messages that cannot be parsed and requests before the           *)
(* handshake, which this client does not send.                             *)
(***************************************************************************)
EXTENDS Naturals, Sequences, FiniteSets

CONSTANTS
  Requests,    \* ids of the requests; an id is never used twice
  MaxConns,    \* bound on the connections that exist at one time
  MaxAttempts, \* reconnectAttempts at which the client gives up (6 in the code)
  MaxEvents,   \* bound on the broadcasts
  MaxFaults    \* bound on the breaks of connections and the stops of the server

ASSUME RpcLinkAssumption ==
  /\ MaxConns \in Nat \ {0} /\ MaxAttempts \in Nat
  /\ MaxEvents \in Nat /\ MaxFaults \in Nat

VARIABLES
  \* the client
  state,     \* the connection state it shows
  ws,        \* the connection it uses, 0 for none
  attempts,  \* reconnectAttempts
  retry,     \* reconnectTimer is armed
  shake,     \* the connection that handshakeTimer will close, 0 for none
  fatal,     \* fatalError is set
  disposed,
  pending,   \* requests with an entry in the map pending
  call,      \* what the callers of invoke have seen
  got,       \* history: events that listeners saw, by connection
  \* the connections
  near,      \* the client's end
  far,       \* the server's end
  up, down,  \* messages to the server, and to the client
  cut,       \* broken: what is under way may be lost
  \* the server
  serving,   \* it accepts connections
  greeting,  \* how far the handshake of a connection is
  clients,   \* connections in the map clients
  job,       \* the connection that a running handler will answer, 0 for a lost one
  ran,       \* what the handler of a request has done
  pushed,    \* history: events sent to a connection
  events,    \* number of broadcasts
  faults     \* number of breaks and stops

clientVars == <<state, ws, attempts, retry, shake, fatal, disposed, pending, call, got>>
linkVars == <<near, far, up, down, cut>>
serverVars == <<serving, greeting, clients, job, ran, pushed, events>>
vars == <<clientVars, linkVars, serverVars, faults>>

Conns == 1 .. MaxConns
States == {"idle", "connecting", "connected", "reconnecting", "disconnected", "failed"}
Message == [t : {"handshake", "ack", "error"}]
             \cup [t : {"request", "threw", "done"}, r : Requests]
             \cup [t : {"event"}, n : 1 .. MaxEvents]

ClientOK ==
  /\ state \in States /\ ws \in 0 .. MaxConns /\ attempts \in 0 .. MaxAttempts
  /\ retry \in BOOLEAN /\ shake \in 0 .. MaxConns
  /\ fatal \in BOOLEAN /\ disposed \in BOOLEAN
  /\ pending \subseteq Requests
  /\ call \in [Requests -> {"idle", "refused", "open", "ok", "failed"}]
LinkOK ==
  /\ near \in [Conns -> {"opening", "open", "closing", "closed"}]
  /\ far \in [Conns -> {"open", "closing", "closed"}]
  /\ cut \in [Conns -> BOOLEAN]
  /\ up \in [Conns -> Seq(Message)] /\ down \in [Conns -> Seq(Message)]
ServerOK ==
  /\ serving \in BOOLEAN
  /\ greeting \in [Conns -> {"new", "validating", "registered", "rejected"}]
  /\ clients \subseteq Conns
  /\ job \in [Requests -> 0 .. MaxConns]
  /\ ran \in [Requests -> {"no", "running", "done", "threw"}]
EventsOK ==
  /\ got \in [Conns -> Seq(1 .. MaxEvents)] /\ pushed \in [Conns -> Seq(1 .. MaxEvents)]
  /\ events \in 0 .. MaxEvents /\ faults \in 0 .. MaxFaults
TypeOK == ClientOK /\ LinkOK /\ ServerOK /\ EventsOK

Init ==
  /\ state = "idle" /\ ws = 0 /\ attempts = 0 /\ retry = FALSE /\ shake = 0
  /\ fatal = FALSE /\ disposed = FALSE /\ pending = {}
  /\ call = [r \in Requests |-> "idle"]
  /\ near = [c \in Conns |-> "closed"] /\ far = [c \in Conns |-> "closed"]
  /\ up = [c \in Conns |-> <<>>] /\ down = [c \in Conns |-> <<>>]
  /\ cut = [c \in Conns |-> FALSE]
  /\ serving = TRUE /\ greeting = [c \in Conns |-> "new"] /\ clients = {}
  /\ job = [r \in Requests |-> 0] /\ ran = [r \in Requests |-> "no"]
  /\ got = [c \in Conns |-> <<>>] /\ pushed = [c \in Conns |-> <<>>]
  /\ events = 0 /\ faults = 0

-----------------------------------------------------------------------------
(* The client.  A new connection takes a place that both ends have left.   *)
Over(c) == near[c] = "closed" /\ far[c] = "closed" /\ greeting[c] # "validating"
Fresh == CHOOSE c \in Conns : Over(c)

Connect ==
  IF disposed \/ ws # 0 \/ fatal THEN UNCHANGED <<state, ws, shake, near>>
  ELSE /\ \E c \in Conns : Over(c)
       /\ state' = "connecting" /\ ws' = Fresh /\ shake' = Fresh
       /\ near' = [near EXCEPT ![Fresh] = "opening"]

FirstConnect ==
  /\ state = "idle"
  /\ Connect
  /\ UNCHANGED <<attempts, retry, fatal, disposed, pending, call, got>>
  /\ UNCHANGED <<far, up, down, cut, serverVars, faults>>

(* The server accepts, and the client's open event sends the handshake. *)
Open(c) ==
  /\ near[c] = "opening" /\ serving
  /\ near' = [near EXCEPT ![c] = "open"] /\ far' = [far EXCEPT ![c] = "open"]
  /\ up' = [up EXCEPT ![c] = <<[t |-> "handshake"]>>]
  /\ UNCHANGED <<clientVars, down, cut, serverVars, faults>>

HandshakeTimeout ==
  /\ shake # 0
  /\ shake' = 0
  /\ near' = [near EXCEPT ![shake] = "closing"]
  /\ UNCHANGED <<state, ws, attempts, retry, fatal, disposed, pending, call, got>>
  /\ UNCHANGED <<far, up, down, cut, serverVars, faults>>

AllForgotten == call

AllFail == [r \in Requests |-> IF r \in pending THEN "failed" ELSE call[r]]

ScheduleReconnectUncounted ==
  IF retry THEN UNCHANGED <<state, attempts, retry>>
  ELSE IF disposed \/ fatal THEN state' = "failed" /\ UNCHANGED <<attempts, retry>>
  ELSE state' = "reconnecting" /\ retry' = TRUE /\ UNCHANGED attempts

ScheduleReconnect ==
  IF retry THEN UNCHANGED <<state, attempts, retry>>
  ELSE IF disposed \/ fatal \/ attempts >= MaxAttempts
  THEN state' = "failed" /\ UNCHANGED <<attempts, retry>>
  ELSE state' = "reconnecting" /\ attempts' = attempts + 1 /\ retry' = TRUE

(* The client's end is gone: it could not be opened, it was closed by     *)
(* either side, or it broke.                                               *)
ClientClosed(c) ==
  /\ \/ near[c] = "opening" /\ ~serving
     \/ near[c] = "closing"
     \/ /\ near[c] = "open"
        /\ cut[c] \/ far[c] = "closed" \/ (far[c] = "closing" /\ down[c] = <<>>)
  /\ near' = [near EXCEPT ![c] = "closed"]
  /\ shake' = 0
  /\ ws' = IF ws = c THEN 0 ELSE ws
  /\ call' = AllFail /\ pending' = {}
  /\ IF disposed THEN state' = "disconnected" /\ UNCHANGED <<attempts, retry>>
     ELSE IF fatal THEN UNCHANGED <<state, attempts, retry>>
     ELSE ScheduleReconnect
  /\ down' = [down EXCEPT ![c] = <<>>]
  /\ got' = [got EXCEPT ![c] = <<>>] /\ pushed' = [pushed EXCEPT ![c] = <<>>]
  /\ UNCHANGED <<fatal, disposed, far, up, cut>>
  /\ UNCHANGED <<serving, greeting, clients, job, ran, events, faults>>

ReconnectTimer ==
  /\ retry /\ retry' = FALSE
  /\ Connect
  /\ UNCHANGED <<attempts, fatal, disposed, pending, call, got>>
  /\ UNCHANGED <<far, up, down, cut, serverVars, faults>>

Disconnect ==
  /\ state # "idle" /\ ~disposed
  /\ disposed' = TRUE /\ retry' = FALSE /\ shake' = 0
  /\ call' = AllFail /\ pending' = {}
  /\ near' = IF ws = 0 THEN near ELSE [near EXCEPT ![ws] = "closing"]
  /\ ws' = 0 /\ state' = "disconnected"
  /\ UNCHANGED <<attempts, fatal, got, far, up, down, cut, serverVars, faults>>

(* A closing connection takes nothing any more: the request is not sent    *)
(* and waits for the close event or its time limit.                        *)
Sent(c, message) == IF near[c] = "open" THEN [up EXCEPT ![c] = Append(@, message)] ELSE up

Invoke(r) ==
  /\ call[r] = "idle" /\ ws # 0 /\ state = "connected"
  /\ call' = [call EXCEPT ![r] = "open"] /\ pending' = pending \cup {r}
  /\ up' = Sent(ws, [t |-> "request", r |-> r])
  /\ UNCHANGED <<state, ws, attempts, retry, shake, fatal, disposed, got>>
  /\ UNCHANGED <<near, far, down, cut, serverVars, faults>>

InvokeRefused(r) ==
  /\ call[r] = "idle" /\ state # "idle"
  /\ ws = 0 \/ state # "connected"
  /\ call' = [call EXCEPT ![r] = "refused"]
  /\ UNCHANGED <<state, ws, attempts, retry, shake, fatal, disposed, pending, got>>
  /\ UNCHANGED <<linkVars, serverVars, faults>>

RequestTimeout(r) ==
  /\ r \in pending
  /\ pending' = pending \ {r} /\ call' = [call EXCEPT ![r] = "failed"]
  /\ UNCHANGED <<state, ws, attempts, retry, shake, fatal, disposed, got>>
  /\ UNCHANGED <<linkVars, serverVars, faults>>

Taken(c) == down' = [down EXCEPT ![c] = Tail(@)]

ReadAck(c) ==
  /\ Head(down[c]).t = "ack"
  /\ shake' = 0 /\ attempts' = 0 /\ state' = "connected"
  /\ UNCHANGED <<ws, retry, fatal, disposed, pending, call, got, near>>

(* Any message of type error ends the client for good. *)
ReadError(c) ==
  /\ Head(down[c]).t = "error"
  /\ fatal' = TRUE /\ retry' = FALSE /\ shake' = 0 /\ state' = "failed"
  /\ near' = [near EXCEPT ![c] = "closing"]
  /\ call' = AllFail /\ pending' = {}
  /\ UNCHANGED <<ws, attempts, disposed, got>>

ReadResponse(c) ==
  /\ Head(down[c]).t \in {"done", "threw"}
  /\ LET r == Head(down[c]).r
         outcome == IF Head(down[c]).t = "done" THEN "ok" ELSE "failed"
     IN /\ call' = IF r \in pending THEN [call EXCEPT ![r] = outcome] ELSE call
        /\ pending' = pending \ {r}
  /\ UNCHANGED <<state, ws, attempts, retry, shake, fatal, disposed, got, near>>

ReadEvent(c) ==
  /\ Head(down[c]).t = "event"
  /\ got' = [got EXCEPT ![c] = Append(@, Head(down[c]).n)]
  /\ UNCHANGED <<state, ws, attempts, retry, shake, fatal, disposed, pending, call, near>>

ClientReads(c) ==
  /\ near[c] = "open" /\ down[c] # <<>>
  /\ Taken(c)
  /\ ReadAck(c) \/ ReadError(c) \/ ReadResponse(c) \/ ReadEvent(c)
  /\ UNCHANGED <<far, up, cut, serverVars, faults>>

-----------------------------------------------------------------------------
(* The server.  What is sent to an end that is gone is lost. *)
Reaches(c) == far[c] = "open" /\ near[c] # "closed"
SafeSent(c, message) ==
  IF c # 0 /\ Reaches(c) THEN [down EXCEPT ![c] = Append(@, message)] ELSE down

ReadHandshakeEarly(c) ==
  /\ far[c] \in {"open", "closing"} /\ up[c] # <<>> /\ greeting[c] = "new"
  /\ up' = [up EXCEPT ![c] = Tail(@)]
  /\ greeting' = [greeting EXCEPT ![c] = "validating"]
  /\ clients' = clients \cup {c}
  /\ UNCHANGED <<clientVars, near, far, down, cut>>
  /\ UNCHANGED <<serving, job, ran, pushed, events, faults>>

ReadHandshake(c) ==
  /\ far[c] \in {"open", "closing"} /\ up[c] # <<>> /\ greeting[c] = "new"
  /\ up' = [up EXCEPT ![c] = Tail(@)]
  /\ greeting' = [greeting EXCEPT ![c] = "validating"]
  /\ UNCHANGED <<clientVars, near, far, down, cut>>
  /\ UNCHANGED <<serving, clients, job, ran, pushed, events, faults>>

Closed(c) == IF far[c] = "open" THEN [far EXCEPT ![c] = "closing"] ELSE far

Rejected(c) == [greeting EXCEPT ![c] = IF far[c] = "closed" THEN "new" ELSE "rejected"]

(* A wrong token or another version of the protocol. *)
Refuse(c) ==
  /\ greeting[c] = "validating"
  /\ greeting' = Rejected(c)
  /\ down' = SafeSent(c, [t |-> "error"])
  /\ far' = Closed(c)
  /\ UNCHANGED <<clientVars, near, up, cut>>
  /\ UNCHANGED <<serving, clients, job, ran, pushed, events, faults>>

(* Another workspace, or a validator that throws: closed without a word. *)
Deny(c) ==
  /\ greeting[c] = "validating"
  /\ greeting' = Rejected(c)
  /\ far' = Closed(c)
  /\ UNCHANGED <<clientVars, near, up, down, cut>>
  /\ UNCHANGED <<serving, clients, job, ran, pushed, events, faults>>

RegisterUnchecked(c) ==
  /\ greeting[c] = "validating"
  /\ greeting' = [greeting EXCEPT ![c] = "registered"]
  /\ clients' = clients \cup {c}
  /\ down' = SafeSent(c, [t |-> "ack"])
  /\ UNCHANGED <<clientVars, near, far, up, cut>>
  /\ UNCHANGED <<serving, job, ran, pushed, events, faults>>

(* The connection may have gone while the token was validated. *)
Register(c) ==
  /\ greeting[c] = "validating"
  /\ IF far[c] # "open"
     THEN /\ greeting' = Rejected(c)
          /\ UNCHANGED <<clients, down>>
     ELSE /\ greeting' = [greeting EXCEPT ![c] = "registered"]
          /\ clients' = clients \cup {c}
          /\ down' = SafeSent(c, [t |-> "ack"])
  /\ UNCHANGED <<clientVars, near, far, up, cut>>
  /\ UNCHANGED <<serving, job, ran, pushed, events, faults>>

(* deadline is cleared only when the connection closes or is registered. *)
HandshakeDeadline(c) ==
  /\ far[c] \in {"open", "closing"} /\ greeting[c] # "registered" /\ ~cut[c]
  /\ far' = [far EXCEPT ![c] = "closing"] /\ cut' = [cut EXCEPT ![c] = TRUE]
  /\ UNCHANGED <<clientVars, near, up, down, serverVars, faults>>

ServerClosed(c) ==
  /\ far[c] \in {"open", "closing"}
  /\ cut[c] \/ near[c] = "closed" \/ (near[c] = "closing" /\ up[c] = <<>>)
  /\ far' = [far EXCEPT ![c] = "closed"] /\ cut' = [cut EXCEPT ![c] = FALSE]
  /\ greeting' = IF greeting[c] = "validating" THEN greeting ELSE [greeting EXCEPT ![c] = "new"]
  /\ up' = [up EXCEPT ![c] = <<>>]
  /\ clients' = clients \ {c}
  /\ job' = [r \in Requests |-> IF job[r] = c THEN 0 ELSE job[r]]
  /\ UNCHANGED <<clientVars, near, down>>
  /\ UNCHANGED <<serving, ran, pushed, events, faults>>

Request(c) == Head(up[c]).r
ReadsRequest(c) ==
  /\ far[c] \in {"open", "closing"} /\ up[c] # <<>> /\ greeting[c] = "registered"
  /\ up' = [up EXCEPT ![c] = Tail(@)]
  /\ UNCHANGED <<clientVars, near, far, cut>>
  /\ UNCHANGED <<serving, greeting, clients, pushed, events, faults>>

(* After stop() the connection has no entry, and nothing is answered. *)
DropRequest(c) == ReadsRequest(c) /\ c \notin clients /\ UNCHANGED <<down, job, ran>>

(* No handler for the channel, or not the workspace of the connection. *)
RejectRequest(c) ==
  /\ ReadsRequest(c) /\ c \in clients
  /\ down' = SafeSent(c, [t |-> "threw", r |-> Request(c)])
  /\ UNCHANGED <<job, ran>>

StartHandler(c) ==
  /\ ReadsRequest(c) /\ c \in clients
  /\ job' = [job EXCEPT ![Request(c)] = c]
  /\ ran' = [ran EXCEPT ![Request(c)] = "running"]
  /\ UNCHANGED down

HandlerEnds(r) ==
  /\ ran[r] = "running"
  /\ \E result \in {"done", "threw"} :
       /\ ran' = [ran EXCEPT ![r] = result]
       /\ down' = SafeSent(job[r], [t |-> result, r |-> r])
  /\ job' = [job EXCEPT ![r] = 0]
  /\ UNCHANGED <<clientVars, near, far, up, cut>>
  /\ UNCHANGED <<serving, greeting, clients, pushed, events, faults>>

Broadcast ==
  /\ events < MaxEvents /\ clients # {}
  /\ LET to == {c \in clients : Reaches(c)}
         event == [t |-> "event", n |-> events + 1]
     IN /\ down' = [c \in Conns |-> IF c \in to THEN Append(down[c], event) ELSE down[c]]
        /\ pushed' = [c \in Conns |-> IF c \in to THEN Append(pushed[c], events + 1) ELSE pushed[c]]
  /\ events' = events + 1
  /\ UNCHANGED <<clientVars, near, far, up, cut>>
  /\ UNCHANGED <<serving, greeting, clients, job, ran, faults>>

Stop ==
  /\ serving /\ faults < MaxFaults
  /\ serving' = FALSE /\ clients' = {}
  /\ far' = [c \in Conns |-> IF far[c] = "open" THEN "closing" ELSE far[c]]
  /\ cut' = [c \in Conns |-> cut[c] \/ far[c] \in {"open", "closing"}]
  /\ faults' = faults + 1
  /\ UNCHANGED <<clientVars, near, up, down, greeting, job, ran, pushed, events>>

StartServer ==
  /\ ~serving /\ serving' = TRUE
  /\ UNCHANGED <<clientVars, linkVars, greeting, clients, job, ran, pushed, events, faults>>

Break(c) ==
  /\ far[c] \in {"open", "closing"} /\ ~cut[c] /\ faults < MaxFaults
  /\ cut' = [cut EXCEPT ![c] = TRUE]
  /\ faults' = faults + 1
  /\ UNCHANGED <<clientVars, near, far, up, down, serverVars>>

Next ==
  \/ FirstConnect \/ HandshakeTimeout \/ ReconnectTimer \/ Disconnect
  \/ \E r \in Requests : Invoke(r) \/ InvokeRefused(r) \/ RequestTimeout(r) \/ HandlerEnds(r)
  \/ \E c \in Conns :
       \/ Open(c) \/ ClientClosed(c) \/ ClientReads(c)
       \/ ReadHandshake(c) \/ Refuse(c) \/ Deny(c) \/ Register(c) \/ HandshakeDeadline(c)
       \/ ServerClosed(c) \/ DropRequest(c) \/ RejectRequest(c) \/ StartHandler(c) \/ Break(c)
  \/ Broadcast \/ Stop \/ StartServer

Spec == Init /\ [][Next]_vars

(* Timers fire, the platform reports that a connection opened or closed,   *)
(* both sides read what has arrived, and the token validator answers.      *)
(* Handlers may run for ever, and nothing restarts a stopped server.       *)
FairSpec ==
  /\ Spec
  /\ WF_vars(HandshakeTimeout) /\ WF_vars(ReconnectTimer)
  /\ \A r \in Requests : WF_vars(RequestTimeout(r))
  /\ \A c \in Conns :
       /\ WF_vars(Open(c)) /\ WF_vars(ClientClosed(c)) /\ WF_vars(ClientReads(c))
       /\ WF_vars(ReadHandshake(c)) /\ WF_vars(Refuse(c) \/ Deny(c) \/ Register(c))
       /\ WF_vars(HandshakeDeadline(c)) /\ WF_vars(ServerClosed(c))
       /\ WF_vars(DropRequest(c) \/ RejectRequest(c) \/ StartHandler(c))

-----------------------------------------------------------------------------
(* The calls of the client and the handlers of the server implement        *)
(* RemoteCalls, whatever breaks, stops or comes late: no request runs      *)
(* twice (nothing is sent again on a new connection), no call succeeds     *)
(* unless its own handler ended well, and every call is settled, though    *)
(* its handler may hang and its answer may be lost.                        *)
Calls == INSTANCE RemoteCalls
ActsAsCalls == Calls!Spec

(* Both sides agree on who is connected.  An entry of clients belongs to   *)
(* a connection whose close has not been handled yet, however late its     *)
(* token was validated; and a client that shows connected is registered,   *)
(* or the server has given its end up and the client was not told yet.     *)
NoGhostClients == \A c \in clients : serving /\ far[c] \in {"open", "closing"}
ConnectedIsTrue ==
  state = "connected" => ws # 0 /\ (ws \in clients \/ far[ws] # "open")
ViewsAgree == NoGhostClients /\ ConnectedIsTrue

(* On one connection the listeners see the events in the order of the      *)
(* broadcasts, without a gap and only once connected: what was pushed is   *)
(* what they have seen followed by what is under way.                      *)
EventsUpTo(messages, i) == Cardinality({j \in 1 .. i : messages[j].t = "event"})
InOrder(seen, messages, sent) ==
  /\ Len(sent) = Len(seen) + EventsUpTo(messages, Len(messages))
  /\ \A i \in 1 .. Len(seen) : seen[i] = sent[i]
  /\ \A i \in 1 .. Len(messages) :
       messages[i].t = "event" =>
         messages[i].n = sent[Len(seen) + EventsUpTo(messages, i)]
EventsInOrder ==
  \A c \in Conns : near[c] = "open" =>
    /\ InOrder(got[c], down[c], pushed[c])
    /\ got[c] # <<>> => state = "connected"

(* When the breaks and stops are over the client does not stay between     *)
(* states: it ends connected, or says that it failed or was disconnected,  *)
(* whatever the server answers or does not answer to its handshakes.       *)
ClientSettles == state \in {"connecting", "reconnecting"} ~> state \in {"connected", "failed", "disconnected"}
=============================================================================
