------------------------------ MODULE McpPool ------------------------------
(***************************************************************************)
(* The pool of MCP clients (McpClientPool): connects and disconnects of    *)
(* sources that overlap at their awaits, servers that fail while they are  *)
(* asked for their tools, and the names under which backends call them.    *)
(***************************************************************************)
EXTENDS Naturals, Sequences, FiniteSets

CONSTANTS
  Slugs,      \* sources
  Tools,      \* tools that their servers may offer
  SlugNames,  \* what sanitizing may leave of a slug, as sequences of characters
  ToolNames,  \* and of the name of a tool
  MaxUsers,   \* bound on the calls of connect and disconnect
  MaxClients  \* bound on the clients made

ASSUME PoolAssumption ==
  "none" \notin Slugs /\ IsFiniteSet(Tools) /\ MaxUsers \in Nat /\ MaxClients \in Nat

NoClient == 0
Clients == 1..MaxClients
Users == 1..MaxUsers
NoTool == [slug |-> "none", tool |-> "none"]

VARIABLES
  slugName, toolName, \* what sanitizing leaves of a slug and of a tool's name
  clients,    \* PoolEntry of each slug: [client, tools]
  proxyTools, \* the mapping of each proxy name
  user,       \* [pc, slug, client] of each call
  open,       \* clients whose connection is open
  made,       \* number of clients made
  call,       \* a callTool: [pc, name, slug, tool, client]
  overlapped, \* history: sources with two calls under way at a time
  dropped     \* history: clients whose server did not list its tools

poolVars == <<slugName, toolName, clients, proxyTools, user, open, made, call, overlapped, dropped>>

NoEntry == [client |-> NoClient, tools |-> {}]
Idle == [pc |-> "new", slug |-> "none", client |-> NoClient]
NoCall == [pc |-> "new", name |-> <<>>, slug |-> "none", tool |-> "none", client |-> NoClient]

(* proxyToolName: one string, so different names may become the same by    *)
(* sanitizing, or by where the slug ends and the tool's name begins.       *)
Separator == <<"_", "_">>
ProxyName(s, t) == slugName[s] \o Separator \o toolName[t]
Names == {ProxyName(s, t) : s \in Slugs, t \in Tools}
Connected(s) == clients[s].client # NoClient
Under(s) == {u \in Users : user[u].slug = s /\ user[u].pc \in {"connecting", "listing", "closing"}}

PoolInit ==
  /\ slugName \in [Slugs -> SlugNames] /\ toolName \in [Tools -> ToolNames]
  /\ clients = [s \in Slugs |-> NoEntry]
  /\ proxyTools = [n \in Names |-> NoTool]
  /\ user = [u \in Users |-> Idle]
  /\ open = {} /\ made = 0 /\ call = NoCall
  /\ overlapped = {} /\ dropped = {}

Enter(u, s, pc, c) ==
  /\ user[u].pc = "new" /\ \A v \in 1..(u - 1) : user[v].pc # "new"
  /\ user' = [user EXCEPT ![u] = [pc |-> pc, slug |-> s, client |-> c]]
  /\ overlapped' = IF Under(s) # {} THEN overlapped \cup {s} ELSE overlapped

(* connect *)
ConnectKnown(u, s) ==
  /\ Connected(s) /\ Enter(u, s, "done", NoClient)
  /\ UNCHANGED <<slugName, toolName, clients, proxyTools, open, made, call, dropped>>
Connect(u, s) ==
  /\ ~Connected(s) /\ made < MaxClients
  /\ made' = made + 1 /\ Enter(u, s, "connecting", made + 1)
  /\ UNCHANGED <<slugName, toolName, clients, proxyTools, open, call, dropped>>

At(u, pc) == user[u].pc = pc
To(u, pc) == user' = [user EXCEPT ![u].pc = pc]

Opened(u) ==
  /\ At(u, "connecting") /\ To(u, "listing") /\ open' = open \cup {user[u].client}
  /\ UNCHANGED <<slugName, toolName, clients, proxyTools, made, call, overlapped, dropped>>
NotOpened(u) ==
  /\ At(u, "connecting") /\ To(u, "failed")
  /\ UNCHANGED <<slugName, toolName, clients, proxyTools, open, made, call, overlapped, dropped>>

(* Of two tools of one source with the same proxy name the one that is     *)
(* registered first keeps it; the same tool of another source takes it.    *)
Registered(s, tools, order) ==
  [n \in DOMAIN proxyTools |->
     LET mine == {t \in tools : ProxyName(s, t) = n}
         first == CHOOSE t \in mine : \A r \in mine : order[t] <= order[r]
         old == proxyTools[n]
     IN IF mine = {} THEN old
        ELSE IF old = NoTool THEN [slug |-> s, tool |-> first]
        ELSE IF old.tool \in mine THEN [slug |-> s, tool |-> old.tool]
        ELSE old]

Listed(u, tools) ==
  LET s == user[u].slug
  IN /\ At(u, "listing") /\ To(u, "done")
     /\ clients' = [clients EXCEPT ![s] = [client |-> user[u].client, tools |-> tools]]
     /\ \E order \in {o \in [Tools -> 1..Cardinality(Tools)] :
                        \A t, r \in Tools : o[t] = o[r] => t = r} :
          proxyTools' = Registered(s, tools, order)
     /\ UNCHANGED <<slugName, toolName, open, made, call, overlapped, dropped>>
NotListed(u) ==
  /\ At(u, "listing") /\ To(u, "failed") /\ dropped' = dropped \cup {user[u].client}
  /\ UNCHANGED <<slugName, toolName, clients, proxyTools, open, made, call, overlapped>>

(* disconnect *)
DisconnectUnknown(u, s) ==
  /\ ~Connected(s) /\ Enter(u, s, "done", NoClient)
  /\ UNCHANGED <<slugName, toolName, clients, proxyTools, open, made, call, dropped>>
Disconnect(u, s) ==
  /\ Connected(s) /\ Enter(u, s, "closing", clients[s].client)
  /\ UNCHANGED <<slugName, toolName, clients, proxyTools, open, made, call, dropped>>

(* Variant with a fault: the names of the source stay.                     *)
ClosedOnly(u) ==
  /\ At(u, "closing") /\ To(u, "done") /\ open' = open \ {user[u].client}
  /\ clients' = [clients EXCEPT ![user[u].slug] = NoEntry]
  /\ UNCHANGED <<slugName, toolName, proxyTools, made, call, overlapped, dropped>>

(* The entry and the names are removed, whatever the entry is by then.     *)
Closed(u) ==
  LET s == user[u].slug
  IN /\ At(u, "closing") /\ To(u, "done") /\ open' = open \ {user[u].client}
     /\ clients' = [clients EXCEPT ![s] = NoEntry]
     /\ proxyTools' = [n \in DOMAIN proxyTools |->
                         IF proxyTools[n].slug = s THEN NoTool ELSE proxyTools[n]]
     /\ UNCHANGED <<slugName, toolName, made, call, overlapped, dropped>>

(* callTool *)
Refused(why, n) == [pc |-> why, name |-> n, slug |-> "none", tool |-> "none", client |-> NoClient]
CallTool(n) ==
  LET to == proxyTools[n]
  IN /\ call.pc # "sent"
     /\ call' = IF to = NoTool THEN Refused("unknown", n)
                ELSE IF ~Connected(to.slug) THEN Refused("unconnected", n)
                ELSE [pc |-> "sent", name |-> n, slug |-> to.slug, tool |-> to.tool,
                      client |-> clients[to.slug].client]
     /\ UNCHANGED <<slugName, toolName, clients, proxyTools, user, open, made, overlapped, dropped>>
Answered ==
  /\ call.pc = "sent"
  /\ call' = [call EXCEPT !.pc = IF call.client \in open THEN "answered" ELSE "failed"]
  /\ UNCHANGED <<slugName, toolName, clients, proxyTools, user, open, made, overlapped, dropped>>

PoolNext ==
  \/ \E u \in Users :
       \/ \E s \in Slugs : ConnectKnown(u, s) \/ Connect(u, s)
                           \/ DisconnectUnknown(u, s) \/ Disconnect(u, s)
       \/ Opened(u) \/ NotOpened(u) \/ NotListed(u) \/ Closed(u)
       \/ \E tools \in SUBSET Tools : Listed(u, tools)
  \/ \E n \in Names : CallTool(n)
  \/ Answered

PoolSpec == PoolInit /\ [][PoolNext]_poolVars

-----------------------------------------------------------------------------
(* getProxyToolDefs offers the tools of the connected sources.             *)
Offered(s) == {ProxyName(s, t) : t \in clients[s].tools}
Own(s, n) == \A r \in Slugs \ {s}, t \in Tools : ProxyName(r, t) # n
Pooled == {clients[s].client : s \in Slugs}
Coming(c) == \E u \in Users : user[u].client = c /\ user[u].pc \in {"connecting", "listing"}

(* What a backend is offered it can call, and it reaches the source that   *)
(* offered it: every name leads to a connected source with that name; no   *)
(* call finds its source gone; every name a source offers leads to that    *)
(* source, unless a tool of another source has that name too or the calls  *)
(* of the source overlapped; and no connection is forgotten open, unless   *)
(* the calls of its source overlapped or its server did not list its tools. *)
PoolIsExact ==
  /\ \A n \in DOMAIN proxyTools : proxyTools[n] # NoTool =>
       Connected(proxyTools[n].slug) /\ ProxyName(proxyTools[n].slug, proxyTools[n].tool) = n
  /\ call.pc # "unconnected"
  /\ \A s \in Slugs \ overlapped : \A n \in Offered(s) : Own(s, n) =>
       proxyTools[n].slug = s /\ proxyTools[n].tool \in clients[s].tools
  /\ \A c \in open : c \in Pooled \/ Coming(c) \/ c \in dropped
       \/ \E u \in Users : user[u].client = c /\ user[u].slug \in overlapped
=============================================================================
