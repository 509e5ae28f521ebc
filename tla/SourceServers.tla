--------------------------- MODULE SourceServers ---------------------------
(***************************************************************************)
(* What is made of the sources of a workspace: the configurations of MCP   *)
(* servers (buildMcpServer, buildAllMcpServers), the request of the one    *)
(* tool of an API source (prepareAuth, createApiToolExecutor), and the     *)
(* skills that have all the sources they need.  Headers and parameters are *)
(* functions from names to the one who set them: "static" (the             *)
(* configuration), "vault", "token", "call".                               *)
(***************************************************************************)
EXTENDS Naturals, Sequences

Names == {"Authorization", "X-Key"}
NoServer == [type |-> "none"]
Thrown == [type |-> "thrown"]
SetBy(names, who) == [name \in names |-> who]
NoHeaders == SetBy({}, "nobody")
(* What is spread first gives way: { ...under, ...over }.                  *)
Over(over, under) ==
  [name \in DOMAIN over \cup DOMAIN under |-> IF name \in DOMAIN over THEN over[name] ELSE under[name]]

(* An MCP source and what the caller found in the vault for it: a token,   *)
(* and a credential, which may be a set of secret headers.  Its address is *)
(* the URL, or the command, that its transport needs; new URL() throws if  *)
(* a URL is malformed.                                                     *)
McpSources ==
  [type : {"mcp", "api"}, enabled : BOOLEAN, isAuthenticated : BOOLEAN,
   transport : {"http", "sse", "stdio"}, address : {"none", "good", "malformed"},
   authType : {"none", "bearer"}, headers : SUBSET Names,
   token : BOOLEAN, credential : {"none", "other", "headers"}, secrets : SUBSET Names]

(* isMultiHeaderCredential *)
Secrets(source) == IF source.credential = "headers" THEN source.secrets ELSE {}

NeedsToken(source) == source.authType = "bearer"

TokenHeader(source) ==
  IF NeedsToken(source) /\ source.token THEN SetBy({"Authorization"}, "token") ELSE NoHeaders

(* Variant with a fault: the headers of the vault come last.               *)
MergedHeadersVaultLast(source) ==
  Over(SetBy(Secrets(source), "vault"), Over(TokenHeader(source), SetBy(source.headers, "static")))

MergedHeaders(source) ==
  Over(TokenHeader(source), Over(SetBy(Secrets(source), "vault"), SetBy(source.headers, "static")))

BuildMcpServer(source) ==
  IF source.type # "mcp" \/ source.address = "none" THEN NoServer
  ELSE IF source.transport = "stdio" THEN [type |-> "stdio"]
  ELSE IF source.address = "malformed" THEN Thrown
  ELSE IF NeedsToken(source) /\ ~source.token /\ source.isAuthenticated THEN NoServer
  ELSE [type |-> IF source.transport = "sse" THEN "sse" ELSE "http",
        headers |-> MergedHeaders(source)]

(* buildAllMcpServers: the numbers of the sources with a server and with   *)
(* an error.  Nothing catches what one of them throws.                     *)
Looked(sources) == {n \in DOMAIN sources : sources[n].type = "mcp" /\ sources[n].enabled}
BuildAllMcpServers(sources) ==
  IF \E n \in Looked(sources) : BuildMcpServer(sources[n]) = Thrown THEN Thrown
  ELSE [type |-> "built",
        servers |-> {n \in Looked(sources) : BuildMcpServer(sources[n]) # NoServer},
        errors |-> {n \in Looked(sources) : BuildMcpServer(sources[n]) = NoServer}]

-----------------------------------------------------------------------------
Param == "key"   \* auth.queryParam; a call may have a parameter of this name
ApiCalls ==
  [auth : {"none", "bearer", "header", "query", "basic"}, headerName : BOOLEAN,
   queryParam : BOOLEAN, defaults : SUBSET Names, credential : {"none", "text", "pair"},
   getter : {"none", "token", "empty", "fails"}, params : SUBSET {Param, "q"}]

Token(call) == call.getter = "token" \/ (call.getter = "none" /\ call.credential = "text")
AuthHeader(call) ==
  IF call.auth = "bearer" /\ Token(call) THEN SetBy({"Authorization"}, "token")
  ELSE IF call.auth = "header" /\ Token(call) /\ call.headerName THEN SetBy({"X-Key"}, "token")
  ELSE IF call.auth = "basic" /\ call.credential = "pair" THEN SetBy({"Authorization"}, "token")
  ELSE NoHeaders
AuthParam(call) ==
  IF call.auth = "query" /\ Token(call) /\ call.queryParam THEN SetBy({Param}, "token") ELSE NoHeaders

(* The executor: a getter that fails ends in an error, without a request.  *)
Fails(call) == call.auth # "none" /\ call.getter = "fails"
Request(call) ==
  [headers |-> Over(AuthHeader(call), SetBy(call.defaults, "static")),
   params |-> Over(SetBy(call.params, "call"), AuthParam(call))]

-----------------------------------------------------------------------------
MissingRequiredSources(required, enabled) == required \ enabled
(* loadSkillIfSourcesReady, for skills as functions from their slugs.      *)
Ready(skills, enabled) ==
  {slug \in DOMAIN skills : MissingRequiredSources(skills[slug], enabled) = {}}

-----------------------------------------------------------------------------
(* A source that claims to be authenticated is not connected without its   *)
(* token; a token goes before a secret of the vault and that before the    *)
(* configuration, and nothing that was set is lost (buildMcpServer).       *)
ServerIsSound(source) ==
  LET server == BuildMcpServer(source)
      authorized == NeedsToken(source) /\ source.token
  IN server.type \in {"http", "sse"} =>
       /\ source.isAuthenticated => authorized \/ source.authType = "none"
       /\ authorized => server.headers["Authorization"] = "token"
       /\ \A name \in Secrets(source) : server.headers[name] # "static"
       /\ source.headers \cup Secrets(source) \subseteq DOMAIN server.headers

(* One enabled source with a malformed URL leaves every source without a   *)
(* server, and nothing else does: a source that is disabled, or has no     *)
(* address or token, does no harm to the others, and each enabled MCP      *)
(* source then has a server or an error, never both (buildAllMcpServers).  *)
BuildIsSound(sources) ==
  LET built == BuildAllMcpServers(sources)
      On(n) == sources[n].type = "mcp" /\ sources[n].enabled
  IN /\ built = Thrown <=>
          \E n \in DOMAIN sources :
            On(n) /\ sources[n].transport \in {"http", "sse"} /\ sources[n].address = "malformed"
     /\ built # Thrown =>
          /\ built.servers \cap built.errors = {}
          /\ built.servers \cup built.errors = {n \in DOMAIN sources : On(n)}
          /\ \A n \in built.servers : sources[n].address # "none"

ServersAreSound(source) ==
  /\ ServerIsSound(source)
  /\ BuildIsSound(<<[source EXCEPT !.address = "good"], source, [source EXCEPT !.enabled = FALSE],
                    [source EXCEPT !.enabled = TRUE, !.token = FALSE]>>)

(* A request carries its secret once, if there is one for the kind of      *)
(* authentication, whatever the default headers say, unless the call names *)
(* that parameter itself; and every default header and parameter.          *)
RequestsAreSound(call) ==
  LET request == Request(call)
      carried == {name \in DOMAIN request.headers : request.headers[name] = "token"}
                 \cup {name \in DOMAIN request.params : request.params[name] = "token"}
  IN ~Fails(call) =>
       /\ call.defaults \subseteq DOMAIN request.headers
       /\ \A name \in call.params : request.params[name] = "call"
       /\ call.auth = "none" => carried = {}
       /\ call.auth = "bearer" /\ Token(call) => carried = {"Authorization"}
       /\ call.auth = "basic" /\ call.credential = "pair" => carried = {"Authorization"}
       /\ call.auth = "header" => carried = (IF Token(call) /\ call.headerName THEN {"X-Key"} ELSE {})
       /\ call.auth = "query" /\ Token(call) /\ call.queryParam =>
            carried = {Param} \ call.params
=============================================================================
