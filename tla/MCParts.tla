------------------------------ MODULE MCParts ------------------------------
(* Parts that share no state, on small instances.  The first state says    *)
(* which one it is about: a part that moves (the credentials, the MCP      *)
(* pool, the words of the models, the folder of a workspace), or one of    *)
(* the functions of the program and an input for it.                       *)
EXTENDS CredentialVault, McpPool, ModelTurns, WorkspaceFolder

CONSTANTS MaxFull, Truncated, MaxCharacters, Addresses, MaxHops, MaxPage, FileNames, MaxDepth

(* The limits are numbers, and no file has one of the names that stand for *)
(* another directory or for what a path may not contain.                   *)
ASSUME LimitsAssumption ==
  /\ {MaxFull, Truncated, MaxCharacters, MaxHops, MaxPage, MaxDepth} \subseteq Nat
  /\ Truncated <= MaxFull /\ {"..", "odd"} \cap FileNames = {}

VARIABLES part, input

Preview == INSTANCE TextPreview
Wire == INSTANCE Envelopes
Web == INSTANCE PublicPage
Files == INSTANCE SessionFiles WITH Names <- FileNames
Keys == INSTANCE Providers
Servers == INSTANCE SourceServers
Routing == INSTANCE Routes

choice == <<part, input>>

(* Names of slugs and tools that meet in one string: a, b__c and a__b, c.  *)
NamesOfSlugs == {<<"a">>, <<"a", "_", "_", "b">>}
NamesOfTools == {<<"c">>, <<"b", "_", "_", "c">>}

-----------------------------------------------------------------------------
(* The inputs *)

UpTo(n, values) == UNION {[1..k -> values] : k \in 0..n}
ShortTexts == UpTo(5, 1..4)
Conversations == UpTo(3, [type : {"user", "tool", "status"}, length : 0..3])
Atoms == {Wire!Text("u8"), Wire!Text("data"), Wire!Undefined, Wire!Bytes("data")}
Containers ==
  {Wire!List(f) : f \in UNION {[places -> Atoms] : places \in {{}, {"first"}, {"first", "second"}}}}
  \cup {Wire!Object(f) : f \in UNION {[keys -> Atoms] : keys \in SUBSET {Wire!Tag, Wire!Base64}}}
Nested ==
  {Wire!List([first |-> v, second |-> v]) : v \in Containers}
  \cup {Wire!Object([k \in {"x", Wire!Tag} |-> IF k = "x" THEN v ELSE Wire!Text("u8")]) :
          v \in Containers}
(* From one address at least a redirect leads on. *)
Webs == {web \in [Addresses -> Web!Answers] : web["p1"].is = "redirect"}
Connections == [{"local", "remote"} -> Routing!States]

Inputs ==
  [preview |-> ShortTexts, history |-> Conversations, wire |-> Atoms \cup Containers \cup Nested,
   page |-> Webs, search |-> UpTo(3, Web!Payloads), files |-> Files!Trees,
   keys |-> Keys!Environments, servers |-> Servers!McpSources, requests |-> Servers!ApiCalls,
   routes |-> Connections]

Init ==
  /\ \/ part \in {"vault", "pool", "words", "folder"} /\ input = "none"
     \/ \E name \in DOMAIN Inputs : part = name /\ input \in Inputs[name]
  /\ VaultInit /\ PoolInit /\ TurnsInit /\ FolderInit
  /\ part # "vault" => machine = CHOOSE m \in Machines : TRUE
  /\ part # "pool" => slugName = CHOOSE f \in [Slugs -> SlugNames] : TRUE
  /\ part # "pool" => toolName = CHOOSE f \in [Tools -> ToolNames] : TRUE
  /\ part # "words" => backend = "pi"
  /\ part # "folder" => place = CHOOSE r \in Roots : TRUE
Next ==
  \/ part = "vault" /\ VaultNext /\ UNCHANGED <<choice, poolVars, turnVars, folderVars>>
  \/ part = "pool" /\ PoolNext /\ UNCHANGED <<choice, vaultVars, turnVars, folderVars>>
  \/ part = "words" /\ TurnsNext /\ UNCHANGED <<choice, vaultVars, poolVars, folderVars>>
  \/ part = "folder" /\ FolderNext /\ UNCHANGED <<choice, vaultVars, poolVars, turnVars>>

Spec == Init /\ [][Next]_<<choice, vaultVars, poolVars, turnVars, folderVars>>

-----------------------------------------------------------------------------
(* What is cut, encoded, quoted, fetched or written arrives as it was, as  *)
(* far as its module says (truncateToValidUtf8, the codec of the messages, *)
(* restoreTextHistory, fetchPublicPage, parseSearchResponse and the        *)
(* handlers of the files).                                                 *)
ConversionsAreExact ==
  /\ part = "preview" => Preview!PreviewIsWhole(input)
  /\ part = "history" => \A max \in 1..MaxCharacters : History!HistoryIsNewest(input, max)
  /\ part = "wire" => Wire!EnvelopesArrive(input)
  /\ part = "page" => \A address \in Addresses : Web!PageIsReached(input, address)
  /\ part = "search" => Web!SearchIsFound(input)
  /\ part = "files" => \A sub \in Files!SubPaths : Files!FilesAreOwn(input, sub)

(* The configuration of a session's backend, of the servers of its         *)
(* sources, of their requests and of the routes to the servers holds       *)
(* together (resolveProviderConfig and the handlers, SourceServerBuilder,  *)
(* prepareAuth, RoutedClient and withLifecycle).                           *)
ConfigurationsFit ==
  /\ part = "keys" => Keys!KeysFitSessions(input)
  /\ part = "servers" => Servers!ServersAreSound(input)
  /\ part = "requests" => Servers!RequestsAreSound(input)
  /\ part = "routes" => \A mode \in Routing!Modes : Routing!RoutesMeet(mode, input)
=============================================================================
