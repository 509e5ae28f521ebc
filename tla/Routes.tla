------------------------------- MODULE Routes -------------------------------
(***************************************************************************)
(* Which server a method of the interface (CHANNEL_MAP) reaches, from whom *)
(* its events come, and what the interface says of its connections, in the *)
(* three ways in which it is put together: one client of the local server, *)
(* one of the local and one of the workspace's, one of a remote server.    *)
(***************************************************************************)
EXTENDS Naturals

Channels ==
  {"server:getStatus", "server:getWorkspaces",
   "sessions:get", "sessions:create", "sessions:delete", "sessions:archive", "sessions:flag",
   "sessions:getMessages", "sessions:sendMessage", "sessions:cancel", "sessions:setModel",
   "sessions:getModel", "sessions:respondToPermission", "sessions:retryLast", "session:event",
   "workspaces:get", "workspaces:create", "workspaces:getDefaults",
   "workspaces:setWorkingDirectory", "sources:list", "sources:create", "sources:delete",
   "sources:setCredential", "sources:getTools", "sources:changed",
   "files:list", "files:read", "files:write", "dialog:openFile",
   "system:getVersions", "system:openExternal"}

LocalOnly == {"dialog:openFile", "system:getVersions", "system:openExternal"}
RemoteEligible ==
  {"server:getStatus", "server:getWorkspaces",
   "sessions:get", "sessions:create", "sessions:delete", "sessions:archive", "sessions:flag",
   "sessions:getMessages", "sessions:sendMessage", "sessions:cancel", "sessions:setModel",
   "sessions:getModel", "sessions:respondToPermission", "sessions:retryLast", "session:event",
   "workspaces:get", "workspaces:create", "workspaces:getDefaults",
   "workspaces:setWorkingDirectory", "sources:list", "sources:create", "sources:delete",
   "sources:setCredential", "sources:getTools", "sources:changed",
   "files:list", "files:read", "files:write"}

Invokes ==
  [getStatus |-> "server:getStatus", getWorkspaces |-> "server:getWorkspaces",
   getSessions |-> "sessions:get", getSessionMessages |-> "sessions:getMessages",
   createSession |-> "sessions:create", deleteSession |-> "sessions:delete",
   archiveSession |-> "sessions:archive", flagSession |-> "sessions:flag",
   sendMessage |-> "sessions:sendMessage", cancelProcessing |-> "sessions:cancel",
   retryLast |-> "sessions:retryLast", respondToPermission |-> "sessions:respondToPermission",
   setModel |-> "sessions:setModel", getModel |-> "sessions:getModel",
   getSources |-> "sources:list", createSource |-> "sources:create",
   deleteSource |-> "sources:delete", setSourceCredential |-> "sources:setCredential",
   getSourceTools |-> "sources:getTools", listFiles |-> "files:list",
   readFile |-> "files:read", writeFile |-> "files:write",
   openFileDialog |-> "dialog:openFile", openExternal |-> "system:openExternal"]
Listens == [onSessionEvent |-> "session:event", onSourcesChanged |-> "sources:changed"]

(* registerHandlers, which every server runs: none for dialog and system.  *)
Handled ==
  {"server:getStatus", "server:getWorkspaces", "sessions:get", "sessions:create",
   "sessions:getMessages", "sessions:sendMessage", "sessions:cancel", "sessions:delete",
   "sessions:archive", "sessions:flag", "sessions:getModel", "sessions:setModel",
   "sessions:respondToPermission", "sources:list", "files:list", "files:read", "files:write"}
(* The methods that no server answers.                                     *)
Unanswered ==
  {"retryLast", "createSource", "deleteSource", "setSourceCredential", "getSourceTools",
   "openFileDialog", "openExternal"}

-----------------------------------------------------------------------------
Modes == {"local", "split", "thin"}
(* bootstrapClientApi, bootstrapThinClientApi: the servers it has clients of. *)
Servers(mode) ==
  IF mode = "split" THEN {"local", "remote"} ELSE IF mode = "thin" THEN {"remote"} ELSE {"local"}

(* Variant with a fault: what a listener hears is looked for at home.      *)
RouteForAtHome(mode, channel) ==
  IF mode # "split" THEN CHOOSE s \in Servers(mode) : TRUE
  ELSE IF channel \in LocalOnly \/ channel \in {Listens[l] : l \in DOMAIN Listens}
       THEN "local" ELSE "remote"

(* RoutedClient.routeFor; a single client gets everything.                 *)
RouteFor(mode, channel) ==
  IF mode # "split" THEN CHOOSE s \in Servers(mode) : TRUE
  ELSE IF channel \in LocalOnly THEN "local" ELSE "remote"

States == {"idle", "connecting", "connected", "reconnecting", "disconnected", "failed"}
(* withLifecycle: the state of the interface and what it is told when one  *)
(* client changes.                                                         *)
State(mode, states) ==
  IF \A s \in Servers(mode) : states[s] = "connected" THEN "connected"
  ELSE IF "local" \in Servers(mode) /\ states["local"] # "connected" THEN states["local"]
  ELSE states["remote"]

-----------------------------------------------------------------------------
(* Every channel is in one of the two sets; every method goes to a server  *)
(* that there is, and all but those of Unanswered are handled there; none  *)
(* that is only for this computer leaves it while there is a server here;  *)
(* what a session does is heard on the connection on which it is told to   *)
(* do it; and the interface is connected exactly if every method's         *)
(* connection is.                                                          *)
RoutesMeet(mode, states) ==
  /\ LocalOnly \cap RemoteEligible = {} /\ LocalOnly \cup RemoteEligible = Channels
  /\ Handled \subseteq Channels /\ {Listens[l] : l \in DOMAIN Listens} \cap Handled = {}
  /\ \A method \in DOMAIN Invokes :
       /\ Invokes[method] \in Channels
       /\ Invokes[method] \in Handled <=> method \notin Unanswered
       /\ RouteFor(mode, Invokes[method]) \in Servers(mode)
       /\ mode # "thin" /\ Invokes[method] \in LocalOnly =>
            RouteFor(mode, Invokes[method]) = "local"
  /\ \A command \in {"sendMessage", "cancelProcessing", "respondToPermission", "getSessionMessages"} :
       /\ Invokes[command] \in Handled
       /\ RouteFor(mode, Invokes[command]) = RouteFor(mode, Listens["onSessionEvent"])
  /\ State(mode, states) = "connected" <=>
       \A method \in DOMAIN Invokes : states[RouteFor(mode, Invokes[method])] = "connected"
=============================================================================
