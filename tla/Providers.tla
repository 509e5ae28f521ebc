----------------------------- MODULE Providers -----------------------------
(***************************************************************************)
(* Which backend, upstream, model and key a session gets:                  *)
(* resolveProviderConfig, the CREATE handler, and SEND_MESSAGE when it     *)
(* opens a stored session, maybe under another environment.  An            *)
(* environment is a record of its variables and of the local credential    *)
(* file of OpenCode Go; of a key only its owner is kept.                   *)
(***************************************************************************)
EXTENDS Naturals

Unset == "unset"    \* not set or empty
Empty == "empty"    \* empty, where it differs
Names == {"deepseek", "anthropic", "pi"}
Upstreams == {"anthropic", "opencode-go"}

Environments ==
  [provider : Names \cup {Unset, Empty, "other"}, upstream : Upstreams \cup {Unset, "other"},
   model : {Unset, "m"}, goKey : BOOLEAN, deepseekKey : BOOLEAN, anthropicKey : BOOLEAN,
   goFile : {"absent", "whole", "broken"}]

(* DEFAULT_MODELS, OPENCODE_GO_MODEL *)
DefaultModel(provider, upstream) ==
  IF provider = "deepseek" THEN "deepseek-v4-flash"
  ELSE IF provider = "pi" /\ upstream = "opencode-go" THEN "deepseek-v4.1-flash"
  ELSE "claude-sonnet-4-6"

ReadsGoKey(env) ==
  /\ ~env.goKey
  /\ \/ env.provider \in {Unset, Empty}
     \/ env.provider = "pi" /\ env.upstream = "opencode-go"
HasGoKey(env) == env.goKey \/ (ReadsGoKey(env) /\ env.goFile = "whole")

Provider(env) ==
  IF env.provider # Unset THEN env.provider
  ELSE IF HasGoKey(env) THEN "pi"
  ELSE IF env.deepseekKey THEN "deepseek"
  ELSE IF env.anthropicKey THEN "anthropic" ELSE "deepseek"
Upstream(env) ==
  IF env.upstream # Unset THEN env.upstream
  ELSE IF HasGoKey(env) THEN "opencode-go" ELSE "anthropic"

(* The start fails for a name that is not known and a key that cannot be   *)
(* read.                                                                   *)
Starts(env) ==
  /\ ~(ReadsGoKey(env) /\ env.goFile = "broken")
  /\ Provider(env) \in Names /\ Upstream(env) \in Upstreams
Model(env) == IF env.model # Unset THEN env.model ELSE DefaultModel(Provider(env), Upstream(env))

(* Variant with a fault: Pi is always given the key of Anthropic.          *)
KeyOfEnvironment(env, provider, upstream) ==
  IF provider = "deepseek" THEN (IF env.deepseekKey THEN "deepseek" ELSE "none")
  ELSE IF env.anthropicKey THEN "anthropic" ELSE "none"

(* apiKey: the owner of the key, "none", or "error" for one that cannot be *)
(* read.                                                                   *)
Key(env, provider, upstream) ==
  IF provider = "pi" /\ upstream = "opencode-go"
  THEN IF HasGoKey(env) \/ env.goFile = "whole" THEN "opencode-go"
       ELSE IF env.goFile = "broken" THEN "error" ELSE "none"
  ELSE IF provider = "deepseek" THEN (IF env.deepseekKey THEN "deepseek" ELSE "none")
  ELSE IF env.anthropicKey THEN "anthropic" ELSE "none"

(* CREATE: the header that is stored.                                      *)
Stored(env) ==
  [provider |-> Provider(env), model |-> Model(env),
   upstream |-> IF Provider(env) = "pi" THEN Upstream(env) ELSE Unset]
Backend(env, provider, upstream, model) ==
  [provider |-> provider, upstream |-> upstream, model |-> model,
   key |-> Key(env, provider, upstream)]
Created(env) == Backend(env, Provider(env), Upstream(env), Model(env))

(* SEND_MESSAGE for a session that has no backend.                         *)
Opened(env, header) ==
  LET provider == IF header.provider # Unset THEN header.provider ELSE Provider(env)
      upstream == IF header.upstream # Unset THEN header.upstream
                  ELSE IF provider = "pi" /\ header.model = "claude" THEN "anthropic"
                  ELSE Upstream(env)
  IN Backend(env, provider, upstream, IF header.model # Unset THEN header.model ELSE Model(env))

Headers == {Stored(env) : env \in {e \in Environments : Starts(e)}}
(* Sessions of versions that did not store the upstream or the provider.   *)
OldHeaders ==
  [provider : {Unset, "pi"}, upstream : {Unset}, model : {Unset, "claude"}]

-----------------------------------------------------------------------------
Owner(backend) == IF backend.provider = "pi" THEN backend.upstream ELSE backend.provider

(* A program that starts gives every session, made now, earlier under any  *)
(* environment or by an older version, a key of the service that it talks  *)
(* to or none; a session keeps the service and the model that it was made  *)
(* with; and if the environment names no service, one is chosen that has a *)
(* key, if there is one.                                                   *)
KeysFitSessions(env) ==
  Starts(env) =>
    /\ \A backend \in {Created(env)} \cup {Opened(env, h) : h \in Headers \cup OldHeaders} :
         backend.provider \in Names /\ backend.key \in {Owner(backend), "none", "error"}
    /\ \A h \in Headers :
         LET backend == Opened(env, h)
         IN /\ backend.provider = h.provider /\ backend.model = h.model
            /\ h.provider = "pi" => backend.upstream = h.upstream
    /\ (env.provider = Unset /\ env.upstream = Unset
         /\ (HasGoKey(env) \/ env.deepseekKey \/ env.anthropicKey)) =>
           Created(env).key = Owner(Created(env))
=============================================================================
