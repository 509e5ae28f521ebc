---------------------------- MODULE PartsProofs ----------------------------
(***************************************************************************)
(* The credential file and the MCP pool, for every value of the constants; *)
(* then the functions of the program, each for every input of its kind:    *)
(* texts, histories, values, webs and trees of any size.  The last two     *)
(* theorems are about MCParts, which tries each function on small inputs.  *)
(* The other two parts of MCParts that move, the folder of a workspace and *)
(* the words of a model, are in SessionStoreProofs.                        *)
(***************************************************************************)
EXTENDS MCParts, PicksProofs, FiniteSetTheorems, SequenceTheorems, TLAPS

-----------------------------------------------------------------------------
(* Credentials *)

Creds == [Accounts -> Values \cup {NoValue}]

VaultOK ==
  /\ store \in Creds \cup {Nothing}
  /\ file.size \in {"absent", "cut", "stub", "torn", "whole"}
  /\ file.size = "whole" => file.creds \in Creds

\* A value that an account may have, by what its callers were told; none at all
\* if the file was damaged or carried away.
May(a, v) == v \in asked[a] \/ (v = NoValue /\ (a \in atRisk \/ cutSalt))
\* The same for what nobody can read any more.
Missing == \A a \in Accounts : May(a, NoValue)

\* The key in memory is one of this machine; a whole file that this machine
\* cannot open was carried here, or has a salt that was cut.
KeyIsOwn == key # Nothing => key = [salt |-> key.salt, machine |-> machine]
Kept ==
  /\ store # Nothing => \A a \in Accounts : May(a, store[a])
  /\ file.size = "whole" => \A a \in Accounts : May(a, file.creds[a])
  /\ (file.size = "absent" \/ (store = Nothing /\ ~Opens)) => Missing
  /\ (file.size = "whole" /\ ~Opens) => (cutSalt \/ atRisk = Accounts)

VaultInv == VaultOK /\ asked \in [Accounts -> SUBSET (Values \cup {NoValue})] /\ KeyIsOwn /\ Kept

\* What a call finds: a store that holds what each account may have, or none
\* where nothing must be there.
LEMMA FoundStore ==
  ASSUME VaultAssumption, VaultInv
  PROVE  /\ Store = Nothing => Missing
         /\ Store # Nothing => Store \in Creds /\ \A a \in Accounts : May(a, Store[a])
<1>1. Nothing \notin Creds
  BY DEF VaultAssumption, Creds
<1>2. CASE store # Nothing
  BY <1>2 DEF Store, VaultInv, VaultOK, Kept
<1>3. CASE store = Nothing /\ Opens
  <2>1. Store = file.creds /\ file.size = "whole"
    BY <1>3 DEF Store, Loaded, Opens
  <2>2. QED
    BY <1>1, <2>1 DEF VaultInv, VaultOK, Kept
<1>4. CASE store = Nothing /\ ~Opens
  <2>1. Store = Nothing
    BY <1>4 DEF Store, Loaded
  <2>2. QED
    BY <1>4, <2>1 DEF VaultInv, Kept
<1>5. QED
  BY <1>2, <1>3, <1>4

\* The key that a call seals with is one of this machine.
LEMMA OwnKey ==
  ASSUME KeyIsOwn
  PROVE  /\ EnsuredKey = [salt |-> EnsuredKey.salt, machine |-> machine]
         /\ KeyAfterLoad # Nothing =>
              KeyAfterLoad = [salt |-> KeyAfterLoad.salt, machine |-> machine]
<1>1. \A x : Derived(x) = [salt |-> Derived(x).salt, machine |-> machine]
  BY DEF Derived
<1>2. KeyAfterLoad # Nothing =>
        KeyAfterLoad = [salt |-> KeyAfterLoad.salt, machine |-> machine]
  BY <1>1 DEF KeyAfterLoad, KeyIsOwn
<1>3. QED
  BY <1>1, <1>2 DEF EnsuredKey

LEMMA VaultStarts == ASSUME VaultInit PROVE VaultInv
<1>1. Empty \in Creds /\ \A a \in Accounts : Empty[a] = NoValue
  BY DEF Empty, Creds
<1>2. file.size = "absent" /\ ~Opens
  BY DEF VaultInit, Absent, Opens
<1>3. VaultOK
  BY <1>2 DEF VaultInit, VaultOK
<1>4. asked \in [Accounts -> SUBSET (Values \cup {NoValue})]
  BY DEF VaultInit
<1>5. Missing
  <2>1. asked = [a \in Accounts |-> {NoValue}]
    BY DEF VaultInit
  <2>2. ASSUME NEW a \in Accounts PROVE NoValue \in asked[a]
    BY <2>1
  <2>3. QED
    BY <2>2, Zenon DEF Missing, May
<1>6. QED
  BY <1>2, <1>3, <1>4, <1>5 DEF VaultInit, VaultInv, KeyIsOwn, Kept

LEMMA GetKeeps == ASSUME VaultAssumption, VaultInv, Get PROVE VaultInv'
<1>1. UNCHANGED <<file, machine, asked, atRisk, cutSalt>> /\ store = Nothing /\ store' = Loaded
  BY DEF Get
<1>2. Store = Loaded
  BY <1>1 DEF Store
<1>3. Opens' = Opens
  BY <1>1 DEF Opens, Derived
<1>4. \A a, v : May(a, v)' = May(a, v)
  BY <1>1 DEF May
<1>5. Missing' = Missing
  BY <1>4 DEF Missing
<1>6. VaultOK'
  BY <1>1, <1>2, FoundStore DEF VaultOK, VaultInv
<1>7. KeyIsOwn'
  BY <1>1, OwnKey DEF Get, KeyIsOwn, VaultInv
<1>8. Kept'
  <2>1. store' # Nothing => \A a \in Accounts : May(a, store'[a])
    BY <1>1, <1>2, FoundStore
  <2>2. (file.size = "absent" \/ ~Opens) => Missing
    BY <1>1 DEF VaultInv, Kept
  <2>3. (file.size = "whole" /\ ~Opens) => (cutSalt \/ atRisk = Accounts)
    BY DEF VaultInv, Kept
  <2>4. file.size = "whole" => \A a \in Accounts : May(a, file.creds[a])
    BY Zenon DEF VaultInv, Kept
  <2>5. (file.size = "absent" => ~Opens)
    BY DEF Opens
  <2>6. QED
    BY <1>1, <1>3, <1>4, <1>5, <2>1, <2>2, <2>3, <2>4, <2>5 DEF Kept
<1>9. QED
  BY <1>1, <1>6, <1>7, <1>8 DEF VaultInv

\* The three ends of a save, stated of the store and the file that it makes.
LEMMA SealedOpens ==
  ASSUME VaultInv, NEW creds
  PROVE  /\ Sealed(creds).size = "whole" /\ Sealed(creds).creds = creds
         /\ EnsuredKey.salt.form # "cut" =>
              [salt |-> Sealed(creds).salt, machine |-> machine] = Sealed(creds).key
         /\ \A f \in Torn(Sealed(creds)) : f.size \in {"cut", "stub", "torn"}
<1>1. EnsuredKey.salt.form # "cut" => Header(EnsuredKey.salt) = EnsuredKey.salt
  BY DEF Header
<1>2. EnsuredKey = [salt |-> EnsuredKey.salt, machine |-> machine]
  BY OwnKey DEF VaultInv
<1>3. Sealed(creds).salt = Header(EnsuredKey.salt) /\ Sealed(creds).key = EnsuredKey
  BY DEF Sealed
<1>4. \A f \in Torn(Sealed(creds)) : f.size \in {"cut", "stub", "torn"}
  BY DEF Torn, Sealed
<1>5. Sealed(creds).size = "whole" /\ Sealed(creds).creds = creds
  BY DEF Sealed
<1>6. QED
  BY <1>1, <1>2, <1>3, <1>4, <1>5

LEMMA OneChanged ==
  ASSUME NEW old \in Creds, NEW a \in Accounts, NEW v \in Values \cup {NoValue}
  PROVE  /\ [old EXCEPT ![a] = v] \in Creds /\ [old EXCEPT ![a] = v][a] = v
         /\ \A b \in Accounts \ {a} : [old EXCEPT ![a] = v][b] = old[b]
<1>1. ASSUME NEW b \in Accounts \ {a} PROVE [old EXCEPT ![a] = v][b] = old[b]
  BY DEF Creds
<1>2. [old EXCEPT ![a] = v] \in Creds /\ [old EXCEPT ![a] = v][a] = v
  BY DEF Creds
<1>3. QED
  BY <1>1, <1>2

LEMMA SaveKeeps ==
  ASSUME VaultAssumption, VaultInv,
         NEW a \in Accounts, NEW v \in Values \cup {NoValue}, Save(a, v)
  PROVE  VaultInv'
<1>0. /\ Store = Nothing => \A b \in Accounts : May(b, NoValue)
      /\ Store # Nothing => Store \in Creds /\ \A b \in Accounts : May(b, Store[b])
  BY FoundStore DEF Missing
<1>1. PICK creds \in Creds :
        /\ creds = [(IF Store = Nothing THEN Empty ELSE Store) EXCEPT ![a] = v] /\ creds[a] = v
        /\ \A b \in Accounts \ {a} : May(b, creds[b])
  <2>1. Empty \in Creds /\ \A b \in Accounts : Empty[b] = NoValue
    BY DEF Empty, Creds
  <2>2. PICK old \in Creds :
          /\ old = IF Store = Nothing THEN Empty ELSE Store
          /\ \A b \in Accounts : May(b, old[b])
    BY <2>1, <1>0
  <2>3. /\ [old EXCEPT ![a] = v] \in Creds /\ [old EXCEPT ![a] = v][a] = v
        /\ \A b \in Accounts \ {a} : [old EXCEPT ![a] = v][b] = old[b]
    BY OneChanged
  <2>4. PICK c \in Creds : c = [old EXCEPT ![a] = v] /\ c[a] = v
                           /\ \A b \in Accounts \ {a} : c[b] = old[b]
    BY <2>3, Zenon
  <2>5. \A b \in Accounts \ {a} : May(b, c[b])
    <3>1. ASSUME NEW b \in Accounts \ {a} PROVE May(b, c[b])
      BY <2>2, <2>4, Zenon
    <3>2. QED
      BY <3>1, Zenon
  <2>6. c = [(IF Store = Nothing THEN Empty ELSE Store) EXCEPT ![a] = v]
    BY <2>2, <2>4
  <2>7. QED
    BY <2>4, <2>5, <2>6, Zenon
<1>1a. PICK sealed : sealed = Sealed(creds)
  OBVIOUS
<1>2. asked \in [Accounts -> SUBSET (Values \cup {NoValue})] /\ creds # Nothing
  BY <1>1 DEF VaultInv, VaultAssumption, Creds
<1>3. /\ machine' = machine /\ (cutSalt' = (cutSalt \/ EnsuredKey.salt.form = "cut"))
      /\ \/ /\ file' = sealed /\ store' = creds /\ key' = EnsuredKey
            /\ asked' = [asked EXCEPT ![a] = {v}] /\ atRisk' = atRisk \ {a}
         \/ /\ file' \in {file} \cup Torn(sealed)
            /\ store' = (IF Store = Nothing THEN Nothing ELSE creds) /\ key' = EnsuredKey
            /\ asked' = [asked EXCEPT ![a] = @ \cup {v}] /\ UNCHANGED atRisk
         \/ /\ file' \in Torn(sealed) /\ store' = Nothing /\ key' = Nothing
            /\ asked' = [asked EXCEPT ![a] = @ \cup {v}] /\ atRisk' = Accounts
  BY <1>1a, <1>1 DEF Save
<1>4. KeyIsOwn'
  BY <1>3, OwnKey DEF KeyIsOwn, VaultInv
<1>5. /\ sealed.size = "whole" /\ sealed.creds = creds
      /\ EnsuredKey.salt.form # "cut" => [salt |-> sealed.salt, machine |-> machine] = sealed.key
      /\ \A f \in Torn(sealed) : f.size \in {"cut", "stub", "torn"}
  BY <1>1a, SealedOpens
<1>6. CASE /\ file' = sealed /\ store' = creds /\ key' = EnsuredKey
           /\ asked' = [asked EXCEPT ![a] = {v}] /\ atRisk' = atRisk \ {a}
  <2>1. \A b \in Accounts : May(b, creds[b])'
    <3> SUFFICES ASSUME NEW b \in Accounts PROVE May(b, creds[b])'
      OBVIOUS
    <3>1. asked'[b] = IF b = a THEN {v} ELSE asked[b]
      BY <1>2, <1>6
    <3>2. CASE b = a
      BY <3>1, <3>2, <1>1 DEF May
    <3>3. CASE b # a
      <4>1. May(b, creds[b]) /\ (b \in atRisk => b \in atRisk') /\ (cutSalt => cutSalt')
        BY <3>3, <1>1, <1>3, <1>6
      <4>2. QED
        BY <3>1, <3>3, <4>1 DEF May
    <3>4. QED
      BY <3>2, <3>3
  <2>2. VaultOK' /\ asked' \in [Accounts -> SUBSET (Values \cup {NoValue})]
    BY <1>1, <1>2, <1>5, <1>6 DEF VaultOK
  <2>3. (file.size = "whole" /\ ~Opens)' => cutSalt'
    BY <1>3, <1>5, <1>6 DEF Opens, Derived
  <2>4. QED
    BY <2>1, <2>2, <2>3, <1>2, <1>4, <1>5, <1>6 DEF VaultInv, Kept
<1>7. CASE /\ file' \in {file} \cup Torn(sealed)
           /\ store' = (IF Store = Nothing THEN Nothing ELSE creds) /\ key' = EnsuredKey
           /\ asked' = [asked EXCEPT ![a] = @ \cup {v}] /\ UNCHANGED atRisk
  <2>1. \A b \in Accounts : \A w : May(b, w) => May(b, w)'
    BY <1>2, <1>3, <1>7 DEF May
  <2>2. Missing => Missing'
    BY <2>1 DEF Missing
  <2>2a. Store # Nothing => \A b \in Accounts : May(b, creds[b])'
    <3> SUFFICES ASSUME Store # Nothing, NEW b \in Accounts PROVE May(b, creds[b])'
      OBVIOUS
    <3>1. asked'[b] = IF b = a THEN asked[a] \cup {v} ELSE asked[b]
      BY <1>2, <1>7
    <3>2. CASE b = a
      BY <3>1, <3>2, <1>1 DEF May
    <3>3. CASE b # a
      BY <3>3, <2>1, <1>1
    <3>4. QED
      BY <3>2, <3>3
  <2>3. (store # Nothing => \A b \in Accounts : May(b, store[b]))'
    BY <2>2a, <1>2, <1>7 DEF May
  <2>4. VaultOK' /\ asked' \in [Accounts -> SUBSET (Values \cup {NoValue})]
    BY <1>1, <1>2, <1>5, <1>7 DEF VaultInv, VaultOK
  <2>5. Store = Nothing => Missing /\ ~Opens /\ store = Nothing
    BY <1>0 DEF Store, Loaded, Opens, VaultInv, VaultOK, VaultAssumption, Creds, Missing
  <2>7. CASE file' = file
    <3>1. Opens' = Opens
      BY <2>7, <1>3 DEF Opens, Derived
    <3>2. QED
      BY <2>1, <2>2, <2>3, <2>4, <2>5, <2>7, <3>1, <1>2, <1>3, <1>4, <1>7 DEF VaultInv, Kept
  <2>8. CASE file' \in Torn(sealed)
    BY <2>2, <2>3, <2>4, <2>5, <2>8, <1>2, <1>4, <1>5, <1>7 DEF VaultInv, Kept, Opens
  <2>9. QED
    BY <2>7, <2>8, <1>7
<1>8. CASE /\ file' \in Torn(sealed) /\ store' = Nothing /\ key' = Nothing
           /\ asked' = [asked EXCEPT ![a] = @ \cup {v}] /\ atRisk' = Accounts
  <2>1. Missing'
    BY <1>8 DEF Missing, May
  <2>2. VaultOK' /\ asked' \in [Accounts -> SUBSET (Values \cup {NoValue})]
    BY <1>2, <1>5, <1>8 DEF VaultOK
  <2>3. QED
    BY <2>1, <2>2, <1>4, <1>5, <1>8 DEF VaultInv, Kept, Opens
<1>9. QED
  BY <1>3, <1>6, <1>7, <1>8

LEMMA OthersKeep ==
  ASSUME VaultInv, NewInstance \/ \E m \in Machines : Move(m)
  PROVE  VaultInv'
<1>1. /\ UNCHANGED <<file, asked, cutSalt>> /\ store' = Nothing /\ key' = Nothing
      /\ \/ machine' = machine /\ atRisk' = IF file.size \in {"cut", "stub", "torn"}
                                            THEN Accounts ELSE atRisk
         \/ atRisk' = Accounts
  BY DEF NewInstance, Move
<1>2. VaultOK' /\ KeyIsOwn'
  BY <1>1 DEF VaultInv, VaultOK, KeyIsOwn
<1>3. \A b \in Accounts : \A w : May(b, w) => May(b, w)'
  BY <1>1 DEF May
<1>4. (file.size = "whole" => \A b \in Accounts : May(b, file.creds[b]))'
  BY <1>1 DEF VaultInv, Kept, May
<1>5. CASE atRisk' = Accounts
  <2>1. Missing'
    BY <1>5 DEF Missing, May
  <2>2. QED
    BY <1>1, <1>2, <1>4, <1>5, <2>1 DEF VaultInv, VaultOK, Kept, Opens
<1>6. CASE /\ machine' = machine /\ atRisk' = atRisk
           /\ file.size \notin {"cut", "stub", "torn"}
  <2>1. Opens' = Opens
    BY <1>1, <1>6 DEF Opens, Derived
  <2>2. Missing => Missing'
    BY <1>3 DEF Missing
  <2>3. (file.size = "whole" /\ ~Opens) => (cutSalt \/ atRisk = Accounts)
    BY DEF VaultInv, Kept
  <2>4. (file.size = "whole" /\ ~Opens) => Missing
    BY <2>3 DEF Missing, May
  <2>5. QED
    BY <1>1, <1>2, <1>4, <1>6, <2>1, <2>2, <2>3, <2>4 DEF VaultInv, VaultOK, Kept
<1>7. QED
  BY <1>1, <1>5, <1>6

\* A credential is what was last stored for its account (or what a call that threw
\* was storing), in this and in every later instance, unless the file was damaged
\* or carried to another machine (getCredential, setCredential, deleteCredential,
\* load, save and ensureKey of SecureStorageBackend).
THEOREM CredentialsAreKept ==
  ASSUME VaultAssumption PROVE VaultSpec => []VaultIsTrue
<1>1. VaultInit => VaultInv
  BY VaultStarts
<1>2. ASSUME VaultInv, [VaultNext]_vaultVars PROVE VaultInv'
  <2>1. CASE Get
    BY <1>2, <2>1, GetKeeps
  <2>2. ASSUME NEW a \in Accounts, DeleteCredential(a) PROVE VaultInv'
    BY <1>2, <2>2, SaveKeeps DEF DeleteCredential
  <2>3. ASSUME NEW a \in Accounts, NEW v \in Values, SetCredential(a, v) PROVE VaultInv'
    BY <1>2, <2>3, SaveKeeps DEF SetCredential
  <2>4. CASE NewInstance \/ \E m \in Machines : Move(m)
    BY <1>2, <2>4, OthersKeep
  <2>5. CASE UNCHANGED vaultVars
    BY <1>2, <2>5 DEF vaultVars, VaultInv, VaultOK, KeyIsOwn, Kept, Missing, May, Opens, Derived
  <2>6. QED
    BY <1>2, <2>1, <2>2, <2>3, <2>4, <2>5 DEF VaultNext
<1>3. VaultInv => VaultIsTrue
  <2>1. SUFFICES ASSUME VaultInv PROVE VaultIsTrue
    OBVIOUS
  <2>2. /\ Store = Nothing => \A a \in Accounts : May(a, NoValue)
        /\ Store # Nothing => \A a \in Accounts : May(a, Store[a])
    BY <2>1, FoundStore DEF Missing
  <2>3. SUFFICES ASSUME NEW a \in Accounts PROVE May(a, Reads(a))
    BY Zenon DEF VaultIsTrue, May
  <2>4. QED
    BY <2>2 DEF Reads
<1>4. QED
  BY <1>1, <1>2, <1>3, PTL DEF VaultSpec

-----------------------------------------------------------------------------
(* The MCP pool *)

Entries == [client : 0..MaxClients, tools : SUBSET Tools]
UserStates ==
  [pc : {"new", "connecting", "listing", "closing", "done", "failed"},
   slug : Slugs \cup {"none"}, client : 0..MaxClients]

PoolOK ==
  /\ slugName \in [Slugs -> SlugNames] /\ toolName \in [Tools -> ToolNames]
  /\ clients \in [Slugs -> Entries] /\ DOMAIN proxyTools = Names
  /\ user \in [Users -> UserStates]
  /\ made \in 0..MaxClients /\ open \subseteq 1..made
CallsOK ==
  /\ \A u \in Users :
       /\ user[u].client <= made
       /\ user[u].pc = "new" => user[u].client = 0 /\ user[u].slug = "none"
       /\ user[u].pc \in {"connecting", "listing", "closing"} =>
            user[u].slug \in Slugs /\ user[u].client # 0
  /\ \A s \in Slugs : clients[s].client <= made

\* A client that is connecting belongs to its own call alone.
Fresh ==
  \A u \in Users : user[u].pc = "connecting" =>
    /\ user[u].client \notin open
    /\ \A s \in Slugs : clients[s].client # user[u].client
    /\ \A v \in Users \ {u} : user[v].client # user[u].client

\* A source whose calls never overlapped has at most one under way: a connect
\* while it has no entry, or a disconnect of the client it has.
SoleCall ==
  \A s \in Slugs \ overlapped : \A u \in Under(s) :
    /\ \A v \in Under(s) : v = u
    /\ user[u].pc \in {"connecting", "listing"} => ~Connected(s)
    /\ user[u].pc = "closing" => clients[s].client = user[u].client

\* The client of an entry was brought by a call for its source.
Brought ==
  \A s \in Slugs : Connected(s) =>
    \E u \in Users : user[u].client = clients[s].client /\ user[u].slug = s

\* The four parts of PoolIsExact.
NamesLead ==
  \A n \in Names : proxyTools[n] # NoTool =>
    /\ proxyTools[n].slug \in Slugs /\ proxyTools[n].tool \in Tools
    /\ Connected(proxyTools[n].slug) /\ ProxyName(proxyTools[n].slug, proxyTools[n].tool) = n
OffersLead ==
  \A s \in Slugs \ overlapped : \A n \in Offered(s) : Own(s, n) =>
    proxyTools[n].slug = s /\ proxyTools[n].tool \in clients[s].tools
KeptOpen(c) ==
  \/ \E s \in Slugs : clients[s].client = c
  \/ Coming(c) \/ c \in dropped
  \/ \E u \in Users : user[u].client = c /\ user[u].slug \in overlapped
OpenIsKept == \A c \in open : KeptOpen(c)

PoolInv ==
  /\ PoolOK /\ CallsOK /\ Fresh /\ SoleCall /\ Brought
  /\ NamesLead /\ call.pc # "unconnected" /\ OffersLead /\ OpenIsKept

LEMMA PoolStarts == ASSUME PoolAssumption, PoolInit PROVE PoolInv
<1>1. NoEntry \in Entries /\ Idle \in UserStates
  BY DEF PoolAssumption, NoEntry, Entries, Idle, UserStates, NoClient
<1>2. PoolOK
  BY <1>1 DEF PoolInit, PoolOK, PoolAssumption
<1>3. \A u \in Users : user[u].pc = "new" /\ user[u].client = 0 /\ user[u].slug = "none"
  BY DEF PoolInit, Idle, NoClient
<1>4. \A s \in Slugs : clients[s].client = 0 /\ clients[s].tools = {} /\ ~Connected(s)
  BY DEF PoolInit, NoEntry, NoClient, Connected
<1>5. CallsOK
  BY <1>3, <1>4 DEF PoolInit, CallsOK
<1>6. Fresh /\ SoleCall /\ Brought
  BY <1>3, <1>4 DEF Fresh, SoleCall, Under, Brought
<1>7. NamesLead /\ OffersLead
  BY <1>4 DEF PoolInit, NamesLead, OffersLead, Offered
<1>8. OpenIsKept /\ call.pc # "unconnected"
  BY DEF PoolInit, OpenIsKept, NoCall
<1>9. QED
  BY <1>2, <1>5, <1>6, <1>7, <1>8 DEF PoolInv

\* No step changes what sanitizing makes of a name.
NamesAreFixed ==
  /\ Names' = Names /\ \A s, t : ProxyName(s, t)' = ProxyName(s, t)
  /\ \A s, n : Own(s, n)' <=> Own(s, n)
LEMMA NamesStand ==
  ASSUME UNCHANGED <<slugName, toolName>> PROVE Names' = Names
BY DEF Names, ProxyName
LEMMA NamesFixed ==
  ASSUME UNCHANGED <<slugName, toolName>> PROVE NamesAreFixed
<1>1. \A s, t : ProxyName(s, t)' = ProxyName(s, t)
  BY DEF ProxyName
<1>2. Names' = Names
  BY NamesStand
<1>3. \A s, n : Own(s, n)' <=> Own(s, n)
  BY <1>1 DEF Own
<1>4. QED
  BY <1>1, <1>2, <1>3 DEF NamesAreFixed

\* Where neither the entries nor the names change, they lead where they did.
LEMMA NamesStay ==
  ASSUME PoolInv, UNCHANGED <<slugName, toolName, clients, proxyTools>>,
         overlapped \subseteq overlapped'
  PROVE  NamesLead' /\ OffersLead'
<1>1. NamesAreFixed
  BY NamesFixed
<1>2. \A s : (Offered(s)' = Offered(s)) /\ (Connected(s)' = Connected(s))
  BY <1>1 DEF Offered, NamesAreFixed, Connected
<1>3. NamesLead'
  BY <1>1, <1>2 DEF PoolInv, NamesLead, NamesAreFixed
<1>4. OffersLead'
  BY <1>1, <1>2 DEF PoolInv, OffersLead, NamesAreFixed
<1>5. QED
  BY <1>3, <1>4

\* A call of connect or of disconnect begins.
LEMMA EnterKeeps ==
  ASSUME PoolAssumption, PoolInv, NEW u \in Users, NEW s \in Slugs,
         \/ ConnectKnown(u, s) \/ Connect(u, s)
         \/ DisconnectUnknown(u, s) \/ Disconnect(u, s)
  PROVE  PoolInv'
<1>1. /\ user \in [Users -> UserStates] /\ clients \in [Slugs -> Entries]
      /\ made \in 0..MaxClients /\ open \subseteq 1..made /\ MaxClients \in Nat
      /\ clients[s].client \in 0..MaxClients
  BY DEF PoolInv, PoolOK, PoolAssumption, Entries
<1>2. /\ user[u].pc = "new" /\ user[u].client = 0 /\ user[u].slug = "none"
      /\ "none" \notin Slugs
  BY DEF ConnectKnown, Connect, DisconnectUnknown, Disconnect, Enter, PoolInv, CallsOK, PoolAssumption
<1>3. PICK r \in UserStates :
        /\ user' = [user EXCEPT ![u] = r] /\ r.slug = s
        /\ UNCHANGED <<slugName, toolName, clients, proxyTools, open, call, dropped>>
        /\ overlapped' = (IF Under(s) # {} THEN overlapped \cup {s} ELSE overlapped)
        /\ \/ r.pc = "done" /\ r.client = 0 /\ made' = made
           \/ /\ r.pc = "connecting" /\ r.client = made + 1 /\ made' = made + 1
              /\ made < MaxClients /\ ~Connected(s)
           \/ /\ r.pc = "closing" /\ r.client = clients[s].client /\ made' = made
              /\ Connected(s)
  <2>1. CASE ConnectKnown(u, s) \/ DisconnectUnknown(u, s)
    <3>1. [pc |-> "done", slug |-> s, client |-> 0] \in UserStates
      BY <1>1 DEF UserStates
    <3>2. QED
      BY <2>1, <3>1 DEF ConnectKnown, DisconnectUnknown, Enter, NoClient
  <2>2. CASE Connect(u, s)
    <3>1. [pc |-> "connecting", slug |-> s, client |-> made + 1] \in UserStates
      BY <1>1, <2>2 DEF UserStates, Connect
    <3>2. QED
      BY <2>2, <3>1 DEF Connect, Enter
  <2>3. CASE Disconnect(u, s)
    <3>1. [pc |-> "closing", slug |-> s, client |-> clients[s].client] \in UserStates
      BY <1>1 DEF UserStates
    <3>2. QED
      BY <2>3, <3>1 DEF Disconnect, Enter
  <2>4. QED
    BY <2>1, <2>2, <2>3
<1>4. /\ user' \in [Users -> UserStates] /\ user'[u] = r
      /\ \A v \in Users \ {u} : user'[v] = user[v]
      /\ overlapped \subseteq overlapped' /\ made' \in 0..MaxClients /\ made <= made'
      /\ \A x : Connected(x)' = Connected(x)
  BY <1>1, <1>3 DEF Connected
<1>5. PoolOK'
  BY <1>1, <1>3, <1>4, NamesStand DEF PoolInv, PoolOK
<1>6. CallsOK'
  <2>1. /\ r.client <= made' /\ (r.pc # "new")
        /\ (r.pc \in {"connecting", "listing", "closing"} => r.client # 0)
    BY <1>1, <1>3 DEF PoolInv, CallsOK, Connected, NoClient
  <2>2. ASSUME NEW v \in Users PROVE user'[v].client <= made'
    BY <1>1, <1>4, <2>1 DEF PoolInv, CallsOK, UserStates
  <2>3. ASSUME NEW x \in Slugs PROVE clients'[x].client <= made'
    BY <1>1, <1>3, <1>4 DEF PoolInv, CallsOK, Entries
  <2>4. \A v \in Users :
          /\ user'[v].pc = "new" => user'[v].client = 0 /\ user'[v].slug = "none"
          /\ user'[v].pc \in {"connecting", "listing", "closing"} =>
               user'[v].slug \in Slugs /\ user'[v].client # 0
    BY <1>3, <1>4, <2>1 DEF PoolInv, CallsOK
  <2>5. QED
    BY <2>2, <2>3, <2>4 DEF CallsOK
<1>7. Fresh'
  <2>1. ASSUME NEW v \in Users, user'[v].pc = "connecting", v # u
        PROVE  /\ user'[v].client \notin open'
               /\ \A x \in Slugs : clients'[x].client # user'[v].client
               /\ \A w \in Users \ {v} : user'[w].client # user'[v].client
    <3>1. /\ user[v].pc = "connecting" /\ user[v].client \notin open
          /\ \A x \in Slugs : clients[x].client # user[v].client
          /\ \A w \in Users \ {v} : user[w].client # user[v].client
          /\ user[v].client <= made /\ user[v].client # 0
      BY <1>4, <2>1 DEF PoolInv, Fresh, CallsOK
    <3>2. r.client # user[v].client
      BY <3>1, <1>1, <1>3 DEF UserStates
    <3>3. QED
      BY <3>1, <3>2, <2>1, <1>3, <1>4
  <2>2. ASSUME user'[u].pc = "connecting"
        PROVE  /\ user'[u].client \notin open'
               /\ \A x \in Slugs : clients'[x].client # user'[u].client
               /\ \A w \in Users \ {u} : user'[w].client # user'[u].client
    <3>1. user'[u].client = made + 1
      BY <2>2, <1>3, <1>4
    <3>2. \A w \in Users : user[w].client \in 0..MaxClients /\ user[w].client <= made
      BY <1>1 DEF PoolInv, CallsOK, UserStates
    <3>3. \A x \in Slugs : clients[x].client \in 0..MaxClients /\ clients[x].client <= made
      BY <1>1 DEF PoolInv, CallsOK, Entries
    <3>4. QED
      BY <3>1, <3>2, <3>3, <1>1, <1>3, <1>4
  <2>3. QED
    BY <2>1, <2>2 DEF Fresh
<1>8. SoleCall'
  <2>1. \A x \in Slugs \ {s} : Under(x)' = Under(x)
    BY <1>2, <1>3, <1>4 DEF Under
  <2>2. ASSUME NEW x \in Slugs \ {s}, x \notin overlapped', NEW v \in Under(x)
        PROVE  /\ \A w \in Under(x) : w = v
               /\ user'[v].pc \in {"connecting", "listing"} => ~Connected(x)
               /\ user'[v].pc = "closing" => clients[x].client = user'[v].client
    <3>1. v \in Users /\ v # u
      BY <1>2 DEF Under
    <3>2. QED
      BY <3>1, <2>2, <1>4 DEF PoolInv, SoleCall
  <2>3. ASSUME s \notin overlapped', NEW v \in Under(s)'
        PROVE  /\ v = u
               /\ user'[v].pc \in {"connecting", "listing"} => ~Connected(s)
               /\ user'[v].pc = "closing" => clients[s].client = user'[v].client
    <3>1. v \in Users /\ user'[v].slug = s /\ user'[v].pc \in {"connecting", "listing", "closing"}
      BY <2>3 DEF Under
    <3>2. Under(s) = {}
      BY <2>3, <1>3
    <3>3. v = u
      BY <3>1, <3>2, <1>4 DEF Under
    <3>4. QED
      BY <3>3, <1>3, <1>4
  <2>4. QED
    BY <2>1, <2>2, <2>3, <1>3, <1>4 DEF SoleCall
<1>9. Brought'
  <2>1. ASSUME NEW x \in Slugs, Connected(x)
        PROVE  \E v \in Users : user'[v].client = clients[x].client /\ user'[v].slug = x
    <3>1. PICK v \in Users : user[v].client = clients[x].client /\ user[v].slug = x
      BY <2>1 DEF PoolInv, Brought
    <3>2. v # u
      BY <3>1, <2>1, <1>2 DEF Connected, NoClient
    <3>3. QED
      BY <3>1, <3>2, <1>4
  <2>2. QED
    BY <2>1, <1>3, <1>4 DEF Brought
<1>10. NamesLead' /\ OffersLead'
  BY <1>3, <1>4, NamesStay
<1>11. OpenIsKept'
  <2>1. ASSUME NEW c \in open PROVE KeptOpen(c)'
    <3>1. c # 0 /\ KeptOpen(c)
      BY <2>1, <1>1 DEF PoolInv, OpenIsKept
    <3>2. \A v \in Users : user[v].client = c => user'[v] = user[v]
      BY <3>1, <1>2, <1>4
    <3>3. Coming(c) => Coming(c)'
      BY <3>2 DEF Coming
    <3>4. QED
      BY <3>1, <3>2, <3>3, <1>3, <1>4 DEF KeptOpen
  <2>2. QED
    BY <2>1, <1>3 DEF OpenIsKept
<1>12. QED
  BY <1>3, <1>5, <1>6, <1>7, <1>8, <1>9, <1>10, <1>11 DEF PoolInv

\* A connection opens, or does not; a server does not list its tools.
LEMMA OpeningKeeps ==
  ASSUME PoolAssumption, PoolInv, NEW u \in Users, Opened(u) \/ NotOpened(u) \/ NotListed(u)
  PROVE  PoolInv'
<1>1. /\ user \in [Users -> UserStates] /\ clients \in [Slugs -> Entries]
      /\ made \in 0..MaxClients /\ open \subseteq 1..made
  BY DEF PoolInv, PoolOK
<1>2. PICK p \in {"listing", "failed"} :
        /\ user' = [user EXCEPT ![u].pc = p]
        /\ UNCHANGED <<slugName, toolName, clients, proxyTools, made, call, overlapped>>
        /\ \/ /\ user[u].pc = "connecting" /\ p = "listing"
              /\ open' = open \cup {user[u].client} /\ dropped' = dropped
           \/ /\ user[u].pc = "connecting" /\ p = "failed"
              /\ open' = open /\ dropped' = dropped
           \/ /\ user[u].pc = "listing" /\ p = "failed"
              /\ open' = open /\ dropped' = dropped \cup {user[u].client}
  BY DEF Opened, NotOpened, NotListed, At, To
<1>3. /\ user' \in [Users -> UserStates]
      /\ user'[u].pc = p /\ user'[u].slug = user[u].slug /\ user'[u].client = user[u].client
      /\ \A v \in Users \ {u} : user'[v] = user[v]
      /\ \A x : Connected(x)' = Connected(x)
  BY <1>1, <1>2 DEF UserStates, Connected
<1>4. /\ user[u].client \in 1..made /\ user[u].slug \in Slugs
      /\ user[u].pc \in {"connecting", "listing"}
  BY <1>1, <1>2 DEF PoolInv, CallsOK, UserStates
<1>5. PoolOK'
  BY <1>1, <1>2, <1>3, <1>4, NamesStand DEF PoolInv, PoolOK
<1>6. CallsOK'
  BY <1>2, <1>3, <1>4 DEF PoolInv, CallsOK
<1>7. Fresh'
  <2>1. ASSUME NEW v \in Users, user'[v].pc = "connecting"
        PROVE  /\ user'[v].client \notin open'
               /\ \A x \in Slugs : clients'[x].client # user'[v].client
               /\ \A w \in Users \ {v} : user'[w].client # user'[v].client
    <3>1. v # u /\ user'[v] = user[v]
      BY <2>1, <1>3
    <3>2. /\ user[v].client \notin open
          /\ \A x \in Slugs : clients[x].client # user[v].client
          /\ \A w \in Users \ {v} : user[w].client # user[v].client
      BY <3>1, <2>1 DEF PoolInv, Fresh
    <3>3. \A w \in Users : user'[w].client = user[w].client
      BY <1>3
    <3>4. QED
      BY <3>1, <3>2, <3>3, <1>2
  <2>2. QED
    BY <2>1 DEF Fresh
<1>8. SoleCall'
  <2>1. ASSUME NEW x \in Slugs, x \notin overlapped, NEW v \in Under(x)'
        PROVE  /\ \A w \in Under(x)' : w = v
               /\ user'[v].pc \in {"connecting", "listing"} => ~Connected(x)
               /\ user'[v].pc = "closing" => clients[x].client = user'[v].client
    <3>1. Under(x)' \subseteq Under(x) /\ v \in Under(x)
      BY <2>1, <1>3, <1>4 DEF Under
    <3>2. /\ \A w \in Under(x) : w = v
          /\ user[v].pc \in {"connecting", "listing"} => ~Connected(x)
          /\ user[v].pc = "closing" => clients[x].client = user[v].client
      BY <2>1, <3>1 DEF PoolInv, SoleCall
    <3>3. CASE v = u
      BY <3>1, <3>2, <3>3, <1>3, <1>4
    <3>4. CASE v # u
      BY <3>1, <3>2, <3>4, <1>3 DEF Under
    <3>5. QED
      BY <3>3, <3>4
  <2>2. QED
    BY <2>1, <1>2, <1>3 DEF SoleCall
<1>9. Brought'
  BY <1>2, <1>3 DEF PoolInv, Brought
<1>10. NamesLead' /\ OffersLead'
  BY <1>2, NamesStay
<1>11. OpenIsKept'
  <2>1. ASSUME NEW c \in open' PROVE KeptOpen(c)'
    <3>1. CASE c = user[u].client
      <4>1. CASE user[u].pc = "connecting" /\ p = "listing"
        BY <3>1, <4>1, <1>3 DEF KeptOpen, Coming
      <4>2. CASE user[u].pc = "connecting" /\ p = "failed"
        BY <2>1, <3>1, <4>2, <1>2 DEF PoolInv, Fresh
      <4>3. CASE user[u].pc = "listing"
        BY <3>1, <4>3, <1>2 DEF KeptOpen
      <4>4. QED
        BY <4>1, <4>2, <4>3, <1>4
    <3>2. CASE c # user[u].client
      <4>1. KeptOpen(c)
        BY <2>1, <3>2, <1>2 DEF PoolInv, OpenIsKept
      <4>2. Coming(c) => Coming(c)'
        BY <3>2, <1>3 DEF Coming
      <4>3. QED
        BY <4>1, <4>2, <1>2, <1>3 DEF KeptOpen
    <3>3. QED
      BY <3>1, <3>2
  <2>2. QED
    BY <2>1 DEF OpenIsKept
<1>12. QED
  BY <1>2, <1>5, <1>6, <1>7, <1>8, <1>9, <1>10, <1>11 DEF PoolInv

\* A call of a tool is sent or refused, and answered or not.
LEMMA CallKeeps ==
  ASSUME PoolInv, Answered \/ \E n \in Names : CallTool(n)
  PROVE  PoolInv'
<1>1. UNCHANGED <<slugName, toolName, clients, proxyTools, user, open, made, overlapped, dropped>>
  BY DEF Answered, CallTool
<1>2. call'.pc # "unconnected"
  <2>1. CASE Answered
    BY <2>1 DEF Answered
  <2>2. ASSUME NEW n \in Names, CallTool(n) PROVE call'.pc # "unconnected"
    <3>2. proxyTools[n] = NoTool \/ Connected(proxyTools[n].slug)
      BY DEF PoolInv, NamesLead
    <3>3. CASE proxyTools[n] = NoTool
      BY <2>2, <3>3 DEF CallTool, Refused
    <3>4. CASE proxyTools[n] # NoTool
      BY <2>2, <3>2, <3>4 DEF CallTool
    <3>5. QED
      BY <3>3, <3>4
  <2>3. QED
    BY <2>1, <2>2
<1>3. PoolOK' /\ CallsOK' /\ Fresh'
  BY <1>1, NamesStand DEF PoolInv, PoolOK, CallsOK, Fresh
<1>4. SoleCall' /\ Brought'
  BY <1>1 DEF PoolInv, SoleCall, Under, Brought, Connected
<1>5. NamesLead' /\ OffersLead'
  BY <1>1, NamesStay
<1>6. OpenIsKept'
  BY <1>1 DEF PoolInv, OpenIsKept, KeptOpen, Coming
<1>7. QED
  BY <1>2, <1>3, <1>4, <1>5, <1>6 DEF PoolInv

\* A name is left alone, or it leads to a tool that is registered now; a name
\* that led nowhere does so if it is one of a registered tool.
LEMMA RegisteredNames ==
  ASSUME PoolAssumption, NEW s, NEW tools \in SUBSET Tools,
         NEW order \in [Tools -> 1..Cardinality(Tools)], NEW n \in DOMAIN proxyTools
  PROVE  LET new == Registered(s, tools, order)[n]
             found == new.slug = s /\ new.tool \in tools /\ ProxyName(s, new.tool) = n
             named == \E t \in tools : ProxyName(s, t) = n
         IN  (named /\ found) \/ (new = proxyTools[n] /\ (named => proxyTools[n] # NoTool))
<1> DEFINE mine == {t \in tools : ProxyName(s, t) = n}
           first == CHOOSE t \in mine : \A r \in mine : order[t] <= order[r]
           old == proxyTools[n]
<1>1. Registered(s, tools, order)[n] =
        IF mine = {} THEN old
        ELSE IF old = NoTool THEN [slug |-> s, tool |-> first]
        ELSE IF old.tool \in mine THEN [slug |-> s, tool |-> old.tool]
        ELSE old
  BY DEF Registered
<1>2. mine # {} => first \in mine
  <2>1. \A t \in mine : order[t] \in Nat
    BY FS_CardinalityType DEF PoolAssumption
  <2>2. mine # {} => \E t \in mine : \A r \in mine : order[t] <= order[r]
    BY <2>1, SomeIsFirst
  <2>3. QED
    BY <2>2
<1>3. QED
  BY <1>1, <1>2

\* The client of an entry that is replaced or removed by another call than its
\* own was brought by a call for a source whose calls overlapped.
LEMMA LostIsOverlapped ==
  ASSUME PoolInv, NEW u \in Users, NEW s \in Slugs, u \in Under(s), Connected(s),
         clients[s].client # user[u].client \/ user[u].pc # "closing"
  PROVE  \E v \in Users : user[v].client = clients[s].client /\ user[v].slug \in overlapped
<1>1. s \in overlapped
  BY DEF PoolInv, SoleCall, Under
<1>2. QED
  BY <1>1 DEF PoolInv, Brought

\* The tools of a source are registered.
LEMMA ListedKeeps ==
  ASSUME PoolAssumption, PoolInv, NEW u \in Users, NEW tools \in SUBSET Tools, Listed(u, tools)
  PROVE  PoolInv'
<1>1. PICK s \in Slugs : s = user[u].slug
  BY DEF Listed, At, PoolInv, CallsOK
<1>2. /\ user[u].pc = "listing" /\ user' = [user EXCEPT ![u].pc = "done"]
      /\ clients' = [clients EXCEPT ![s] = [client |-> user[u].client, tools |-> tools]]
      /\ UNCHANGED <<slugName, toolName, open, made, call, overlapped, dropped>>
  BY <1>1 DEF Listed, At, To
<1>3. PICK order \in [Tools -> 1..Cardinality(Tools)] :
        proxyTools' = Registered(s, tools, order)
  BY <1>1 DEF Listed
<1>4. /\ user \in [Users -> UserStates] /\ clients \in [Slugs -> Entries]
      /\ user[u].client \in 0..MaxClients /\ user[u].client # 0 /\ user[u].client <= made
  BY <1>2 DEF PoolInv, PoolOK, CallsOK, UserStates
<1>5. /\ user' \in [Users -> UserStates]
      /\ user'[u].pc = "done" /\ user'[u].slug = user[u].slug /\ user'[u].client = user[u].client
      /\ \A v \in Users \ {u} : user'[v] = user[v]
  BY <1>2, <1>4 DEF UserStates
<1>6. /\ clients' \in [Slugs -> Entries]
      /\ clients'[s].client = user[u].client /\ clients'[s].tools = tools /\ Connected(s)'
      /\ \A x \in Slugs \ {s} : clients'[x] = clients[x] /\ (Connected(x)' = Connected(x))
  <2>1. [client |-> user[u].client, tools |-> tools] \in Entries
    BY <1>4 DEF Entries
  <2>2. QED
    BY <2>1, <1>2, <1>4 DEF Connected, NoClient
<1>7. DOMAIN proxyTools' = DOMAIN proxyTools /\ DOMAIN proxyTools = Names
  BY <1>3 DEF Registered, PoolInv, PoolOK
<1>8. PoolOK'
  BY <1>2, <1>5, <1>6, <1>7, NamesStand DEF PoolInv, PoolOK
<1>9. CallsOK'
  BY <1>1, <1>2, <1>4, <1>5, <1>6 DEF PoolInv, CallsOK
<1>10. Fresh'
  <2>1. ASSUME NEW v \in Users, user'[v].pc = "connecting"
        PROVE  /\ user'[v].client \notin open'
               /\ \A x \in Slugs : clients'[x].client # user'[v].client
               /\ \A w \in Users \ {v} : user'[w].client # user'[v].client
    <3>1. v # u /\ user'[v] = user[v]
      BY <2>1, <1>5
    <3>2. /\ user[v].client \notin open
          /\ \A x \in Slugs : clients[x].client # user[v].client
          /\ \A w \in Users \ {v} : user[w].client # user[v].client
      BY <3>1, <2>1 DEF PoolInv, Fresh
    <3>3. \A w \in Users : user'[w].client = user[w].client
      BY <1>5
    <3>4. QED
      BY <3>1, <3>2, <3>3, <1>2, <1>6
  <2>2. QED
    BY <2>1 DEF Fresh
<1>11. u \in Under(s)
  BY <1>1, <1>2 DEF Under
<1>12. SoleCall'
  <2>1. ASSUME NEW x \in Slugs, x \notin overlapped, NEW v \in Under(x)'
        PROVE  /\ \A w \in Under(x)' : w = v
               /\ user'[v].pc \in {"connecting", "listing"} => ~Connected(x)'
               /\ user'[v].pc = "closing" => clients'[x].client = user'[v].client
    <3>1. Under(x)' \subseteq Under(x) /\ v \in Under(x) /\ v # u
      BY <2>1, <1>5 DEF Under
    <3>2. /\ \A w \in Under(x) : w = v
          /\ user[v].pc \in {"connecting", "listing"} => ~Connected(x)
          /\ user[v].pc = "closing" => clients[x].client = user[v].client
      BY <2>1, <3>1 DEF PoolInv, SoleCall
    <3>3. x # s
      BY <3>1, <3>2, <1>11
    <3>4. user'[v] = user[v]
      BY <3>1, <1>5 DEF Under
    <3>5. QED
      BY <3>1, <3>2, <3>3, <3>4, <1>6
  <2>2. QED
    BY <2>1, <1>2 DEF SoleCall
<1>13. Brought'
  <2>1. ASSUME NEW x \in Slugs, Connected(x)'
        PROVE  \E v \in Users : user'[v].client = clients'[x].client /\ user'[v].slug = x
    <3>1. CASE x = s
      BY <3>1, <1>1, <1>5, <1>6
    <3>2. CASE x # s
      BY <2>1, <3>2, <1>5, <1>6 DEF PoolInv, Brought
    <3>3. QED
      BY <3>1, <3>2
  <2>2. QED
    BY <2>1 DEF Brought
<1>14. NamesAreFixed
  BY <1>2, NamesFixed
<1>15. ASSUME NEW n \in Names
       PROVE  \/ /\ proxyTools'[n].slug = s /\ proxyTools'[n].tool \in tools
                 /\ ProxyName(s, proxyTools'[n].tool) = n
                 /\ \E t \in tools : ProxyName(s, t) = n
              \/ /\ proxyTools'[n] = proxyTools[n]
                 /\ (\E t \in tools : ProxyName(s, t) = n) => proxyTools[n] # NoTool
  BY <1>3, <1>7, RegisteredNames
<1>16. NamesLead'
  <2>1. ASSUME NEW n \in Names, proxyTools'[n] # NoTool
        PROVE  /\ proxyTools'[n].slug \in Slugs /\ proxyTools'[n].tool \in Tools
               /\ clients'[proxyTools'[n].slug].client # NoClient
               /\ ProxyName(proxyTools'[n].slug, proxyTools'[n].tool) = n
    <3>1. PICK new : new = proxyTools'[n]
      OBVIOUS
    <3>2. CASE new.slug = s /\ new.tool \in tools /\ ProxyName(s, new.tool) = n
      BY <3>1, <3>2, <1>4, <1>6 DEF NoClient
    <3>3. CASE new = proxyTools[n]
      <4>1. /\ new.slug \in Slugs /\ new.tool \in Tools
            /\ Connected(new.slug) /\ ProxyName(new.slug, new.tool) = n
        BY <2>1, <3>1, <3>3 DEF PoolInv, NamesLead
      <4>2. clients'[new.slug].client # NoClient
        BY <4>1, <1>4, <1>6 DEF Connected, NoClient
      <4>3. QED
        BY <3>1, <4>1, <4>2
    <3>4. QED
      BY <3>1, <3>2, <3>3, <1>15
  <2>2. QED
    BY <2>1, <1>7, <1>14 DEF NamesLead, Connected, NamesAreFixed
<1>17. OffersLead'
  <2>1. ASSUME NEW x \in Slugs, x \notin overlapped, NEW n \in Offered(x)', Own(x, n)
        PROVE  proxyTools'[n].slug = x /\ proxyTools'[n].tool \in clients'[x].tools
    <3>1. PICK t \in clients'[x].tools : n = ProxyName(x, t)
      BY <1>14 DEF Offered, NamesAreFixed
    <3>2. t \in Tools /\ n \in Names
      BY <3>1, <1>6 DEF Entries, Names
    <3>3. CASE x = s
      <4>1. ~Connected(s)
        BY <2>1, <3>3, <1>2, <1>11 DEF PoolInv, SoleCall
      <4>2. proxyTools[n] = NoTool
        <5>1. SUFFICES ASSUME proxyTools[n] # NoTool PROVE FALSE
          OBVIOUS
        <5>2. /\ proxyTools[n].slug \in Slugs /\ Connected(proxyTools[n].slug)
              /\ proxyTools[n].tool \in Tools
              /\ ProxyName(proxyTools[n].slug, proxyTools[n].tool) = n
          BY <3>2, <5>1 DEF PoolInv, NamesLead
        <5>3. proxyTools[n].slug = s
          BY <2>1, <3>3, <5>2 DEF Own
        <5>4. QED
          BY <4>1, <5>2, <5>3
      <4>3. QED
        BY <3>1, <3>2, <3>3, <4>2, <1>6, <1>15
    <3>4. CASE x # s
      <4>1. n \in Offered(x) /\ clients'[x] = clients[x]
        BY <3>1, <3>4, <1>6 DEF Offered
      <4>2. ~\E r \in tools : ProxyName(s, r) = n
        BY <2>1, <3>4 DEF Own
      <4>3. proxyTools'[n] = proxyTools[n]
        BY <3>2, <4>2, <1>15
      <4>4. QED
        BY <2>1, <4>1, <4>3 DEF PoolInv, OffersLead
    <3>5. QED
      BY <3>3, <3>4
  <2>2. QED
    BY <2>1, <1>2, <1>14 DEF OffersLead, NamesAreFixed
<1>18. OpenIsKept'
  <2>1. ASSUME NEW c \in open PROVE KeptOpen(c)'
    <3>0. KeptOpen(c)
      BY <2>1 DEF PoolInv, OpenIsKept
    <3>1. c # 0
      BY <2>1 DEF PoolInv, PoolOK
    <3>2. CASE c = user[u].client
      BY <3>2, <1>6 DEF KeptOpen
    <3>3. CASE c # user[u].client
      <4>1. Coming(c) => Coming(c)'
        BY <3>3, <1>5 DEF Coming
      <4>2. ASSUME NEW x \in Slugs, clients[x].client = c PROVE KeptOpen(c)'
        <5>1. CASE x = s
          <6>1. Connected(s) /\ clients[s].client = c
            BY <3>1, <4>2, <5>1 DEF Connected, NoClient
          <6>2. \E v \in Users : user[v].client = c /\ user[v].slug \in overlapped
            BY <6>1, <1>2, <1>11, LostIsOverlapped
          <6>3. QED
            BY <6>2, <1>2, <1>5 DEF KeptOpen
        <5>2. CASE x # s
          BY <4>2, <5>2, <1>6 DEF KeptOpen
        <5>3. QED
          BY <5>1, <5>2
      <4>3. (\E v \in Users : user[v].client = c /\ user[v].slug \in overlapped) => KeptOpen(c)'
        BY <1>2, <1>5 DEF KeptOpen
      <4>4. (Coming(c)' \/ c \in dropped) => KeptOpen(c)'
        BY <1>2 DEF KeptOpen
      <4>5. QED
        BY <3>0, <4>1, <4>2, <4>3, <4>4 DEF KeptOpen
    <3>4. QED
      BY <3>2, <3>3
  <2>2. QED
    BY <2>1, <1>2 DEF OpenIsKept
<1>19. QED
  BY <1>2, <1>8, <1>9, <1>10, <1>12, <1>13, <1>16, <1>17, <1>18 DEF PoolInv

\* A disconnect ends: the entry and the names of its source go.
LEMMA ClosedKeeps ==
  ASSUME PoolAssumption, PoolInv, NEW u \in Users, Closed(u)
  PROVE  PoolInv'
<1>1. PICK s \in Slugs : s = user[u].slug
  BY DEF Closed, At, PoolInv, CallsOK
<1>2. /\ user[u].pc = "closing" /\ user' = [user EXCEPT ![u].pc = "done"]
      /\ clients' = [clients EXCEPT ![s] = NoEntry] /\ open' = open \ {user[u].client}
      /\ proxyTools' = [n \in DOMAIN proxyTools |->
                          IF proxyTools[n].slug = s THEN NoTool ELSE proxyTools[n]]
      /\ UNCHANGED <<slugName, toolName, made, call, overlapped, dropped>>
  BY <1>1 DEF Closed, At, To
<1>3. /\ user \in [Users -> UserStates] /\ clients \in [Slugs -> Entries]
      /\ DOMAIN proxyTools = Names
  BY DEF PoolInv, PoolOK
<1>4. /\ user' \in [Users -> UserStates]
      /\ user'[u].pc = "done" /\ user'[u].slug = user[u].slug /\ user'[u].client = user[u].client
      /\ \A v \in Users \ {u} : user'[v] = user[v]
  BY <1>2, <1>3 DEF UserStates
<1>5. /\ clients' \in [Slugs -> Entries]
      /\ clients'[s].client = 0 /\ clients'[s].tools = {} /\ ~Connected(s)'
      /\ \A x \in Slugs \ {s} : clients'[x] = clients[x] /\ (Connected(x)' = Connected(x))
  <2>1. NoEntry \in Entries
    BY DEF PoolAssumption, NoEntry, Entries, NoClient
  <2>2. QED
    BY <2>1, <1>2, <1>3 DEF Connected, NoEntry, NoClient
<1>6. PoolOK'
  BY <1>2, <1>3, <1>4, <1>5, NamesStand DEF PoolInv, PoolOK
<1>7. CallsOK'
  BY <1>1, <1>2, <1>4, <1>5 DEF PoolInv, PoolOK, CallsOK
<1>8. Fresh'
  <2>1. ASSUME NEW v \in Users, user'[v].pc = "connecting"
        PROVE  /\ user'[v].client \notin open'
               /\ \A x \in Slugs : clients'[x].client # user'[v].client
               /\ \A w \in Users \ {v} : user'[w].client # user'[v].client
    <3>1. v # u /\ user'[v] = user[v]
      BY <2>1, <1>4
    <3>2. /\ user[v].client \notin open /\ user[v].client # 0
          /\ \A x \in Slugs : clients[x].client # user[v].client
          /\ \A w \in Users \ {v} : user[w].client # user[v].client
      BY <3>1, <2>1 DEF PoolInv, Fresh, CallsOK
    <3>3. \A w \in Users : user'[w].client = user[w].client
      BY <1>4
    <3>4. QED
      BY <3>1, <3>2, <3>3, <1>2, <1>5
  <2>2. QED
    BY <2>1 DEF Fresh
<1>9. u \in Under(s)
  BY <1>1, <1>2 DEF Under
<1>10. SoleCall'
  <2>1. ASSUME NEW x \in Slugs, x \notin overlapped, NEW v \in Under(x)'
        PROVE  /\ \A w \in Under(x)' : w = v
               /\ user'[v].pc \in {"connecting", "listing"} => ~Connected(x)'
               /\ user'[v].pc = "closing" => clients'[x].client = user'[v].client
    <3>1. Under(x)' \subseteq Under(x) /\ v \in Under(x) /\ v # u
      BY <2>1, <1>4 DEF Under
    <3>2. /\ \A w \in Under(x) : w = v
          /\ user[v].pc \in {"connecting", "listing"} => ~Connected(x)
          /\ user[v].pc = "closing" => clients[x].client = user[v].client
      BY <2>1, <3>1 DEF PoolInv, SoleCall
    <3>3. x # s
      BY <3>1, <3>2, <1>9
    <3>4. user'[v] = user[v]
      BY <3>1, <1>4 DEF Under
    <3>5. QED
      BY <3>1, <3>2, <3>3, <3>4, <1>5
  <2>2. QED
    BY <2>1, <1>2 DEF SoleCall
<1>11. Brought'
  BY <1>4, <1>5 DEF PoolInv, Brought
<1>12. NamesAreFixed
  BY <1>2, NamesFixed
<1>13. NamesLead'
  <2>1. ASSUME NEW n \in Names, proxyTools'[n] # NoTool
        PROVE  /\ proxyTools'[n].slug \in Slugs /\ proxyTools'[n].tool \in Tools
               /\ clients'[proxyTools'[n].slug].client # NoClient
               /\ ProxyName(proxyTools'[n].slug, proxyTools'[n].tool) = n
    <3>1. proxyTools'[n] = proxyTools[n] /\ proxyTools[n].slug # s
      BY <2>1, <1>2, <1>3
    <3>2. /\ proxyTools[n].slug \in Slugs /\ proxyTools[n].tool \in Tools
          /\ Connected(proxyTools[n].slug)
          /\ ProxyName(proxyTools[n].slug, proxyTools[n].tool) = n
      BY <2>1, <3>1 DEF PoolInv, NamesLead
    <3>3. QED
      BY <3>1, <3>2, <1>5 DEF Connected
  <2>2. QED
    BY <2>1, <1>2, <1>3, <1>12 DEF NamesLead, Connected, NamesAreFixed
<1>14. OffersLead'
  <2>1. ASSUME NEW x \in Slugs, x \notin overlapped, NEW n \in Offered(x)', Own(x, n)
        PROVE  proxyTools'[n].slug = x /\ proxyTools'[n].tool \in clients'[x].tools
    <3>1. x # s
      BY <1>5 DEF Offered
    <3>2. n \in Offered(x) /\ clients'[x] = clients[x]
      BY <2>1, <3>1, <1>5, <1>12 DEF Offered, NamesAreFixed
    <3>3. proxyTools[n].slug = x /\ proxyTools[n].tool \in clients[x].tools
      BY <2>1, <3>2 DEF PoolInv, OffersLead
    <3>4. n \in Names
      BY <3>2, <1>3 DEF Offered, Names, Entries
    <3>5. QED
      BY <3>1, <3>2, <3>3, <3>4, <1>2, <1>3
  <2>2. QED
    BY <2>1, <1>2, <1>12 DEF OffersLead, NamesAreFixed
<1>15. OpenIsKept'
  <2>1. ASSUME NEW c \in open \ {user[u].client} PROVE KeptOpen(c)'
    <3>0. KeptOpen(c)
      BY <2>1 DEF PoolInv, OpenIsKept
    <3>1. c # 0 /\ c # user[u].client
      BY <2>1 DEF PoolInv, PoolOK
    <3>2. Coming(c) => Coming(c)'
      BY <3>1, <1>4 DEF Coming
    <3>3. ASSUME NEW x \in Slugs, clients[x].client = c PROVE KeptOpen(c)'
      <4>1. CASE x = s
        <5>1. Connected(s) /\ clients[s].client = c
          BY <3>1, <3>3, <4>1 DEF Connected, NoClient
        <5>2. \E v \in Users : user[v].client = c /\ user[v].slug \in overlapped
          BY <3>1, <5>1, <1>9, LostIsOverlapped
        <5>3. QED
          BY <5>2, <1>2, <1>4 DEF KeptOpen
      <4>2. CASE x # s
        BY <3>3, <4>2, <1>5 DEF KeptOpen
      <4>3. QED
        BY <4>1, <4>2
    <3>4. (\E v \in Users : user[v].client = c /\ user[v].slug \in overlapped) => KeptOpen(c)'
      BY <1>2, <1>4 DEF KeptOpen
    <3>5. (Coming(c)' \/ c \in dropped) => KeptOpen(c)'
      BY <1>2 DEF KeptOpen
    <3>6. QED
      BY <3>0, <3>2, <3>3, <3>4, <3>5 DEF KeptOpen
  <2>2. QED
    BY <2>1, <1>2 DEF OpenIsKept
<1>16. QED
  BY <1>2, <1>6, <1>7, <1>8, <1>10, <1>11, <1>13, <1>14, <1>15 DEF PoolInv

\* Every name leads to a connected source with that name; no call of a tool finds
\* its source gone; a name that a source offers leads to it, unless a tool of another
\* source has that name too or its calls overlapped; and no connection is forgotten
\* open, unless those calls overlapped or its server did not list its tools (connect,
\* disconnect, callTool and getProxyToolDefs of McpClientPool).
THEOREM NamesReachTheirSource ==
  ASSUME PoolAssumption PROVE PoolSpec => []PoolIsExact
<1>1. PoolInit => PoolInv
  BY PoolStarts
<1>2. ASSUME PoolInv, [PoolNext]_poolVars PROVE PoolInv'
  <2>1. ASSUME NEW u \in Users, NEW s \in Slugs,
               \/ ConnectKnown(u, s) \/ Connect(u, s)
               \/ DisconnectUnknown(u, s) \/ Disconnect(u, s)
        PROVE  PoolInv'
    BY <1>2, <2>1, EnterKeeps
  <2>2. ASSUME NEW u \in Users, Opened(u) \/ NotOpened(u) \/ NotListed(u) PROVE PoolInv'
    BY <1>2, <2>2, OpeningKeeps
  <2>3. ASSUME NEW u \in Users, Closed(u) PROVE PoolInv'
    BY <1>2, <2>3, ClosedKeeps
  <2>4. ASSUME NEW u \in Users, NEW tools \in SUBSET Tools, Listed(u, tools) PROVE PoolInv'
    BY <1>2, <2>4, ListedKeeps
  <2>5. CASE Answered \/ \E n \in Names : CallTool(n)
    BY <1>2, <2>5, CallKeeps
  <2>6. CASE UNCHANGED poolVars
    <3>1. PoolOK' /\ CallsOK' /\ Fresh'
      BY <1>2, <2>6, NamesStand DEF poolVars, PoolInv, PoolOK, CallsOK, Fresh
    <3>2. SoleCall' /\ Brought'
      BY <1>2, <2>6 DEF poolVars, PoolInv, SoleCall, Under, Brought, Connected
    <3>3. NamesLead' /\ OffersLead'
      BY <1>2, <2>6, NamesStay DEF poolVars
    <3>4. OpenIsKept' /\ call' = call
      BY <1>2, <2>6 DEF poolVars, PoolInv, OpenIsKept, KeptOpen, Coming
    <3>5. QED
      BY <1>2, <3>1, <3>2, <3>3, <3>4 DEF PoolInv
  <2>7. QED
    BY <1>2, <2>1, <2>2, <2>3, <2>4, <2>5, <2>6 DEF PoolNext
<1>3. PoolInv => PoolIsExact
  <2>1. SUFFICES ASSUME PoolInv PROVE PoolIsExact
    OBVIOUS
  <2>2. \A n \in DOMAIN proxyTools : proxyTools[n] # NoTool =>
          /\ Connected(proxyTools[n].slug)
          /\ ProxyName(proxyTools[n].slug, proxyTools[n].tool) = n
    BY <2>1 DEF PoolInv, PoolOK, NamesLead
  <2>3. \A c \in open : c \in Pooled \/ Coming(c) \/ c \in dropped
          \/ \E u \in Users : user[u].client = c /\ user[u].slug \in overlapped
    BY <2>1 DEF PoolInv, OpenIsKept, KeptOpen, Pooled
  <2>4. QED
    BY <2>1, <2>2, <2>3 DEF PoolIsExact, PoolInv, OffersLead
<1>4. QED
  BY <1>1, <1>2, <1>3, PTL DEF PoolSpec

-----------------------------------------------------------------------------
(* The configuration of a session *)

\* Every method of the window is routed to a server that there is and, but for those
\* of Unanswered, handled there; and the interface is connected exactly if every
\* method's connection is, whatever the states of the connections.
THEOREM RoutesExact ==
  ASSUME NEW mode \in Routing!Modes, NEW states \in [{"local", "remote"} -> Routing!States]
  PROVE  Routing!RoutesMeet(mode, states)
<1> DEFINE Route(channel) == Routing!RouteFor(mode, channel)
<1>1. Routing!LocalOnly \cap Routing!RemoteEligible = {}
  BY DEF Routing!LocalOnly, Routing!RemoteEligible
<1>2. Routing!LocalOnly \cup Routing!RemoteEligible = Routing!Channels
  BY DEF Routing!LocalOnly, Routing!RemoteEligible, Routing!Channels
<1>3. Routing!Handled \subseteq Routing!Channels
  BY DEF Routing!Handled, Routing!Channels
<1>4. {Routing!Listens[l] : l \in DOMAIN Routing!Listens} \cap Routing!Handled = {}
  BY DEF Routing!Handled, Routing!Listens
<1>5. \A method \in DOMAIN Routing!Invokes : Routing!Invokes[method] \in Routing!Channels
  BY DEF Routing!Invokes, Routing!Channels
<1>6. \A method \in DOMAIN Routing!Invokes :
        Routing!Invokes[method] \in Routing!Handled <=> method \notin Routing!Unanswered
  BY DEF Routing!Invokes, Routing!Handled, Routing!Unanswered
<1>7. CASE mode = "split"
  <2>1. \A channel : Route(channel) = IF channel \in Routing!LocalOnly THEN "local" ELSE "remote"
    BY <1>7 DEF Routing!RouteFor
  <2>2. Routing!Servers(mode) = {"local", "remote"}
    BY <1>7 DEF Routing!Servers
  <2>3. /\ "openExternal" \in DOMAIN Routing!Invokes /\ Routing!Invokes["openExternal"] = "system:openExternal"
        /\ "sendMessage" \in DOMAIN Routing!Invokes /\ Routing!Invokes["sendMessage"] = "sessions:sendMessage"
    BY DEF Routing!Invokes
  <2>4. /\ "system:openExternal" \in Routing!LocalOnly
        /\ "sessions:sendMessage" \notin Routing!LocalOnly
    BY DEF Routing!LocalOnly
  <2>5. Routing!State(mode, states) = "connected" <=> states["local"] = "connected" /\ states["remote"] = "connected"
    BY <2>2 DEF Routing!State
  <2>6. Routing!State(mode, states) = "connected" <=>
          \A method \in DOMAIN Routing!Invokes : states[Route(Routing!Invokes[method])] = "connected"
    BY <2>1, <2>3, <2>4, <2>5
  <2>7. \A command \in {"sendMessage", "cancelProcessing", "respondToPermission", "getSessionMessages"} :
          /\ Routing!Invokes[command] \in Routing!Handled
          /\ Route(Routing!Invokes[command]) = Route(Routing!Listens["onSessionEvent"])
    BY <2>1 DEF Routing!Invokes, Routing!Listens, Routing!Handled, Routing!LocalOnly
  <2>8. QED
    BY <1>1, <1>2, <1>3, <1>4, <1>5, <1>6, <2>1, <2>2, <2>6, <2>7 DEF Routing!RoutesMeet
<1>8. CASE mode # "split"
  <2>1. PICK s \in {"local", "remote"} : Routing!Servers(mode) = {s} /\ (mode = "local" => s = "local")
                                         /\ (mode = "thin" => s = "remote")
    BY <1>8 DEF Routing!Servers, Routing!Modes
  <2>2. \A channel : Route(channel) = s
    BY <1>8, <2>1, OneOf DEF Routing!RouteFor
  <2>3. Routing!State(mode, states) = "connected" <=> states[s] = "connected"
    BY <2>1, <1>8 DEF Routing!State, Routing!Modes
  <2>4. "sendMessage" \in DOMAIN Routing!Invokes
    BY DEF Routing!Invokes
  <2>5. \A command \in {"sendMessage", "cancelProcessing", "respondToPermission", "getSessionMessages"} :
          Routing!Invokes[command] \in Routing!Handled
    BY DEF Routing!Invokes, Routing!Handled
  <2>6. QED
    BY <1>1, <1>2, <1>3, <1>4, <1>5, <1>8, <1>6, <2>1, <2>2, <2>3, <2>4, <2>5 DEF Routing!RoutesMeet, Routing!Modes
<1>9. QED
  BY <1>7, <1>8

LEMMA OpenedIs ==
  ASSUME NEW env \in Keys!Environments, Keys!Starts(env),
         NEW header \in Keys!Headers \cup Keys!OldHeaders
  PROVE  LET driver == Keys!Opened(env, header)
         IN /\ driver.provider \in Keys!Names
            /\ driver.key = Keys!Key(env, driver.provider, driver.upstream)
            /\ driver.provider = "pi" => driver.upstream \in Keys!Upstreams
            /\ header \in Keys!Headers =>
                 /\ driver.provider = header.provider /\ driver.model = header.model
                 /\ header.provider = "pi" => driver.upstream = header.upstream
<1>1. Keys!Provider(env) \in Keys!Names /\ Keys!Upstream(env) \in Keys!Upstreams
  BY DEF Keys!Starts
<1>2. CASE header \in Keys!Headers
  <2>1. PICK old \in Keys!Environments : Keys!Starts(old) /\ header = Keys!Stored(old)
    BY <1>2 DEF Keys!Headers
  <2>2. Keys!Provider(old) \in Keys!Names /\ Keys!Upstream(old) \in Keys!Upstreams
    BY <2>1 DEF Keys!Starts
  <2>3. Keys!Model(old) # Keys!Unset
    BY <2>1 DEF Keys!Model, Keys!DefaultModel, Keys!Unset
  <2>4. QED
    BY <1>1, <2>1, <2>2, <2>3
    DEF Keys!Opened, Keys!Backend, Keys!Stored, Keys!Names, Keys!Upstreams, Keys!Unset
<1>3. CASE header \in Keys!OldHeaders \ Keys!Headers
  BY <1>1, <1>3 DEF Keys!OldHeaders, Keys!Opened, Keys!Backend, Keys!Names, Keys!Upstreams, Keys!Unset
<1>4. QED
  BY <1>2, <1>3

LEMMA KeyIs ==
  ASSUME NEW env \in Keys!Environments, NEW provider \in Keys!Names, NEW upstream,
         provider = "pi" => upstream \in Keys!Upstreams
  PROVE  Keys!Key(env, provider, upstream) \in
           {IF provider = "pi" THEN upstream ELSE provider, "none", "error"}
BY DEF Keys!Key, Keys!Names, Keys!Upstreams

\* The backend of a session gets a key that fits its provider, in every
\* environment that resolveProviderConfig reads.
THEOREM KeysExact ==
  ASSUME NEW env \in Keys!Environments
  PROVE  Keys!KeysFitSessions(env)
<1> SUFFICES ASSUME Keys!Starts(env) PROVE Keys!KeysFitSessions(env)
  BY DEF Keys!KeysFitSessions
<1>1. Keys!Provider(env) \in Keys!Names /\ Keys!Upstream(env) \in Keys!Upstreams
  BY DEF Keys!Starts
<1>2. ASSUME NEW driver \in {Keys!Created(env)} \cup {Keys!Opened(env, h) : h \in Keys!Headers \cup Keys!OldHeaders}
      PROVE  driver.provider \in Keys!Names /\ driver.key \in {Keys!Owner(driver), "none", "error"}
  <2>1. /\ driver.provider \in Keys!Names
        /\ driver.key = Keys!Key(env, driver.provider, driver.upstream)
        /\ driver.provider = "pi" => driver.upstream \in Keys!Upstreams
    BY <1>1, OpenedIs DEF Keys!Created, Keys!Backend
  <2>2. QED
    BY <2>1, KeyIs DEF Keys!Owner
<1>3. ASSUME NEW h \in Keys!Headers
      PROVE  /\ Keys!Opened(env, h).provider = h.provider /\ Keys!Opened(env, h).model = h.model
             /\ h.provider = "pi" => Keys!Opened(env, h).upstream = h.upstream
  BY OpenedIs
<1>4. ASSUME env.provider = Keys!Unset, env.upstream = Keys!Unset,
             Keys!HasGoKey(env) \/ env.deepseekKey \/ env.anthropicKey
      PROVE  Keys!Created(env).key = Keys!Owner(Keys!Created(env))
  BY <1>1, <1>4 DEF Keys!Created, Keys!Backend, Keys!Owner, Keys!Provider, Keys!Upstream, Keys!Key, Keys!Environments, Keys!Unset, Keys!HasGoKey, Keys!ReadsGoKey, Keys!Names, Keys!Upstreams
<1>5. QED
  BY <1>2, <1>3, <1>4 DEF Keys!KeysFitSessions

LEMMA HeadersAre ==
  ASSUME NEW source \in Servers!McpSources
  PROVE  LET headers == Servers!MergedHeaders(source)
             token == Servers!NeedsToken(source) /\ source.token
         IN /\ source.headers \cup Servers!Secrets(source) \subseteq DOMAIN headers
            /\ token => "Authorization" \in DOMAIN headers /\ headers["Authorization"] = "token"
            /\ \A name \in Servers!Secrets(source) : headers[name] \in {"token", "vault"}
<1> DEFINE token == Servers!TokenHeader(source)
           vault == Servers!SetBy(Servers!Secrets(source), "vault")
           static == Servers!SetBy(source.headers, "static")
           under == Servers!Over(vault, static)
<1>1. Servers!MergedHeaders(source) = Servers!Over(token, under)
  BY DEF Servers!MergedHeaders
<1>2. /\ DOMAIN vault = Servers!Secrets(source)
      /\ \A name \in Servers!Secrets(source) : vault[name] = "vault"
      /\ DOMAIN static = source.headers
  BY DEF Servers!SetBy
<1>3. /\ DOMAIN under = Servers!Secrets(source) \cup source.headers
      /\ \A name \in Servers!Secrets(source) : under[name] = "vault"
  BY <1>2 DEF Servers!Over, Servers!SetBy
<1>4. /\ DOMAIN token \subseteq {"Authorization"} /\ \A name \in DOMAIN token : token[name] = "token"
      /\ Servers!NeedsToken(source) /\ source.token => DOMAIN token = {"Authorization"}
  BY DEF Servers!SetBy, Servers!TokenHeader, Servers!NoHeaders
<1> HIDE DEF token, vault, static, under
<1>5. /\ DOMAIN Servers!MergedHeaders(source) = DOMAIN token \cup DOMAIN under
      /\ \A name \in DOMAIN token : Servers!MergedHeaders(source)[name] = token[name]
      /\ \A name \in DOMAIN under \ DOMAIN token : Servers!MergedHeaders(source)[name] = under[name]
  BY <1>1 DEF Servers!Over, Servers!SetBy
<1>6. QED
  BY <1>3, <1>4, <1>5

\* What SourceServerBuilder makes of a source has its token and its headers in their
\* precedence; of any list of sources it makes nothing at all if one enabled source
\* has a malformed URL, else a server or an error for each.
THEOREM ServersExact ==
  ASSUME NEW sources \in Seq(Servers!McpSources)
  PROVE  /\ \A n \in DOMAIN sources : Servers!ServerIsSound(sources[n])
         /\ Servers!BuildIsSound(sources)
<1>1. ASSUME NEW source \in Servers!McpSources PROVE Servers!ServerIsSound(source)
  <2> DEFINE server == Servers!BuildMcpServer(source)
             authorized == Servers!NeedsToken(source) /\ source.token
  <2>1. ASSUME server.type \in {"http", "sse"}
        PROVE  /\ source.isAuthenticated => authorized \/ source.authType = "none"
               /\ authorized => server.headers["Authorization"] = "token"
               /\ \A name \in Servers!Secrets(source) : server.headers[name] # "static"
               /\ source.headers \cup Servers!Secrets(source) \subseteq DOMAIN server.headers
    <3>1. /\ server.headers = Servers!MergedHeaders(source)
          /\ ~(Servers!NeedsToken(source) /\ ~source.token /\ source.isAuthenticated)
      BY <2>1 DEF Servers!BuildMcpServer, Servers!NoServer, Servers!Thrown
    <3>2. source.authType \in {"none", "bearer"}
      BY DEF Servers!McpSources
    <3>3. QED
      BY <3>1, <3>2, HeadersAre DEF Servers!NeedsToken
  <2>2. QED
    BY <2>1 DEF Servers!ServerIsSound
<1>2. ASSUME NEW source \in Servers!McpSources, source.type = "mcp"
      PROVE  /\ Servers!BuildMcpServer(source) = Servers!Thrown <=>
                   source.transport \in {"http", "sse"} /\ source.address = "malformed"
             /\ Servers!BuildMcpServer(source) # Servers!NoServer => source.address # "none"
  <2>1. /\ source.transport \in {"http", "sse", "stdio"}
        /\ source.address \in {"none", "good", "malformed"}
    BY DEF Servers!McpSources
  <2>2. Servers!BuildMcpServer(source).type \in {"none", "thrown", "stdio", "http", "sse"}
    BY DEF Servers!BuildMcpServer, Servers!NoServer, Servers!Thrown
  <2>3. Servers!BuildMcpServer(source) = Servers!Thrown <=>
          Servers!BuildMcpServer(source).type = "thrown"
    BY DEF Servers!BuildMcpServer, Servers!NoServer, Servers!Thrown
  <2>4. QED
    BY <1>2, <2>1, <2>3 DEF Servers!BuildMcpServer, Servers!NoServer, Servers!Thrown
<1>3. \A n \in DOMAIN sources : sources[n] \in Servers!McpSources
  OBVIOUS
<1>4. Servers!BuildIsSound(sources)
  <2> DEFINE looked == Servers!Looked(sources)
             config == [n \in looked |-> Servers!BuildMcpServer(sources[n])]
             harmed == \E n \in looked : config[n] = Servers!Thrown
             servers == {n \in looked : config[n] # Servers!NoServer}
             errors == {n \in looked : config[n] = Servers!NoServer}
  <2>1. looked = {n \in DOMAIN sources : sources[n].type = "mcp" /\ sources[n].enabled}
    BY DEF Servers!Looked
  <2>2. \A n \in looked : /\ sources[n] \in Servers!McpSources /\ sources[n].type = "mcp"
                          /\ config[n] = Servers!BuildMcpServer(sources[n])
    BY <1>3, <2>1
  <2>3. harmed <=> \E n \in looked : /\ sources[n].transport \in {"http", "sse"}
                                     /\ sources[n].address = "malformed"
    BY <1>2, <2>2
  <2>4. \A n \in servers : sources[n].address # "none"
    BY <1>2, <2>2
  <2>5. Servers!BuildAllMcpServers(sources) =
          IF harmed THEN Servers!Thrown
          ELSE [type |-> "built", servers |-> servers, errors |-> errors]
    BY <2>2 DEF Servers!BuildAllMcpServers
  <2>6. servers \cap errors = {} /\ servers \cup errors = looked
    OBVIOUS
  <2> HIDE DEF looked, config, harmed, servers, errors
  <2>7. Servers!BuildAllMcpServers(sources) = Servers!Thrown <=> harmed
    BY <2>5 DEF Servers!Thrown
  <2>8. ~harmed => /\ Servers!BuildAllMcpServers(sources).servers = servers
                   /\ Servers!BuildAllMcpServers(sources).errors = errors
    BY <2>5
  <2>9. QED
    BY <2>1, <2>3, <2>4, <2>6, <2>7, <2>8 DEF Servers!BuildIsSound
<1>5. QED
  BY <1>1, <1>3, <1>4

\* For the lists that are made of one source.
LEMMA ServersOfOne ==
  ASSUME NEW source \in Servers!McpSources
  PROVE  Servers!ServersAreSound(source)
<1> DEFINE four == <<[source EXCEPT !.address = "good"], source, [source EXCEPT !.enabled = FALSE],
                     [source EXCEPT !.enabled = TRUE, !.token = FALSE]>>
<1>1. /\ [source EXCEPT !.address = "good"] \in Servers!McpSources
      /\ [source EXCEPT !.enabled = FALSE] \in Servers!McpSources
      /\ [source EXCEPT !.enabled = TRUE, !.token = FALSE] \in Servers!McpSources
  BY DEF Servers!McpSources
<1>2. four \in Seq(Servers!McpSources)
  BY <1>1
<1>3. <<source>> \in Seq(Servers!McpSources) /\ 1 \in DOMAIN <<source>> /\ <<source>>[1] = source
  OBVIOUS
<1>4. Servers!ServerIsSound(source)
  BY <1>3, ServersExact
<1>5. Servers!BuildIsSound(four)
  BY <1>2, ServersExact
<1>6. QED
  BY <1>4, <1>5 DEF Servers!ServersAreSound

\* A request to an API carries its credential once and in its place (prepareAuth).
THEOREM RequestsExact ==
  ASSUME NEW api \in Servers!ApiCalls
  PROVE  Servers!RequestsAreSound(api)
<1> DEFINE request == Servers!Request(api)
           header == Servers!AuthHeader(api)
           param == Servers!AuthParam(api)
           carried == {name \in DOMAIN request.headers : request.headers[name] = "token"}
                      \cup {name \in DOMAIN request.params : request.params[name] = "token"}
<1>1. /\ request.headers = Servers!Over(header, Servers!SetBy(api.defaults, "static"))
      /\ request.params = Servers!Over(Servers!SetBy(api.params, "call"), param)
  BY DEF Servers!Request
<1>2. /\ \A name \in DOMAIN header : header[name] = "token"
      /\ DOMAIN header = IF api.auth = "bearer" /\ Servers!Token(api) THEN {"Authorization"}
                         ELSE IF api.auth = "header" /\ Servers!Token(api) /\ api.headerName THEN {"X-Key"}
                         ELSE IF api.auth = "basic" /\ api.credential = "pair" THEN {"Authorization"} ELSE {}
  BY DEF Servers!SetBy, Servers!AuthHeader, Servers!NoHeaders
<1>3. /\ \A name \in DOMAIN param : param[name] = "token"
      /\ DOMAIN param = IF api.auth = "query" /\ Servers!Token(api) /\ api.queryParam
                        THEN {Servers!Param} ELSE {}
  BY DEF Servers!SetBy, Servers!AuthParam, Servers!NoHeaders
<1> HIDE DEF header, param, request
<1>4. /\ DOMAIN request.headers = DOMAIN header \cup api.defaults
      /\ \A name \in DOMAIN header : request.headers[name] = header[name]
      /\ \A name \in api.defaults \ DOMAIN header : request.headers[name] = "static"
  BY <1>1 DEF Servers!Over, Servers!SetBy
<1>5. /\ DOMAIN request.params = api.params \cup DOMAIN param
      /\ \A name \in api.params : request.params[name] = "call"
      /\ \A name \in DOMAIN param \ api.params : request.params[name] = param[name]
  BY <1>1 DEF Servers!Over, Servers!SetBy
<1>6. carried = DOMAIN header \cup (DOMAIN param \ api.params)
  BY <1>2, <1>3, <1>4, <1>5
<1> HIDE DEF carried
<1>7. api.auth \in {"none", "bearer", "header", "query", "basic"}
  BY DEF Servers!ApiCalls
<1>8. /\ api.auth = "none" => carried = {}
      /\ api.auth = "bearer" /\ Servers!Token(api) => carried = {"Authorization"}
      /\ api.auth = "basic" /\ api.credential = "pair" => carried = {"Authorization"}
      /\ api.auth = "header" =>
           carried = (IF Servers!Token(api) /\ api.headerName THEN {"X-Key"} ELSE {})
      /\ api.auth = "query" /\ Servers!Token(api) /\ api.queryParam =>
           carried = {Servers!Param} \ api.params
  BY <1>2, <1>3, <1>6, <1>7
<1>9. QED
  BY <1>4, <1>5, <1>8 DEF Servers!RequestsAreSound, request, carried

-----------------------------------------------------------------------------
(* Pages *)

AllWebs == [Addresses -> Web!Answers]
\* Where redirects lead to.
Onward(web, at) == IF web[at].is = "redirect" THEN web[at].to ELSE at

LEMMA AnswersAre ==
  ASSUME MaxPage \in Nat, NEW web \in AllWebs, NEW at \in Addresses
  PROVE  /\ web[at] \in Web!Answers /\ web[at].is \in {"page", "redirect", "failure"}
         /\ Onward(web, at) \in Addresses
         /\ web[at].is = "page" => web[at].chunks \in Nat
         /\ Web!Asked(web, at).is = "page" <=> web[at].is = "page" /\ web[at].chunks <= MaxPage
         /\ Web!Asked(web, at).is = "redirect" <=> web[at].is = "redirect"
         /\ web[at].is = "redirect" => Web!Asked(web, at).to = web[at].to
         /\ Web!Asked(web, at).is \in {"page", "redirect", "failure"}
<1>1. web[at] \in Web!Answers
  BY DEF AllWebs
<1>2. CASE web[at] \in {Web!Page(n) : n \in 0..(MaxPage + 1)}
  <2>1. web[at].is = "page" /\ web[at].chunks \in Nat
    BY <1>2 DEF Web!Page
  <2>2. QED
    BY <1>1, <2>1 DEF Onward, Web!Asked, Web!Failure
<1>3. CASE web[at] \in {Web!Redirect(a) : a \in Addresses}
  BY <1>1, <1>3 DEF Onward, Web!Asked, Web!Redirect
<1>4. CASE web[at] \in {Web!Failure(why) : why \in Web!Failures}
  BY <1>1, <1>4 DEF Onward, Web!Asked, Web!Failure
<1>5. QED
  BY <1>1, <1>2, <1>3, <1>4 DEF Web!Answers

LEMMA WayIs ==
  ASSUME MaxHops \in Nat, MaxPage \in Nat, NEW web \in AllWebs, NEW address \in Addresses
  PROVE  \E w \in [0..MaxHops -> Addresses] :
           /\ w[0] = address /\ \A n \in 1..MaxHops : w[n] = Onward(web, w[n - 1])
           /\ \A n \in 0..MaxHops : Web!Way(web, address, n) = w[n]
<1> DEFINE Next1(f, n) == IF n = 0 THEN address
                          ELSE IF web[f[n - 1]].is = "redirect" THEN web[f[n - 1]].to ELSE f[n - 1]
           step == [n \in 1..MaxHops |-> [at \in Addresses |-> Onward(web, at)]]
<1>1. step \in [1..MaxHops -> [Addresses -> Addresses]]
  BY AnswersAre
<1>2. PICK w \in [0..MaxHops -> Addresses] :
        w[0] = address /\ \A n \in 1..MaxHops : w[n] = step[n][w[n - 1]]
  <2> HIDE DEF step
  <2>1. PICK w : Rounds(MaxHops, Addresses, address, step, w)
    BY <1>1, Iterated
  <2>2. QED
    BY <2>1 DEF Rounds
<1>3. \A n \in 1..MaxHops : n - 1 \in 0..MaxHops /\ w[n] = Onward(web, w[n - 1])
  <2>1. \A n \in 1..MaxHops : n - 1 \in 0..MaxHops
    OBVIOUS
  <2>2. \A n \in 1..MaxHops : \A at \in Addresses : step[n][at] = Onward(web, at)
    OBVIOUS
  <2> HIDE DEF step
  <2>3. QED
    BY <1>2, <2>1, <2>2
<1>4. \A n \in 0..MaxHops : w[n] = Next1(w, n)
  BY <1>2, <1>3 DEF Onward
<1>5. w = [n \in 0..MaxHops |-> Next1(w, n)]
  BY <1>4
<1>6. PICK f : f = [n \in 0..MaxHops |-> Next1(f, n)] /\ \A n \in 0..MaxHops : Web!Way(web, address, n) = f[n]
  <2>1. \A n : Web!Way(web, address, n) = (CHOOSE f : f = [k \in 0..MaxHops |-> Next1(f, k)])[n]
    BY Zenon DEF Web!Way
  <2>2. QED
    BY <1>5, <2>1
<1>7. \A n \in 0..MaxHops : f[n] = Next1(f, n)
  BY <1>6
<1> DEFINE T == {n \in 0..MaxHops : f[n] = w[n]}
<1>8. 0 \in T
  BY <1>2, <1>7
<1>9. ASSUME NEW n \in 0..MaxHops, n \in T, n < MaxHops PROVE n + 1 \in T
  <2>1. n + 1 \in 0..MaxHops /\ n + 1 # 0 /\ n + 1 - 1 = n /\ f[n] = w[n]
    BY <1>9
  <2>2. f[n + 1] = Next1(f, n + 1) /\ w[n + 1] = Next1(w, n + 1)
    BY <1>4, <1>7, <2>1
  <2>3. QED
    BY <2>1, <2>2
<1>10. T = 0..MaxHops
  <2> HIDE DEF T
  <2>1. T \subseteq 0..MaxHops
    BY DEF T
  <2>2. QED
    BY <1>8, <1>9, <2>1, FromZero
<1>11. QED
  BY <1>2, <1>3, <1>6, <1>10

\* How far a fetch is.
Fetches == [at : Addresses, asked : Seq(Addresses), result : {"open", "page", "redirect", "failure"}]

\* A fetch after n turns: it follows the way, and it has ended or has come as
\* far as the turns.
Follows(web, w, state, n) ==
  LET m == Len(state.asked)
  IN /\ state \in Fetches
     /\ \A k \in 1..m : state.asked[k] = w[k - 1]
     /\ state.result = "open" =>
          /\ m = n /\ (n <= MaxHops => state.at = w[n])
          /\ \A k \in 0..(n - 1) : web[w[k]].is = "redirect"
     /\ state.result # "open" =>
          /\ m \in 1..n /\ state.at = w[m - 1] /\ web[w[m - 1]].is # "redirect"
          /\ \A k \in 0..(m - 2) : web[w[k]].is = "redirect"
          /\ state.result = "page" <=> web[w[m - 1]].is = "page" /\ web[w[m - 1]].chunks <= MaxPage

LEMMA HopFollows ==
  ASSUME MaxHops \in Nat, MaxPage \in Nat, NEW web \in AllWebs, NEW w \in [0..MaxHops -> Addresses],
         \A n \in 1..MaxHops : w[n] = Onward(web, w[n - 1]),
         NEW n \in 0..MaxHops, NEW state, Follows(web, w, state, n)
  PROVE  Follows(web, w, Web!Hop(web, state), n + 1)
<1> DEFINE next == Web!Hop(web, state)
           m == Len(state.asked)
<1>1. state \in Fetches /\ m \in Nat /\ \A k \in 1..m : state.asked[k] = w[k - 1]
  BY DEF Follows, Fetches
<1>2. CASE state.result # "open"
  <2>1. next = state
    BY <1>2 DEF Web!Hop
  <2>2. m \in 1..(n + 1)
    BY <1>2 DEF Follows
  <2>3. QED
    BY <1>1, <1>2, <2>1, <2>2 DEF Follows
<1>3. CASE state.result = "open"
  <2>1. /\ m = n /\ state.at = w[n] /\ w[n] \in Addresses
        /\ \A k \in 0..(n - 1) : web[w[k]].is = "redirect"
    BY <1>3 DEF Follows
  <2>2. PICK answer : answer = Web!Asked(web, w[n])
    OBVIOUS
  <2>3. /\ answer.is = "redirect" <=> web[w[n]].is = "redirect"
        /\ answer.is = "redirect" => answer.to = Onward(web, w[n])
        /\ answer.is = "page" <=> web[w[n]].is = "page" /\ web[w[n]].chunks <= MaxPage
        /\ answer.is \in {"page", "redirect", "failure"} /\ Onward(web, w[n]) \in Addresses
    BY <2>1, <2>2, AnswersAre DEF Onward
  <2>4. /\ next.asked = Append(state.asked, w[n])
        /\ next.at = IF answer.is = "redirect" THEN answer.to ELSE w[n]
        /\ next.result = IF answer.is = "redirect" THEN "open" ELSE answer.is
        /\ next = [asked |-> next.asked, at |-> next.at, result |-> next.result]
    BY <1>3, <2>1, <2>2 DEF Web!Hop
  <2> HIDE DEF next
  <2>5. state.asked \in Seq(Addresses)
    BY <1>1 DEF Fetches
  <2>6. /\ next.asked \in Seq(Addresses) /\ Len(next.asked) = n + 1
        /\ \A k \in 1..n : next.asked[k] = w[k - 1]
        /\ next.asked[n + 1] = w[n]
    <3>1. PICK q \in Seq(Addresses) : q = state.asked
      BY <2>5
    <3>2. Len(q) = n /\ \A k \in 1..n : q[k] = w[k - 1]
      BY <1>1, <2>1, <3>1
    <3>3. next.asked = Append(q, w[n])
      BY <2>4, <3>1
    <3>4. QED
      BY ONLY <3>2, <3>3, q \in Seq(Addresses), w[n] \in Addresses, <2>1, AppendIs, n \in 0..MaxHops
  <2>7. \A k \in 1..(n + 1) : next.asked[k] = w[k - 1]
    BY <2>6
  <2>8. next \in Fetches
    BY <2>1, <2>3, <2>4, <2>6 DEF Fetches
  <2>9. ASSUME answer.is = "redirect" PROVE Follows(web, w, next, n + 1)
    <3>1. next.result = "open" /\ next.at = Onward(web, w[n])
      BY <2>3, <2>4, <2>9
    <3>2. n + 1 <= MaxHops => next.at = w[n + 1]
      <4>1. n + 1 <= MaxHops => n + 1 \in 1..MaxHops /\ n + 1 - 1 = n
        OBVIOUS
      <4>2. QED
        BY <3>1, <4>1
    <3>3. \A k \in 0..(n + 1 - 1) : web[w[k]].is = "redirect"
      BY <2>1, <2>3, <2>9
    <3>4. Len(next.asked) = n + 1 /\ \A k \in 1..Len(next.asked) : next.asked[k] = w[k - 1]
      BY <2>6, <2>7
    <3>5. QED
      BY ONLY <2>8, <3>1, <3>2, <3>3, <3>4 DEF Follows
  <2>10. ASSUME answer.is # "redirect" PROVE Follows(web, w, next, n + 1)
    <3>1. next.result = answer.is /\ next.at = w[n] /\ next.result # "open"
      BY <2>3, <2>4, <2>10
    <3>2. /\ n + 1 - 1 = n /\ n + 1 \in 1..(n + 1) /\ n + 1 - 2 = n - 1
      OBVIOUS
    <3>3. Len(next.asked) = n + 1 /\ \A k \in 1..Len(next.asked) : next.asked[k] = w[k - 1]
      BY <2>6, <2>7
    <3>4. next.result = "page" <=> web[w[n]].is = "page" /\ web[w[n]].chunks <= MaxPage
      BY <2>3, <3>1
    <3>5. /\ n + 1 \in 1..(n + 1) /\ next.at = w[n + 1 - 1] /\ web[w[n + 1 - 1]].is # "redirect"
          /\ \A k \in 0..(n + 1 - 2) : web[w[k]].is = "redirect"
          /\ next.result = "page" <=> web[w[n + 1 - 1]].is = "page" /\ web[w[n + 1 - 1]].chunks <= MaxPage
      BY ONLY <2>1, <2>3, <2>10, <3>1, <3>2, <3>4
    <3>6. QED
      BY ONLY <2>8, <3>1, <3>3, <3>5 DEF Follows
  <2>11. QED
    BY <2>9, <2>10 DEF next
<1>4. QED
  BY <1>2, <1>3

LEMMA TurnsAre ==
  ASSUME MaxHops \in Nat, MaxPage \in Nat, NEW web \in AllWebs, NEW address \in Addresses
  PROVE  \E f : /\ f[0] = Web!Start(address)
                /\ \A n \in 1..(MaxHops + 1) : f[n] = Web!Hop(web, f[n - 1])
                /\ LET last == f[MaxHops + 1]
                   IN Web!FetchPublicPage(web, address) =
                        IF last.result = "open" THEN [last EXCEPT !.result = "unending"] ELSE last
<1> DEFINE N == MaxHops + 1
           Next1(f, n) == IF n = 0 THEN Web!Start(address) ELSE Web!Hop(web, f[n - 1])
           step == [n \in 1..N |-> [state \in Fetches |-> Web!Hop(web, state)]]
<1>1. Web!Start(address) \in Fetches
  BY DEF Web!Start, Fetches
<1>2. ASSUME NEW state \in Fetches PROVE Web!Hop(web, state) \in Fetches
  <2>1. CASE state.result # "open"
    BY <2>1 DEF Web!Hop
  <2>2. CASE state.result = "open"
    <3>1. PICK answer : answer = Web!Asked(web, state.at)
      OBVIOUS
    <3>2. /\ state.at \in Addresses /\ state.asked \in Seq(Addresses)
      BY DEF Fetches
    <3>3. /\ answer.is \in {"page", "redirect", "failure"}
          /\ answer.is = "redirect" => answer.to \in Addresses
      BY <3>1, <3>2, AnswersAre DEF Onward
    <3>4. Append(state.asked, state.at) \in Seq(Addresses)
      BY <3>2
    <3>5. QED
      BY <2>2, <3>1, <3>2, <3>3, <3>4 DEF Web!Hop, Fetches
  <2>3. QED
    BY <2>1, <2>2
<1>3. step \in [1..N -> [Fetches -> Fetches]]
  BY <1>2
<1>4. N \in Nat /\ \A n \in 1..N : n \in 0..N /\ n # 0 /\ n - 1 \in 0..N
  OBVIOUS
<1>5. \A n \in 1..N : \A state \in Fetches : step[n][state] = Web!Hop(web, state)
  OBVIOUS
<1> HIDE DEF step, N
<1>6. PICK g : Rounds(N, Fetches, Web!Start(address), step, g)
  BY <1>1, <1>3, <1>4, Iterated
<1>7. g \in [0..N -> Fetches] /\ \A n \in 0..N : g[n] = Next1(g, n)
  BY <1>4, <1>5, <1>6 DEF Rounds
<1>8. g = [n \in 0..N |-> Next1(g, n)]
  BY <1>7
<1>9. PICK f : /\ f = [n \in 0..N |-> Next1(f, n)]
               /\ Web!FetchPublicPage(web, address) =
                    IF f[N].result = "open" THEN [f[N] EXCEPT !.result = "unending"] ELSE f[N]
  <2> DEFINE whole == CHOOSE h : h = [n \in 0..N |-> Next1(h, n)]
  <2>1. whole = [n \in 0..N |-> Next1(whole, n)]
    BY <1>8, Zenon
  <2>2. Web!FetchPublicPage(web, address) =
          IF whole[N].result = "open" THEN [whole[N] EXCEPT !.result = "unending"] ELSE whole[N]
    BY Zenon DEF Web!FetchPublicPage, N
  <2> HIDE DEF whole
  <2>3. QED
    BY <2>1, <2>2
<1>10. \A n \in 0..N : f[n] = Next1(f, n)
  BY <1>9
<1>11. f[0] = Web!Start(address) /\ \A n \in 1..N : f[n] = Web!Hop(web, f[n - 1])
  BY <1>4, <1>10
<1>12. QED
  BY <1>9, <1>11 DEF N

\* fetchPublicPage ends at the page to which the redirects lead, or says why not,
\* for every web and every limit.
THEOREM PagesExact ==
  ASSUME MaxHops \in Nat, MaxPage \in Nat, NEW web \in AllWebs, NEW address \in Addresses
  PROVE  Web!PageIsReached(web, address)
<1> DEFINE N == MaxHops + 1
<1>1. PICK w \in [0..MaxHops -> Addresses] :
        /\ w[0] = address /\ \A n \in 1..MaxHops : w[n] = Onward(web, w[n - 1])
        /\ \A n \in 0..MaxHops : Web!Way(web, address, n) = w[n]
  BY WayIs
<1>2. PICK f : /\ f[0] = Web!Start(address)
               /\ \A n \in 1..N : f[n] = Web!Hop(web, f[n - 1])
               /\ Web!FetchPublicPage(web, address) =
                    IF f[N].result = "open" THEN [f[N] EXCEPT !.result = "unending"] ELSE f[N]
  BY TurnsAre
<1> DEFINE T == {n \in 0..N : Follows(web, w, f[n], n)}
<1>3. 0 \in T
  <2>1. Follows(web, w, Web!Start(address), 0)
    BY <1>1 DEF Follows, Web!Start, Fetches
  <2>2. QED
    BY <1>2, <2>1
<1>4. ASSUME NEW n \in 0..N, n \in T, n < N PROVE n + 1 \in T
  <2>1. n \in 0..MaxHops /\ n + 1 \in 1..N /\ n + 1 - 1 = n /\ Follows(web, w, f[n], n)
    BY <1>4
  <2>2. f[n + 1] = Web!Hop(web, f[n])
    BY <1>2, <2>1
  <2>3. Follows(web, w, f[n + 1], n + 1)
    BY <1>1, <2>1, <2>2, HopFollows
  <2>4. QED
    BY <2>1, <2>3
<1>5. Follows(web, w, f[N], N)
  <2> HIDE DEF T
  <2>1. N \in Nat /\ T \subseteq 0..N
    BY DEF T
  <2>2. T = 0..N
    BY <1>3, <1>4, <2>1, FromZero
  <2>3. QED
    BY <2>1, <2>2 DEF T
<1> HIDE DEF T
<1>6. PICK last : last = f[N]
  OBVIOUS
<1>7. PICK fetched : fetched = Web!FetchPublicPage(web, address)
  OBVIOUS
<1>8. last \in Fetches /\ Follows(web, w, last, N)
  BY <1>5, <1>6 DEF Follows
<1>9. /\ fetched.asked = last.asked /\ fetched.at = last.at
      /\ fetched.result = IF last.result = "open" THEN "unending" ELSE last.result
  BY <1>2, <1>6, <1>7, <1>8 DEF Fetches
<1>10. PICK m \in Nat : m = Len(last.asked) /\ m <= N
  BY <1>8 DEF Follows, Fetches
<1>11. \A k \in 1..m : last.asked[k] = w[k - 1] /\ k - 1 \in 0..MaxHops
  BY <1>8, <1>10 DEF Follows
<1>12. \A k \in 1..(m - 1) : web[last.asked[k]].is = "redirect"
  <2>1. \A k \in 0..(m - 2) : web[w[k]].is = "redirect"
    <3> HIDE DEF N
    <3>1. CASE last.result = "open"
      <4>1. \A k \in 0..(N - 1) : web[w[k]].is = "redirect"
        BY <1>8, <3>1 DEF Follows
      <4>2. m = N
        BY <1>8, <1>10, <3>1 DEF Follows
      <4>3. QED
        BY <4>1, <4>2
    <3>2. CASE last.result # "open"
      BY <1>8, <1>10, <3>2 DEF Follows
    <3>3. QED
      BY <3>1, <3>2
  <2>2. QED
    BY <1>11, <2>1
<1>13. DOMAIN last.asked = 1..m
  BY <1>8, <1>10 DEF Fetches
<1> DEFINE isPage == web[w[MaxHops]].is = "page" /\ web[w[MaxHops]].chunks <= MaxPage
<1>14. (fetched.result = "page" <=> isPage) /\ (fetched.result = "page" => fetched.at = w[MaxHops])
  <2>1. CASE last.result = "open"
    <3>1. web[w[MaxHops]].is = "redirect"
      BY <1>8, <2>1 DEF Follows
    <3>2. QED
      BY <1>9, <2>1, <3>1
  <2>2. CASE last.result # "open"
    <3>1. /\ m \in 1..N /\ last.at = w[m - 1] /\ web[w[m - 1]].is # "redirect"
          /\ last.result = "page" <=> web[w[m - 1]].is = "page" /\ web[w[m - 1]].chunks <= MaxPage
      BY <1>8, <1>10, <2>2 DEF Follows
    <3>2. m - 1 \in 0..MaxHops
      BY <3>1
    <3> DEFINE U == {n \in 0..(MaxHops - (m - 1)) : w[m - 1 + n] = w[m - 1]}
    <3>3. 0 \in U
      BY <3>2
    <3>4. ASSUME NEW n \in 0..(MaxHops - (m - 1)), n \in U, n < MaxHops - (m - 1) PROVE n + 1 \in U
      <4>1. m - 1 + (n + 1) \in 1..MaxHops /\ m - 1 + (n + 1) - 1 = m - 1 + n /\ w[m - 1 + n] = w[m - 1]
        BY <3>2, <3>4
      <4>2. w[m - 1 + (n + 1)] = Onward(web, w[m - 1 + n])
        BY <1>1, <4>1
      <4>3. Onward(web, w[m - 1]) = w[m - 1]
        BY <3>1 DEF Onward
      <4>4. QED
        BY <3>4, <4>1, <4>2, <4>3
    <3>5. w[MaxHops] = w[m - 1]
      <4> HIDE DEF U
      <4>1. MaxHops - (m - 1) \in Nat /\ U \subseteq 0..(MaxHops - (m - 1))
        BY <3>2 DEF U
      <4>2. U = 0..(MaxHops - (m - 1))
        BY <3>3, <3>4, <4>1, FromZero
      <4>3. MaxHops - (m - 1) \in U /\ m - 1 + (MaxHops - (m - 1)) = MaxHops
        BY <3>2, <4>1, <4>2
      <4>4. QED
        BY <4>3 DEF U
    <3>6. QED
      BY <1>9, <2>2, <3>1, <3>5
  <2>3. QED
    BY <2>1, <2>2
<1>15. Web!Way(web, address, MaxHops) = w[MaxHops] /\ \A k \in 1..m : Web!Way(web, address, k - 1) = w[k - 1]
  <2>1. Web!Way(web, address, MaxHops) = w[MaxHops]
    <3>1. MaxHops \in 0..MaxHops
      BY ONLY MaxHops \in Nat
    <3>2. QED
      BY ONLY <1>1, <3>1
  <2>2. ASSUME NEW k \in 1..m PROVE Web!Way(web, address, k - 1) = w[k - 1]
    <3>1. k - 1 \in 0..MaxHops
      BY ONLY <1>11, k \in 1..m
    <3>2. QED
      BY ONLY <1>1, <3>1
  <2>3. QED
    BY ONLY <2>1, <2>2
<1>16. QED
  BY <1>7, <1>9, <1>10, <1>11, <1>12, <1>13, <1>14, <1>15 DEF Web!PageIsReached

\* The loop of parseSearchResponse can be followed from payload to payload.
LEMMA ReadsAre ==
  ASSUME NEW payloads \in Seq(Web!Payloads)
  PROVE  \E f : /\ f[0] = "nothing"
                /\ \A n \in 1..Len(payloads) : f[n] = Web!Read(f[n - 1], payloads[n])
                /\ Web!ParseSearchResponse(payloads) = f[Len(payloads)]
<1> DEFINE N == Len(payloads)
           S == Web!Payloads \cup {"nothing"}
           Next1(f, n) == IF n = 0 THEN "nothing" ELSE Web!Read(f[n - 1], payloads[n])
           step == [n \in 1..N |-> [result \in S |-> Web!Read(result, payloads[n])]]
<1>1. N \in Nat /\ DOMAIN payloads = 1..N /\ \A n \in 1..N : payloads[n] \in Web!Payloads
  OBVIOUS
<1>2. "nothing" \in S
  OBVIOUS
<1>3. \A n \in 1..N, result \in S : Web!Read(result, payloads[n]) \in S
  BY <1>1 DEF Web!Read
<1>4. /\ step \in [1..N -> [S -> S]]
      /\ \A n \in 1..N, result \in S : step[n][result] = Web!Read(result, payloads[n])
  BY <1>3
<1> HIDE DEF S, step, N
<1>5. PICK g : Rounds(N, S, "nothing", step, g)
  BY <1>1, <1>2, <1>4, Iterated
<1>6. \A n \in 1..N : n \in 0..N /\ n # 0 /\ n - 1 \in 0..N
  BY <1>1
<1>7. g \in [0..N -> S] /\ \A n \in 0..N : g[n] = Next1(g, n)
  BY <1>1, <1>4, <1>5, <1>6 DEF Rounds
<1>8. g = [n \in 0..N |-> Next1(g, n)]
  BY <1>7
<1>9. PICK f : f = [n \in 0..N |-> Next1(f, n)] /\ Web!ParseSearchResponse(payloads) = f[N]
  <2> DEFINE whole == CHOOSE h : h = [n \in 0..N |-> Next1(h, n)]
  <2>1. whole = [n \in 0..N |-> Next1(whole, n)]
    BY <1>8, Zenon
  <2>2. Web!ParseSearchResponse(payloads) = whole[N]
    BY Zenon DEF Web!ParseSearchResponse, N
  <2> HIDE DEF whole
  <2>3. QED
    BY <2>1, <2>2
<1>10. \A n \in 0..N : f[n] = Next1(f, n)
  BY <1>9
<1>11. f[0] = "nothing" /\ \A n \in 1..N : f[n] = Web!Read(f[n - 1], payloads[n])
  BY <1>1, <1>6, <1>10
<1>12. QED
  BY <1>9, <1>11 DEF N

\* The loop of parseSearchResponse ends with the first payload that is not passed
\* over, and with nothing exactly if there is none, in answers of any length.
THEOREM SearchesExact ==
  ASSUME NEW payloads \in Seq(Web!Payloads)
  PROVE  Web!SearchIsFound(payloads)
<1>1. PICK N \in Nat : N = Len(payloads) /\ DOMAIN payloads = 1..N
  OBVIOUS
<1>2. PICK f : /\ f[0] = "nothing"
               /\ \A n \in 1..N : f[n] = Web!Read(f[n - 1], payloads[n])
               /\ Web!ParseSearchResponse(payloads) = f[N]
  BY <1>1, ReadsAre
<1> DEFINE Mute(m) == \A k \in 1..m : payloads[k] \in Web!Skipped
           Until(m) == /\ Mute(m) => f[m] = "nothing"
                       /\ \A n \in 1..m : payloads[n] \notin Web!Skipped /\ Mute(n - 1) =>
                                           f[m] = payloads[n]
                       /\ ~Mute(m) => \E n \in 1..m : payloads[n] \notin Web!Skipped /\ Mute(n - 1)
           T == {m \in 0..N : Until(m)}
<1>3. \A n \in 1..N : payloads[n] # "nothing"
  BY <1>1 DEF Web!Payloads
<1>4. 0 \in T
  <2>1. 1..0 = {} /\ 0 \in 0..N
    BY <1>1
  <2>2. QED
    BY <1>2, <2>1
<1>5. ASSUME NEW m \in 0..N, m \in T, m < N PROVE m + 1 \in T
  <2>1. /\ m \in Nat /\ m + 1 \in 1..N /\ m + 1 \in 0..N /\ (m + 1) - 1 = m
        /\ \A k : k \in 1..(m + 1) <=> k \in 1..m \/ k = m + 1
        /\ \A n \in 1..m : n \in 1..N /\ \A k \in 1..(n - 1) : k \in 1..m
    BY <1>1, <1>5
  <2>2. f[m + 1] = Web!Read(f[m], payloads[m + 1])
    BY <1>2, <2>1
  <2>3. Until(m)
    BY <1>5
  <2>4. CASE Mute(m)
    <3>1. f[m] = "nothing" /\ \A n \in 1..m : payloads[n] \in Web!Skipped
      BY <2>3, <2>4
    <3>2. f[m + 1] = IF payloads[m + 1] \in Web!Skipped THEN "nothing" ELSE payloads[m + 1]
      BY <2>2, <3>1 DEF Web!Read
    <3>3. QED
      BY <2>1, <2>4, <3>1, <3>2
  <2>5. CASE ~Mute(m)
    <3>1. PICK n \in 1..m : payloads[n] \notin Web!Skipped /\ Mute(n - 1)
      BY <2>3, <2>5
    <3>2. f[m] = payloads[n] /\ f[m] # "nothing"
      BY <1>3, <2>1, <2>3, <3>1
    <3>3. f[m + 1] = f[m]
      BY <2>2, <3>2 DEF Web!Read
    <3>4. ~Mute(m + 1)
      BY <2>1, <2>5
    <3>5. \A k \in 1..(m + 1) : payloads[k] \notin Web!Skipped /\ Mute(k - 1) => k \in 1..m
      BY <2>1, <2>5
    <3>6. QED
      BY <2>1, <2>3, <3>1, <3>2, <3>3, <3>4, <3>5
  <2>6. QED
    BY <2>4, <2>5
<1>6. Until(N)
  <2>1. T \in SUBSET (0..N) /\ 0 \in 0..N /\ N \in 0..N
    BY <1>1
  <2> HIDE DEF T
  <2>2. T = 0..N
    BY <1>1, <1>4, <1>5, <2>1, FromZero
  <2>3. QED
    BY <2>1, <2>2 DEF T
<1>7. "text" \notin Web!Skipped
  BY DEF Web!Skipped
<1>8. CASE Mute(N)
  BY <1>1, <1>2, <1>6, <1>7, <1>8 DEF Web!SearchIsFound
<1>9. CASE ~Mute(N)
  <2>1. PICK n \in 1..N : payloads[n] \notin Web!Skipped /\ Mute(n - 1)
    BY <1>6, <1>9
  <2>2. f[N] = payloads[n] /\ f[N] # "nothing"
    BY <1>3, <1>6, <2>1
  <2>3. \A k \in 1..N : payloads[k] \notin Web!Skipped /\ Mute(k - 1) => k = n
    <3>1. ASSUME NEW k \in 1..N, payloads[k] \notin Web!Skipped, Mute(k - 1) PROVE k = n
      <4>1. ~(k \in 1..(n - 1)) /\ ~(n \in 1..(k - 1))
        BY <2>1, <3>1
      <4>2. QED
        BY <1>1, <4>1
    <3>2. QED
      BY <3>1
  <2>4. QED
    BY <1>1, <1>2, <1>7, <1>9, <2>1, <2>2, <2>3 DEF Web!SearchIsFound
<1>10. QED
  BY <1>8, <1>9

-----------------------------------------------------------------------------
(* The files of a session *)

\* The way to a file: its directories, and itself.
PathNames == FileNames \cup {"..", "odd", "sessions", "s", "data"}
StepTo(sub, n) == Files!Under(Files!Base, SubSeq(sub, 1, n))

LEMMA BaseIs == Files!Base \in Seq(PathNames) /\ Len(Files!Base) = 3
BY DEF Files!Base, PathNames

LEMMA StepIs ==
  ASSUME NEW sub \in Seq(PathNames), NEW n \in 0..Len(sub)
  PROVE  /\ StepTo(sub, n) \in Seq(PathNames) /\ Len(StepTo(sub, n)) = 3 + n
         /\ StepTo(sub, n) = SubSeq(Files!Under(Files!Base, sub), 1, 3 + n)
<1> DEFINE b == Files!Base
<1>1. b \in Seq(PathNames) /\ Len(b) = 3
  BY BaseIs
<1> HIDE DEF b
<1>2. PICK t : Cut(PathNames, sub, n, t)
  BY ONLY sub \in Seq(PathNames), n \in 0..Len(sub), CutIs
<1>3. t \in Seq(PathNames) /\ t = SubSeq(sub, 1, n) /\ Len(t) = n
  BY ONLY <1>2 DEF Cut
<1>4. PICK q : Joined(PathNames, b, t, q)
  BY ONLY <1>1, <1>3, JoinedSo
<1>5. q \in Seq(PathNames) /\ q = b \o t /\ Len(q) = 3 + n
  BY ONLY <1>1, <1>3, <1>4 DEF Joined
<1>6. SubSeq(b \o sub, 1, Len(b) + n) = b \o SubSeq(sub, 1, n)
  BY ONLY <1>1, sub \in Seq(PathNames), n \in 0..Len(sub), UnderCut
<1>7. q = StepTo(sub, n)
  BY ONLY <1>3, <1>5 DEF StepTo, Files!Under, b
<1>8. SubSeq(Files!Under(b, sub), 1, 3 + n) = q
  BY ONLY <1>1, <1>3, <1>5, <1>6 DEF Files!Under
<1>9. QED
  BY ONLY <1>5, <1>7, <1>8 DEF b

LEMMA StepsAre ==
  ASSUME NEW sub \in Seq(PathNames)
  PROVE  /\ StepTo(sub, 0) = Files!Base /\ StepTo(sub, Len(sub)) = Files!Under(Files!Base, sub)
         /\ \A n \in 1..Len(sub) : Files!Front(StepTo(sub, n)) = StepTo(sub, n - 1)
         /\ \A k, n \in 0..Len(sub) : k # n => StepTo(sub, k) # StepTo(sub, n)
         /\ \A n \in 1..Len(sub) : StepTo(sub, n) # Files!Base
<1> DEFINE b == Files!Base
           p == Files!Under(b, sub)
<1>1. b \in Seq(PathNames) /\ Len(b) = 3
  BY BaseIs
<1> HIDE DEF b
<1>2. Len(sub) \in Nat
  OBVIOUS
<1>3. StepTo(sub, 0) = b
  <2>1. SubSeq(sub, 1, 0) = <<>>
    BY WholeFirst
  <2>2. b \o <<>> = b
    BY <1>1, JoinNil
  <2>3. QED
    BY <2>1, <2>2 DEF StepTo, Files!Under, b
<1>4. StepTo(sub, Len(sub)) = p
  BY WholeFirst DEF StepTo, b
<1>5. ASSUME NEW n \in 1..Len(sub) PROVE Files!Front(StepTo(sub, n)) = StepTo(sub, n - 1)
  <2>1. PICK q : Joined(PathNames, b, sub, q)
    BY ONLY <1>1, sub \in Seq(PathNames), JoinedSo
  <2>2. q \in Seq(PathNames) /\ q = p /\ Len(q) = 3 + Len(sub)
    BY ONLY <1>1, <2>1 DEF Joined, Files!Under
  <2> HIDE DEF p
  <2>3. PICK m : m = 2 + n
    OBVIOUS
  <2>4. PICK c : c = 3 + n
    OBVIOUS
  <2>5. /\ n \in 0..Len(sub) /\ n - 1 \in 0..Len(sub) /\ 3 + (n - 1) = m /\ c - 1 = m
        /\ c \in 0..Len(q) /\ m \in 0..c
    BY <1>2, <2>2, <2>3, <2>4
  <2>6. StepTo(sub, n) = SubSeq(q, 1, c) /\ Len(StepTo(sub, n)) = c
    BY <2>2, <2>4, <2>5, StepIs DEF p, b
  <2>7. StepTo(sub, n - 1) = SubSeq(q, 1, m)
    BY <2>2, <2>5, StepIs DEF p, b
  <2>8. Files!Front(StepTo(sub, n)) = SubSeq(SubSeq(q, 1, c), 1, m)
    BY <2>5, <2>6 DEF Files!Front
  <2>9. SubSeq(SubSeq(q, 1, c), 1, m) = SubSeq(q, 1, m)
    BY ONLY <2>2, <2>5, CutTwice
  <2>10. QED
    BY ONLY <2>7, <2>8, <2>9
<1>6. \A k, n \in 0..Len(sub) : k # n => StepTo(sub, k) # StepTo(sub, n)
  <2>1. \A k \in 0..Len(sub) : Len(StepTo(sub, k)) = 3 + k
    BY StepIs
  <2>2. QED
    BY <1>2, <2>1
<1>7. \A n \in 1..Len(sub) : StepTo(sub, n) # b
  BY <1>2, <1>3, <1>6
<1>8. QED
  BY <1>3, <1>4, <1>5, <1>6, <1>7 DEF b

\* What a path has to be like for the files of a session.
Sane(tree, sub) ==
  /\ \A n \in DOMAIN sub : sub[n] \notin {"..", "odd"}
  /\ \A n \in 0..Len(sub) : tree[StepTo(sub, n)] # "link"
  /\ \A n \in 1..Len(sub) : tree[StepTo(sub, n - 1)] = "directory"

LEMMA ResolveIs ==
  ASSUME NEW tree, NEW sub \in Seq(PathNames)
  PROVE  /\ Sane(tree, sub) => Files!Resolve(tree, sub) = Files!Under(Files!Base, sub)
         /\ ~Sane(tree, sub) => Files!Resolve(tree, sub) = Files!Error
         /\ Files!Under(Files!Base, sub) # Files!Error
<1> DEFINE steps == {Files!Under(Files!Base, SubSeq(sub, 1, n)) : n \in 0..Len(sub)}
<1>1. \A step : step \in steps <=> \E n \in 0..Len(sub) : step = StepTo(sub, n)
  BY DEF StepTo
<1>2. /\ StepTo(sub, 0) = Files!Base /\ StepTo(sub, Len(sub)) = Files!Under(Files!Base, sub)
      /\ \A n \in 1..Len(sub) : Files!Front(StepTo(sub, n)) = StepTo(sub, n - 1)
      /\ \A n \in 1..Len(sub) : StepTo(sub, n) # Files!Base
  BY StepsAre
<1>3. Len(sub) \in Nat /\ \A n \in 0..Len(sub) : n = 0 \/ n \in 1..Len(sub)
  OBVIOUS
<1>4. (\E step \in steps : tree[step] = "link") <=> \E n \in 0..Len(sub) : tree[StepTo(sub, n)] = "link"
  BY <1>1
<1>5. (\E step \in steps \ {Files!Base} : tree[Files!Front(step)] # "directory")
        <=> \E n \in 1..Len(sub) : tree[StepTo(sub, n - 1)] # "directory"
  <2>1. ASSUME NEW step \in steps \ {Files!Base}, tree[Files!Front(step)] # "directory"
        PROVE  \E n \in 1..Len(sub) : tree[StepTo(sub, n - 1)] # "directory"
    <3>1. PICK n \in 0..Len(sub) : step = StepTo(sub, n)
      BY <1>1, <2>1
    <3>2. n \in 1..Len(sub)
      BY <1>2, <1>3, <2>1, <3>1
    <3>3. QED
      BY <1>2, <2>1, <3>1, <3>2
  <2>2. ASSUME NEW n \in 1..Len(sub), tree[StepTo(sub, n - 1)] # "directory"
        PROVE  \E step \in steps \ {Files!Base} : tree[Files!Front(step)] # "directory"
    <3>0. n \in 0..Len(sub)
      BY <1>3
    <3>1. n \in 0..Len(sub) /\ StepTo(sub, n) \in steps \ {Files!Base}
      BY ONLY <1>1, <1>2, <2>2, <3>0
    <3>2. tree[Files!Front(StepTo(sub, n))] # "directory"
      BY <1>2, <2>2
    <3>3. QED
      BY <3>1, <3>2
  <2>3. QED
    BY <2>1, <2>2
<1>6. Files!Under(Files!Base, sub) # Files!Error
  <2>1. Len(sub) \in 0..Len(sub)
    BY <1>3
  <2>2. Len(StepTo(sub, Len(sub))) = 3 + Len(sub)
    BY <2>1, StepIs
  <2>3. Len(Files!Error) = 1
    BY DEF Files!Error
  <2>4. Len(StepTo(sub, Len(sub))) # 1
    BY ONLY <1>3, <2>2
  <2>5. QED
    BY ONLY <1>2, <2>3, <2>4
<1>7. QED
  <2> HIDE DEF steps
  <2>1. Sane(tree, sub) <=> ~( \/ \E n \in DOMAIN sub : sub[n] \in {"..", "odd"}
                               \/ \E step \in steps : tree[step] = "link"
                               \/ \E step \in steps \ {Files!Base} : tree[Files!Front(step)] # "directory")
    BY <1>4, <1>5 DEF Sane
  <2>2. Files!Resolve(tree, sub) =
          IF \/ \E n \in DOMAIN sub : sub[n] \in {"..", "odd"}
             \/ \E step \in steps : tree[step] = "link"
             \/ \E step \in steps \ {Files!Base} : tree[Files!Front(step)] # "directory"
          THEN Files!Error ELSE Files!Under(Files!Base, sub)
    BY DEF Files!Resolve, steps
  <2>3. QED
    BY <1>6, <2>1, <2>2

LEMMA PathsAre ==
  ASSUME MaxDepth \in Nat, NEW sub \in Files!SubPaths
  PROVE  sub \in Seq(PathNames) /\ sub \in Seq(FileNames \cup {"..", "odd"})
<1>1. PICK n \in 0..MaxDepth : sub \in [1..n -> FileNames \cup {"..", "odd"}]
  BY DEF Files!SubPaths
<1>2. sub \in Seq(FileNames \cup {"..", "odd"})
  BY <1>1, MaxDepth \in Nat
<1>3. QED
  BY <1>2 DEF PathNames

\* The files of the tree, by their paths below the directory of the files.
LEMMA TreeIs ==
  ASSUME MaxDepth \in Nat
  PROVE  /\ Files!Base \in Files!WholeTree
         /\ \A s \in Seq(FileNames) :
              Len(s) \in 1..MaxDepth => Files!Under(Files!Base, s) \in Files!WholeTree
         /\ \A path \in Files!WholeTree :
              path = Files!Base \/ \E s \in Seq(FileNames) : /\ Len(s) \in 1..MaxDepth
                                                             /\ path = Files!Under(Files!Base, s)
<1> DEFINE lower == UNION {[1..n -> FileNames] : n \in 1..MaxDepth}
<1>1. Files!WholeTree = {Files!Base} \cup {Files!Under(Files!Base, s) : s \in lower}
  BY DEF Files!WholeTree
<1>2. \A s \in Seq(FileNames) : Len(s) \in 1..MaxDepth => s \in lower
  OBVIOUS
<1>3. ASSUME NEW s \in lower PROVE s \in Seq(FileNames) /\ Len(s) \in 1..MaxDepth
  <2>1. PICK n \in 1..MaxDepth : s \in [1..n -> FileNames]
    OBVIOUS
  <2>2. n \in Nat
    OBVIOUS
  <2>3. s \in Seq(FileNames) /\ Len(s) = n
    BY <2>1, <2>2
  <2>4. QED
    BY <2>3
<1> HIDE DEF lower
<1>4. QED
  BY <1>1, <1>2, <1>3

\* The names of a good path are those of files, and its steps are in the tree.
LEMMA GoodIs ==
  ASSUME MaxDepth \in Nat, NEW tree, NEW sub \in Files!SubPaths, Sane(tree, sub)
  PROVE  /\ sub \in Seq(FileNames) /\ Len(sub) \in 0..MaxDepth
         /\ \A n \in 0..Len(sub) : StepTo(sub, n) \in Files!WholeTree
<1>1. PICK m \in 0..MaxDepth : sub \in [1..m -> FileNames \cup {"..", "odd"}]
  BY DEF Files!SubPaths
<1>2. m \in Nat /\ Len(sub) = m /\ DOMAIN sub = 1..m /\ sub \in Seq(PathNames)
  BY <1>1, PathsAre
<1>3. \A n \in 1..m : sub[n] \in FileNames
  BY <1>1, <1>2 DEF Sane
<1>4. sub \in Seq(FileNames)
  BY <1>1, <1>2, <1>3
<1>5. ASSUME NEW n \in 0..Len(sub) PROVE StepTo(sub, n) \in Files!WholeTree
  <2>1. CASE n = 0
    BY <1>2, <2>1, StepsAre, TreeIs
  <2>2. CASE n # 0
    <3>1. PICK t : Cut(FileNames, sub, n, t)
      BY ONLY <1>4, <1>5, CutIs
    <3>2. t \in Seq(FileNames) /\ Len(t) = n /\ t = SubSeq(sub, 1, n)
      BY ONLY <3>1 DEF Cut
    <3>3. n \in 1..MaxDepth
      BY <1>2, <2>2
    <3>4. Files!Under(Files!Base, t) \in Files!WholeTree
      BY <3>2, <3>3, TreeIs
    <3>5. QED
      BY <3>2, <3>4 DEF StepTo
  <2>3. QED
    BY <2>1, <2>2
<1>6. QED
  BY <1>2, <1>4, <1>5

LEMMA StepOfFront ==
  ASSUME NEW sub \in Seq(PathNames), Len(sub) # 0
  PROVE  /\ Files!Front(sub) \in Seq(PathNames) /\ Len(Files!Front(sub)) = Len(sub) - 1
         /\ \A n \in 0..(Len(sub) - 1) : StepTo(Files!Front(sub), n) = StepTo(sub, n)
         /\ \A n \in 1..(Len(sub) - 1) : Files!Front(sub)[n] = sub[n]
<1>1. PICK l : l = Len(sub) - 1
  OBVIOUS
<1>2. l \in Nat /\ l \in 0..Len(sub) /\ l + 1 = Len(sub)
  BY <1>1
<1>3. PICK t : Cut(PathNames, sub, l, t)
  BY ONLY sub \in Seq(PathNames), <1>2, CutIs
<1>4. t \in Seq(PathNames) /\ Len(t) = l /\ t = Files!Front(sub) /\ \A n \in 1..l : t[n] = sub[n]
  BY ONLY <1>1, <1>3 DEF Cut, Files!Front
<1>5. ASSUME NEW n \in 0..l PROVE SubSeq(t, 1, n) = SubSeq(sub, 1, n)
  <2>1. SubSeq(SubSeq(sub, 1, l), 1, n) = SubSeq(sub, 1, n)
    BY ONLY sub \in Seq(PathNames), <1>2, <1>5, CutTwice
  <2>2. QED
    BY ONLY <1>3, <2>1 DEF Cut
<1>6. QED
  BY <1>1, <1>4, <1>5 DEF StepTo

LEMMA WrittenIs ==
  ASSUME MaxDepth \in Nat, {"..", "odd"} \cap FileNames = {},
         NEW tree \in Files!Trees, NEW sub \in Files!SubPaths, Files!Written(tree, sub) # tree
  PROVE  /\ Sane(tree, sub) /\ Len(sub) # 0
         /\ Files!Under(Files!Base, sub) \in DOMAIN tree
         /\ Files!Written(tree, sub) = [tree EXCEPT ![Files!Under(Files!Base, sub)] = "file"]
<1>1. sub \in Seq(PathNames)
  BY PathsAre
<1>2. Sane(tree, sub) /\ Files!Resolve(tree, sub) = Files!Under(Files!Base, sub)
  BY <1>1, ResolveIs DEF Files!Written
<1>3. /\ tree[Files!Under(Files!Base, sub)] # "directory"
      /\ Files!Written(tree, sub) = [tree EXCEPT ![Files!Under(Files!Base, sub)] = "file"]
  BY <1>2 DEF Files!Written
<1>4. StepTo(sub, 0) = Files!Base /\ StepTo(sub, Len(sub)) = Files!Under(Files!Base, sub)
  BY <1>1, StepsAre
<1>5. Len(sub) \in Nat
  BY <1>1
<1>6. Len(sub) # 0
  <2>1. SUFFICES ASSUME Len(sub) = 0 PROVE FALSE
    OBVIOUS
  <2>2. tree[Files!Base] \in {"directory", "link"}
    BY DEF Files!Trees
  <2>3. 0 \in 0..Len(sub)
    BY <1>5
  <2>4. tree[StepTo(sub, 0)] # "link"
    BY <1>2, <2>3 DEF Sane
  <2>5. QED
    BY <1>3, <1>4, <2>1, <2>2, <2>4
<1>7. Files!Under(Files!Base, sub) \in DOMAIN tree
  <2>1. Len(sub) \in 0..Len(sub) /\ DOMAIN tree = Files!WholeTree
    BY <1>5 DEF Files!Trees
  <2>2. QED
    BY <1>2, <1>4, <2>1, GoodIs
<1>8. QED
  BY <1>2, <1>3, <1>6, <1>7

LEMMA WrittenExact ==
  ASSUME MaxDepth \in Nat, {"..", "odd"} \cap FileNames = {},
         NEW tree \in Files!Trees, NEW sub \in Files!SubPaths, NEW after,
         after = Files!Written(tree, sub), after # tree,
         NEW path, path = Files!Under(Files!Base, sub)
  PROVE  /\ Files!Reads(after, sub) /\ path \in Files!List(after, Files!Front(sub))
         /\ \A other \in DOMAIN tree \ {path} : after[other] = tree[other]
         /\ \A step \in Files!Before(path) : step \in DOMAIN tree => tree[step] = "directory"
<1>1. sub \in Seq(PathNames) /\ Len(sub) \in Nat
  BY PathsAre
<1>2. /\ Sane(tree, sub) /\ Len(sub) # 0 /\ path \in DOMAIN tree
      /\ after = [tree EXCEPT ![path] = "file"]
  BY WrittenIs
<1>3. /\ DOMAIN tree = Files!WholeTree /\ DOMAIN after = DOMAIN tree /\ after[path] = "file"
      /\ \A other \in DOMAIN tree : other # path => after[other] = tree[other]
  BY <1>2 DEF Files!Trees
<1>4. /\ StepTo(sub, Len(sub)) = path
      /\ \A n \in 1..Len(sub) : Files!Front(StepTo(sub, n)) = StepTo(sub, n - 1)
      /\ \A k, n \in 0..Len(sub) : k # n => StepTo(sub, k) # StepTo(sub, n)
      /\ \A n \in 1..Len(sub) : StepTo(sub, n) # Files!Base
  BY <1>1, StepsAre
<1>5. \A n \in 0..Len(sub) : StepTo(sub, n) \in DOMAIN tree
  BY <1>2, <1>3, GoodIs
<1>6. PICK l : l = Len(sub) - 1
  OBVIOUS
<1>7. l \in Nat /\ l + 1 = Len(sub) /\ \A n \in 0..l : n \in 0..Len(sub) /\ n # Len(sub)
  BY <1>1, <1>2, <1>6
<1>8. Len(sub) \in 0..Len(sub) /\ Len(sub) \in 1..Len(sub) /\ \A n \in 0..Len(sub) : n \in 0..l \/ n = Len(sub)
  BY <1>1, <1>2, <1>7
<1>9. \A n \in 0..l : after[StepTo(sub, n)] = tree[StepTo(sub, n)]
  BY ONLY <1>3, <1>4, <1>5, <1>7, <1>8
<1>10. \A n \in 1..Len(sub) : n - 1 \in 0..l
  BY <1>7
<1>11. \A n \in 0..l : tree[StepTo(sub, n)] = "directory"
  <2>1. ASSUME NEW n \in 0..l PROVE tree[StepTo(sub, n)] = "directory"
    <3>1. n + 1 \in 1..Len(sub) /\ (n + 1) - 1 = n
      BY <1>7
    <3>2. tree[StepTo(sub, (n + 1) - 1)] = "directory"
      BY ONLY <1>2, <3>1 DEF Sane
    <3>3. QED
      BY <3>1, <3>2
  <2>2. QED
    BY <2>1
<1>12. Sane(after, sub)
  <2>1. \A n \in 0..Len(sub) : after[StepTo(sub, n)] # "link"
    BY ONLY <1>3, <1>4, <1>8, <1>9, <1>11
  <2>2. \A n \in 1..Len(sub) : after[StepTo(sub, n - 1)] = "directory"
    BY ONLY <1>9, <1>10, <1>11
  <2>3. QED
    BY <1>2, <2>1, <2>2 DEF Sane
<1>13. Files!Reads(after, sub)
  <2>1. Files!Resolve(after, sub) = path /\ path # Files!Error
    BY ONLY <1>1, <1>12, ResolveIs, path = Files!Under(Files!Base, sub)
  <2>2. QED
    BY <1>3, <2>1 DEF Files!Reads
<1>14. path \in Files!List(after, Files!Front(sub))
  <2>1. PICK front : front = Files!Front(sub)
    OBVIOUS
  <2>2. /\ front \in Seq(PathNames) /\ Len(front) = l
        /\ \A n \in 0..l : StepTo(front, n) = StepTo(sub, n)
        /\ \A n \in 1..l : front[n] = sub[n]
    BY <1>1, <1>2, <1>6, <2>1, StepOfFront
  <2>3. DOMAIN front = 1..l /\ DOMAIN sub = 1..Len(sub)
    BY <1>1, <2>2
  <2>4. Sane(after, front)
    <3>1. \A n \in DOMAIN front : front[n] \notin {"..", "odd"}
      <4>1. \A n \in 1..l : n \in 1..Len(sub)
        BY <1>7
      <4>2. QED
        BY <1>2, <2>2, <2>3, <4>1 DEF Sane
    <3>2. \A n \in 0..l : after[StepTo(front, n)] # "link"
      BY <1>9, <1>11, <2>2
    <3>3. \A n \in 1..l : n - 1 \in 0..l
      BY <1>7
    <3>4. \A n \in 1..l : after[StepTo(front, n - 1)] = "directory"
      BY <1>9, <1>11, <2>2, <3>3
    <3>5. QED
      BY <2>2, <3>1, <3>2, <3>4 DEF Sane
  <2>5. /\ Files!Resolve(after, front) = Files!Under(Files!Base, front)
        /\ Files!Under(Files!Base, front) # Files!Error
    BY <2>2, <2>4, ResolveIs
  <2>6. Files!Under(Files!Base, front) = StepTo(sub, l)
    <3>1. StepTo(front, Len(front)) = Files!Under(Files!Base, front)
      BY <2>2, StepsAre
    <3>2. l \in 0..l
      BY <1>7
    <3>3. QED
      BY ONLY <2>2, <3>1, <3>2
  <2>7. Files!Front(path) = StepTo(sub, l) /\ path # Files!Base
    BY ONLY <1>4, <1>6, <1>8
  <2>8. after[StepTo(sub, l)] = "directory"
    <3>1. l \in 0..l
      BY <1>7
    <3>2. QED
      BY <1>9, <1>11, <3>1
  <2>9. QED
    BY <1>2, <1>3, <2>1, <2>5, <2>6, <2>7, <2>8 DEF Files!List
<1>15. ASSUME NEW step \in Files!Before(path), step \in DOMAIN tree PROVE tree[step] = "directory"
  <2>1. PICK n \in 1..(Len(path) - 1) : step = SubSeq(path, 1, n)
    BY <1>15 DEF Files!Before
  <2>2. Len(path) = 3 + Len(sub) /\ path \in Seq(PathNames)
    BY <1>1, <1>4, <1>8, StepIs
  <2>3. n \in 1..(2 + Len(sub)) /\ n \in 0..Len(path)
    BY <1>1, <2>2
  <2>4. Len(step) = n
    <3>1. PICK t : Cut(PathNames, path, n, t)
      BY ONLY <2>2, <2>3, CutIs
    <3>2. QED
      BY <2>1, <3>1 DEF Cut
  <2>5. Len(step) >= 3
    <3>1. CASE step = Files!Base
      BY <3>1, BaseIs
    <3>2. CASE step # Files!Base
      <4>1. PICK s \in Seq(FileNames) : Len(s) \in 1..MaxDepth /\ step = Files!Under(Files!Base, s)
        BY <1>3, <1>15, <3>2, TreeIs
      <4>2. s \in Seq(PathNames)
        BY DEF PathNames
      <4>3. PICK q : Joined(PathNames, Files!Base, s, q)
        BY ONLY <4>2, BaseIs, JoinedSo
      <4>4. Len(step) = 3 + Len(s) /\ Len(s) \in Nat
        BY <4>1, <4>3, BaseIs DEF Joined, Files!Under
      <4>5. QED
        BY <4>4
    <3>3. QED
      BY <3>1, <3>2
  <2>6. PICK k \in 0..l : n = 3 + k
    <3>1. n - 3 \in 0..l /\ n = 3 + (n - 3)
      BY <1>7, <2>3, <2>4, <2>5
    <3>2. QED
      BY <3>1
  <2>7. step = StepTo(sub, k)
    <3>1. k \in 0..Len(sub)
      BY <1>7
    <3>2. StepTo(sub, k) = SubSeq(path, 1, 3 + k)
      BY <1>1, <3>1, StepIs
    <3>3. QED
      BY <2>1, <2>6, <3>2
  <2>8. QED
    BY <1>11, <2>7
<1>16. QED
  BY <1>3, <1>13, <1>14, <1>15

LEMMA ListedExact ==
  ASSUME MaxDepth \in Nat, {"..", "odd"} \cap FileNames = {},
         NEW tree \in Files!Trees, NEW sub \in Files!SubPaths,
         NEW listed \in Files!List(tree, sub), tree[listed] = "file"
  PROVE  Files!Reads(tree, SubSeq(listed, Len(Files!Base) + 1, Len(listed)))
<1>1. sub \in Seq(PathNames) /\ Len(sub) \in Nat
  BY PathsAre
<1>2. /\ Files!Resolve(tree, sub) # Files!Error /\ listed \in DOMAIN tree /\ listed # Files!Base
      /\ Files!Front(listed) = Files!Resolve(tree, sub)
  BY DEF Files!List
<1>3. Sane(tree, sub) /\ Files!Front(listed) = Files!Under(Files!Base, sub)
  BY <1>1, <1>2, ResolveIs
<1>4. /\ DOMAIN tree = Files!WholeTree
      /\ \A path \in Files!WholeTree \ {Files!Base} :
            tree[path] # "none" => tree[Files!Front(path)] = "directory"
  BY DEF Files!Trees
<1>5. tree[Files!Front(listed)] = "directory"
  BY <1>2, <1>4
<1>6. PICK s \in Seq(FileNames) : Len(s) \in 1..MaxDepth /\ listed = Files!Under(Files!Base, s)
  BY <1>2, <1>4, TreeIs
<1>7. s \in Seq(PathNames) /\ Len(s) \in Nat /\ Len(s) # 0
  BY <1>6 DEF PathNames
<1>8. SubSeq(listed, Len(Files!Base) + 1, Len(listed)) = s
  <2>1. SubSeq(Files!Base \o s, Len(Files!Base) + 1, Len(Files!Base \o s)) = s
    BY ONLY <1>7, BaseIs, TailIs
  <2>2. QED
    BY <1>6, <2>1 DEF Files!Under
<1>9. PICK l : l = Len(s) - 1
  OBVIOUS
<1>10. /\ l \in Nat /\ l + 1 = Len(s) /\ l \in 0..l /\ Len(s) \in 1..Len(s) /\ Len(s) \in 0..Len(s)
       /\ \A n \in 0..Len(s) : n \in 0..l \/ n = Len(s)
  BY <1>7, <1>9
<1>11. /\ StepTo(s, Len(s)) = listed
       /\ \A n \in 1..Len(s) : Files!Front(StepTo(s, n)) = StepTo(s, n - 1)
  BY <1>6, <1>7, StepsAre
<1>12. PICK front : front = Files!Front(s)
  OBVIOUS
<1>13. /\ front \in Seq(PathNames) /\ Len(front) = l
       /\ \A n \in 0..l : StepTo(front, n) = StepTo(s, n)
  BY <1>7, <1>9, <1>12, StepOfFront
<1>14. front = sub
  <2>1. StepTo(s, l) = Files!Under(Files!Base, sub)
    BY ONLY <1>3, <1>9, <1>10, <1>11
  <2>2. StepTo(front, l) = Files!Under(Files!Base, front)
    BY ONLY <1>13, StepsAre
  <2>3. Files!Base \o front = Files!Base \o sub
    BY <1>10, <1>13, <2>1, <2>2 DEF Files!Under
  <2>4. QED
    BY ONLY <1>1, <1>13, <2>3, BaseIs, UnderOnce
<1>15. Sane(tree, s)
  <2>1. \A n \in DOMAIN s : s[n] \notin {"..", "odd"}
    <3>1. \A n \in DOMAIN s : s[n] \in FileNames
      BY <1>6
    <3>2. QED
      BY <3>1
  <2>2. \A n \in 0..l : tree[StepTo(s, n)] # "link"
    BY ONLY <1>3, <1>13, <1>14 DEF Sane
  <2>3. tree[StepTo(s, Len(s))] # "link"
    BY <1>11
  <2>4. \A n \in 1..l : tree[StepTo(s, n - 1)] = "directory"
    <3>1. \A n \in 1..l : n - 1 \in 0..l
      BY <1>10
    <3>2. \A n \in 1..l : tree[StepTo(sub, n - 1)] = "directory"
      BY ONLY <1>3, <1>13, <1>14 DEF Sane
    <3>3. QED
      BY ONLY <1>13, <1>14, <3>1, <3>2
  <2>5. tree[StepTo(s, l)] = "directory"
    BY ONLY <1>5, <1>9, <1>10, <1>11
  <2>6. \A n \in 1..Len(s) : n \in 1..l \/ n - 1 = l
    BY <1>10
  <2>7. QED
    BY ONLY <1>10, <2>1, <2>2, <2>3, <2>4, <2>5, <2>6 DEF Sane
<1>16. Files!Resolve(tree, s) = listed /\ listed # Files!Error
  BY <1>6, <1>7, <1>15, ResolveIs
<1>17. QED
  BY <1>8, <1>16 DEF Files!Reads

\* The handlers of the files of a session read and write its own files only, in
\* trees of any depth.
THEOREM FilesExact ==
  ASSUME MaxDepth \in Nat, {"..", "odd"} \cap FileNames = {}
  PROVE  \A tree \in Files!Trees, sub \in Files!SubPaths : Files!FilesAreOwn(tree, sub)
<1> TAKE tree \in Files!Trees, sub \in Files!SubPaths
<1> DEFINE after == Files!Written(tree, sub)
           path == Files!Under(Files!Base, sub)
<1>1. after # tree =>
        /\ Files!Reads(after, sub) /\ path \in Files!List(after, Files!Front(sub))
        /\ \A other \in DOMAIN tree \ {path} : after[other] = tree[other]
        /\ \A step \in Files!Before(path) : step \in DOMAIN tree => tree[step] = "directory"
  BY WrittenExact
<1>2. \A listed \in Files!List(tree, sub) :
        tree[listed] = "file" => Files!Reads(tree, SubSeq(listed, Len(Files!Base) + 1, Len(listed)))
  BY ListedExact
<1>3. QED
  BY <1>1, <1>2 DEF Files!FilesAreOwn

-----------------------------------------------------------------------------
(* The preview of a text *)

Octets == 0..4
Chars(text) == [i \in DOMAIN text |-> Preview!Character(text[i])]

LEMMA CharacterIs ==
  ASSUME NEW c \in 1..4
  PROVE  /\ Preview!Character(c) \in Seq(Octets) /\ Len(Preview!Character(c)) = c
         /\ Preview!Character(c)[1] = c
         /\ \A i \in 2..c : Preview!Character(c)[i] = 0
<1>1. Preview!Character(c) = [i \in 1..c |-> IF i = 1 THEN c ELSE 0]
  BY DEF Preview!Character, Preview!Continuation
<1>2. PICK q : q = [i \in 1..c |-> IF i = 1 THEN c ELSE 0]
  OBVIOUS
<1>3. q \in Seq(Octets) /\ Len(q) = c
  BY <1>2 DEF Octets
<1>4. q[1] = c /\ \A i \in 2..c : q[i] = 0
  BY <1>2
<1>5. QED
  BY <1>1, <1>2, <1>3, <1>4

LEMMA CharsAre ==
  ASSUME NEW text \in Seq(1..4)
  PROVE  /\ Chars(text) \in Seq(Seq(Octets)) /\ Len(Chars(text)) = Len(text)
         /\ \A i \in 1..Len(text) : Chars(text)[i] = Preview!Character(text[i])
         /\ Preview!Bytes(text) = FlattenSeq(Chars(text))
<1>1. \A i \in 1..Len(text) : text[i] \in 1..4
  OBVIOUS
<1>2. \A i \in 1..Len(text) : Preview!Character(text[i]) \in Seq(Octets)
  BY <1>1, CharacterIs
<1>3. Chars(text) = [i \in 1..Len(text) |-> Preview!Character(text[i])]
  BY DEF Chars
<1>4. Chars(text) \in Seq(Seq(Octets)) /\ Len(Chars(text)) = Len(text)
  BY <1>2, <1>3
<1>5. Preview!Bytes(text) = FlattenSeq(Chars(text))
  BY DEF Preview!Bytes, Preview!FlattenSeq, FlattenSeq, Chars
<1>6. QED
  BY <1>3, <1>4, <1>5

LEMMA BytesJoin ==
  ASSUME NEW s \in Seq(1..4), NEW t \in Seq(1..4)
  PROVE  /\ Preview!Bytes(s \o t) = Preview!Bytes(s) \o Preview!Bytes(t)
         /\ Preview!Bytes(s) \in Seq(Octets)
<1>1. PICK q : Joined(1..4, s, t, q)
  BY JoinedSo
<1>2. PICK x : x = Chars(s)
  OBVIOUS
<1>3. PICK y : y = Chars(t)
  OBVIOUS
<1>4. PICK z : z = Chars(q)
  OBVIOUS
<1>5. q \in Seq(1..4) /\ q = s \o t /\ Len(q) = Len(s) + Len(t) /\ Len(s) \in Nat /\ Len(t) \in Nat
  BY <1>1 DEF Joined
<1>6. /\ x \in Seq(Seq(Octets)) /\ Len(x) = Len(s)
      /\ \A i \in 1..Len(s) : x[i] = Preview!Character(s[i])
      /\ Preview!Bytes(s) = FlattenSeq(x)
  BY <1>2, CharsAre
<1>7. /\ y \in Seq(Seq(Octets)) /\ Len(y) = Len(t)
      /\ \A i \in 1..Len(t) : y[i] = Preview!Character(t[i])
      /\ Preview!Bytes(t) = FlattenSeq(y)
  BY <1>3, CharsAre
<1>8. /\ z \in Seq(Seq(Octets)) /\ Len(z) = Len(q)
      /\ \A i \in 1..Len(q) : z[i] = Preview!Character(q[i])
      /\ Preview!Bytes(q) = FlattenSeq(z)
  BY <1>4, <1>5, CharsAre
<1>9. PICK w : Joined(Seq(Octets), x, y, w)
  BY ONLY <1>6, <1>7, JoinedSo
<1>10. w \in Seq(Seq(Octets)) /\ w = x \o y /\ Len(w) = Len(s) + Len(t)
  BY ONLY <1>6, <1>7, <1>9 DEF Joined
<1>11. ASSUME NEW k \in 1..Len(z) PROVE z[k] = w[k]
  <2>0. k \in 1..(Len(s) + Len(t)) /\ z[k] = Preview!Character(q[k])
    BY <1>5, <1>8
  <2>1. CASE k \in 1..Len(s)
    <3>1. q[k] = s[k]
      BY ONLY <1>1, <2>1 DEF Joined
    <3>2. w[k] = x[k]
      BY ONLY <1>6, <1>9, <2>1 DEF Joined
    <3>3. QED
      BY ONLY <1>6, <2>0, <2>1, <3>1, <3>2
  <2>2. CASE k \notin 1..Len(s)
    <3>1. PICK j \in 1..Len(t) : k = Len(s) + j
      <4>1. k - Len(s) \in 1..Len(t) /\ k = Len(s) + (k - Len(s))
        BY <1>5, <2>0, <2>2
      <4>2. QED
        BY <4>1
    <3>2. q[Len(s) + j] = t[j]
      BY ONLY <1>1, <3>1 DEF Joined
    <3>3. w[Len(x) + j] = y[j]
      BY ONLY <1>7, <1>9, <3>1 DEF Joined
    <3>4. QED
      BY ONLY <1>6, <1>7, <2>0, <3>1, <3>2, <3>3
  <2>3. QED
    BY <2>1, <2>2
<1>12. z = w
  <2>1. Len(z) = Len(w)
    BY ONLY <1>5, <1>8, <1>10
  <2>2. QED
    BY ONLY <1>8, <1>10, <1>11, <2>1, SameSo
<1>13. FlattenSeq(x \o y) = FlattenSeq(x) \o FlattenSeq(y)
  BY ONLY <1>6, <1>7, FlatJoin
<1>14. Preview!Bytes(s) \in Seq(Octets)
  BY ONLY <1>6, FlatTyped
<1>15. QED
  BY ONLY <1>5, <1>6, <1>7, <1>8, <1>10, <1>12, <1>13, <1>14

LEMMA BytesFew ==
  /\ Preview!Bytes(<<>>) = <<>>
  /\ \A c \in 1..4 : Preview!Bytes(<<c>>) = Preview!Character(c)
<1>1. Preview!Bytes(<<>>) = <<>>
  <2>1. <<>> \in Seq(1..4) /\ Chars(<<>>) = <<>>
    BY DEF Chars
  <2>2. QED
    BY <2>1, CharsAre, FlatNil
<1>2. ASSUME NEW c \in 1..4 PROVE Preview!Bytes(<<c>>) = Preview!Character(c)
  <2>1. PICK x : x = Preview!Character(c)
    OBVIOUS
  <2>2. x \in Seq(Octets)
    BY <2>1, CharacterIs
  <2>3. PICK t : t = <<c>>
    OBVIOUS
  <2>4. t \in Seq(1..4) /\ Len(t) = 1 /\ t[1] = c
    BY <2>3
  <2>5. PICK y : y = Chars(t)
    OBVIOUS
  <2>6. /\ y \in Seq(Seq(Octets)) /\ Len(y) = Len(t)
        /\ \A i \in 1..Len(t) : y[i] = Preview!Character(t[i])
        /\ Preview!Bytes(t) = FlattenSeq(y)
    BY ONLY <2>4, <2>5, CharsAre
  <2>7. Len(y) = 1 /\ y[1] = x
    BY ONLY <2>1, <2>4, <2>6
  <2>8. y = <<x>>
    BY ONLY <2>2, <2>6, <2>7
  <2>9. FlattenSeq(<<x>>) = x
    BY ONLY <2>2, FlatOne
  <2>10. QED
    BY ONLY <2>1, <2>3, <2>6, <2>8, <2>9
<1>3. QED
  BY <1>1, <1>2

LEMMA CountIs ==
  ASSUME NEW buf \in Seq(Octets), NEW k \in 0..3, k < Len(buf), buf[Len(buf) - k] # 0,
         \A i \in 1..k : buf[Len(buf) + 1 - i] = 0
  PROVE  Preview!Continuations(buf) = k
<1> DEFINE Fit(n) == /\ n <= Len(buf)
                     /\ \A i \in 1..n : buf[Len(buf) + 1 - i] = 0
                     /\ n = 4 \/ n = Len(buf) \/ buf[Len(buf) - n] # 0
<1>1. Preview!Continuations(buf) = CHOOSE n \in 0..4 : Fit(n)
  BY DEF Preview!Continuations, Preview!Continuation
<1>2. Len(buf) \in Nat /\ k \in 0..4
  OBVIOUS
<1>3. Fit(k)
  BY <1>2
<1>4. ASSUME NEW n \in 0..4, Fit(n) PROVE n = k
  <2>1. CASE n < k
    <3>1. n # 4 /\ n # Len(buf) /\ n + 1 \in 1..k
      BY <1>2, <2>1
    <3>2. buf[Len(buf) - n] # 0
      BY <1>4, <3>1
    <3>3. Len(buf) + 1 - (n + 1) = Len(buf) - n
      BY <1>2
    <3>4. QED
      BY <3>1, <3>2, <3>3
  <2>2. CASE k < n
    <3>1. k + 1 \in 1..n /\ Len(buf) + 1 - (k + 1) = Len(buf) - k
      BY <1>2, <2>2
    <3>2. buf[Len(buf) + 1 - (k + 1)] = 0
      BY <1>4, <3>1
    <3>3. QED
      BY <3>1, <3>2
  <2>3. QED
    BY <2>1, <2>2
<1>5. QED
  <2> HIDE DEF Fit
  <2>1. \A n \in 0..4 : Fit(n) <=> n = k
    BY <1>3, <1>4
  <2>2. QED
    BY <1>1, <1>2, <2>1

\* Cut at the end of a character, the bytes are all kept.
LEMMA CutAtEnd ==
  ASSUME NEW a \in Seq(Octets), NEW c \in 1..4, NEW buf, buf = a \o Preview!Character(c)
  PROVE  Preview!TruncateToValidUtf8(buf) = buf
<1>1. PICK d : d = Preview!Character(c)
  OBVIOUS
<1>2. d \in Seq(Octets) /\ Len(d) = c /\ d[1] = c /\ \A i \in 2..c : d[i] = 0
  BY <1>1, CharacterIs
<1>3. PICK q : Joined(Octets, a, d, q)
  BY ONLY a \in Seq(Octets), <1>2, JoinedSo
<1>4. PICK l : l = Len(a)
  OBVIOUS
<1>5. q = buf /\ buf \in Seq(Octets) /\ Len(buf) = l + c /\ \A k \in 1..c : buf[l + k] = d[k]
  BY ONLY <1>1, <1>2, <1>3, <1>4, buf = a \o Preview!Character(c) DEF Joined
<1>6. l \in Nat /\ c \in Nat /\ 1 \in 1..c
  BY <1>4
<1>7. PICK k \in 0..3 : k + 1 = c
  <2>1. c - 1 \in 0..3 /\ (c - 1) + 1 = c
    OBVIOUS
  <2>2. QED
    BY <2>1
<1>8. k < Len(buf) /\ Len(buf) - k = l + 1
  BY <1>5, <1>6, <1>7
<1>9. buf[l + 1] = c
  BY <1>2, <1>5, <1>6
<1>10. ASSUME NEW i \in 1..k PROVE buf[Len(buf) + 1 - i] = 0
  <2>1. c + 1 - i \in 2..c /\ c + 1 - i \in 1..c /\ Len(buf) + 1 - i = l + (c + 1 - i)
    BY <1>5, <1>6, <1>7
  <2>2. QED
    BY <1>2, <1>5, <2>1
<1>11. Preview!Continuations(buf) = k
  <2>1. buf[Len(buf) - k] # 0
    BY ONLY <1>6, <1>8, <1>9, c \in 1..4
  <2>2. QED
    BY ONLY <1>5, <1>8, <1>10, <2>1, CountIs
<1>12. CASE c = 1
  <2>1. k = 0 /\ Len(buf) - k = Len(buf) /\ SubSeq(buf, 1, Len(buf)) = buf
    BY ONLY <1>5, <1>6, <1>7, <1>12, SubSeqFull
  <2>2. buf[Len(buf)] = 1
    BY <1>8, <1>9, <1>12, <2>1
  <2>3. QED
    BY <1>11, <2>1, <2>2 DEF Preview!TruncateToValidUtf8, Preview!ASCII
<1>13. CASE c # 1
  <2>1. Len(buf) - k # 0 /\ buf[Len(buf) - k] = c /\ c # Preview!ASCII /\ k # 4
    BY ONLY <1>6, <1>8, <1>9, <1>13, c \in 1..4, k \in 0..3 DEF Preview!ASCII
  <2>2. Preview!Expected(c) = k
    BY <1>6, <1>7, <1>13 DEF Preview!Expected
  <2>3. ~(k < k)
    OBVIOUS
  <2>4. QED
    BY <1>11, <2>1, <2>2, <2>3 DEF Preview!TruncateToValidUtf8
<1>14. QED
  BY <1>12, <1>13

\* Cut within a character, the bytes are those of the characters before it.
Within(a, c, z, d, q) ==
  /\ a \in Seq(Octets) /\ c \in 1..4 /\ z \in Seq(Octets) /\ d \in 1..(c - 1)
  /\ q = (a \o Preview!Character(c)) \o z

LEMMA CutWithin ==
  ASSUME NEW a, NEW c, NEW z, NEW d, NEW q, Within(a, c, z, d, q)
  PROVE  Preview!TruncateToValidUtf8(SubSeq(q, 1, Len(a) + d)) = a
<1>0. /\ a \in Seq(Octets) /\ c \in 1..4 /\ z \in Seq(Octets) /\ d \in 1..(c - 1)
      /\ q = (a \o Preview!Character(c)) \o z
  BY DEF Within
<1> USE <1>0
<1>1. PICK h : h = Preview!Character(c)
  OBVIOUS
<1>2. h \in Seq(Octets) /\ Len(h) = c /\ h[1] = c /\ \A i \in 2..c : h[i] = 0
  BY <1>1, CharacterIs
<1>3. PICK p : Joined(Octets, a, h, p)
  BY ONLY a \in Seq(Octets), <1>2, JoinedSo
<1>4. p \in Seq(Octets) /\ p = a \o h /\ Len(p) = Len(a) + c
  BY ONLY <1>2, <1>3 DEF Joined
<1>5. Joined(Octets, p, z, q)
  <2>1. PICK r : Joined(Octets, p, z, r)
    BY ONLY <1>4, z \in Seq(Octets), JoinedSo
  <2>2. r = q
    BY ONLY <1>1, <1>4, <2>1, q = (a \o Preview!Character(c)) \o z DEF Joined
  <2>3. QED
    BY <2>1, <2>2
<1>6. PICK l : l = Len(a)
  OBVIOUS
<1>7. PICK m : m = l + d
  OBVIOUS
<1>8. l \in Nat /\ c \in Nat /\ d \in Nat /\ 1 \in 1..c /\ Len(z) \in Nat /\ d < c /\ d >= 1 /\ 2 <= c
  BY <1>6
<1>9. q \in Seq(Octets) /\ Len(q) = (l + c) + Len(z)
  BY ONLY <1>4, <1>5, <1>6 DEF Joined
<1>10. m \in 0..Len(q) /\ m = Len(a) + d /\ m \in Nat
  BY ONLY <1>6, <1>7, <1>8, <1>9
<1>11. PICK buf : Cut(Octets, q, m, buf)
  BY ONLY <1>9, <1>10, CutIs
<1>12. buf = SubSeq(q, 1, m) /\ buf \in Seq(Octets) /\ Len(buf) = m /\ \A k \in 1..m : buf[k] = q[k]
  BY ONLY <1>11 DEF Cut
<1>13. \A k \in 1..Len(p) : q[k] = p[k]
  BY ONLY <1>5 DEF Joined
<1>14. \A k \in 1..c : p[l + k] = h[k]
  BY ONLY <1>2, <1>3, <1>6 DEF Joined
<1>15. ASSUME NEW j \in 1..d PROVE buf[l + j] = h[j]
  <2>1. l + j \in 1..m /\ l + j \in 1..Len(p) /\ j \in 1..c
    BY ONLY <1>4, <1>6, <1>7, <1>8, <1>15
  <2>2. QED
    BY ONLY <1>12, <1>13, <1>14, <2>1
<1>16. PICK k \in 0..2 : k + 1 = d
  <2>1. d - 1 \in 0..2 /\ (d - 1) + 1 = d
    BY ONLY <1>8, c \in 1..4
  <2>2. QED
    BY <2>1
<1>17. buf[l + 1] = c
  <2>1. 1 \in 1..d
    BY <1>8
  <2>2. QED
    BY <1>2, <1>15, <2>1
<1>18. k < Len(buf) /\ Len(buf) - k = l + 1 /\ k \in 0..3 /\ k \in Nat
  BY ONLY <1>7, <1>8, <1>12, <1>16
<1>19. ASSUME NEW i \in 1..k PROVE buf[Len(buf) + 1 - i] = 0
  <2>1. d + 1 - i \in 2..c /\ d + 1 - i \in 1..d /\ Len(buf) + 1 - i = l + (d + 1 - i)
    BY ONLY <1>7, <1>8, <1>12, <1>16, <1>19
  <2>2. QED
    BY ONLY <1>2, <1>15, <2>1
<1>20. Preview!Continuations(buf) = k
  <2>1. buf[Len(buf) - k] # 0
    BY ONLY <1>8, <1>17, <1>18
  <2>2. QED
    BY ONLY <1>12, <1>18, <1>19, <2>1, CountIs
<1>21. Preview!TruncateToValidUtf8(buf) = SubSeq(buf, 1, l)
  <2>1. /\ Len(buf) - k # 0 /\ buf[Len(buf) - k] = c /\ c # Preview!ASCII /\ k # 4
        /\ (Len(buf) - k) - 1 = l
    BY ONLY <1>8, <1>17, <1>18 DEF Preview!ASCII
  <2>2. k < Preview!Expected(c)
    BY ONLY <1>8, <1>16, c \in 1..4 DEF Preview!Expected
  <2>3. QED
    BY <1>20, <2>1, <2>2 DEF Preview!TruncateToValidUtf8
<1>22. SubSeq(buf, 1, l) = SubSeq(q, 1, l)
  <2>1. l \in 0..m
    BY ONLY <1>7, <1>8
  <2>2. QED
    BY ONLY <1>9, <1>10, <1>12, <2>1, CutTwice
<1>23. SubSeq(q, 1, l) = a
  <2>1. PICK t : Cut(Octets, q, l, t)
    <3>1. l \in 0..Len(q)
      BY ONLY <1>8, <1>9
    <3>2. QED
      BY ONLY <1>9, <3>1, CutIs
  <2>2. t \in Seq(Octets) /\ t = SubSeq(q, 1, l) /\ Len(t) = l /\ \A i \in 1..l : t[i] = q[i]
    BY ONLY <2>1 DEF Cut
  <2>3. \A i \in 1..l : p[i] = a[i] /\ i \in 1..Len(p)
    <3>1. \A i \in 1..l : p[i] = a[i]
      BY ONLY <1>3, <1>6 DEF Joined
    <3>2. \A i \in 1..l : i \in 1..Len(p)
      BY ONLY <1>4, <1>6, <1>8
    <3>3. QED
      BY <3>1, <3>2
  <2>4. \A i \in 1..Len(t) : t[i] = a[i]
    BY ONLY <1>13, <2>2, <2>3
  <2>5. t = a
    BY ONLY <1>6, <2>2, <2>4, a \in Seq(Octets), SameSo
  <2>6. QED
    BY <2>2, <2>5
<1>24. QED
  BY ONLY <1>10, <1>12, <1>21, <1>22, <1>23

\* The bytes of a text from one of its characters on.
LEMMA BytesSplit ==
  ASSUME NEW text \in Seq(1..4), NEW n \in 0..Len(text)
  PROVE  \E z \in Seq(Octets) : /\ Preview!Bytes(text) = Preview!Bytes(SubSeq(text, 1, n)) \o z
                                /\ Preview!Bytes(SubSeq(text, 1, n)) \in Seq(Octets)
<1>1. PICK t : Cut(1..4, text, n, t)
  BY ONLY text \in Seq(1..4), n \in 0..Len(text), CutIs
<1>2. t = SubSeq(text, 1, n) /\ t \in Seq(1..4)
  BY ONLY <1>1 DEF Cut
<1>3. PICK u : u = SubSeq(text, n + 1, Len(text))
  OBVIOUS
<1>4. Len(text) \in Nat /\ n \in Nat /\ n + 1 \in Int /\ Len(text) \in Int
  OBVIOUS
<1>5. u \in Seq(1..4)
  <2>1. \A i \in (n + 1)..Len(text) : text[i] \in 1..4
    BY <1>4
  <2>2. QED
    BY ONLY <1>3, <1>4, <2>1, SubSeqProperties
<1>6. t \o u = text
  <2>1. 1 \in 1..(Len(text) + 1) /\ n \in (1 - 1)..Len(text) /\ Len(text) \in n..Len(text)
    BY <1>4
  <2>2. SubSeq(text, 1, n) \o SubSeq(text, n + 1, Len(text)) = SubSeq(text, 1, Len(text))
    BY ONLY text \in Seq(1..4), <2>1, ConcatAdjacentSubSeq
  <2>3. QED
    BY ONLY text \in Seq(1..4), <1>2, <1>3, <2>2, SubSeqFull
<1>7. /\ Preview!Bytes(t \o u) = Preview!Bytes(t) \o Preview!Bytes(u)
      /\ Preview!Bytes(t) \in Seq(Octets) /\ Preview!Bytes(u) \in Seq(Octets)
  BY ONLY <1>2, <1>5, BytesJoin
<1>8. QED
  BY ONLY <1>2, <1>6, <1>7

\* The bytes of one more character.
LEMMA BytesNext ==
  ASSUME NEW text \in Seq(1..4), NEW n \in 0..Len(text), n < Len(text)
  PROVE  /\ text[n + 1] \in 1..4
         /\ Preview!Bytes(SubSeq(text, 1, n + 1))
              = Preview!Bytes(SubSeq(text, 1, n)) \o Preview!Character(text[n + 1])
<1>1. /\ SubSeq(text, 1, n) \in Seq(1..4) /\ text[n + 1] \in 1..4
      /\ SubSeq(text, 1, n + 1) = Append(SubSeq(text, 1, n), text[n + 1])
  BY First
<1>2. PICK t : t = SubSeq(text, 1, n)
  OBVIOUS
<1>3. PICK c : c = text[n + 1]
  OBVIOUS
<1>4. t \in Seq(1..4) /\ c \in 1..4 /\ <<c>> \in Seq(1..4)
  BY ONLY <1>1, <1>2, <1>3
<1>5. Append(t, c) = t \o <<c>>
  BY ONLY <1>4, AppendIsConcat
<1>6. Preview!Bytes(t \o <<c>>) = Preview!Bytes(t) \o Preview!Bytes(<<c>>)
  BY ONLY <1>4, BytesJoin
<1>7. Preview!Bytes(<<c>>) = Preview!Character(c)
  BY ONLY <1>4, BytesFew
<1>8. QED
  BY ONLY <1>1, <1>2, <1>3, <1>4, <1>5, <1>6, <1>7

\* truncateToValidUtf8 cuts every text between two characters, as late as the
\* limit allows.
THEOREM PreviewExact ==
  ASSUME MaxFull \in Nat, Truncated \in Nat, Truncated <= MaxFull
  PROVE  \A text \in Seq(1..4) : Preview!PreviewIsWhole(text)
<1> TAKE text \in Seq(1..4)
<1> DEFINE B(n) == Preview!Bytes(SubSeq(text, 1, n))
           q == Preview!Bytes(text)
           T == {n \in 0..Len(text) : Len(B(n)) <= Truncated}
<1>1. Len(text) \in Nat /\ 0 \in 0..Len(text) /\ Len(text) \in 0..Len(text)
  OBVIOUS
<1>2. B(0) = <<>> /\ B(Len(text)) = q
  <2>1. SubSeq(text, 1, 0) = <<>> /\ SubSeq(text, 1, Len(text)) = text
    BY WholeFirst
  <2>2. QED
    BY ONLY <2>1, BytesFew
<1>3. \A n \in 0..Len(text) : B(n) \in Seq(Octets)
  BY BytesSplit
<1>4. \A n \in 0..Len(text) :
        n < Len(text) => text[n + 1] \in 1..4 /\ B(n + 1) = B(n) \o Preview!Character(text[n + 1])
  BY BytesNext
<1>5. CASE Len(q) <= MaxFull
  <2>1. ~(Len(q) > MaxFull)
    BY <1>1, <1>2, <1>3, <1>5
  <2>2. Preview!ReadFilePreview(q) = q
    BY <2>1 DEF Preview!ReadFilePreview
  <2>3. QED
    BY <1>5, <2>2 DEF Preview!PreviewIsWhole
<1>6. CASE ~(Len(q) <= MaxFull)
  <2> HIDE DEF B, q
  <2>1. Len(q) > MaxFull /\ ~(Len(q) <= Truncated) /\ Len(q) \in Nat
    <3>1. q \in Seq(Octets)
      BY <1>1, <1>2, <1>3
    <3>2. Len(q) \in Nat
      BY <3>1
    <3>3. QED
      BY <1>6, <3>2
  <2>2. PICK n \in 0..Len(text) : n < Len(text) /\ Len(B(n)) <= Truncated /\ ~(Len(B(n + 1)) <= Truncated)
    <3>1. SUFFICES ASSUME \A n \in 0..Len(text) : n < Len(text) /\ Len(B(n)) <= Truncated
                                                    => Len(B(n + 1)) <= Truncated
                   PROVE  FALSE
      BY Zenon
    <3>2. 0 \in T
      <4>1. Len(B(0)) = 0
        BY <1>2
      <4>2. QED
        BY <1>1, <4>1
    <3>3. \A n \in 0..Len(text) : n \in T /\ n < Len(text) => n + 1 \in T
      BY <1>1, <3>1
    <3>4. T = 0..Len(text)
      BY ONLY <1>1, <3>2, <3>3, T \in SUBSET (0..Len(text)), FromZero
    <3>5. QED
      BY <1>1, <1>2, <2>1, <3>4
  <2>3. PICK a : a = B(n)
    OBVIOUS
  <2>4. PICK c : c = text[n + 1]
    OBVIOUS
  <2>5. a \in Seq(Octets) /\ c \in 1..4 /\ B(n + 1) = a \o Preview!Character(c)
    BY <1>3, <1>4, <2>2, <2>3, <2>4
  <2>6. n + 1 \in 0..Len(text)
    BY <1>1, <2>2
  <2>7. PICK z \in Seq(Octets) : q = B(n + 1) \o z
    BY <2>6, BytesSplit DEF q, B
  <2>8. PICK h : h = Preview!Character(c)
    OBVIOUS
  <2>9. h \in Seq(Octets) /\ Len(h) = c
    BY <2>5, <2>8, CharacterIs
  <2>10. PICK p : Joined(Octets, a, h, p)
    BY ONLY <2>5, <2>9, JoinedSo
  <2>11. p = B(n + 1) /\ Len(p) = Len(a) + c
    BY ONLY <2>5, <2>8, <2>9, <2>10 DEF Joined
  <2>12. PICK l : l = Len(a)
    OBVIOUS
  <2>13. l \in Nat /\ l <= Truncated /\ Truncated < l + c /\ c \in Nat
    <3>1. l \in Nat
      BY ONLY <2>5, <2>12
    <3>2. Len(B(n + 1)) = l + c
      BY ONLY <2>11, <2>12
    <3>3. c \in Nat
      BY ONLY <2>5
    <3>4. l <= Truncated /\ ~(l + c <= Truncated)
      BY ONLY <2>2, <2>3, <2>12, <3>2
    <3>5. QED
      BY ONLY <3>1, <3>3, <3>4, Truncated \in Nat
  <2>14. Preview!ReadFilePreview(q) = Preview!TruncateToValidUtf8(SubSeq(q, 1, Truncated))
    BY <2>1 DEF Preview!ReadFilePreview
  <2>15. Preview!TruncateToValidUtf8(SubSeq(q, 1, Truncated)) = a
    <3>1. CASE Truncated = l
      <4>1. PICK w : Joined(Octets, a, h, w)
        BY <2>10
      <4>2. SubSeq(q, 1, l) = a
        <5>1. PICK r : Joined(Octets, h, z, r)
          BY ONLY <2>9, z \in Seq(Octets), JoinedSo
        <5>2. r \in Seq(Octets) /\ r = h \o z
          BY ONLY <5>1 DEF Joined
        <5>3. (a \o h) \o z = a \o (h \o z)
          BY ONLY <2>5, <2>9, z \in Seq(Octets), JoinJoin
        <5>4. q = a \o r
          BY ONLY <2>5, <2>7, <2>8, <5>2, <5>3
        <5>5. PICK e : Joined(Octets, a, r, e)
          BY ONLY <2>5, <5>2, JoinedSo
        <5>6. /\ q = e /\ q \in Seq(Octets) /\ Len(q) = l + Len(r)
              /\ \A i \in 1..l : q[i] = a[i]
          BY ONLY <2>12, <5>4, <5>5 DEF Joined
        <5>7. l \in 0..Len(q)
          <6>1. Len(r) \in Nat
            BY ONLY <5>2
          <6>2. QED
            BY ONLY <2>13, <5>6, <6>1
        <5>8. PICK t : Cut(Octets, q, l, t)
          BY ONLY <5>6, <5>7, CutIs
        <5>9. t \in Seq(Octets) /\ t = SubSeq(q, 1, l) /\ Len(t) = l /\ \A i \in 1..l : t[i] = q[i]
          BY ONLY <5>8 DEF Cut
        <5>10. \A i \in 1..Len(t) : t[i] = a[i]
          BY ONLY <5>6, <5>9
        <5>11. t = a
          BY ONLY <2>5, <2>12, <5>9, <5>10, SameSo
        <5>12. QED
          BY ONLY <5>9, <5>11
      <4>3. Preview!TruncateToValidUtf8(a) = a
        <5>1. CASE n = 0
          <6>1. a = <<>>
            BY <1>2, <2>3, <5>1
          <6>2. Len(a) = 0
            BY ONLY <6>1
          <6>3. Preview!Continuations(a) \in 0..4 /\ Preview!Continuations(a) <= 0
            <7> DEFINE Fit(k) == /\ k <= Len(a)
                                 /\ \A i \in 1..k : a[Len(a) + 1 - i] = 0
                                 /\ k = 4 \/ k = Len(a) \/ a[Len(a) - k] # 0
            <7>1. Preview!Continuations(a) = CHOOSE k \in 0..4 : Fit(k)
              BY DEF Preview!Continuations, Preview!Continuation
            <7>2. Fit(0)
              BY <6>2
            <7>3. \A k \in 0..4 : Fit(k) => k <= 0
              BY <6>2
            <7> HIDE DEF Fit
            <7>4. QED
              BY <7>1, <7>2, <7>3
          <6>4. Preview!Continuations(a) = 0
            BY <6>3
          <6>5. SubSeq(a, 1, Len(a) - 0) = a
            <7>1. Len(a) - 0 = Len(a)
              BY ONLY <6>2
            <7>2. QED
              BY ONLY <2>5, <7>1, SubSeqFull
          <6>6. Len(a) - 0 = 0
            BY <6>2
          <6>7. QED
            BY <6>4, <6>5, <6>6 DEF Preview!TruncateToValidUtf8
        <5>2. CASE n # 0
          <6>1. PICK k \in 0..Len(text) : k + 1 = n
            <7>1. n - 1 \in 0..Len(text) /\ (n - 1) + 1 = n
              BY <1>1, <5>2
            <7>2. QED
              BY <7>1
          <6>2. k < Len(text)
            BY <1>1, <2>2, <6>1
          <6>3. B(k) \in Seq(Octets) /\ text[k + 1] \in 1..4 /\ a = B(k) \o Preview!Character(text[k + 1])
            BY ONLY <1>3, <1>4, <2>3, <6>1, <6>2
          <6>4. QED
            BY ONLY <6>3, CutAtEnd
        <5>3. QED
          BY <5>1, <5>2
      <4>4. QED
        BY <3>1, <4>2, <4>3
    <3>2. CASE Truncated # l
      <4>1. PICK d \in 1..(c - 1) : Truncated = l + d
        <5>1. Truncated - l \in 1..(c - 1) /\ Truncated = l + (Truncated - l)
          BY <2>13, <3>2
        <5>2. QED
          BY <5>1
      <4>2. q = (a \o Preview!Character(c)) \o z
        BY <2>5, <2>7
      <4>3. Preview!TruncateToValidUtf8(SubSeq(q, 1, Len(a) + d)) = a
        <5>1. PICK g : g = q
          OBVIOUS
        <5>2. a \in Seq(Octets) /\ c \in 1..4
          BY ONLY <2>5
        <5>3. g = (a \o Preview!Character(c)) \o z
          BY ONLY <4>2, <5>1
        <5>4. Preview!TruncateToValidUtf8(SubSeq(g, 1, Len(a) + d)) = a
          <6>1. Within(a, c, z, d, g)
            BY ONLY <5>2, <5>3, z \in Seq(Octets), d \in 1..(c - 1) DEF Within
          <6>2. QED
            BY ONLY <6>1, CutWithin
        <5>5. QED
          BY ONLY <5>1, <5>4
      <4>4. QED
        BY ONLY <2>12, <4>1, <4>3
    <3>3. QED
      BY <3>1, <3>2
  <2>16. n \in 0..(Len(text) - 1)
    BY <1>1, <2>2
  <2>17. QED
    <3>1. Preview!ReadFilePreview(q) = B(n)
      BY <2>3, <2>14, <2>15
    <3>2. QED
      BY <1>6, <2>2, <2>16, <3>1 DEF Preview!PreviewIsWhole, q, B
<1>7. QED
  BY <1>5, <1>6

-----------------------------------------------------------------------------
(* The history that a new session is given *)

LEMMA SameCount == \A S : History!Cardinality(S) = Cardinality(S)
BY Zenon DEF History!Cardinality, Cardinality

LEMMA FitsEnd ==
  ASSUME NEW talk \in Seq(SaidMessages), NEW types, NEW max \in Nat \ {0},
         NEW rem, NEW kept, Fits(talk, types, max, 0, rem, kept)
  PROVE  History!NewestOf(talk, kept, types, max)
<1> DEFINE L == Len(talk)
           K == Len(kept)
           total == Cardinality(History!Characters(kept))
           from == IF kept = <<>> THEN L + 1 ELSE kept[1].of
           ofTypes == {n \in DOMAIN talk : talk[n].type \in types /\ talk[n].length > 0}
<1>1. /\ rem \in Nat /\ kept \in Seq(QuotedParts) /\ K \in Nat /\ DOMAIN kept = 1..K
      /\ DOMAIN talk = 1..L /\ L \in Nat /\ 0 + 1 = 1
  BY DEF Fits
<1>2. kept = <<>> <=> K = 0
  BY ONLY <1>1
<1>3. total \in Nat /\ total + rem = max
  BY FS_CardinalityType DEF Fits
<1>4. total <= max /\ (rem = 0 => total = max)
  BY ONLY <1>1, <1>3
<1>5. \A i \in 2..K : kept[i].of > kept[i - 1].of /\ kept[i].length = talk[kept[i].of].length
  <2>1. \A i \in 2..K : i \in 1..K /\ i # 1
    BY ONLY <1>1
  <2>2. QED
    BY <2>1 DEF Fits
<1>6. \A i \in 1..K : talk[kept[i].of].type \in types /\ kept[i].of \in 1..L
  BY <1>1 DEF Fits
<1>7. {n \in ofTypes : n >= from} \subseteq {kept[i].of : i \in 1..K}
  <2>1. SUFFICES ASSUME NEW n \in 1..L, Counted(talk, types, n), n >= from
                 PROVE  \E i \in 1..K : kept[i].of = n
    BY <1>1 DEF Counted
  <2>2. CASE rem # 0
    BY <1>1, <2>1, <2>2 DEF Fits
  <2>3. CASE rem = 0
    <3>1. K # 0
      BY <2>3 DEF Fits
    <3>2. n >= kept[1].of
      BY <1>2, <2>1, <3>1
    <3>3. QED
      BY <1>1, <2>1, <2>3, <3>2 DEF Fits
  <2>4. QED
    BY <2>2, <2>3
<1>8. ASSUME rem # 0, NEW n \in ofTypes PROVE ~(n < from)
  <2>1. n \in 1..L /\ Counted(talk, types, n)
    BY <1>1 DEF Counted
  <2>2. PICK i \in 1..K : kept[i].of = n
    BY <1>1, <1>8, <2>1 DEF Fits
  <2>3. K # 0 /\ from = kept[1].of
    BY <1>1, <1>2
  <2>4. ASSUME NEW j \in 0..K, j # 0 PROVE kept[1].of <= kept[j].of
    <3> DEFINE T == {j2 \in 0..K : j2 # 0 => kept[1].of <= kept[j2].of}
    <3>1. 0 \in T
      BY <1>1
    <3>2. ASSUME NEW m \in 0..K, m \in T, m < K PROVE m + 1 \in T
      <4>1. m + 1 \in 0..K /\ m + 1 \in 1..K
        BY <1>1, <3>2
      <4>2. CASE m = 0
        <5>1. kept[1].of \in 1..L
          BY <1>6, <2>3, <1>1
        <5>2. kept[1].of <= kept[1].of
          BY <5>1
        <5>3. QED
          BY <4>1, <4>2, <5>2
      <4>3. CASE m # 0
        <5>1. m + 1 \in 2..K /\ m \in 1..K /\ (m + 1) - 1 = m /\ 1 \in 1..K
          BY <1>1, <3>2, <4>3
        <5>2. kept[m + 1].of > kept[m].of /\ kept[1].of <= kept[m].of
          BY <1>5, <3>2, <4>3, <5>1
        <5>3. kept[m + 1].of \in 1..L /\ kept[m].of \in 1..L /\ kept[1].of \in 1..L
          BY <1>6, <4>1, <5>1
        <5>4. kept[1].of <= kept[m + 1].of
          <6>1. PICK a \in 1..L : a = kept[1].of
            BY ONLY <5>3
          <6>2. PICK b \in 1..L : b = kept[m].of
            BY ONLY <5>3
          <6>3. PICK c \in 1..L : c = kept[m + 1].of
            BY ONLY <5>3
          <6>4. c > b /\ a <= b
            BY ONLY <5>2, <6>1, <6>2, <6>3
          <6>5. a <= c
            BY ONLY <6>4, a \in 1..L, b \in 1..L, c \in 1..L, <1>1
          <6>6. QED
            BY ONLY <6>1, <6>3, <6>5
        <5>5. QED
          BY <4>1, <5>4
      <4>4. QED
        BY <4>2, <4>3
    <3>3. T = 0..K
      BY ONLY <1>1, <3>1, <3>2, T \in SUBSET (0..K), FromZero
    <3>4. QED
      BY <2>4, <3>3
  <2>5. kept[1].of <= n /\ kept[1].of \in 1..L
    BY <1>1, <1>6, <2>2, <2>3, <2>4
  <2>6. QED
    BY ONLY <1>1, <2>1, <2>3, <2>5
<1>9. ASSUME rem # 0, kept # <<>> PROVE ~(kept[1].length < talk[from].length)
  <2>1. kept[1].length = talk[kept[1].of].length /\ kept[1] \in QuotedParts
    BY <1>1, <1>2, <1>9 DEF Fits
  <2>2. from = kept[1].of
    BY <1>9
  <2>3. kept[1].length \in Nat
    BY <2>1 DEF QuotedParts
  <2>4. QED
    BY ONLY <2>1, <2>2, <2>3
<1>10. (\E n \in ofTypes : n < from) \/ (kept # <<>> /\ kept[1].length < talk[from].length)
          => total = max
  BY ONLY <1>4, <1>8, <1>9
<1>11. \A i \in DOMAIN kept : talk[kept[i].of].type \in types
  BY ONLY <1>1, <1>6
<1>12. {n \in ofTypes : n >= from} \subseteq {kept[i].of : i \in DOMAIN kept}
  BY ONLY <1>1, <1>7
<1> DEFINE Entire ==
             /\ total <= max
             /\ \A i \in 2..K : kept[i].of > kept[i - 1].of /\ kept[i].length = talk[kept[i].of].length
             /\ \A i \in DOMAIN kept : talk[kept[i].of].type \in types
             /\ {n \in ofTypes : n >= from} \subseteq {kept[i].of : i \in DOMAIN kept}
             /\ (\E n \in ofTypes : n < from) \/ (kept # <<>> /\ kept[1].length < talk[from].length)
                  => total = max
<1>13. Entire
  <2> HIDE DEF total, from, ofTypes
  <2>1. QED
    BY ONLY <1>4, <1>5, <1>10, <1>11, <1>12
<1>14. History!NewestOf(talk, kept, types, max) <=> Entire
  <2>1. History!Cardinality(History!Characters(kept)) = total
    BY SameCount
  <2> DEFINE amount == History!Cardinality(History!Characters(kept))
  <2>2. History!NewestOf(talk, kept, types, max) <=>
          /\ amount <= max
          /\ \A i \in 2..K : kept[i].of > kept[i - 1].of /\ kept[i].length = talk[kept[i].of].length
          /\ \A i \in DOMAIN kept : talk[kept[i].of].type \in types
          /\ {n \in ofTypes : n >= from} \subseteq {kept[i].of : i \in DOMAIN kept}
          /\ (\E n \in ofTypes : n < from) \/ (kept # <<>> /\ kept[1].length < talk[from].length)
               => amount = max
    BY ONLY DEF History!NewestOf
  <2> HIDE DEF total, from, ofTypes, amount
  <2>3. amount = total
    BY ONLY <2>1 DEF amount, total
  <2>4. QED
    BY ONLY <2>2, <2>3
<1>15. QED
  <2> HIDE DEF Entire
  <2>1. QED
    BY ONLY <1>13, <1>14

LEMMA NewestExact ==
  ASSUME NEW talk \in Seq(SaidMessages), NEW max \in Nat \ {0}
  PROVE  /\ History!NewestOf(talk, History!RestoreTextHistory(talk, max), History!Quoted, max)
         /\ History!NewestOf(talk, History!RestoreHistory(talk, max), History!Spoken, max)
<1>1. PICK first : Fits(talk, History!Quoted, max, 0, first, History!RestoreTextHistory(talk, max))
  BY LeftFits
<1>2. PICK second : Fits(talk, History!Spoken, max, 0, second, History!RestoreHistory(talk, max))
  BY LeftFits
<1>3. QED
  BY <1>1, <1>2, FitsEnd

\* A conversation that is restored again.
Rolls(talk, max, f) ==
  /\ f \in [0..Len(talk) -> OpenQuotings] /\ f[0] = History!Start(max)
  /\ \A n \in 1..Len(talk) : f[n] = History!Quote(talk, f[n - 1], Len(talk) + 1 - n)

\* What it leaves.
RolledOut(talk, max, f) ==
  Rolls(talk, max, f) /\ History!RestoreTextHistory(talk, max) = f[Len(talk)].kept

LEMMA RunsEnd ==
  ASSUME NEW talk \in Seq(SaidMessages), NEW max \in Nat \ {0}
  PROVE  \E f : RolledOut(talk, max, f)
BY QuotesAre DEF Rolls, RolledOut

LEMMA RunIs ==
  ASSUME NEW talk \in Seq(SaidMessages), NEW max, NEW f, Rolls(talk, max, f),
         NEW n \in 0..Len(talk), n < Len(talk), NEW p, Behind(Len(talk), n, p)
  PROVE  /\ n + 1 \in 0..Len(talk) /\ f[n] \in Quotings /\ f[n + 1] \in Quotings
         /\ talk[p].type \in History!Quoted /\ f[n].remaining # 0 => TakesNext(talk, f[n], p, f[n + 1])
         /\ ~(talk[p].type \in History!Quoted /\ f[n].remaining # 0) => f[n + 1] = f[n]
<1>1. Len(talk) \in Nat /\ n + 1 \in 1..Len(talk) /\ (n + 1) - 1 = n /\ n + 1 \in 0..Len(talk)
  OBVIOUS
<1>2. p \in 1..Len(talk) /\ p = Len(talk) + 1 - (n + 1)
  BY DEF Behind
<1>3. f[n + 1] = History!Quote(talk, f[n], p)
  BY ONLY <1>1, <1>2, Rolls(talk, max, f) DEF Rolls
<1>4. f[n] \in OpenQuotings /\ f[n + 1] \in OpenQuotings
  BY <1>1 DEF Rolls
<1>5. f[n] \in Quotings /\ f[n + 1] \in Quotings /\ ~f[n].over
  BY ONLY <1>4 DEF OpenQuotings
<1>6. PICK state \in Quotings : state = f[n]
  BY <1>5
<1>7. PICK next : next = f[n + 1]
  OBVIOUS
<1>8. next = History!Quote(talk, state, p) /\ ~state.over
  BY ONLY <1>3, <1>5, <1>6, <1>7
<1>9. /\ talk[p].type \in History!Quoted /\ state.remaining # 0 => TakesNext(talk, state, p, next)
      /\ ~(talk[p].type \in History!Quoted /\ state.remaining # 0) => next = state
  BY ONLY <1>2, <1>8, talk \in Seq(SaidMessages), state \in Quotings, QuoteIs
<1>10. QED
  BY ONLY <1>1, <1>5, <1>6, <1>7, <1>9

\* One sequence is the end of another.
LEMMA KeptGrows ==
  ASSUME NEW talk \in Seq(SaidMessages), NEW max, NEW f, Rolls(talk, max, f)
  PROVE  \A n \in 0..Len(talk) : IsEnd(f[n].kept, f[Len(talk)].kept)
<1> DEFINE N == Len(talk)
           w == f[N].kept
           T == {n \in 0..N : IsEnd(f[N - n].kept, w)}
<1>1. N \in Nat /\ 0 \in 0..N /\ N - 0 = N /\ N \in 0..N
  OBVIOUS
<1>2. \A n \in 0..N : f[n].kept \in Seq(QuotedParts)
  <2>1. \A n \in 0..N : f[n] \in OpenQuotings
    BY DEF Rolls
  <2>2. QED
    BY ONLY <2>1 DEF OpenQuotings, Quotings
<1>3. 0 \in T
  <2>1. IsEnd(w, w)
    BY ONLY <1>1, <1>2, SufSelf
  <2>2. QED
    BY <1>1, <2>1
<1>4. ASSUME NEW n \in 0..N, n \in T, n < N PROVE n + 1 \in T
  <2>1. PICK m : m = N - (n + 1)
    OBVIOUS
  <2>2. m \in 0..N /\ m < N /\ m + 1 = N - n /\ n + 1 \in 0..N
    BY <1>1, <1>4, <2>1
  <2>3. PICK p : Behind(N, m, p)
    BY ONLY <1>1, <2>2, Backwards
  <2>4. /\ talk[p].type \in History!Quoted /\ f[m].remaining # 0 => TakesNext(talk, f[m], p, f[m + 1])
        /\ ~(talk[p].type \in History!Quoted /\ f[m].remaining # 0) => f[m + 1] = f[m]
    BY ONLY <2>2, <2>3, talk \in Seq(SaidMessages), Rolls(talk, max, f), RunIs
  <2>5. IsEnd(f[m + 1].kept, w)
    BY <1>4, <2>2
  <2>6. IsEnd(f[m].kept, w)
    <3>1. CASE talk[p].type \in History!Quoted /\ f[m].remaining # 0
      <4>1. PICK x : Prepended(QuotedParts, x, f[m].kept, f[m + 1].kept)
        BY ONLY <2>4, <3>1 DEF TakesNext
      <4>2. PICK q : q = f[m].kept
        OBVIOUS
      <4>3. PICK t : t = f[m + 1].kept
        OBVIOUS
      <4>4. q \in Seq(QuotedParts) /\ w \in Seq(QuotedParts) /\ Prepended(QuotedParts, x, q, t) /\ IsEnd(t, w)
        BY ONLY <1>1, <1>2, <2>2, <2>5, <4>1, <4>2, <4>3
      <4>5. IsEnd(q, w)
        BY ONLY <4>4, SufTail
      <4>6. QED
        BY ONLY <4>2, <4>5
    <3>2. CASE ~(talk[p].type \in History!Quoted /\ f[m].remaining # 0)
      BY ONLY <2>4, <2>5, <3>2
    <3>3. QED
      BY <3>1, <3>2
  <2>7. QED
    BY <2>1, <2>2, <2>6
<1>5. T = 0..N
  BY ONLY <1>1, <1>3, <1>4, T \in SUBSET (0..N), FromZero
<1>6. ASSUME NEW n \in 0..N PROVE IsEnd(f[n].kept, w)
  <2>1. PICK k \in 0..N : N - k = n
    <3>1. N - n \in 0..N /\ N - (N - n) = n
      BY <1>1
    <3>2. QED
      BY <3>1
  <2>2. QED
    BY <1>5, <2>1
<1>7. QED
  BY <1>6

\* The messages that are made of what was kept.
Resumed(talk, kept) ==
  [i \in DOMAIN kept |-> [talk[kept[i].of] EXCEPT !.length = kept[i].length]]

LEMMA ResumedIs ==
  ASSUME NEW talk \in Seq(SaidMessages), NEW kept \in Seq(QuotedParts),
         \A i \in 1..Len(kept) : kept[i].of \in 1..Len(talk)
  PROVE  /\ Resumed(talk, kept) \in Seq(SaidMessages)
         /\ Len(Resumed(talk, kept)) = Len(kept)
         /\ \A i \in 1..Len(kept) : /\ Resumed(talk, kept)[i].type = talk[kept[i].of].type
                                    /\ Resumed(talk, kept)[i].length = kept[i].length
<1>1. PICK K \in Nat : K = Len(kept) /\ DOMAIN kept = 1..K
  OBVIOUS
<1>2. PICK q : q = [i \in 1..K |-> [talk[kept[i].of] EXCEPT !.length = kept[i].length]]
  OBVIOUS
<1>3. ASSUME NEW i \in 1..K
      PROVE  /\ q[i] \in SaidMessages /\ q[i].type = talk[kept[i].of].type
             /\ q[i].length = kept[i].length
  <2>1. talk[kept[i].of] \in SaidMessages /\ kept[i] \in QuotedParts
    BY <1>1
  <2>2. PICK m \in SaidMessages : m = talk[kept[i].of]
    BY ONLY <2>1
  <2>3. q[i] = [m EXCEPT !.length = kept[i].length] /\ kept[i].length \in Nat
    BY ONLY <1>2, <2>1, <2>2, i \in 1..K DEF QuotedParts
  <2>4. q[i] \in SaidMessages /\ q[i].type = m.type /\ q[i].length = kept[i].length
    BY ONLY <2>3, m \in SaidMessages DEF SaidMessages
  <2>5. QED
    BY ONLY <2>2, <2>4
<1>4. q \in Seq(SaidMessages) /\ Len(q) = K
  <2>1. \A i \in 1..K : q[i] \in SaidMessages
    BY ONLY <1>3
  <2>2. q = [i \in 1..K |-> q[i]]
    BY ONLY <1>2
  <2>3. q \in [1..K -> SaidMessages]
    BY ONLY <2>1, <2>2
  <2>4. QED
    BY ONLY <2>3, K \in Nat
<1>5. Resumed(talk, kept) = q
  BY ONLY <1>1, <1>2 DEF Resumed
<1>6. QED
  BY ONLY <1>1, <1>3, <1>4, <1>5

\* After so many of the messages the second run has kept what the first had.
Alike(K, first, second) ==
  /\ second.remaining = first.remaining /\ Len(second.kept) = Len(first.kept)
  /\ \A i \in 1..Len(first.kept) :
        /\ second.kept[i].of = (K - Len(first.kept)) + i
        /\ second.kept[i].length = first.kept[i].length

LEMMA AlikeNext ==
  ASSUME NEW K \in Nat, NEW first \in Quotings, NEW second \in Quotings, Alike(K, first, second),
         NEW later \in Quotings, NEW after \in Quotings, Len(first.kept) < K,
         NEW talk, NEW p, TakesNext(talk, first, p, later),
         NEW restored, NEW r \in Nat, TakesNext(restored, second, r, after), r = K - Len(first.kept),
         restored[r].length = later.kept[1].length, talk[p].length \in Nat
  PROVE  Alike(K, later, after) /\ Len(later.kept) = Len(first.kept) + 1
<1>1. PICK k \in Nat : k = Len(first.kept)
  BY DEF Quotings
<1>2. PICK rem \in Nat : rem = first.remaining
  BY DEF Quotings
<1>3. PICK l : l = History!Lesser(talk[p].length, rem)
  OBVIOUS
<1>4. l \in Nat /\ l <= rem
  BY ONLY <1>3, talk[p].length \in Nat, rem \in Nat DEF History!Lesser
<1>5. /\ later.remaining = rem - l
      /\ Prepended(QuotedParts, [of |-> p, length |-> l], first.kept, later.kept)
  BY ONLY <1>2, <1>3, TakesNext(talk, first, p, later) DEF TakesNext
<1>6. /\ Len(later.kept) = k + 1 /\ later.kept[1].length = l
      /\ \A i \in 1..k : later.kept[i + 1] = first.kept[i]
  BY ONLY <1>1, <1>5 DEF Prepended
<1>7. second.remaining = rem /\ Len(second.kept) = k
  BY ONLY <1>1, <1>2, Alike(K, first, second) DEF Alike
<1>8. PICK l2 : l2 = History!Lesser(restored[r].length, second.remaining)
  OBVIOUS
<1>9. l2 = l
  BY ONLY <1>4, <1>6, <1>7, <1>8, rem \in Nat, restored[r].length = later.kept[1].length
     DEF History!Lesser
<1>10. /\ after.remaining = rem - l
       /\ Prepended(QuotedParts, [of |-> r, length |-> l], second.kept, after.kept)
  BY ONLY <1>7, <1>8, <1>9, TakesNext(restored, second, r, after) DEF TakesNext
<1>11. /\ Len(after.kept) = k + 1 /\ after.kept[1].length = l /\ after.kept[1].of = r
       /\ \A i \in 1..k : after.kept[i + 1] = second.kept[i]
  BY ONLY <1>7, <1>10 DEF Prepended
<1>12. /\ K - (k + 1) + 1 = r
       /\ \A i \in 1..(k + 1) : i = 1 \/ \E j \in 1..k : i = j + 1
       /\ \A j \in 1..k : (K - (k + 1)) + (j + 1) = (K - k) + j
  <2>1. \A i \in 1..(k + 1) : i = 1 \/ \E j \in 1..k : i = j + 1
    <3>1. ASSUME NEW i \in 1..(k + 1), i # 1 PROVE \E j \in 1..k : i = j + 1
      <4>1. i - 1 \in 1..k /\ i = (i - 1) + 1
        BY <3>1
      <4>2. QED
        BY <4>1
    <3>2. QED
      BY <3>1
  <2>2. K - (k + 1) + 1 = r
    BY ONLY <1>1, r = K - Len(first.kept), K \in Nat, k \in Nat
  <2>3. QED
    BY <2>1, <2>2
<1>13. ASSUME NEW i \in 1..(k + 1)
       PROVE  after.kept[i].of = (K - (k + 1)) + i /\ after.kept[i].length = later.kept[i].length
  <2>1. CASE i = 1
    BY ONLY <1>6, <1>11, <1>12, <2>1
  <2>2. CASE i # 1
    <3>1. PICK j \in 1..k : i = j + 1
      BY ONLY <1>12, <1>13, <2>2
    <3>2. second.kept[j].of = (K - k) + j /\ second.kept[j].length = first.kept[j].length
      BY ONLY <1>1, <3>1, Alike(K, first, second) DEF Alike
    <3>3. after.kept[i] = second.kept[j] /\ later.kept[i] = first.kept[j]
      BY ONLY <1>6, <1>11, <3>1
    <3>4. (K - (k + 1)) + i = (K - k) + j
      BY ONLY <1>12, <3>1
    <3>5. QED
      BY ONLY <3>2, <3>3, <3>4
  <2>3. QED
    BY <2>1, <2>2
<1>14. Alike(K, later, after)
  BY ONLY <1>5, <1>6, <1>10, <1>11, <1>13 DEF Alike
<1>15. QED
  BY ONLY <1>1, <1>6, <1>14

LEMMA AgainExact ==
  ASSUME NEW talk \in Seq(SaidMessages), NEW max \in Nat \ {0},
         NEW kept, kept = History!RestoreTextHistory(talk, max),
         NEW again, again = History!Again(talk, max)
  PROVE  /\ Len(again) = Len(kept)
         /\ \A i \in DOMAIN again : again[i] = [of |-> i, length |-> kept[i].length]
<1> DEFINE N == Len(talk)
           K == Len(kept)
<1>1. N \in Nat /\ N \in 0..N /\ 0 \in 0..N /\ N - N = 0
  OBVIOUS
<1>2. PICK f : Rolls(talk, max, f) /\ kept = f[N].kept
  BY QuotesAre DEF Rolls
<1>3. \A n \in 0..N : f[n] \in Quotings /\ f[n].kept \in Seq(QuotedParts)
  <2>1. \A n \in 0..N : f[n] \in OpenQuotings
    BY <1>2 DEF Rolls
  <2>2. QED
    BY ONLY <2>1 DEF OpenQuotings, Quotings
<1>4. \A n \in 0..N : IsEnd(f[n].kept, kept)
  BY <1>2, KeptGrows
<1>5. kept \in Seq(QuotedParts) /\ K \in Nat
  BY <1>1, <1>2, <1>3
<1>6. \A i \in 1..K : /\ kept[i].of \in 1..N /\ talk[kept[i].of].type \in History!Quoted
  <2>1. \A n \in 0..N :
          Fits(talk, History!Quoted, max, N - n, f[n].remaining, f[n].kept)
    BY <1>2, QuotesFit DEF Rolls
  <2>2. Fits(talk, History!Quoted, max, 0, f[N].remaining, kept)
    BY ONLY <1>1, <1>2, <2>1
  <2>3. 0 + 1 = 1
    OBVIOUS
  <2>4. QED
    BY ONLY <2>2, <2>3 DEF Fits
<1>7. PICK restored : restored = Resumed(talk, kept)
  OBVIOUS
<1>8. /\ restored \in Seq(SaidMessages) /\ Len(restored) = K
      /\ \A i \in 1..K : /\ restored[i].type = talk[kept[i].of].type
                         /\ restored[i].length = kept[i].length
  BY ONLY <1>5, <1>6, <1>7, talk \in Seq(SaidMessages), ResumedIs
<1>9. again = History!RestoreTextHistory(restored, max)
  BY ONLY <1>7, kept = History!RestoreTextHistory(talk, max), again = History!Again(talk, max)
     DEF History!Again, Resumed
<1>10. PICK g : Rolls(restored, max, g) /\ again = g[K].kept
  <2>1. PICK g : RolledOut(restored, max, g)
    BY ONLY <1>8, max \in Nat \ {0}, RunsEnd
  <2>2. QED
    BY ONLY <1>8, <1>9, <2>1 DEF RolledOut
<1>11. \A k \in 0..K : g[k] \in Quotings
  <2>1. \A k \in 0..K : g[k] \in OpenQuotings
    BY ONLY <1>8, <1>10 DEF Rolls
  <2>2. QED
    BY ONLY <2>1 DEF OpenQuotings
<1> DEFINE size(n) == Len(f[n].kept)
           R(n) == size(n) \in 0..K /\ Alike(K, f[n], g[size(n)])
           T == {n \in 0..N : R(n)}
<1>12. \A n \in 0..N : size(n) \in 0..K
  <2>1. \A n \in 0..N : size(n) \in Nat
    BY ONLY <1>3
  <2>2. \A n \in 0..N : size(n) <= K
    BY ONLY <1>4 DEF IsEnd
  <2>3. ASSUME NEW n \in 0..N PROVE size(n) \in 0..K
    <3>1. PICK a : a = size(n)
      OBVIOUS
    <3>2. a \in Nat /\ a <= K
      BY ONLY <2>1, <2>2, <3>1, n \in 0..N
    <3>3. a \in 0..K
      BY ONLY <1>5, <3>2
    <3>4. QED
      BY ONLY <3>1, <3>3
  <2>4. QED
    BY <2>3
<1>13. 0 \in T
  <2>1. f[0] = History!Start(max) /\ g[0] = History!Start(max)
    BY ONLY <1>2, <1>10 DEF Rolls
  <2>2. f[0].kept = <<>> /\ size(0) = 0
    BY ONLY <2>1, max \in Nat \ {0}, StartIs
  <2>3. Alike(K, f[0], g[0])
    BY ONLY <2>1, <2>2 DEF Alike
  <2>4. QED
    BY ONLY <1>1, <1>12, <2>2, <2>3
<1>14. ASSUME NEW n \in 0..N, n \in T, n < N PROVE n + 1 \in T
  <2>1. PICK p : Behind(N, n, p)
    BY ONLY <1>1, <1>14, Backwards
  <2>2. /\ n + 1 \in 0..N
        /\ talk[p].type \in History!Quoted /\ f[n].remaining # 0 => TakesNext(talk, f[n], p, f[n + 1])
        /\ ~(talk[p].type \in History!Quoted /\ f[n].remaining # 0) => f[n + 1] = f[n]
    BY ONLY <1>2, <1>14, <2>1, talk \in Seq(SaidMessages), RunIs
  <2>3. CASE ~(talk[p].type \in History!Quoted /\ f[n].remaining # 0)
    <3>1. R(n + 1)
      BY ONLY <1>14, <2>2, <2>3
    <3>2. QED
      BY <2>2, <3>1
  <2>4. CASE talk[p].type \in History!Quoted /\ f[n].remaining # 0
    <3>1. PICK k : k = size(n)
      OBVIOUS
    <3>2. k \in 0..K /\ k \in Nat /\ Alike(K, f[n], g[k])
      BY ONLY <1>5, <1>14, <3>1
    <3>3. TakesNext(talk, f[n], p, f[n + 1])
      BY ONLY <2>2, <2>4
    <3>4. PICK l : Prepended(QuotedParts, [of |-> p, length |-> l], f[n].kept, f[n + 1].kept)
      BY ONLY <3>3 DEF TakesNext
    <3>5. size(n + 1) = k + 1 /\ f[n + 1].kept[1].of = p
      BY ONLY <3>1, <3>4 DEF Prepended
    <3>6. k < K /\ k + 1 \in 0..K
      <4>1. size(n + 1) \in 0..K
        BY ONLY <1>12, <2>2
      <4>2. k + 1 \in 0..K
        BY ONLY <3>5, <4>1
      <4>3. QED
        BY ONLY <1>5, <3>2, <4>2
    <3>7. PICK r : Behind(K, k, r)
      BY ONLY <1>5, <3>2, <3>6, Backwards
    <3>8. r \in 1..K /\ r = K - k /\ r \in Nat
      BY ONLY <1>5, <3>7 DEF Behind
    <3>9. kept[r] = f[n + 1].kept[1]
      <4>1. 1 \in 1..(k + 1) /\ (K - (k + 1)) + 1 = r
        BY ONLY <1>5, <3>2, <3>8
      <4>2. IsEnd(f[n + 1].kept, kept)
        BY ONLY <1>4, <2>2
      <4>3. f[n + 1].kept[1] = kept[(K - (k + 1)) + 1]
        BY ONLY <3>5, <4>1, <4>2 DEF IsEnd
      <4>4. QED
        BY ONLY <4>1, <4>3
    <3>10. restored[r].type \in History!Quoted /\ restored[r].length = f[n + 1].kept[1].length
      BY ONLY <1>6, <1>8, <3>8, <3>9
    <3>11. g[k].remaining # 0
      BY ONLY <2>4, <3>2 DEF Alike
    <3>12. TakesNext(restored, g[k], r, g[k + 1])
      <4>1. Behind(Len(restored), k, r) /\ k \in 0..Len(restored) /\ k < Len(restored)
        BY ONLY <1>8, <3>2, <3>6, <3>7
      <4>2. restored[r].type \in History!Quoted /\ g[k].remaining # 0 => TakesNext(restored, g[k], r, g[k + 1])
        BY ONLY <1>8, <1>10, <4>1, RunIs
      <4>3. QED
        BY ONLY <3>10, <3>11, <4>2
    <3>13. p \in 1..N /\ talk[p].length \in Nat
      <4>1. p \in 1..N
        BY ONLY <2>1 DEF Behind
      <4>2. talk[p] \in SaidMessages
        BY ONLY <4>1, talk \in Seq(SaidMessages)
      <4>3. QED
        BY ONLY <4>1, <4>2 DEF SaidMessages
    <3>14. PICK first \in Quotings : first = f[n]
      BY <1>3
    <3>15. PICK later \in Quotings : later = f[n + 1]
      BY <1>3, <2>2
    <3>16. PICK second \in Quotings : second = g[k]
      BY <1>11, <3>2
    <3>17. PICK after \in Quotings : after = g[k + 1]
      BY <1>11, <3>6
    <3>18. /\ Alike(K, first, second) /\ Len(first.kept) < K /\ r = K - Len(first.kept)
           /\ TakesNext(talk, first, p, later) /\ TakesNext(restored, second, r, after)
           /\ restored[r].length = later.kept[1].length
      BY ONLY <3>1, <3>2, <3>3, <3>6, <3>8, <3>10, <3>12, <3>14, <3>15, <3>16, <3>17
    <3>19. Alike(K, later, after)
      BY ONLY <1>5, <3>8, <3>13, <3>18, first \in Quotings, second \in Quotings, later \in Quotings,
              after \in Quotings, AlikeNext
    <3>20. R(n + 1)
      BY ONLY <3>5, <3>6, <3>15, <3>17, <3>19
    <3>21. QED
      BY ONLY <2>2, <3>20
  <2>5. QED
    BY <2>3, <2>4
<1>15. R(N)
  <2> HIDE DEF R
  <2>1. T = 0..N
    BY ONLY <1>1, <1>13, <1>14, T \in SUBSET (0..N), FromZero
  <2>2. QED
    BY ONLY <1>1, <2>1
<1>16. Alike(K, f[N], g[K]) /\ size(N) = K
  BY ONLY <1>2, <1>15
<1>17. /\ Len(again) = K
       /\ \A i \in 1..K : again[i].of = (K - K) + i /\ again[i].length = kept[i].length
  BY ONLY <1>2, <1>10, <1>16 DEF Alike
<1>18. again \in Seq(QuotedParts)
  <2>1. K \in 0..K
    BY <1>5
  <2>2. QED
    BY ONLY <1>10, <1>11, <2>1 DEF Quotings
<1>19. ASSUME NEW i \in DOMAIN again PROVE again[i] = [of |-> i, length |-> kept[i].length]
  <2>1. i \in 1..K /\ again[i] \in QuotedParts /\ (K - K) + i = i
    BY ONLY <1>5, <1>17, <1>18, <1>19
  <2>2. again[i].of = i /\ again[i].length = kept[i].length
    BY ONLY <1>17, <2>1
  <2>3. QED
    BY ONLY <2>1, <2>2 DEF QuotedParts
<1>20. QED
  BY ONLY <1>17, <1>19

\* restoreTextHistory keeps the newest of a history of any length, and restoring
\* what it restored changes nothing.
THEOREM HistoryExact ==
  ASSUME NEW talk \in Seq(SaidMessages), NEW max \in Nat \ {0}
  PROVE  History!HistoryIsNewest(talk, max)
<1>1. /\ History!NewestOf(talk, History!RestoreTextHistory(talk, max), History!Quoted, max)
      /\ History!NewestOf(talk, History!RestoreHistory(talk, max), History!Spoken, max)
  BY NewestExact
<1>2. /\ Len(History!Again(talk, max)) = Len(History!RestoreTextHistory(talk, max))
      /\ \A i \in DOMAIN History!Again(talk, max) :
           History!Again(talk, max)[i]
             = [of |-> i, length |-> History!RestoreTextHistory(talk, max)[i].length]
  BY AgainExact
<1>3. QED
  BY <1>1, <1>2 DEF History!HistoryIsNewest

-----------------------------------------------------------------------------
(* The messages of the RPC server and its clients *)

\* Paths.
LEMMA AppendIs2 ==
  ASSUME NEW S, NEW p \in Seq(S), NEW label \in S
  PROVE  /\ Append(p, label) \in Seq(S) /\ Append(p, label) # <<>>
         /\ Wire!Front(Append(p, label)) = p /\ Wire!Last(Append(p, label)) = label
<1>1. PICK l \in Nat : l = Len(p)
  OBVIOUS
<1>2. PICK q : q = Append(p, label)
  OBVIOUS
<1>3. q \in Seq(S) /\ Len(q) = l + 1 /\ q[l + 1] = label /\ \A k \in 1..l : q[k] = p[k]
  BY <1>1, <1>2
<1>4. q # <<>>
  <2>1. Len(q) # 0
    BY ONLY <1>3, l \in Nat
  <2>2. QED
    BY ONLY <2>1
<1>5. l \in 0..Len(q) /\ Len(q) - 1 = l
  BY ONLY <1>3, l \in Nat
<1>6. PICK t : Cut(S, q, l, t)
  BY ONLY <1>3, <1>5, CutIs
<1>7. t = SubSeq(q, 1, l) /\ t \in Seq(S) /\ Len(t) = l /\ \A k \in 1..l : t[k] = q[k]
  BY ONLY <1>6 DEF Cut
<1>8. t = p
  <2>1. \A k \in 1..Len(t) : t[k] = p[k]
    BY ONLY <1>3, <1>7
  <2>2. QED
    BY ONLY <1>1, <1>7, <2>1, p \in Seq(S), SameSo
<1>9. Wire!Front(q) = p /\ Wire!Last(q) = label
  BY ONLY <1>3, <1>5, <1>7, <1>8 DEF Wire!Front, Wire!Last
<1>10. QED
  BY ONLY <1>2, <1>3, <1>4, <1>9

LEMMA AppendOnce ==
  ASSUME NEW S, NEW p \in Seq(S), NEW q \in Seq(S), NEW label \in S, NEW other \in S,
         Append(p, label) = Append(q, other)
  PROVE  p = q /\ label = other
<1>1. PICK x : x = Append(p, label)
  OBVIOUS
<1>2. Wire!Front(x) = p /\ Wire!Last(x) = label
  BY ONLY <1>1, p \in Seq(S), label \in S, AppendIs2
<1>3. x = Append(q, other)
  BY <1>1
<1>4. Wire!Front(x) = q /\ Wire!Last(x) = other
  BY ONLY <1>3, q \in Seq(S), other \in S, AppendIs2
<1>5. QED
  BY ONLY <1>2, <1>4

LEMMA AboveIs ==
  ASSUME NEW S, NEW p \in Seq(S)
  PROVE  /\ \A q \in Wire!Above(p) : q \in Seq(S)
         /\ p # <<>> => Wire!Front(p) \in Wire!Above(p)
         /\ \A label \in S : p \in Wire!Above(Append(p, label))
<1>1. PICK l \in Nat : l = Len(p)
  OBVIOUS
<1>2. ASSUME NEW q \in Wire!Above(p) PROVE q \in Seq(S)
  <2>1. PICK n \in 0..(Len(p) - 1) : q = SubSeq(p, 1, n)
    BY DEF Wire!Above
  <2>2. n \in 0..Len(p)
    BY ONLY <1>1, n \in 0..(Len(p) - 1)
  <2>3. PICK t : Cut(S, p, n, t)
    BY ONLY <2>2, p \in Seq(S), CutIs
  <2>4. QED
    BY ONLY <2>1, <2>3 DEF Cut
<1>3. ASSUME p # <<>> PROVE Wire!Front(p) \in Wire!Above(p)
  <2>1. l # 0
    BY <1>1, <1>3
  <2>2. Len(p) - 1 \in 0..(Len(p) - 1)
    BY ONLY <1>1, <2>1
  <2>3. QED
    BY ONLY <2>2 DEF Wire!Front, Wire!Above
<1>4. ASSUME NEW label \in S PROVE p \in Wire!Above(Append(p, label))
  <2>1. PICK q : q = Append(p, label)
    OBVIOUS
  <2>2. Len(q) = l + 1
    BY <1>1, <2>1
  <2>3. Wire!Front(q) = p
    BY ONLY <2>1, p \in Seq(S), label \in S, AppendIs2
  <2>4. Len(q) - 1 \in 0..(Len(q) - 1)
    BY ONLY <2>2, l \in Nat
  <2>5. p \in Wire!Above(q)
    BY ONLY <2>3, <2>4 DEF Wire!Front, Wire!Above
  <2>6. QED
    BY ONLY <2>1, <2>5
<1>5. QED
  BY <1>2, <1>3, <1>4

\* What leads on from a label.
LEMMA AboveCons ==
  ASSUME NEW S, NEW label \in S, NEW r \in Seq(S), NEW q
  PROVE  q \in Wire!Above(<<label>> \o r)
            <=> q = <<>> \/ \E o \in Wire!Above(r) : q = <<label>> \o o
<1>1. PICK s : s = <<label>>
  OBVIOUS
<1>2. s \in Seq(S) /\ Len(s) = 1
  BY <1>1
<1>3. PICK p : Joined(S, s, r, p)
  BY ONLY <1>2, r \in Seq(S), JoinedSo
<1>4. PICK l \in Nat : l = Len(r)
  OBVIOUS
<1>5. p \in Seq(S) /\ p = s \o r /\ Len(p) = 1 + l
  BY ONLY <1>2, <1>3, <1>4 DEF Joined
<1>6. SubSeq(p, 1, 0) = <<>>
  BY ONLY <1>5, WholeFirst
<1>7. \A m \in 0..l : SubSeq(p, 1, 1 + m) = s \o SubSeq(r, 1, m)
  <2>1. ASSUME NEW m \in 0..l PROVE SubSeq(p, 1, 1 + m) = s \o SubSeq(r, 1, m)
    <3>1. m \in 0..Len(r)
      BY <1>4
    <3>2. SubSeq(s \o r, 1, Len(s) + m) = s \o SubSeq(r, 1, m)
      BY ONLY <1>2, <3>1, r \in Seq(S), UnderCut
    <3>3. QED
      BY ONLY <1>2, <1>5, <3>2
  <2>2. QED
    BY <2>1
<1>8. ASSUME q \in Wire!Above(p) PROVE q = <<>> \/ \E o \in Wire!Above(r) : q = s \o o
  <2>1. PICK n \in 0..(Len(p) - 1) : q = SubSeq(p, 1, n)
    BY <1>8 DEF Wire!Above
  <2>2. CASE n = 0
    BY ONLY <1>6, <2>1, <2>2
  <2>3. CASE n # 0
    <3>1. PICK m \in 0..(l - 1) : n = 1 + m
      <4>1. n - 1 \in 0..(l - 1) /\ n = 1 + (n - 1)
        BY ONLY <1>5, <2>3, l \in Nat, n \in 0..(Len(p) - 1)
      <4>2. QED
        BY <4>1
    <3>2. m \in 0..l
      BY ONLY l \in Nat, m \in 0..(l - 1)
    <3>3. q = s \o SubSeq(r, 1, m)
      BY ONLY <1>7, <2>1, <3>1, <3>2
    <3>4. SubSeq(r, 1, m) \in Wire!Above(r)
      BY ONLY <1>4, m \in 0..(l - 1) DEF Wire!Above
    <3>5. QED
      BY ONLY <3>3, <3>4
  <2>4. QED
    BY <2>2, <2>3
<1>9. <<>> \in Wire!Above(p)
  <2>1. 0 \in 0..(Len(p) - 1)
    BY ONLY <1>5, l \in Nat
  <2>2. QED
    BY ONLY <1>6, <2>1 DEF Wire!Above
<1>10. ASSUME NEW o \in Wire!Above(r) PROVE s \o o \in Wire!Above(p)
  <2>1. PICK m \in 0..(l - 1) : o = SubSeq(r, 1, m)
    BY <1>4 DEF Wire!Above
  <2>2. m \in 0..l /\ 1 + m \in 0..(Len(p) - 1)
    BY ONLY <1>5, l \in Nat, m \in 0..(l - 1)
  <2>3. s \o o = SubSeq(p, 1, 1 + m)
    BY ONLY <1>7, <2>1, <2>2
  <2>4. QED
    BY ONLY <2>2, <2>3 DEF Wire!Above
<1>11. QED
  BY ONLY <1>1, <1>5, <1>8, <1>9, <1>10

\* A value whose paths are of the keys S.
Tree(S, v) ==
  /\ DOMAIN v \subseteq Seq(S) /\ <<>> \in DOMAIN v
  /\ \A p \in DOMAIN v : v[p] = Wire!Node(v[p].is, v[p].of)
  /\ \A p \in DOMAIN v : \A q \in Wire!Above(p) : q \in DOMAIN v /\ v[q].is \in {"list", "object"}
  /\ v = [p \in DOMAIN v |-> v[p]]

\* The bytes in a value, and what is written in their place.
BytesOf(v) == {p \in DOMAIN v : v[p].is = "bytes"}
BelowBytes(v) == {Append(q, label) : q \in BytesOf(v), label \in {Wire!Tag, Wire!Base64}}

LEMMA NodesDiffer ==
  \A k, c : Wire!Node(k, c).is = k /\ Wire!Node(k, c).of = c
BY DEF Wire!Node

LEMMA TagsDiffer == Wire!Tag # Wire!Base64
BY DEF Wire!Tag, Wire!Base64

LEMMA FrontOf ==
  ASSUME NEW S, NEW v, Tree(S, v), NEW p \in DOMAIN v, p # <<>>
  PROVE  /\ Wire!Front(p) \in DOMAIN v /\ v[Wire!Front(p)].is \in {"list", "object"}
         /\ Wire!Front(p) \notin BytesOf(v)
<1>1. p \in Seq(S)
  BY DEF Tree
<1>2. Wire!Front(p) \in Wire!Above(p)
  BY <1>1, AboveIs
<1>3. Wire!Front(p) \in DOMAIN v /\ v[Wire!Front(p)].is \in {"list", "object"}
  BY <1>2 DEF Tree
<1>4. QED
  BY <1>3 DEF BytesOf

LEMMA BytesEnd ==
  ASSUME NEW S, NEW v, Tree(S, v), {Wire!Tag, Wire!Base64} \subseteq S
  PROVE  /\ BelowBytes(v) \cap DOMAIN v = {}
         /\ BelowBytes(v) \subseteq Seq(S)
         /\ \A p \in DOMAIN v : Wire!Above(p) \cap BytesOf(v) = {}
<1>1. \A p \in DOMAIN v : Wire!Above(p) \cap BytesOf(v) = {}
  BY DEF Tree, BytesOf
<1>2. ASSUME NEW p \in BelowBytes(v) PROVE p \in Seq(S) /\ p \notin DOMAIN v
  <2>1. PICK q \in BytesOf(v), label \in S : p = Append(q, label)
    BY DEF BelowBytes
  <2>2. q \in Seq(S)
    BY DEF BytesOf, Tree
  <2>3. q \in Wire!Above(Append(q, label))
    BY ONLY <2>2, label \in S, AboveIs
  <2>4. Append(q, label) \in Seq(S)
    BY ONLY <2>2, label \in S, AppendIs2
  <2>5. QED
    BY <1>1, <2>1, <2>3, <2>4
<1>3. QED
  BY <1>1, <1>2

\* What is written of a value.
LEMMA EncodedIs ==
  ASSUME NEW S, NEW v, Tree(S, v), {Wire!Tag, Wire!Base64} \subseteq S
  PROVE  /\ DOMAIN Wire!EncodeWireValue(v) = DOMAIN v \cup BelowBytes(v)
         /\ \A p \in BytesOf(v) :
              /\ Wire!EncodeWireValue(v)[p] = Wire!Node("object", "nothing")
              /\ Wire!EncodeWireValue(v)[Append(p, Wire!Tag)] = Wire!Node("text", "u8")
              /\ Wire!EncodeWireValue(v)[Append(p, Wire!Base64)] = Wire!Node("text", v[p].of)
         /\ \A p \in DOMAIN v \ BytesOf(v) : Wire!EncodeWireValue(v)[p] = v[p]
         /\ \A p \in BelowBytes(v) : Wire!EncodeWireValue(v)[p].is = "text"
<1>1. PICK e : e = Wire!EncodeWireValue(v)
  OBVIOUS
<1>2. e = [path \in DOMAIN v \cup BelowBytes(v) |->
             IF path \in BytesOf(v) THEN Wire!Node("object", "nothing")
             ELSE IF path \in DOMAIN v THEN v[path]
             ELSE Wire!Node("text", IF Wire!Last(path) = Wire!Tag THEN "u8" ELSE v[Wire!Front(path)].of)]
  BY ONLY <1>1 DEF Wire!EncodeWireValue, BytesOf, BelowBytes
<1>3. BytesOf(v) \subseteq DOMAIN v /\ BelowBytes(v) \cap DOMAIN v = {} /\ DOMAIN v \subseteq Seq(S)
  BY BytesEnd DEF BytesOf, Tree
<1>4. \A p \in BelowBytes(v) : e[p] = Wire!Node("text", IF Wire!Last(p) = Wire!Tag THEN "u8" ELSE v[Wire!Front(p)].of)
  BY ONLY <1>2, <1>3
<1>5. ASSUME NEW p \in BytesOf(v)
      PROVE  /\ e[Append(p, Wire!Tag)] = Wire!Node("text", "u8")
             /\ e[Append(p, Wire!Base64)] = Wire!Node("text", v[p].of)
  <2>1. PICK a : a = Append(p, Wire!Tag)
    OBVIOUS
  <2>2. PICK b : b = Append(p, Wire!Base64)
    OBVIOUS
  <2>3. p \in Seq(S) /\ Wire!Tag \in S /\ Wire!Base64 \in S
    BY <1>3
  <2>4. Wire!Front(a) = p /\ Wire!Last(a) = Wire!Tag
    BY ONLY <2>1, <2>3, AppendIs2
  <2>5. Wire!Front(b) = p /\ Wire!Last(b) = Wire!Base64
    BY ONLY <2>2, <2>3, AppendIs2
  <2>6. a \in BelowBytes(v) /\ b \in BelowBytes(v)
    BY <2>1, <2>2 DEF BelowBytes
  <2>7. QED
    BY ONLY <1>4, <2>1, <2>2, <2>4, <2>5, <2>6, TagsDiffer
<1>6. \A p \in BelowBytes(v) : e[p].is = "text"
  BY ONLY <1>4, NodesDiffer
<1>7. DOMAIN e = DOMAIN v \cup BelowBytes(v)
  BY ONLY <1>2
<1>8. /\ \A p \in BytesOf(v) : e[p] = Wire!Node("object", "nothing")
      /\ \A p \in DOMAIN v \ BytesOf(v) : e[p] = v[p]
  BY ONLY <1>2, <1>3
<1>9. QED
  BY ONLY <1>1, <1>5, <1>6, <1>7, <1>8

\* What JSON makes of it.
LEMMA JsonIs ==
  ASSUME NEW S, NEW v, Tree(S, v)
  PROVE  /\ DOMAIN Wire!Json(v) \subseteq DOMAIN v
         /\ \A p \in DOMAIN v : v[p].is # "undefined" => p \in DOMAIN Wire!Json(v) /\ Wire!Json(v)[p] = v[p]
         /\ \A p \in DOMAIN Wire!Json(v) :
              Wire!Json(v)[p] = v[p] \/ (Wire!Json(v)[p] = Wire!Node("null", "nothing") /\ v[p].is = "undefined")
         /\ Wire!Json(v) = [p \in DOMAIN Wire!Json(v) |-> Wire!Json(v)[p]]
<1>1. PICK w : w = Wire!Json(v)
  OBVIOUS
<1>2. /\ DOMAIN w = {p \in DOMAIN v : p # <<>> /\ v[p].is = "undefined" => v[Wire!Front(p)].is # "object"}
      /\ \A p \in DOMAIN w : w[p] = IF v[p].is = "undefined" THEN Wire!Node("null", "nothing") ELSE v[p]
      /\ w = [p \in DOMAIN w |-> w[p]]
  BY ONLY <1>1 DEF Wire!Json
<1>3. /\ DOMAIN w \subseteq DOMAIN v
      /\ \A p \in DOMAIN v : v[p].is # "undefined" => p \in DOMAIN w /\ w[p] = v[p]
  BY ONLY <1>2
<1>4. \A p \in DOMAIN w : w[p] = v[p] \/ (w[p] = Wire!Node("null", "nothing") /\ v[p].is = "undefined")
  BY ONLY <1>2
<1>5. QED
  BY ONLY <1>1, <1>2, <1>3, <1>4

(* The value v with its bytes replaced, w is what JSON makes of v alone. *)
Carried(v, w, j) ==
  /\ DOMAIN j = DOMAIN w \cup BelowBytes(v)
  /\ \A p \in BytesOf(v) :
       /\ j[p] = Wire!Node("object", "nothing")
       /\ j[Append(p, Wire!Tag)] = Wire!Node("text", "u8")
       /\ j[Append(p, Wire!Base64)] = Wire!Node("text", v[p].of)
  /\ \A p \in DOMAIN w \ BytesOf(v) : j[p] = w[p]
  /\ \A p \in BelowBytes(v) : j[p].is = "text"

LEMMA WrittenOf ==
  ASSUME NEW S, NEW v, Tree(S, v), {Wire!Tag, Wire!Base64} \subseteq S
  PROVE  Carried(v, Wire!Json(v), Wire!Json(Wire!EncodeWireValue(v)))
<1>0. PICK e : e = Wire!EncodeWireValue(v)
  OBVIOUS
<1>1. /\ DOMAIN e = DOMAIN v \cup BelowBytes(v)
      /\ \A p \in BytesOf(v) :
           /\ e[p] = Wire!Node("object", "nothing")
           /\ e[Append(p, Wire!Tag)] = Wire!Node("text", "u8")
           /\ e[Append(p, Wire!Base64)] = Wire!Node("text", v[p].of)
      /\ \A p \in DOMAIN v \ BytesOf(v) : e[p] = v[p]
      /\ \A p \in BelowBytes(v) : e[p].is = "text"
  BY ONLY Tree(S, v), {Wire!Tag, Wire!Base64} \subseteq S, <1>0, EncodedIs
<1>2. BelowBytes(v) \cap DOMAIN v = {} /\ BytesOf(v) \subseteq DOMAIN v
  BY BytesEnd DEF BytesOf
<1>3. \A p \in BytesOf(v) : e[p].is = "object" /\ v[p].is = "bytes"
  BY ONLY <1>1, NodesDiffer DEF BytesOf
<1>4. \A p \in DOMAIN v : e[p].is = "undefined" <=> v[p].is = "undefined"
  BY ONLY <1>1, <1>3
<1>5. \A p \in DOMAIN v : p # <<>> => e[Wire!Front(p)] = v[Wire!Front(p)]
  BY <1>1, FrontOf
<1>6. PICK j : j = Wire!Json(e)
  OBVIOUS
<1>7. /\ DOMAIN j = {p \in DOMAIN e : p # <<>> /\ e[p].is = "undefined" => e[Wire!Front(p)].is # "object"}
      /\ \A p \in DOMAIN j : j[p] = IF e[p].is = "undefined" THEN Wire!Node("null", "nothing") ELSE e[p]
  BY ONLY <1>6 DEF Wire!Json
<1>8. PICK w : w = Wire!Json(v)
  OBVIOUS
<1>9. /\ DOMAIN w = {p \in DOMAIN v : p # <<>> /\ v[p].is = "undefined" => v[Wire!Front(p)].is # "object"}
      /\ \A p \in DOMAIN w : w[p] = IF v[p].is = "undefined" THEN Wire!Node("null", "nothing") ELSE v[p]
  BY ONLY <1>8 DEF Wire!Json
<1>10. BelowBytes(v) \subseteq DOMAIN j /\ \A p \in BelowBytes(v) : j[p] = e[p]
  BY ONLY <1>1, <1>7
<1>11. DOMAIN w \subseteq DOMAIN j
  BY ONLY <1>1, <1>4, <1>5, <1>7, <1>9
<1>12. DOMAIN j \cap DOMAIN v \subseteq DOMAIN w
  BY ONLY <1>4, <1>5, <1>7, <1>9
<1>13. DOMAIN j = DOMAIN w \cup BelowBytes(v)
  BY ONLY <1>1, <1>7, <1>10, <1>11, <1>12
<1>14. BytesOf(v) \subseteq DOMAIN w
  BY ONLY <1>2, <1>3, <1>9
<1>15. \A p \in BytesOf(v) : j[p] = Wire!Node("object", "nothing")
  BY ONLY <1>1, <1>3, <1>7, <1>11, <1>14
<1>16. \A p \in BytesOf(v) : Append(p, Wire!Tag) \in BelowBytes(v) /\ Append(p, Wire!Base64) \in BelowBytes(v)
  BY ONLY DEF BelowBytes
<1>17. \A p \in BytesOf(v) : /\ j[Append(p, Wire!Tag)] = Wire!Node("text", "u8")
                             /\ j[Append(p, Wire!Base64)] = Wire!Node("text", v[p].of)
  BY ONLY <1>1, <1>10, <1>16
<1>18. \A p \in DOMAIN w \ BytesOf(v) : j[p] = w[p]
  BY ONLY <1>1, <1>4, <1>7, <1>9, <1>11
<1>19. \A p \in BelowBytes(v) : j[p].is = "text"
  BY ONLY <1>1, <1>10
<1>20. QED
  BY ONLY <1>0, <1>6, <1>8, <1>13, <1>15, <1>17, <1>18, <1>19 DEF Carried

\* What looks like encoded bytes.
TagsOf(v) == {p \in DOMAIN v : Wire!Tagged(v, p)}

\* What looks like bytes is bytes, unless it was so before.
LEMMA TagsAre ==
  ASSUME NEW S, NEW v, Tree(S, v), {Wire!Tag, Wire!Base64} \subseteq S,
         NEW j, j = Wire!Json(Wire!EncodeWireValue(v))
  PROVE  BytesOf(v) \subseteq TagsOf(j) /\ TagsOf(j) \subseteq BytesOf(v) \cup TagsOf(v)
<1>1. PICK w : w = Wire!Json(v)
  OBVIOUS
<1>2. PICK e : e = Wire!EncodeWireValue(v)
  OBVIOUS
<1>3. j = Wire!Json(e)
  BY <1>2
<1>4. /\ DOMAIN j = DOMAIN w \cup BelowBytes(v)
      /\ \A p \in BytesOf(v) :
           /\ j[p] = Wire!Node("object", "nothing")
           /\ j[Append(p, Wire!Tag)] = Wire!Node("text", "u8")
           /\ j[Append(p, Wire!Base64)] = Wire!Node("text", v[p].of)
      /\ \A p \in DOMAIN w \ BytesOf(v) : j[p] = w[p]
      /\ \A p \in BelowBytes(v) : j[p].is = "text"
  <2>1. Carried(v, w, j)
    BY ONLY Tree(S, v), {Wire!Tag, Wire!Base64} \subseteq S, <1>1, <1>2, <1>3, WrittenOf
  <2>2. QED
    BY ONLY <2>1 DEF Carried
<1>5. /\ DOMAIN w \subseteq DOMAIN v
      /\ \A p \in DOMAIN v : v[p].is # "undefined" => p \in DOMAIN w /\ w[p] = v[p]
      /\ \A p \in DOMAIN w : w[p] = v[p] \/ (w[p] = Wire!Node("null", "nothing") /\ v[p].is = "undefined")
  BY ONLY Tree(S, v), <1>1, JsonIs
<1>6. \A p \in BytesOf(v) : p \in DOMAIN v /\ v[p].is = "bytes"
  BY DEF BytesOf
<1>7. ASSUME NEW p \in BytesOf(v) PROVE p \in TagsOf(j)
  <2>1. p \in DOMAIN j /\ j[p].is = "object"
    BY ONLY <1>4, <1>5, <1>6, <1>7, NodesDiffer
  <2>2. Append(p, Wire!Tag) \in BelowBytes(v) /\ Append(p, Wire!Base64) \in BelowBytes(v)
    BY ONLY <1>7 DEF BelowBytes
  <2>3. /\ j[Append(p, Wire!Tag)].is = "text" /\ j[Append(p, Wire!Tag)].of = "u8"
        /\ j[Append(p, Wire!Base64)].is = "text"
    BY ONLY <1>4, <1>7, NodesDiffer
  <2>4. QED
    BY ONLY <1>4, <2>1, <2>2, <2>3 DEF TagsOf, Wire!Tagged, Wire!IsKind
<1>8. \A p \in DOMAIN j : j[p].is = "object" => p \in BytesOf(v) \/ (p \in DOMAIN v /\ v[p].is = "object")
  BY ONLY <1>4, <1>5, NodesDiffer
<1>9. \A p \in DOMAIN j : p \notin BelowBytes(v) /\ j[p].is = "text" => p \in DOMAIN v /\ v[p] = j[p]
  BY ONLY <1>4, <1>5, NodesDiffer
<1>10. ASSUME NEW p \in TagsOf(j), p \notin BytesOf(v) PROVE p \in TagsOf(v)
  <2>1. /\ p \in DOMAIN j /\ j[p].is = "object"
        /\ Append(p, Wire!Tag) \in DOMAIN j /\ j[Append(p, Wire!Tag)].is = "text"
        /\ j[Append(p, Wire!Tag)].of = "u8"
        /\ Append(p, Wire!Base64) \in DOMAIN j /\ j[Append(p, Wire!Base64)].is = "text"
    BY ONLY p \in TagsOf(j) DEF TagsOf, Wire!Tagged, Wire!IsKind
  <2>2. p \in DOMAIN v /\ v[p].is = "object"
    BY ONLY <1>8, <1>10, <2>1
  <2>3. p \in Seq(S) /\ BytesOf(v) \subseteq Seq(S)
    BY <2>2 DEF Tree, BytesOf
  <2>4. ASSUME NEW label \in {Wire!Tag, Wire!Base64} PROVE Append(p, label) \notin BelowBytes(v)
    <3>1. SUFFICES ASSUME Append(p, label) \in BelowBytes(v) PROVE FALSE
      OBVIOUS
    <3>2. PICK q \in BytesOf(v), other \in {Wire!Tag, Wire!Base64} : Append(p, label) = Append(q, other)
      BY ONLY <3>1 DEF BelowBytes
    <3>3. p = q
      BY ONLY <2>3, <3>2, {Wire!Tag, Wire!Base64} \subseteq S, label \in {Wire!Tag, Wire!Base64}, AppendOnce
    <3>4. QED
      BY ONLY <1>10, <3>2, <3>3
  <2>5. Append(p, Wire!Tag) \in DOMAIN v /\ v[Append(p, Wire!Tag)] = j[Append(p, Wire!Tag)]
    BY ONLY <1>9, <2>1, <2>4
  <2>6. Append(p, Wire!Base64) \in DOMAIN v /\ v[Append(p, Wire!Base64)] = j[Append(p, Wire!Base64)]
    BY ONLY <1>9, <2>1, <2>4
  <2>7. QED
    BY ONLY <2>1, <2>2, <2>5, <2>6 DEF TagsOf, Wire!Tagged, Wire!IsKind
<1>11. QED
  BY ONLY <1>7, <1>10

\* Without a lookalike a value arrives as JSON has it.
LEMMA ArrivesIs ==
  ASSUME NEW S, NEW v, Tree(S, v), {Wire!Tag, Wire!Base64} \subseteq S, ~Wire!HasLookalike(v)
  PROVE  Wire!Received(v) = Wire!Json(v)
<1>1. PICK w : w = Wire!Json(v)
  OBVIOUS
<1>2. PICK e : e = Wire!EncodeWireValue(v)
  OBVIOUS
<1>3. PICK j : j = Wire!Json(e)
  OBVIOUS
<1>4. /\ DOMAIN j = DOMAIN w \cup BelowBytes(v)
      /\ \A p \in BytesOf(v) :
           /\ j[p] = Wire!Node("object", "nothing")
           /\ j[Append(p, Wire!Tag)] = Wire!Node("text", "u8")
           /\ j[Append(p, Wire!Base64)] = Wire!Node("text", v[p].of)
      /\ \A p \in DOMAIN w \ BytesOf(v) : j[p] = w[p]
      /\ \A p \in BelowBytes(v) : j[p].is = "text"
  <2>1. Carried(v, w, j)
    BY ONLY Tree(S, v), {Wire!Tag, Wire!Base64} \subseteq S, <1>1, <1>2, <1>3, WrittenOf
  <2>2. QED
    BY ONLY <2>1 DEF Carried
<1>5. /\ DOMAIN w \subseteq DOMAIN v
      /\ \A p \in DOMAIN v : v[p].is # "undefined" => p \in DOMAIN w /\ w[p] = v[p]
      /\ w = [p \in DOMAIN w |-> w[p]]
  BY ONLY Tree(S, v), <1>1, JsonIs
<1>6. TagsOf(v) = {}
  BY DEF TagsOf, Wire!HasLookalike
<1>7. j = Wire!Json(Wire!EncodeWireValue(v))
  BY <1>2, <1>3
<1>8. TagsOf(j) = BytesOf(v)
  <2>1. BytesOf(v) \subseteq TagsOf(j) /\ TagsOf(j) \subseteq BytesOf(v) \cup TagsOf(v)
    BY ONLY Tree(S, v), {Wire!Tag, Wire!Base64} \subseteq S, <1>7, TagsAre
  <2>2. QED
    BY ONLY <1>6, <2>1
<1>9. Wire!Received(v) = Wire!WithBytes(j, BytesOf(v))
  BY ONLY <1>7, <1>8 DEF Wire!Received, Wire!DecodeWireValue, TagsOf
<1>10. \A p \in BytesOf(v) : p \in DOMAIN v /\ v[p].is = "bytes" /\ v[p] = Wire!Node("bytes", v[p].of)
  BY DEF BytesOf, Tree
<1>11. \A p \in DOMAIN v : Wire!Above(p) \cap BytesOf(v) = {}
  BY BytesEnd
<1>12. ASSUME NEW p \in BelowBytes(v) PROVE Wire!Above(p) \cap BytesOf(v) # {}
  <2>1. PICK q \in BytesOf(v), label \in S : p = Append(q, label)
    BY DEF BelowBytes
  <2>2. q \in Seq(S)
    BY DEF BytesOf, Tree
  <2>3. q \in Wire!Above(Append(q, label))
    BY ONLY <2>2, label \in S, AboveIs
  <2>4. QED
    BY ONLY <2>1, <2>3
<1>13. {p \in DOMAIN j : Wire!Above(p) \cap BytesOf(v) = {}} = DOMAIN w
  BY ONLY <1>4, <1>5, <1>11, <1>12
<1>14. Wire!WithBytes(j, BytesOf(v)) =
         [p \in DOMAIN w |-> IF p \in BytesOf(v) THEN Wire!Node("bytes", j[Append(p, Wire!Base64)].of) ELSE j[p]]
  BY ONLY <1>13 DEF Wire!WithBytes
<1>15. ASSUME NEW p \in DOMAIN w
       PROVE  (IF p \in BytesOf(v) THEN Wire!Node("bytes", j[Append(p, Wire!Base64)].of) ELSE j[p]) = w[p]
  <2>1. CASE p \in BytesOf(v)
    <3>1. j[Append(p, Wire!Base64)].of = v[p].of
      BY ONLY <1>4, <2>1, NodesDiffer
    <3>2. w[p] = v[p]
      BY ONLY <1>5, <1>10, <2>1
    <3>3. QED
      BY ONLY <1>10, <2>1, <3>1, <3>2
  <2>2. CASE p \notin BytesOf(v)
    BY ONLY <1>4, <2>2, p \in DOMAIN w
  <2>3. QED
    BY <2>1, <2>2
<1>16. Wire!WithBytes(j, BytesOf(v)) = [p \in DOMAIN w |-> w[p]]
  BY ONLY <1>14, <1>15, Zenon
<1>17. QED
  BY ONLY <1>1, <1>5, <1>9, <1>16

\* A text that nothing above it hides arrives as it was.
LEMMA PlainArrives ==
  ASSUME NEW S, NEW v, Tree(S, v), {Wire!Tag, Wire!Base64} \subseteq S,
         NEW p \in DOMAIN v, v[p].is = "text", \A q \in Wire!Above(p) : ~Wire!Tagged(v, q)
  PROVE  p \in DOMAIN Wire!Received(v) /\ Wire!Received(v)[p] = v[p]
<1>1. PICK j : j = Wire!Json(Wire!EncodeWireValue(v))
  OBVIOUS
<1>2. PICK w : w = Wire!Json(v)
  OBVIOUS
<1>3. /\ DOMAIN j = DOMAIN w \cup BelowBytes(v)
      /\ \A q \in DOMAIN w \ BytesOf(v) : j[q] = w[q]
  <2>1. Carried(v, w, j)
    BY ONLY Tree(S, v), {Wire!Tag, Wire!Base64} \subseteq S, <1>1, <1>2, WrittenOf
  <2>2. QED
    BY ONLY <2>1 DEF Carried
<1>4. p \in DOMAIN w /\ w[p] = v[p]
  BY ONLY Tree(S, v), v[p].is = "text", p \in DOMAIN v, <1>2, JsonIs
<1>5. TagsOf(j) \subseteq BytesOf(v) \cup TagsOf(v)
  BY ONLY Tree(S, v), {Wire!Tag, Wire!Base64} \subseteq S, <1>1, TagsAre
<1>6. p \notin BytesOf(v) /\ p \notin TagsOf(v)
  BY DEF BytesOf, TagsOf, Wire!Tagged, Wire!IsKind
<1>7. p \in DOMAIN j /\ j[p] = v[p]
  BY ONLY <1>3, <1>4, <1>6
<1>8. Wire!Above(p) \cap TagsOf(j) = {}
  <2>1. Wire!Above(p) \cap BytesOf(v) = {}
    BY BytesEnd
  <2>2. Wire!Above(p) \cap TagsOf(v) = {}
    BY DEF TagsOf
  <2>3. QED
    BY ONLY <1>5, <2>1, <2>2
<1>9. Wire!Received(v) = Wire!WithBytes(j, TagsOf(j))
  BY ONLY <1>1 DEF Wire!Received, Wire!DecodeWireValue, TagsOf
<1>10. p \notin TagsOf(j)
  BY ONLY <1>5, <1>6
<1>11. p \in DOMAIN Wire!WithBytes(j, TagsOf(j)) /\ Wire!WithBytes(j, TagsOf(j))[p] = j[p]
  BY ONLY <1>7, <1>8, <1>10 DEF Wire!WithBytes
<1>12. QED
  BY ONLY <1>7, <1>9, <1>11

\* Nothing arrives under a label that was not sent.
LEMMA NothingAdded ==
  ASSUME NEW S, NEW v, Tree(S, v), {Wire!Tag, Wire!Base64} \subseteq S,
         NEW p \in Seq(S), NEW label \in S, label \notin {Wire!Tag, Wire!Base64},
         Append(p, label) \in DOMAIN Wire!Received(v)
  PROVE  Append(p, label) \in DOMAIN v
<1>1. PICK j : j = Wire!Json(Wire!EncodeWireValue(v))
  OBVIOUS
<1>2. DOMAIN j = DOMAIN Wire!Json(v) \cup BelowBytes(v)
  <2>1. Carried(v, Wire!Json(v), j)
    BY ONLY Tree(S, v), {Wire!Tag, Wire!Base64} \subseteq S, <1>1, WrittenOf
  <2>2. QED
    BY ONLY <2>1 DEF Carried
<1>3. DOMAIN Wire!Json(v) \subseteq DOMAIN v
  BY ONLY Tree(S, v), JsonIs
<1>4. Wire!Received(v) = Wire!WithBytes(j, TagsOf(j))
  BY ONLY <1>1 DEF Wire!Received, Wire!DecodeWireValue, TagsOf
<1>5. DOMAIN Wire!WithBytes(j, TagsOf(j)) \subseteq DOMAIN j
  BY ONLY DEF Wire!WithBytes
<1>6. Append(p, label) \notin BelowBytes(v)
  <2>1. SUFFICES ASSUME Append(p, label) \in BelowBytes(v) PROVE FALSE
    OBVIOUS
  <2>2. PICK q \in BytesOf(v), other \in {Wire!Tag, Wire!Base64} : Append(p, label) = Append(q, other)
    BY ONLY <2>1 DEF BelowBytes
  <2>3. q \in Seq(S) /\ other \in S
    BY DEF BytesOf, Tree
  <2>4. label = other
    BY ONLY <2>2, <2>3, p \in Seq(S), label \in S, AppendOnce
  <2>5. QED
    BY <2>4
<1>7. QED
  BY ONLY Append(p, label) \in DOMAIN Wire!Received(v), <1>2, <1>3, <1>4, <1>5, <1>6

(* A value whose objects are none of them like encoded bytes. *)
Clean(v) == \A p \in DOMAIN v : ~Wire!Tagged(v, p)

LEMMA AboveRoot == Wire!Above(<<>>) = {}
<1>1. 0..(Len(<<>>) - 1) = {}
  OBVIOUS
<1>2. QED
  BY ONLY <1>1 DEF Wire!Above

LEMMA LeafIs ==
  ASSUME NEW S, NEW kind, NEW content, {Wire!Tag, Wire!Base64} \subseteq S
  PROVE  /\ Tree(S, Wire!Leaf(Wire!Node(kind, content))) /\ Clean(Wire!Leaf(Wire!Node(kind, content)))
         /\ DOMAIN Wire!Leaf(Wire!Node(kind, content)) = {<<>>}
         /\ Wire!Leaf(Wire!Node(kind, content))[<<>>] = Wire!Node(kind, content)
<1>1. PICK v : v = Wire!Leaf(Wire!Node(kind, content))
  OBVIOUS
<1>2. v = [p \in {<<>>} |-> Wire!Node(kind, content)]
  BY ONLY <1>1 DEF Wire!Leaf
<1>3. DOMAIN v = {<<>>} /\ v[<<>>] = Wire!Node(kind, content)
  BY ONLY <1>2
<1>4. <<>> \in Seq(S)
  OBVIOUS
<1>5. \A p \in DOMAIN v : v[p] = Wire!Node(v[p].is, v[p].of)
  BY ONLY <1>3, NodesDiffer
<1>6. v = [p \in DOMAIN v |-> v[p]]
  BY ONLY <1>2
<1>7. Tree(S, v)
  BY ONLY <1>3, <1>4, <1>5, <1>6, AboveRoot DEF Tree
<1>8. Append(<<>>, Wire!Tag) # <<>>
  BY ONLY <1>4, {Wire!Tag, Wire!Base64} \subseteq S, AppendIs2
<1>9. Clean(v)
  BY ONLY <1>3, <1>8 DEF Clean, Wire!Tagged, Wire!IsKind
<1>10. QED
  BY ONLY <1>1, <1>3, <1>7, <1>9

(* The values f under their keys. *)
Forest(S, f) == DOMAIN f \subseteq S /\ \A k \in DOMAIN f : Tree(S, f[k])
Grown(S, kind, f, b) ==
  /\ \A p : p \in DOMAIN b <=> p = <<>> \/ \E k \in DOMAIN f : \E r \in DOMAIN f[k] : p = <<k>> \o r
  /\ <<>> \in DOMAIN b /\ b[<<>>] = Wire!Node(kind, "nothing")
  /\ \A k \in DOMAIN f : \A r \in DOMAIN f[k] : <<k>> \o r \in DOMAIN b /\ b[<<k>> \o r] = f[k][r]

LEMMA BranchIs ==
  ASSUME NEW S, NEW f, Forest(S, f), NEW kind
  PROVE  /\ Grown(S, kind, f, Wire!Branch(kind, f))
         /\ Wire!Branch(kind, f) = [p \in DOMAIN Wire!Branch(kind, f) |-> Wire!Branch(kind, f)[p]]
<1>1. PICK b : b = Wire!Branch(kind, f)
  OBVIOUS
<1>2. PICK D : D = UNION {{<<label>> \o rest : rest \in DOMAIN f[label]} : label \in DOMAIN f}
  OBVIOUS
<1>3. b = [p \in {<<>>} \cup D |-> IF p = <<>> THEN Wire!Node(kind, "nothing") ELSE f[p[1]][Tail(p)]]
  BY ONLY <1>1, <1>2 DEF Wire!Branch
<1>4. \A p : p \in D <=> \E k \in DOMAIN f : \E r \in DOMAIN f[k] : p = <<k>> \o r
  <2>1. ASSUME NEW p \in D PROVE \E k \in DOMAIN f : \E r \in DOMAIN f[k] : p = <<k>> \o r
    <3>1. PICK d \in {{<<label>> \o rest : rest \in DOMAIN f[label]} : label \in DOMAIN f} : p \in d
      BY ONLY <1>2, p \in D
    <3>2. PICK k \in DOMAIN f : d = {<<k>> \o rest : rest \in DOMAIN f[k]}
      OBVIOUS
    <3>3. p \in {<<k>> \o rest : rest \in DOMAIN f[k]}
      BY ONLY <3>1, <3>2
    <3>4. QED
      BY ONLY <3>3, k \in DOMAIN f
  <2>2. ASSUME NEW k \in DOMAIN f, NEW r \in DOMAIN f[k] PROVE <<k>> \o r \in D
    <3>1. PICK d : d = {<<k>> \o rest : rest \in DOMAIN f[k]}
      OBVIOUS
    <3>2. d \in {{<<label>> \o rest : rest \in DOMAIN f[label]} : label \in DOMAIN f}
      BY ONLY <3>1, k \in DOMAIN f
    <3>3. <<k>> \o r \in d
      BY ONLY <3>1, r \in DOMAIN f[k]
    <3>4. QED
      BY ONLY <1>2, <3>2, <3>3
  <2>3. QED
    BY ONLY <2>1, <2>2
<1>5. DOMAIN b = {<<>>} \cup D
  BY ONLY <1>3
<1>6. \A p : p \in DOMAIN b <=> p = <<>> \/ \E k \in DOMAIN f : \E r \in DOMAIN f[k] : p = <<k>> \o r
  BY ONLY <1>4, <1>5
<1>7. <<>> \in DOMAIN b /\ b[<<>>] = Wire!Node(kind, "nothing")
  BY ONLY <1>3, <1>5
<1>8. ASSUME NEW k \in DOMAIN f, NEW r \in DOMAIN f[k]
      PROVE  <<k>> \o r \in DOMAIN b /\ b[<<k>> \o r] = f[k][r]
  <2>1. k \in S /\ r \in Seq(S)
    BY DEF Forest, Tree
  <2>2. PICK p : p = <<k>> \o r
    OBVIOUS
  <2>3. p # <<>> /\ p[1] = k /\ Tail(p) = r
    BY ONLY <2>1, <2>2, ConsIs
  <2>4. p \in D
    BY ONLY <1>4, <1>8, <2>2
  <2>5. b[p] = f[p[1]][Tail(p)]
    BY ONLY <1>3, <2>3, <2>4
  <2>6. p \in DOMAIN b
    BY ONLY <1>5, <2>4
  <2>7. QED
    BY ONLY <2>2, <2>3, <2>5, <2>6
<1>9. b = [p \in DOMAIN b |-> b[p]]
  BY ONLY <1>3
<1>10. Grown(S, kind, f, b)
  BY ONLY <1>6, <1>7, <1>8 DEF Grown
<1>11. QED
  BY ONLY <1>1, <1>9, <1>10

LEMMA BranchTree ==
  ASSUME NEW S, NEW f, Forest(S, f), NEW kind \in {"list", "object"},
         NEW b, Grown(S, kind, f, b), b = [p \in DOMAIN b |-> b[p]]
  PROVE  Tree(S, b)
<1>1. /\ \A p : p \in DOMAIN b <=> p = <<>> \/ \E k \in DOMAIN f : \E r \in DOMAIN f[k] : p = <<k>> \o r
      /\ <<>> \in DOMAIN b /\ b[<<>>] = Wire!Node(kind, "nothing")
      /\ \A k \in DOMAIN f : \A r \in DOMAIN f[k] : <<k>> \o r \in DOMAIN b /\ b[<<k>> \o r] = f[k][r]
  BY DEF Grown
<1>2. ASSUME NEW k \in DOMAIN f, NEW r \in DOMAIN f[k], NEW p, p = <<k>> \o r
      PROVE  /\ p \in Seq(S) /\ b[p] = Wire!Node(b[p].is, b[p].of)
             /\ \A q \in Wire!Above(p) : q \in DOMAIN b /\ b[q].is \in {"list", "object"}
  <2>1. Tree(S, f[k]) /\ k \in S
    BY DEF Forest
  <2>2. r \in Seq(S) /\ f[k][r] = Wire!Node(f[k][r].is, f[k][r].of)
    BY ONLY <2>1, r \in DOMAIN f[k] DEF Tree
  <2>3. p \in Seq(S)
    BY ONLY <1>2, <2>1, <2>2, ConsIs
  <2>4. b[p] = f[k][r]
    BY ONLY <1>1, <1>2, k \in DOMAIN f, r \in DOMAIN f[k]
  <2>5. b[p] = Wire!Node(b[p].is, b[p].of)
    BY ONLY <2>2, <2>4
  <2>6. ASSUME NEW q \in Wire!Above(p) PROVE q \in DOMAIN b /\ b[q].is \in {"list", "object"}
    <3>1. q = <<>> \/ \E o \in Wire!Above(r) : q = <<k>> \o o
      BY ONLY <1>2, <2>1, <2>2, <2>6, AboveCons
    <3>2. CASE q = <<>>
      BY ONLY <1>1, <3>2, kind \in {"list", "object"}, NodesDiffer
    <3>3. CASE \E o \in Wire!Above(r) : q = <<k>> \o o
      <4>1. PICK o \in Wire!Above(r) : q = <<k>> \o o
        BY <3>3
      <4>2. o \in DOMAIN f[k] /\ f[k][o].is \in {"list", "object"}
        BY ONLY <2>1, r \in DOMAIN f[k], o \in Wire!Above(r) DEF Tree
      <4>3. q \in DOMAIN b /\ b[q] = f[k][o]
        BY ONLY <1>1, <4>1, <4>2, k \in DOMAIN f
      <4>4. QED
        BY ONLY <4>2, <4>3
    <3>4. QED
      BY <3>1, <3>2, <3>3
  <2>7. QED
    BY ONLY <2>3, <2>5, <2>6
<1>3. ASSUME NEW p \in DOMAIN b
      PROVE  /\ p \in Seq(S) /\ b[p] = Wire!Node(b[p].is, b[p].of)
             /\ \A q \in Wire!Above(p) : q \in DOMAIN b /\ b[q].is \in {"list", "object"}
  <2>1. CASE p = <<>>
    <3>1. b[p] = Wire!Node(b[p].is, b[p].of)
      BY ONLY <1>1, <2>1, NodesDiffer
    <3>2. p \in Seq(S)
      BY <2>1
    <3>3. QED
      BY ONLY <2>1, <3>1, <3>2, AboveRoot
  <2>2. CASE \E k \in DOMAIN f : \E r \in DOMAIN f[k] : p = <<k>> \o r
    BY ONLY <1>2, <2>2
  <2>3. QED
    BY ONLY <1>1, <2>1, <2>2, p \in DOMAIN b
<1>4. QED
  BY ONLY <1>1, <1>3, b = [p \in DOMAIN b |-> b[p]] DEF Tree

\* What looks like bytes in a list, or in an object that is not tagged
\* itself, is in one of its values.
TaggedIn(f, p) == \E k \in DOMAIN f : \E r \in DOMAIN f[k] : p = <<k>> \o r /\ Wire!Tagged(f[k], r)
LEMMA BranchTagged ==
  ASSUME NEW S, NEW f, Forest(S, f), NEW kind \in {"list", "object"},
         NEW b, Grown(S, kind, f, b), {Wire!Tag, Wire!Base64} \subseteq S,
         kind = "list" \/ Wire!Tag \notin DOMAIN f,
         NEW p, Wire!Tagged(b, p)
  PROVE  TaggedIn(f, p)
<1>1. /\ \A q : q \in DOMAIN b <=> q = <<>> \/ \E k \in DOMAIN f : \E r \in DOMAIN f[k] : q = <<k>> \o r
      /\ <<>> \in DOMAIN b /\ b[<<>>] = Wire!Node(kind, "nothing")
      /\ \A k \in DOMAIN f : \A r \in DOMAIN f[k] : <<k>> \o r \in DOMAIN b /\ b[<<k>> \o r] = f[k][r]
  BY DEF Grown
<1>2. /\ p \in DOMAIN b /\ b[p].is = "object"
      /\ Append(p, Wire!Tag) \in DOMAIN b /\ b[Append(p, Wire!Tag)].is = "text"
      /\ b[Append(p, Wire!Tag)].of = "u8"
      /\ Append(p, Wire!Base64) \in DOMAIN b /\ b[Append(p, Wire!Base64)].is = "text"
  BY DEF Wire!Tagged, Wire!IsKind
<1>3. \A k \in DOMAIN f : k \in S /\ DOMAIN f[k] \subseteq Seq(S)
  BY DEF Forest, Tree
\* A label under a path in one of the values is in that value.
<1>4. ASSUME NEW k \in DOMAIN f, NEW r \in DOMAIN f[k], NEW label \in S,
             Append(<<k>> \o r, label) \in DOMAIN b
      PROVE  /\ Append(r, label) \in DOMAIN f[k]
             /\ b[Append(<<k>> \o r, label)] = f[k][Append(r, label)]
  <2>1. k \in S /\ r \in Seq(S)
    BY <1>3
  <2>2. PICK x : x = <<k>> \o Append(r, label)
    OBVIOUS
  <2>3. PICK t : t = Append(r, label)
    OBVIOUS
  <2>4. t \in Seq(S)
    BY ONLY <2>1, <2>3, label \in S, AppendIs2
  <2>5. x # <<>> /\ x[1] = k /\ Tail(x) = t
    BY ONLY <2>1, <2>2, <2>3, <2>4, ConsIs
  <2>6. x = Append(<<k>> \o r, label)
    BY ONLY <2>1, <2>2, label \in S, ConsIs
  <2>7. PICK i \in DOMAIN f : \E o \in DOMAIN f[i] : x = <<i>> \o o
    BY ONLY <1>1, <1>4, <2>5, <2>6
  <2>8. PICK o \in DOMAIN f[i] : x = <<i>> \o o
    BY <2>7
  <2>9. i \in S /\ o \in Seq(S)
    BY <1>3
  <2>10. x[1] = i /\ Tail(x) = o
    BY ONLY <2>8, <2>9, ConsIs
  <2>11. i = k /\ o = t
    BY ONLY <2>5, <2>10
  <2>12. t \in DOMAIN f[k]
    BY <2>11
  <2>13. x = <<k>> \o t
    BY ONLY <2>2, <2>3
  <2>14. b[x] = f[k][t]
    BY ONLY <1>1, <2>12, <2>13, k \in DOMAIN f
  <2>15. QED
    BY ONLY <2>3, <2>6, <2>12, <2>14
<1>5. CASE p = <<>>
  <2>1. Wire!Tag \notin DOMAIN f
    <3>1. b[p].is = kind
      BY ONLY <1>1, <1>5, NodesDiffer
    <3>2. QED
      BY ONLY <1>2, <3>1, kind = "list" \/ Wire!Tag \notin DOMAIN f
  <2>2. PICK x : x = Append(<<>>, Wire!Tag)
    OBVIOUS
  <2>3. x # <<>> /\ x[1] = Wire!Tag
    BY ONLY <2>2
  <2>4. PICK k \in DOMAIN f : \E r \in DOMAIN f[k] : x = <<k>> \o r
    BY ONLY <1>1, <1>2, <1>5, <2>2, <2>3
  <2>5. PICK r \in DOMAIN f[k] : x = <<k>> \o r
    BY <2>4
  <2>6. k \in S /\ r \in Seq(S)
    BY <1>3
  <2>7. x[1] = k
    BY ONLY <2>5, <2>6, ConsIs
  <2>8. QED
    BY ONLY <2>1, <2>3, <2>7, k \in DOMAIN f
<1>6. CASE p # <<>>
  <2>0. p \in DOMAIN b => \E k \in DOMAIN f : \E r \in DOMAIN f[k] : p = <<k>> \o r
    <3>1. \A q : q \in DOMAIN b <=> q = <<>> \/ \E k \in DOMAIN f : \E r \in DOMAIN f[k] : q = <<k>> \o r
      BY <1>1
    <3>2. QED
      BY ONLY <1>6, <3>1
  <2>1. PICK k \in DOMAIN f : \E r \in DOMAIN f[k] : p = <<k>> \o r
    BY <1>2, <2>0
  <2>2. PICK r \in DOMAIN f[k] : p = <<k>> \o r
    BY <2>1
  <2>3. f[k][r].is = "object"
    BY ONLY <1>1, <1>2, <2>2, k \in DOMAIN f, r \in DOMAIN f[k]
  <2>4. Wire!Tag \in S /\ Wire!Base64 \in S
    OBVIOUS
  <2>5. Append(r, Wire!Tag) \in DOMAIN f[k] /\ b[Append(p, Wire!Tag)] = f[k][Append(r, Wire!Tag)]
    BY ONLY <1>2, <1>4, <2>2, <2>4, k \in DOMAIN f, r \in DOMAIN f[k]
  <2>6. Append(r, Wire!Base64) \in DOMAIN f[k] /\ b[Append(p, Wire!Base64)] = f[k][Append(r, Wire!Base64)]
    BY ONLY <1>2, <1>4, <2>2, <2>4, k \in DOMAIN f, r \in DOMAIN f[k]
  <2>7. Wire!Tagged(f[k], r)
    BY ONLY <1>2, <2>3, <2>5, <2>6, r \in DOMAIN f[k] DEF Wire!Tagged, Wire!IsKind
  <2>8. QED
    BY ONLY <2>2, <2>7, k \in DOMAIN f, r \in DOMAIN f[k] DEF TaggedIn
<1>7. QED
  BY <1>5, <1>6

\* A list or an object of values without a lookalike.
LEMMA BranchClean ==
  ASSUME NEW S, NEW f, Forest(S, f), NEW kind \in {"list", "object"},
         {Wire!Tag, Wire!Base64} \subseteq S, kind = "list" \/ Wire!Tag \notin DOMAIN f
  PROVE  /\ Tree(S, Wire!Branch(kind, f)) /\ Grown(S, kind, f, Wire!Branch(kind, f))
         /\ ~Wire!Tagged(Wire!Branch(kind, f), <<>>)
         /\ \A k \in DOMAIN f : <<k>> \in DOMAIN Wire!Branch(kind, f)
                                /\ Wire!Branch(kind, f)[<<k>>] = f[k][<<>>]
         /\ (\A k \in DOMAIN f : Clean(f[k])) => Clean(Wire!Branch(kind, f))
<1>1. PICK b : b = Wire!Branch(kind, f)
  OBVIOUS
<1>2. Grown(S, kind, f, b) /\ b = [p \in DOMAIN b |-> b[p]]
  BY ONLY Forest(S, f), <1>1, BranchIs
<1>3. Tree(S, b)
  BY ONLY Forest(S, f), kind \in {"list", "object"}, <1>2, BranchTree
<1>4. ASSUME NEW p, Wire!Tagged(b, p) PROVE TaggedIn(f, p)
  BY ONLY Forest(S, f), kind \in {"list", "object"}, <1>2, {Wire!Tag, Wire!Base64} \subseteq S,
     kind = "list" \/ Wire!Tag \notin DOMAIN f, <1>4, BranchTagged
<1>5. \A k \in DOMAIN f : k \in S /\ DOMAIN f[k] \subseteq Seq(S) /\ <<>> \in DOMAIN f[k]
  BY DEF Forest, Tree
<1>6. ~Wire!Tagged(b, <<>>)
  <2>1. SUFFICES ASSUME Wire!Tagged(b, <<>>) PROVE FALSE
    OBVIOUS
  <2>2. PICK k \in DOMAIN f : \E r \in DOMAIN f[k] : <<>> = <<k>> \o r
    BY ONLY <1>4, <2>1 DEF TaggedIn
  <2>3. PICK r \in DOMAIN f[k] : <<>> = <<k>> \o r
    BY <2>2
  <2>4. k \in S /\ r \in Seq(S)
    BY <1>5
  <2>5. <<k>> \o r # <<>>
    BY ONLY <2>4, ConsIs
  <2>6. QED
    BY <2>3, <2>5
<1>7. ASSUME NEW k \in DOMAIN f PROVE <<k>> \in DOMAIN b /\ b[<<k>>] = f[k][<<>>]
  <2>1. <<k>> \o <<>> = <<k>>
    OBVIOUS
  <2>2. QED
    BY ONLY <1>2, <1>5, <2>1, k \in DOMAIN f DEF Grown
<1>8. ASSUME \A k \in DOMAIN f : Clean(f[k]) PROVE Clean(b)
  BY ONLY <1>4, <1>8 DEF Clean, TaggedIn
<1>9. QED
  BY ONLY <1>1, <1>2, <1>3, <1>6, <1>7, <1>8

(* The keys of the messages. *)
MessageKeys ==
  {"id", "type", "channel", "args", "result", "first", "second", "code", "message", "error",
   "protocolVersion", "token", "workspaceId", "clientId", "registeredChannels"}

LEMMA KeysDiffer == Wire!Tag \notin MessageKeys /\ Wire!Base64 \notin MessageKeys
BY DEF MessageKeys, Wire!Tag, Wire!Base64

LEMMA KeyPath ==
  ASSUME NEW S, NEW k \in S
  PROVE  /\ <<k>> \in Seq(S) /\ <<k>> # <<>> /\ <<k>>[1] = k /\ <<k>> \o <<>> = <<k>>
         /\ Append(<<>>, k) = <<k>> /\ Wire!Above(<<k>>) = {<<>>}
<1>1. <<k>> \o <<>> = <<k>> /\ <<k>> \in Seq(S) /\ <<k>> # <<>> /\ <<k>>[1] = k /\ Append(<<>>, k) = <<k>>
  OBVIOUS
<1>2. <<>> \in Seq(S)
  OBVIOUS
<1>3. \A q : q \in Wire!Above(<<k>> \o <<>>) <=> q = <<>> \/ \E o \in Wire!Above(<<>>) : q = <<k>> \o o
  BY ONLY <1>2, k \in S, AboveCons
<1>4. \A q : q \in Wire!Above(<<k>>) <=> q = <<>>
  BY ONLY <1>1, <1>3, AboveRoot
<1>5. QED
  BY ONLY <1>1, <1>4

(* A message of this type, with these fields. *)
Mail(S, type, fields, x) ==
  /\ Tree(S, x) /\ ~Wire!Tagged(x, <<>>)
  /\ \E g : /\ Grown(S, "object", g, x) /\ DOMAIN g = {"id", "type"} \cup DOMAIN fields
            /\ \A k \in DOMAIN fields : g[k] = fields[k]
            /\ Forest(S, g)
  /\ <<"id">> \in DOMAIN x /\ x[<<"id">>].is = "text"
  /\ <<"type">> \in DOMAIN x /\ x[<<"type">>] = Wire!Node("text", type)
  /\ (\A k \in DOMAIN fields : Clean(fields[k])) => Clean(x)

LEMMA EnvelopeIs ==
  ASSUME NEW S, MessageKeys \cup {Wire!Tag, Wire!Base64} \subseteq S, NEW type,
         NEW fields, Forest(S, fields), DOMAIN fields \subseteq MessageKeys \ {"id", "type"}
  PROVE  Mail(S, type, fields, Wire!Envelope(type, fields))
<1>1. PICK g : g = [label \in {"id", "type"} \cup DOMAIN fields |->
                      IF label = "id" THEN Wire!Text("id") ELSE IF label = "type" THEN Wire!Text(type) ELSE fields[label]]
  OBVIOUS
<1>2. PICK x : x = Wire!Envelope(type, fields)
  OBVIOUS
<1>3. x = Wire!Branch("object", g)
  BY ONLY <1>1, <1>2 DEF Wire!Envelope, Wire!Object
<1>4. /\ DOMAIN g = {"id", "type"} \cup DOMAIN fields /\ g["id"] = Wire!Text("id") /\ g["type"] = Wire!Text(type)
      /\ \A k \in DOMAIN fields : g[k] = fields[k]
  BY ONLY <1>1, DOMAIN fields \subseteq MessageKeys \ {"id", "type"}
<1>5. \A content : /\ Tree(S, Wire!Text(content)) /\ Clean(Wire!Text(content))
                   /\ Wire!Text(content)[<<>>] = Wire!Node("text", content)
  <2>1. ASSUME NEW content
        PROVE  /\ Tree(S, Wire!Text(content)) /\ Clean(Wire!Text(content))
               /\ Wire!Text(content)[<<>>] = Wire!Node("text", content)
    <3>1. {Wire!Tag, Wire!Base64} \subseteq S
      OBVIOUS
    <3>2. QED
      BY ONLY <3>1, LeafIs DEF Wire!Text
  <2>2. QED
    BY <2>1
<1>6. Forest(S, g)
  <2>1. DOMAIN g \subseteq S
    BY <1>4 DEF MessageKeys
  <2>2. \A k \in DOMAIN g : Tree(S, g[k])
    <3>1. \A k \in DOMAIN fields : Tree(S, fields[k])
      BY DEF Forest
    <3>2. QED
      BY ONLY <1>4, <1>5, <3>1
  <2>3. QED
    BY ONLY <2>1, <2>2 DEF Forest
<1>7. Wire!Tag \notin DOMAIN g
  <2>1. DOMAIN g \subseteq MessageKeys
    BY ONLY <1>4, DOMAIN fields \subseteq MessageKeys \ {"id", "type"} DEF MessageKeys
  <2>2. QED
    BY ONLY <2>1, KeysDiffer
<1>8. /\ Tree(S, x) /\ Grown(S, "object", g, x)
      /\ ~Wire!Tagged(x, <<>>)
      /\ \A k \in DOMAIN g : <<k>> \in DOMAIN x /\ x[<<k>>] = g[k][<<>>]
      /\ (\A k \in DOMAIN g : Clean(g[k])) => Clean(x)
  <2>1. {Wire!Tag, Wire!Base64} \subseteq S /\ "object" \in {"list", "object"}
    OBVIOUS
  <2>2. QED
    BY ONLY <1>3, <1>6, <1>7, <2>1, BranchClean
<1>9. /\ <<"id">> \in DOMAIN x /\ x[<<"id">>].is = "text"
      /\ <<"type">> \in DOMAIN x /\ x[<<"type">>] = Wire!Node("text", type)
  BY ONLY <1>4, <1>5, <1>8, NodesDiffer
<1>10. (\A k \in DOMAIN fields : Clean(fields[k])) => Clean(x)
  BY ONLY <1>4, <1>5, <1>8
<1>11. QED
  BY ONLY <1>2, <1>4, <1>6, <1>8, <1>9, <1>10 DEF Mail

LEMMA GrownAt ==
  ASSUME NEW S, NEW kind, NEW g, NEW x, Grown(S, kind, g, x), NEW k \in DOMAIN g, NEW r \in DOMAIN g[k]
  PROVE  <<k>> \o r \in DOMAIN x /\ x[<<k>> \o r] = g[k][r]
<1>1. \A i \in DOMAIN g : \A o \in DOMAIN g[i] : <<i>> \o o \in DOMAIN x /\ x[<<i>> \o o] = g[i][o]
  BY Zenon DEF Grown
<1>2. QED
  BY ONLY <1>1, k \in DOMAIN g, r \in DOMAIN g[k]

\* What stands under a label of the message.
LEMMA FieldIs ==
  ASSUME NEW S, NEW type, NEW fields, NEW x, Mail(S, type, fields, x),
         NEW k \in DOMAIN fields, NEW r \in DOMAIN fields[k]
  PROVE  <<k>> \o r \in DOMAIN x /\ x[<<k>> \o r] = fields[k][r]
<1>1. PICK g : /\ Grown(S, "object", g, x) /\ DOMAIN g = {"id", "type"} \cup DOMAIN fields
               /\ \A i \in DOMAIN fields : g[i] = fields[i]
  BY DEF Mail
<1>2. k \in DOMAIN g /\ g[k] = fields[k]
  BY ONLY <1>1, k \in DOMAIN fields
<1>3. r \in DOMAIN g[k]
  BY <1>2
<1>4. <<k>> \o r \in DOMAIN x /\ x[<<k>> \o r] = g[k][r]
  BY ONLY <1>1, <1>2, <1>3, GrownAt
<1>5. QED
  BY ONLY <1>2, <1>4

LEMMA NoField ==
  ASSUME NEW S, NEW type, NEW fields, NEW x, Mail(S, type, fields, x),
         NEW k \in S, k \notin {"id", "type"} \cup DOMAIN fields
  PROVE  <<k>> \notin DOMAIN x
<1>1. PICK g : /\ Grown(S, "object", g, x) /\ DOMAIN g = {"id", "type"} \cup DOMAIN fields
               /\ Forest(S, g)
  BY DEF Mail
<1>2. SUFFICES ASSUME <<k>> \in DOMAIN x PROVE FALSE
  OBVIOUS
<1>3. PICK p : p = <<k>>
  OBVIOUS
<1>4. p # <<>> /\ p[1] = k
  BY ONLY <1>3
<1>5. PICK i \in DOMAIN g : \E r \in DOMAIN g[i] : p = <<i>> \o r
  BY ONLY <1>1, <1>2, <1>3, <1>4 DEF Grown
<1>6. PICK r \in DOMAIN g[i] : p = <<i>> \o r
  BY <1>5
<1>7. i \in S /\ r \in Seq(S)
  BY ONLY <1>1, i \in DOMAIN g, r \in DOMAIN g[i] DEF Forest, Tree
<1>8. p[1] = i
  BY ONLY <1>6, <1>7, ConsIs
<1>9. QED
  BY ONLY <1>1, <1>4, <1>8, i \in DOMAIN g, k \notin {"id", "type"} \cup DOMAIN fields

\* A text right under a label of the message.
LEMMA TopArrives ==
  ASSUME NEW S, {Wire!Tag, Wire!Base64} \subseteq S, NEW x, Tree(S, x), ~Wire!Tagged(x, <<>>),
         NEW k \in S, <<k>> \in DOMAIN x, x[<<k>>].is = "text"
  PROVE  <<k>> \in DOMAIN Wire!Received(x) /\ Wire!Received(x)[<<k>>] = x[<<k>>]
<1>1. \A q \in Wire!Above(<<k>>) : ~Wire!Tagged(x, q)
  BY KeyPath
<1>2. PICK p : p = <<k>>
  OBVIOUS
<1>3. p \in DOMAIN x /\ x[p].is = "text" /\ \A q \in Wire!Above(p) : ~Wire!Tagged(x, q)
  BY <1>1, <1>2
<1>4. p \in DOMAIN Wire!Received(x) /\ Wire!Received(x)[p] = x[p]
  BY ONLY Tree(S, x), {Wire!Tag, Wire!Base64} \subseteq S, <1>3, PlainArrives
<1>5. QED
  BY <1>2, <1>4

LEMMA FailureIs ==
  ASSUME NEW S, MessageKeys \cup {Wire!Tag, Wire!Base64} \subseteq S
  PROVE  /\ Tree(S, Wire!Failure) /\ Clean(Wire!Failure)
         /\ \A k \in {"code", "message"} : <<k>> \in DOMAIN Wire!Failure /\ Wire!Failure[<<k>>].is = "text"
<1>1. PICK f : f = [code |-> Wire!Text("code"), message |-> Wire!Text("message")]
  OBVIOUS
<1>2. DOMAIN f = {"code", "message"} /\ f["code"] = Wire!Text("code") /\ f["message"] = Wire!Text("message")
  BY ONLY <1>1
<1>3. {Wire!Tag, Wire!Base64} \subseteq S /\ "object" \in {"list", "object"} /\ {"code", "message"} \subseteq S
  BY DEF MessageKeys
<1>4. \A k \in DOMAIN f : Tree(S, f[k]) /\ Clean(f[k]) /\ f[k][<<>>].is = "text"
  <2>1. ASSUME NEW content
        PROVE  /\ Tree(S, Wire!Text(content)) /\ Clean(Wire!Text(content))
               /\ Wire!Text(content)[<<>>] = Wire!Node("text", content)
    BY ONLY <1>3, LeafIs DEF Wire!Text
  <2>2. QED
    BY ONLY <1>2, <2>1, NodesDiffer
<1>5. Forest(S, f)
  BY ONLY <1>2, <1>3, <1>4 DEF Forest
<1>6. Wire!Tag \notin DOMAIN f
  BY ONLY <1>2, KeysDiffer DEF MessageKeys
<1>7. PICK b : b = Wire!Branch("object", f)
  OBVIOUS
<1>8. /\ Tree(S, b) /\ Clean(b)
      /\ \A k \in DOMAIN f : <<k>> \in DOMAIN b /\ b[<<k>>] = f[k][<<>>]
  BY ONLY <1>3, <1>4, <1>5, <1>6, <1>7, BranchClean
<1>9. Wire!Failure = b
  BY ONLY <1>1, <1>7 DEF Wire!Failure, Wire!Object
<1>10. QED
  BY ONLY <1>2, <1>4, <1>8, <1>9

(* What its type asks of the fields of a message. *)
Complete(type, fields) ==
  /\ type \in Wire!MessageTypes
  /\ type = "handshake_ack" => "clientId" \in DOMAIN fields /\ \E c : fields["clientId"] = Wire!Text(c)
  /\ type \in {"request", "event"} => "channel" \in DOMAIN fields /\ \E c : fields["channel"] = Wire!Text(c)
  /\ type = "error" => "error" \in DOMAIN fields
  /\ "error" \in DOMAIN fields => fields["error"] = Wire!Failure /\ \A k \in DOMAIN fields : Clean(fields[k])

LEMMA TextField ==
  ASSUME NEW S, MessageKeys \cup {Wire!Tag, Wire!Base64} \subseteq S, NEW type,
         NEW fields, NEW x, Mail(S, type, fields, x),
         NEW k \in DOMAIN fields, k \in MessageKeys, \E c : fields[k] = Wire!Text(c)
  PROVE  Wire!IsKind(Wire!Received(x), <<k>>, "text")
<1>1. PICK c : fields[k] = Wire!Text(c)
  OBVIOUS
<1>2. {Wire!Tag, Wire!Base64} \subseteq S /\ k \in S
  OBVIOUS
<1>3. <<>> \in DOMAIN fields[k] /\ fields[k][<<>>] = Wire!Node("text", c)
  <2>1. /\ DOMAIN Wire!Text(c) = {<<>>} /\ Wire!Text(c)[<<>>] = Wire!Node("text", c)
    BY ONLY <1>2, LeafIs DEF Wire!Text
  <2>2. QED
    BY ONLY <1>1, <2>1
<1>4. <<k>> \o <<>> \in DOMAIN x /\ x[<<k>> \o <<>>] = fields[k][<<>>]
  <2>1. PICK r : r = <<>>
    OBVIOUS
  <2>2. r \in DOMAIN fields[k]
    BY <1>3, <2>1
  <2>3. <<k>> \o r \in DOMAIN x /\ x[<<k>> \o r] = fields[k][r]
    BY ONLY Mail(S, type, fields, x), k \in DOMAIN fields, <2>2, FieldIs
  <2>4. QED
    BY ONLY <2>1, <2>3
<1>5. <<k>> \in DOMAIN x /\ x[<<k>>].is = "text"
  <2>1. <<k>> \o <<>> = <<k>>
    OBVIOUS
  <2>2. QED
    BY ONLY <1>3, <1>4, <2>1, NodesDiffer
<1>6. Tree(S, x) /\ ~Wire!Tagged(x, <<>>)
  BY DEF Mail
<1>7. <<k>> \in DOMAIN Wire!Received(x) /\ Wire!Received(x)[<<k>>] = x[<<k>>]
  BY ONLY <1>2, <1>5, <1>6, TopArrives
<1>8. QED
  BY ONLY <1>5, <1>7 DEF Wire!IsKind

LEMMA FailureArrives ==
  ASSUME NEW S, MessageKeys \cup {Wire!Tag, Wire!Base64} \subseteq S, NEW type,
         NEW fields, NEW x, Mail(S, type, fields, x),
         "error" \in DOMAIN fields, fields["error"] = Wire!Failure,
         \A k \in DOMAIN fields : Clean(fields[k])
  PROVE  Wire!IsWireError(Wire!Received(x), <<"error">>)
<1>1. Tree(S, x) /\ Clean(x) /\ {Wire!Tag, Wire!Base64} \subseteq S
  BY DEF Mail
<1>2. ASSUME NEW k \in {"code", "message"}
      PROVE  /\ <<"error">> \o <<k>> \in DOMAIN Wire!Received(x)
             /\ Wire!Received(x)[<<"error">> \o <<k>>].is = "text"
  <2>1. PICK p : p = <<"error">> \o <<k>>
    OBVIOUS
  <2>2. <<k>> \in DOMAIN Wire!Failure /\ Wire!Failure[<<k>>].is = "text"
    BY FailureIs
  <2>3. <<k>> \in DOMAIN fields["error"]
    BY <2>2
  <2>4. p \in DOMAIN x /\ x[p] = fields["error"][<<k>>]
    BY ONLY Mail(S, type, fields, x), "error" \in DOMAIN fields, <2>1, <2>3, FieldIs
  <2>5. x[p].is = "text"
    BY <2>2, <2>4
  <2>6. \A q \in Wire!Above(p) : ~Wire!Tagged(x, q)
    BY ONLY <1>1 DEF Clean, Wire!Tagged, Wire!IsKind
  <2>7. p \in DOMAIN Wire!Received(x) /\ Wire!Received(x)[p] = x[p]
    BY ONLY <1>1, <2>4, <2>5, <2>6, PlainArrives
  <2>8. QED
    BY ONLY <2>1, <2>5, <2>7
<1>3. "text" # "undefined" /\ "text" # "null"
  OBVIOUS
<1>4. QED
  BY ONLY <1>2, <1>3 DEF Wire!IsWireError, Wire!Has, Wire!IsKind

LEMMA ShapeIs ==
  ASSUME NEW S, MessageKeys \cup {Wire!Tag, Wire!Base64} \subseteq S, NEW type,
         NEW fields, Forest(S, fields), DOMAIN fields \subseteq MessageKeys \ {"id", "type"},
         Complete(type, fields)
  PROVE  /\ Wire!ValidateEnvelopeShape(Wire!Received(Wire!Envelope(type, fields)))
         /\ (\A k \in DOMAIN fields : Clean(fields[k])) =>
              Wire!Received(Wire!Envelope(type, fields)) = Wire!Json(Wire!Envelope(type, fields))
<1>1. PICK x : x = Wire!Envelope(type, fields)
  OBVIOUS
<1>2. Mail(S, type, fields, x)
  BY ONLY <1>1, MessageKeys \cup {Wire!Tag, Wire!Base64} \subseteq S, Forest(S, fields),
          DOMAIN fields \subseteq MessageKeys \ {"id", "type"}, EnvelopeIs
<1>3. PICK y : y = Wire!Received(x)
  OBVIOUS
<1>4. {Wire!Tag, Wire!Base64} \subseteq S /\ "id" \in S /\ "type" \in S /\ "error" \in S
  BY DEF MessageKeys
<1>5. /\ Tree(S, x) /\ ~Wire!Tagged(x, <<>>)
      /\ <<"id">> \in DOMAIN x /\ x[<<"id">>].is = "text"
      /\ <<"type">> \in DOMAIN x /\ x[<<"type">>] = Wire!Node("text", type)
      /\ (\A k \in DOMAIN fields : Clean(fields[k])) => Clean(x)
  BY ONLY <1>2 DEF Mail
<1>6. x[<<"type">>].is = "text"
  BY ONLY <1>5, NodesDiffer
<1>7. Wire!IsKind(y, <<"id">>, "text")
  <2>1. <<"id">> \in DOMAIN y /\ y[<<"id">>] = x[<<"id">>]
    BY ONLY <1>3, <1>4, <1>5, TopArrives
  <2>2. QED
    BY ONLY <1>5, <2>1 DEF Wire!IsKind
<1>8. Wire!IsKind(y, <<"type">>, "text") /\ y[<<"type">>].of = type
  <2>1. <<"type">> \in DOMAIN y /\ y[<<"type">>] = x[<<"type">>]
    BY ONLY <1>3, <1>4, <1>5, <1>6, TopArrives
  <2>2. QED
    BY ONLY <1>5, <1>6, <2>1, NodesDiffer DEF Wire!IsKind
<1>9. ASSUME type = "handshake_ack" PROVE Wire!IsKind(y, <<"clientId">>, "text")
  <2>1. "clientId" \in DOMAIN fields /\ \E c : fields["clientId"] = Wire!Text(c)
    BY <1>9 DEF Complete
  <2>2. "clientId" \in MessageKeys
    BY DEF MessageKeys
  <2>3. QED
    BY ONLY MessageKeys \cup {Wire!Tag, Wire!Base64} \subseteq S, <1>2, <1>3, <2>1, <2>2, TextField
<1>10. ASSUME type \in {"request", "event"} PROVE Wire!IsKind(y, <<"channel">>, "text")
  <2>1. "channel" \in DOMAIN fields /\ \E c : fields["channel"] = Wire!Text(c)
    BY <1>10 DEF Complete
  <2>2. "channel" \in MessageKeys
    BY DEF MessageKeys
  <2>3. QED
    BY ONLY MessageKeys \cup {Wire!Tag, Wire!Base64} \subseteq S, <1>2, <1>3, <2>1, <2>2, TextField
<1>11. ASSUME "error" \in DOMAIN fields PROVE Wire!IsWireError(y, <<"error">>)
  <2>1. fields["error"] = Wire!Failure /\ \A k \in DOMAIN fields : Clean(fields[k])
    BY <1>11 DEF Complete
  <2>2. QED
    BY ONLY MessageKeys \cup {Wire!Tag, Wire!Base64} \subseteq S, <1>2, <1>3, <1>11, <2>1, FailureArrives
<1>12. ASSUME "error" \notin DOMAIN fields PROVE ~Wire!Has(y, <<"error">>)
  <2>1. "error" \notin {"id", "type"} \cup DOMAIN fields
    BY <1>12
  <2>2. <<"error">> \notin DOMAIN x
    BY ONLY <1>2, <1>4, <2>1, NoField
  <2>3. "error" \notin {Wire!Tag, Wire!Base64}
    BY KeysDiffer DEF MessageKeys
  <2>4. SUFFICES ASSUME <<"error">> \in DOMAIN y PROVE FALSE
    BY DEF Wire!Has
  <2>5. <<>> \in Seq(S) /\ Append(<<>>, "error") = <<"error">>
    OBVIOUS
  <2>6. Append(<<>>, "error") \in DOMAIN Wire!Received(x)
    BY ONLY <1>3, <2>4, <2>5
  <2>7. Append(<<>>, "error") \in DOMAIN x
    BY ONLY <1>4, <1>5, <2>3, <2>5, <2>6, NothingAdded
  <2>8. QED
    BY ONLY <2>2, <2>5, <2>7
<1>13. type \in Wire!MessageTypes /\ (type = "error" => "error" \in DOMAIN fields)
  BY DEF Complete
<1>14. Wire!ValidateEnvelopeShape(y)
  BY ONLY <1>7, <1>8, <1>9, <1>10, <1>11, <1>12, <1>13 DEF Wire!ValidateEnvelopeShape
<1>15. ASSUME \A k \in DOMAIN fields : Clean(fields[k]) PROVE y = Wire!Json(x)
  <2>1. ~Wire!HasLookalike(x)
    BY ONLY <1>5, <1>15 DEF Clean, Wire!HasLookalike
  <2>2. QED
    BY ONLY <1>3, <1>4, <1>5, <2>1, ArrivesIs
<1>16. QED
  BY ONLY <1>1, <1>3, <1>14, <1>15

Arrives(clean, x) ==
  /\ Wire!ValidateEnvelopeShape(Wire!Received(x))
  /\ clean => Wire!Received(x) = Wire!Json(x)

LEMMA ListIs ==
  ASSUME NEW S, {Wire!Tag, Wire!Base64} \subseteq S, NEW f, Forest(S, f)
  PROVE  Tree(S, Wire!List(f)) /\ ((\A k \in DOMAIN f : Clean(f[k])) => Clean(Wire!List(f)))
<1>1. "list" \in {"list", "object"} /\ ("list" = "list" \/ Wire!Tag \notin DOMAIN f)
  OBVIOUS
<1>2. PICK b : b = Wire!Branch("list", f)
  OBVIOUS
<1>3. Tree(S, b) /\ ((\A k \in DOMAIN f : Clean(f[k])) => Clean(b))
  BY ONLY {Wire!Tag, Wire!Base64} \subseteq S, Forest(S, f), <1>1, <1>2, BranchClean
<1>4. QED
  BY ONLY <1>2, <1>3 DEF Wire!List

LEMMA TextIs ==
  ASSUME NEW S, {Wire!Tag, Wire!Base64} \subseteq S, NEW c
  PROVE  Tree(S, Wire!Text(c)) /\ Clean(Wire!Text(c))
BY ONLY {Wire!Tag, Wire!Base64} \subseteq S, LeafIs DEF Wire!Text

LEMMA SentArrives ==
  ASSUME NEW S, MessageKeys \cup {Wire!Tag, Wire!Base64} \subseteq S, NEW type,
         NEW fields, DOMAIN fields \subseteq MessageKeys \ {"id", "type"},
         \A k \in DOMAIN fields : Tree(S, fields[k]),
         Complete(type, fields),
         NEW clean \in BOOLEAN, clean => \A k \in DOMAIN fields : Clean(fields[k])
  PROVE  Arrives(clean, Wire!Envelope(type, fields))
<1>1. Forest(S, fields)
  BY DEF Forest
<1>2. /\ Wire!ValidateEnvelopeShape(Wire!Received(Wire!Envelope(type, fields)))
      /\ (\A k \in DOMAIN fields : Clean(fields[k])) =>
           Wire!Received(Wire!Envelope(type, fields)) = Wire!Json(Wire!Envelope(type, fields))
  BY ONLY MessageKeys \cup {Wire!Tag, Wire!Base64} \subseteq S, <1>1,
          DOMAIN fields \subseteq MessageKeys \ {"id", "type"}, Complete(type, fields), ShapeIs
<1>3. QED
  BY <1>2 DEF Arrives

LEMMA CallArrives ==
  ASSUME NEW S, MessageKeys \cup {Wire!Tag, Wire!Base64} \subseteq S, NEW type \in {"request", "event"},
         NEW args, DOMAIN args \subseteq S, \A k \in DOMAIN args : Tree(S, args[k]),
         NEW clean \in BOOLEAN, clean => \A k \in DOMAIN args : Clean(args[k])
  PROVE  Arrives(clean, Wire!Envelope(type, [channel |-> Wire!Text("channel"), args |-> Wire!List(args)]))
<1>1. PICK f : f = [channel |-> Wire!Text("channel"), args |-> Wire!List(args)]
  OBVIOUS
<1>2. DOMAIN f = {"channel", "args"} /\ f["channel"] = Wire!Text("channel") /\ f["args"] = Wire!List(args)
  BY ONLY <1>1
<1>3. {Wire!Tag, Wire!Base64} \subseteq S /\ Forest(S, args)
  BY DEF Forest
<1>4. Tree(S, f["channel"]) /\ Clean(f["channel"])
  BY ONLY <1>2, <1>3, TextIs
<1>5. Tree(S, f["args"]) /\ (clean => Clean(f["args"]))
  BY ONLY <1>2, <1>3, ListIs, clean => \A k \in DOMAIN args : Clean(args[k])
<1>6. \A k \in DOMAIN f : Tree(S, f[k]) /\ (clean => Clean(f[k]))
  BY ONLY <1>2, <1>4, <1>5
<1>7. DOMAIN f \subseteq MessageKeys \ {"id", "type"} /\ "error" \notin DOMAIN f
  BY ONLY <1>2 DEF MessageKeys
<1>8. type \in Wire!MessageTypes /\ type # "handshake_ack" /\ type # "error"
  BY DEF Wire!MessageTypes
<1>9. Complete(type, f)
  BY ONLY <1>2, <1>7, <1>8 DEF Complete
<1>10. Arrives(clean, Wire!Envelope(type, f))
  <2>1. (\A k \in DOMAIN f : Tree(S, f[k])) /\ (clean => \A k \in DOMAIN f : Clean(f[k]))
    BY ONLY <1>6
  <2>2. QED
    BY ONLY MessageKeys \cup {Wire!Tag, Wire!Base64} \subseteq S, clean \in BOOLEAN, <1>7, <1>9, <2>1, SentArrives
<1>11. QED
  BY ONLY <1>1, <1>10

LEMMA ResponseArrives ==
  ASSUME NEW S, MessageKeys \cup {Wire!Tag, Wire!Base64} \subseteq S, NEW v, Tree(S, v),
         NEW clean \in BOOLEAN, clean => Clean(v)
  PROVE  Arrives(clean, Wire!Response(v))
<1>1. PICK r : r = IF v = Wire!Undefined THEN Wire!Null ELSE v
  OBVIOUS
<1>2. {Wire!Tag, Wire!Base64} \subseteq S
  OBVIOUS
<1>3. Tree(S, Wire!Null) /\ Clean(Wire!Null)
  BY ONLY <1>2, LeafIs DEF Wire!Null
<1>4. Tree(S, r) /\ (clean => Clean(r))
  BY <1>1, <1>3
<1>5. PICK f : f = [channel |-> Wire!Text("channel"), result |-> r]
  OBVIOUS
<1>6. DOMAIN f = {"channel", "result"} /\ f["channel"] = Wire!Text("channel") /\ f["result"] = r
  BY ONLY <1>5
<1>7. Tree(S, f["channel"]) /\ Clean(f["channel"])
  BY ONLY <1>2, <1>6, TextIs
<1>8. (\A k \in DOMAIN f : Tree(S, f[k])) /\ (clean => \A k \in DOMAIN f : Clean(f[k]))
  BY ONLY <1>4, <1>6, <1>7
<1>9. DOMAIN f \subseteq MessageKeys \ {"id", "type"} /\ "error" \notin DOMAIN f
  BY ONLY <1>6 DEF MessageKeys
<1>10. Complete("response", f)
  BY ONLY <1>9 DEF Complete, Wire!MessageTypes
<1>11. Arrives(clean, Wire!Envelope("response", f))
  BY ONLY MessageKeys \cup {Wire!Tag, Wire!Base64} \subseteq S, clean \in BOOLEAN, <1>8, <1>9, <1>10, SentArrives
<1>12. QED
  BY ONLY <1>1, <1>5, <1>11 DEF Wire!Response

LEMMA FailuresArrive ==
  ASSUME NEW S, MessageKeys \cup {Wire!Tag, Wire!Base64} \subseteq S, NEW clean \in BOOLEAN
  PROVE  Arrives(clean, Wire!FailedResponse) /\ Arrives(clean, Wire!Refusal)
<1>1. {Wire!Tag, Wire!Base64} \subseteq S
  OBVIOUS
<1>2. Tree(S, Wire!Failure) /\ Clean(Wire!Failure)
  BY ONLY MessageKeys \cup {Wire!Tag, Wire!Base64} \subseteq S, FailureIs
<1>3. Tree(S, Wire!Text("channel")) /\ Clean(Wire!Text("channel"))
  BY ONLY <1>1, TextIs
<1>4. PICK f : f = [channel |-> Wire!Text("channel"), error |-> Wire!Failure]
  OBVIOUS
<1>5. DOMAIN f = {"channel", "error"} /\ f["channel"] = Wire!Text("channel") /\ f["error"] = Wire!Failure
  BY ONLY <1>4
<1>6. PICK g : g = [error |-> Wire!Failure]
  OBVIOUS
<1>7. DOMAIN g = {"error"} /\ g["error"] = Wire!Failure
  BY ONLY <1>6
<1>8. (\A k \in DOMAIN f : Tree(S, f[k])) /\ (clean => \A k \in DOMAIN f : Clean(f[k]))
  BY ONLY <1>2, <1>3, <1>5
<1>9. (\A k \in DOMAIN g : Tree(S, g[k])) /\ (clean => \A k \in DOMAIN g : Clean(g[k]))
  BY ONLY <1>2, <1>7
<1>10. DOMAIN f \subseteq MessageKeys \ {"id", "type"} /\ DOMAIN g \subseteq MessageKeys \ {"id", "type"}
  BY ONLY <1>5, <1>7 DEF MessageKeys
<1>11. Complete("response", f)
  BY ONLY <1>2, <1>3, <1>5 DEF Complete, Wire!MessageTypes
<1>12. Complete("error", g)
  BY ONLY <1>2, <1>7 DEF Complete, Wire!MessageTypes
<1>13. Arrives(clean, Wire!Envelope("response", f))
  BY ONLY MessageKeys \cup {Wire!Tag, Wire!Base64} \subseteq S, clean \in BOOLEAN, <1>8, <1>10, <1>11, SentArrives
<1>14. Arrives(clean, Wire!Envelope("error", g))
  BY ONLY MessageKeys \cup {Wire!Tag, Wire!Base64} \subseteq S, clean \in BOOLEAN, <1>9, <1>10, <1>12, SentArrives
<1>15. QED
  BY ONLY <1>4, <1>6, <1>13, <1>14 DEF Wire!FailedResponse, Wire!Refusal

LEMMA GreetingsArrive ==
  ASSUME NEW S, MessageKeys \cup {Wire!Tag, Wire!Base64} \subseteq S, NEW clean \in BOOLEAN
  PROVE  /\ Arrives(clean, Wire!Acknowledgement)
         /\ \A w \in {Wire!Text("w"), Wire!Undefined} : Arrives(clean, Wire!Handshake(w))
<1>1. {Wire!Tag, Wire!Base64} \subseteq S /\ "first" \in S
  BY DEF MessageKeys
<1>2. \A c : Tree(S, Wire!Text(c)) /\ Clean(Wire!Text(c))
  <2>1. ASSUME NEW c PROVE Tree(S, Wire!Text(c)) /\ Clean(Wire!Text(c))
    BY ONLY <1>1, TextIs
  <2>2. QED
    BY <2>1
<1>3. Tree(S, Wire!Undefined) /\ Clean(Wire!Undefined)
  BY ONLY <1>1, LeafIs DEF Wire!Undefined
<1>4. PICK l : l = Wire!List([first |-> Wire!Text("channel")])
  OBVIOUS
<1>5. Tree(S, l) /\ Clean(l)
  <2>1. PICK h : h = [first |-> Wire!Text("channel")]
    OBVIOUS
  <2>2. DOMAIN h = {"first"} /\ h["first"] = Wire!Text("channel")
    BY ONLY <2>1
  <2>3. Forest(S, h) /\ \A k \in DOMAIN h : Clean(h[k])
    BY ONLY <1>1, <1>2, <2>2 DEF Forest
  <2>4. Tree(S, Wire!List(h)) /\ Clean(Wire!List(h))
    BY ONLY <1>1, <2>3, ListIs
  <2>5. QED
    BY ONLY <1>4, <2>1, <2>4
<1>6. PICK f : f = [clientId |-> Wire!Text("client"), protocolVersion |-> Wire!Text("1.0"), registeredChannels |-> l]
  OBVIOUS
<1>7. /\ DOMAIN f = {"clientId", "protocolVersion", "registeredChannels"}
      /\ f["clientId"] = Wire!Text("client") /\ f["protocolVersion"] = Wire!Text("1.0")
      /\ f["registeredChannels"] = l
  BY ONLY <1>6
<1>8. (\A k \in DOMAIN f : Tree(S, f[k])) /\ (clean => \A k \in DOMAIN f : Clean(f[k]))
  BY ONLY <1>2, <1>5, <1>7
<1>9. DOMAIN f \subseteq MessageKeys \ {"id", "type"}
  BY ONLY <1>7 DEF MessageKeys
<1>10. Complete("handshake_ack", f)
  BY ONLY <1>7 DEF Complete, Wire!MessageTypes
<1>11. Arrives(clean, Wire!Envelope("handshake_ack", f))
  BY ONLY MessageKeys \cup {Wire!Tag, Wire!Base64} \subseteq S, clean \in BOOLEAN, <1>8, <1>9, <1>10, SentArrives
<1>12. ASSUME NEW w \in {Wire!Text("w"), Wire!Undefined} PROVE Arrives(clean, Wire!Handshake(w))
  <2>1. PICK g : g = [protocolVersion |-> Wire!Text("1.0"), token |-> Wire!Text("token"), workspaceId |-> w]
    OBVIOUS
  <2>2. /\ DOMAIN g = {"protocolVersion", "token", "workspaceId"}
        /\ g["protocolVersion"] = Wire!Text("1.0") /\ g["token"] = Wire!Text("token") /\ g["workspaceId"] = w
    BY ONLY <2>1
  <2>3. Tree(S, w) /\ Clean(w)
    BY ONLY <1>2, <1>3, w \in {Wire!Text("w"), Wire!Undefined}
  <2>4. (\A k \in DOMAIN g : Tree(S, g[k])) /\ (clean => \A k \in DOMAIN g : Clean(g[k]))
    BY ONLY <1>2, <2>2, <2>3
  <2>5. DOMAIN g \subseteq MessageKeys \ {"id", "type"}
    BY ONLY <2>2 DEF MessageKeys
  <2>6. Complete("handshake", g)
    BY ONLY <2>2 DEF Complete, Wire!MessageTypes
  <2>7. Arrives(clean, Wire!Envelope("handshake", g))
    BY ONLY MessageKeys \cup {Wire!Tag, Wire!Base64} \subseteq S, clean \in BOOLEAN, <2>4, <2>5, <2>6, SentArrives
  <2>8. QED
    BY ONLY <2>1, <2>7 DEF Wire!Handshake
<1>13. QED
  BY ONLY <1>4, <1>6, <1>11, <1>12 DEF Wire!Acknowledgement

LEMMA CallsArrive ==
  ASSUME NEW S, MessageKeys \cup {Wire!Tag, Wire!Base64} \subseteq S, NEW v, Tree(S, v),
         NEW clean \in BOOLEAN, clean => Clean(v)
  PROVE  /\ Arrives(clean, Wire!Request([first |-> v]))
         /\ Arrives(clean, Wire!Request([first |-> Wire!Text("w"), second |-> v]))
         /\ Arrives(clean, Wire!Event([first |-> v, second |-> v]))
<1>1. {Wire!Tag, Wire!Base64} \subseteq S /\ {"first", "second"} \subseteq S
  BY DEF MessageKeys
<1>2. Tree(S, Wire!Text("w")) /\ Clean(Wire!Text("w"))
  BY ONLY <1>1, TextIs
<1>3. ASSUME NEW type \in {"request", "event"}, NEW args, DOMAIN args \subseteq S,
             \A k \in DOMAIN args : Tree(S, args[k]) /\ (clean => Clean(args[k]))
      PROVE  Arrives(clean, Wire!Envelope(type, [channel |-> Wire!Text("channel"), args |-> Wire!List(args)]))
  <2>1. (\A k \in DOMAIN args : Tree(S, args[k])) /\ (clean => \A k \in DOMAIN args : Clean(args[k]))
    BY ONLY <1>3
  <2>2. QED
    BY ONLY MessageKeys \cup {Wire!Tag, Wire!Base64} \subseteq S, type \in {"request", "event"},
            DOMAIN args \subseteq S, clean \in BOOLEAN, <2>1, CallArrives
<1>4. PICK f : f = [first |-> v]
  OBVIOUS
<1>5. PICK g : g = [first |-> Wire!Text("w"), second |-> v]
  OBVIOUS
<1>6. PICK h : h = [first |-> v, second |-> v]
  OBVIOUS
<1>7. DOMAIN f = {"first"} /\ f["first"] = v
  BY ONLY <1>4
<1>8. DOMAIN g = {"first", "second"} /\ g["first"] = Wire!Text("w") /\ g["second"] = v
  BY ONLY <1>5
<1>9. DOMAIN h = {"first", "second"} /\ h["first"] = v /\ h["second"] = v
  BY ONLY <1>6
<1>10. DOMAIN f \subseteq S /\ \A k \in DOMAIN f : Tree(S, f[k]) /\ (clean => Clean(f[k]))
  BY ONLY <1>1, <1>7, Tree(S, v), clean => Clean(v)
<1>11. DOMAIN g \subseteq S /\ \A k \in DOMAIN g : Tree(S, g[k]) /\ (clean => Clean(g[k]))
  BY ONLY <1>1, <1>2, <1>8, Tree(S, v), clean => Clean(v)
<1>12. DOMAIN h \subseteq S /\ \A k \in DOMAIN h : Tree(S, h[k]) /\ (clean => Clean(h[k]))
  BY ONLY <1>1, <1>9, Tree(S, v), clean => Clean(v)
<1>13. Arrives(clean, Wire!Request(f))
  BY ONLY <1>3, <1>10 DEF Wire!Request
<1>14. Arrives(clean, Wire!Request(g))
  BY ONLY <1>3, <1>11 DEF Wire!Request
<1>15. Arrives(clean, Wire!Event(h))
  BY ONLY <1>3, <1>12 DEF Wire!Event
<1>16. QED
  BY ONLY <1>4, <1>5, <1>6, <1>13, <1>14, <1>15

\* Every message that the client and the server send is accepted and arrives as
\* JSON has it, whatever value of any depth it carries, its bytes included, unless
\* an object in it looks like encoded bytes (serializeEnvelope, deserializeEnvelope
\* and validateEnvelopeShape).
THEOREM EnvelopesExact ==
  ASSUME NEW S, MessageKeys \cup {Wire!Tag, Wire!Base64} \subseteq S, NEW v, Tree(S, v)
  PROVE  Wire!EnvelopesArrive(v)
<1>1. PICK clean \in BOOLEAN : clean = ~Wire!HasLookalike(v)
  BY DEF Wire!HasLookalike
<1>2. clean => Clean(v)
  BY ONLY <1>1 DEF Clean, Wire!HasLookalike
<1>3. /\ Arrives(clean, Wire!Request([first |-> v]))
      /\ Arrives(clean, Wire!Request([first |-> Wire!Text("w"), second |-> v]))
      /\ Arrives(clean, Wire!Event([first |-> v, second |-> v]))
  BY ONLY MessageKeys \cup {Wire!Tag, Wire!Base64} \subseteq S, Tree(S, v), clean \in BOOLEAN, <1>2, CallsArrive
<1>4. Arrives(clean, Wire!Response(v))
  BY ONLY MessageKeys \cup {Wire!Tag, Wire!Base64} \subseteq S, Tree(S, v), clean \in BOOLEAN, <1>2, ResponseArrives
<1>5. Arrives(clean, Wire!FailedResponse) /\ Arrives(clean, Wire!Refusal)
  BY ONLY MessageKeys \cup {Wire!Tag, Wire!Base64} \subseteq S, clean \in BOOLEAN, FailuresArrive
<1>6. /\ Arrives(clean, Wire!Acknowledgement)
      /\ \A w \in {Wire!Text("w"), Wire!Undefined} : Arrives(clean, Wire!Handshake(w))
  BY ONLY MessageKeys \cup {Wire!Tag, Wire!Base64} \subseteq S, clean \in BOOLEAN, GreetingsArrive
<1>7. \A mail \in Wire!SentWith(v) : Arrives(clean, mail)
  BY ONLY <1>3, <1>4, <1>5, <1>6 DEF Wire!SentWith
<1>8. QED
  BY ONLY <1>1, <1>7 DEF Wire!EnvelopesArrive, Arrives

-----------------------------------------------------------------------------
(* The functions that MCParts tries *)

\* A part that moves has no input; the input of a function is one of its own.
ChoiceOK ==
  \/ part \in {"vault", "pool", "words", "folder"}
  \/ \E name \in DOMAIN Inputs : part = name /\ input \in Inputs[name]

LEMMA ChoiceStays == Spec => []ChoiceOK
<1>1. Init => ChoiceOK
  BY DEF Init, ChoiceOK
<1>2. ChoiceOK /\ [Next]_<<choice, vaultVars, poolVars, turnVars, folderVars>> => ChoiceOK'
  <2>1. [Next]_<<choice, vaultVars, poolVars, turnVars, folderVars>> => UNCHANGED <<part, input>>
    BY DEF Next, choice
  <2>2. UNCHANGED <<part, input>> /\ ChoiceOK => ChoiceOK'
    BY DEF ChoiceOK, Inputs, Atoms, Containers, Nested
  <2>3. QED
    BY <2>1, <2>2
<1>3. QED
  BY <1>1, <1>2, PTL DEF Spec

\* An input of a function is of its kind.
LEMMA InputIs ==
  ASSUME ChoiceOK
  PROVE  /\ part = "preview" => input \in ShortTexts
         /\ part = "history" => input \in Conversations
         /\ part = "wire" => input \in Atoms \cup Containers \cup Nested
         /\ part = "page" => input \in Webs
         /\ part = "search" => input \in UpTo(3, Web!Payloads)
         /\ part = "files" => input \in Files!Trees
         /\ part = "keys" => input \in Keys!Environments
         /\ part = "servers" => input \in Servers!McpSources
         /\ part = "requests" => input \in Servers!ApiCalls
         /\ part = "routes" => input \in Connections
<1>1. PICK texts, talks, values, webs, answers, trees, envs, sources, calls, states :
        /\ texts = ShortTexts /\ talks = Conversations /\ values = Atoms \cup Containers \cup Nested
        /\ webs = Webs /\ answers = UpTo(3, Web!Payloads) /\ trees = Files!Trees
        /\ envs = Keys!Environments /\ sources = Servers!McpSources /\ calls = Servers!ApiCalls
        /\ states = Connections
  OBVIOUS
<1>2. Inputs = [preview |-> texts, history |-> talks, wire |-> values, page |-> webs, search |-> answers,
                files |-> trees, keys |-> envs, servers |-> sources, requests |-> calls, routes |-> states]
  BY ONLY <1>1 DEF Inputs
<1>3. PICK f : f = Inputs
  OBVIOUS
<1>4. /\ DOMAIN f = {"preview", "history", "wire", "page", "search", "files", "keys", "servers", "requests", "routes"}
      /\ f["preview"] = texts /\ f["history"] = talks /\ f["wire"] = values /\ f["page"] = webs
      /\ f["search"] = answers /\ f["files"] = trees /\ f["keys"] = envs /\ f["servers"] = sources
      /\ f["requests"] = calls /\ f["routes"] = states
  BY ONLY <1>2, <1>3
<1>5. part \in DOMAIN f => part \in {"vault", "pool", "words", "folder"} \/ input \in f[part]
  BY <1>3 DEF ChoiceOK
<1>6. QED
  BY ONLY <1>1, <1>4, <1>5

LEMMA UpToIs == \A n \in Nat : \A values : UpTo(n, values) \subseteq Seq(values)
<1>1. ASSUME NEW n \in Nat, NEW values, NEW s \in UpTo(n, values) PROVE s \in Seq(values)
  <2>1. PICK k \in 0..n : s \in [1..k -> values]
    BY DEF UpTo
  <2>2. k \in Nat
    OBVIOUS
  <2>3. QED
    BY ONLY <2>1, <2>2
<1>2. QED
  BY <1>1

\* The configuration of a session's backend, of the servers of its sources, of
\* their requests and of the routes to the servers holds together: resolveProviderConfig,
\* SourceServerBuilder, prepareAuth, RoutedClient.
THEOREM ConfigurationsAreFit == Spec => []ConfigurationsFit
<1>1. ChoiceOK => ConfigurationsFit
  <2>1. ASSUME ChoiceOK PROVE ConfigurationsFit
    <3>1. part = "keys" => Keys!KeysFitSessions(input)
      BY <2>1, InputIs, KeysExact
    <3>2. part = "servers" => Servers!ServersAreSound(input)
      BY <2>1, InputIs, ServersOfOne
    <3>3. part = "requests" => Servers!RequestsAreSound(input)
      BY <2>1, InputIs, RequestsExact
    <3>4. ASSUME part = "routes", NEW mode \in Routing!Modes PROVE Routing!RoutesMeet(mode, input)
      <4>1. input \in [{"local", "remote"} -> Routing!States]
        BY <2>1, <3>4, InputIs DEF Connections
      <4>2. QED
        BY ONLY <4>1, mode \in Routing!Modes, RoutesExact
    <3>5. QED
      BY <3>1, <3>2, <3>3, <3>4 DEF ConfigurationsFit
  <2>2. QED
    BY <2>1
<1>2. QED
  BY <1>1, ChoiceStays, PTL

\* The values that are tried are trees.
LEMMA ValuesAreTrees ==
  ASSUME NEW S, S = MessageKeys \cup {Wire!Tag, Wire!Base64, "x"},
         NEW v \in Atoms \cup Containers \cup Nested
  PROVE  Tree(S, v)
<1>1. {Wire!Tag, Wire!Base64} \subseteq S /\ {"first", "second", "x"} \subseteq S
  BY DEF MessageKeys
<1>2. ASSUME NEW kind \in {"list", "object"}, NEW f, DOMAIN f \subseteq S, \A k \in DOMAIN f : Tree(S, f[k])
      PROVE  Tree(S, Wire!Branch(kind, f))
  <2>1. Forest(S, f)
    BY ONLY <1>2 DEF Forest
  <2>2. PICK b : b = Wire!Branch(kind, f)
    OBVIOUS
  <2>3. Grown(S, kind, f, b) /\ b = [p \in DOMAIN b |-> b[p]]
    BY ONLY <2>1, <2>2, BranchIs
  <2>4. Tree(S, b)
    BY ONLY <2>1, <2>3, kind \in {"list", "object"}, BranchTree
  <2>5. QED
    BY <2>2, <2>4
<1>3. \A a \in Atoms : Tree(S, a)
  <2>1. ASSUME NEW kind, NEW content PROVE Tree(S, Wire!Leaf(Wire!Node(kind, content)))
    BY ONLY <1>1, LeafIs
  <2>2. QED
    BY <2>1 DEF Atoms, Wire!Text, Wire!Undefined, Wire!Bytes
<1>4. ASSUME NEW c \in Containers PROVE Tree(S, c)
  <2>1. CASE c \in {Wire!List(f) : f \in UNION {[places -> Atoms] : places \in {{}, {"first"}, {"first", "second"}}}}
    <3>1. PICK f \in UNION {[places -> Atoms] : places \in {{}, {"first"}, {"first", "second"}}} : c = Wire!List(f)
      BY <2>1
    <3>2. PICK places \in {{}, {"first"}, {"first", "second"}} : f \in [places -> Atoms]
      OBVIOUS
    <3>3. DOMAIN f \subseteq S /\ \A k \in DOMAIN f : Tree(S, f[k])
      BY <1>1, <1>3, <3>2
    <3>4. QED
      BY <1>2, <3>1, <3>3 DEF Wire!List
  <2>2. CASE c \in {Wire!Object(f) : f \in UNION {[keys -> Atoms] : keys \in SUBSET {Wire!Tag, Wire!Base64}}}
    <3>1. PICK f \in UNION {[keys -> Atoms] : keys \in SUBSET {Wire!Tag, Wire!Base64}} : c = Wire!Object(f)
      BY <2>2
    <3>2. PICK keys \in SUBSET {Wire!Tag, Wire!Base64} : f \in [keys -> Atoms]
      OBVIOUS
    <3>3. DOMAIN f \subseteq S /\ \A k \in DOMAIN f : Tree(S, f[k])
      BY <1>1, <1>3, <3>2
    <3>4. QED
      BY <1>2, <3>1, <3>3 DEF Wire!Object
  <2>3. QED
    BY <2>1, <2>2 DEF Containers
<1>5. ASSUME NEW c \in Nested PROVE Tree(S, c)
  <2>1. CASE c \in {Wire!List([first |-> w, second |-> w]) : w \in Containers}
    <3>1. PICK w \in Containers : c = Wire!List([first |-> w, second |-> w])
      BY <2>1
    <3>2. PICK f : f = [first |-> w, second |-> w]
      OBVIOUS
    <3>3. DOMAIN f = {"first", "second"} /\ f["first"] = w /\ f["second"] = w
      BY ONLY <3>2
    <3>4. DOMAIN f \subseteq S /\ \A k \in DOMAIN f : Tree(S, f[k])
      BY ONLY <1>1, <1>4, <3>3, w \in Containers
    <3>5. QED
      BY <1>2, <3>1, <3>2, <3>4 DEF Wire!List
  <2>2. CASE c \in {Wire!Object([k \in {"x", Wire!Tag} |-> IF k = "x" THEN w ELSE Wire!Text("u8")]) : w \in Containers}
    <3>1. PICK w \in Containers : c = Wire!Object([k \in {"x", Wire!Tag} |-> IF k = "x" THEN w ELSE Wire!Text("u8")])
      BY <2>2
    <3>2. PICK f : f = [k \in {"x", Wire!Tag} |-> IF k = "x" THEN w ELSE Wire!Text("u8")]
      OBVIOUS
    <3>3. Tree(S, Wire!Text("u8"))
      BY <1>3 DEF Atoms
    <3>4. DOMAIN f \subseteq S /\ \A k \in DOMAIN f : Tree(S, f[k])
      BY ONLY <1>1, <1>4, <3>2, <3>3, w \in Containers
    <3>5. QED
      BY <1>2, <3>1, <3>2, <3>4 DEF Wire!Object
  <2>3. QED
    BY <2>1, <2>2 DEF Nested
<1>6. QED
  BY <1>3, <1>4, <1>5

\* What is cut, encoded, quoted, fetched or written arrives as it was, as far as
\* its module says: truncateToValidUtf8, the codec of the messages,
\* restoreTextHistory, fetchPublicPage, parseSearchResponse, the handlers of the files.
THEOREM ConversionsStayExact == Spec => []ConversionsAreExact
<1>1. ChoiceOK => ConversionsAreExact
  <2>1. ASSUME ChoiceOK PROVE ConversionsAreExact
    <3>1. 5 \in Nat /\ 3 \in Nat
      OBVIOUS
    <3>2. part = "preview" => Preview!PreviewIsWhole(input)
      <4>1. MaxFull \in Nat /\ Truncated \in Nat /\ Truncated <= MaxFull
        BY LimitsAssumption
      <4>2. part = "preview" => input \in Seq(1..4)
        BY <2>1, <3>1, InputIs, UpToIs DEF ShortTexts
      <4>3. QED
        BY ONLY <4>1, <4>2, PreviewExact
    <3>3. ASSUME part = "history", NEW max \in 1..MaxCharacters PROVE History!HistoryIsNewest(input, max)
      <4>1. input \in Seq([type : {"user", "tool", "status"}, length : 0..3])
        BY <2>1, <3>1, <3>3, InputIs, UpToIs DEF Conversations
      <4>2. [type : {"user", "tool", "status"}, length : 0..3] \subseteq SaidMessages
        BY DEF SaidMessages, History!Types
      <4>3. input \in Seq(SaidMessages)
        <5>1. PICK talk : talk = input
          OBVIOUS
        <5>2. talk \in Seq([type : {"user", "tool", "status"}, length : 0..3])
          BY ONLY <4>1, <5>1
        <5>3. talk \in Seq(SaidMessages)
          BY ONLY <4>2, <5>2, SeqGrows
        <5>4. QED
          BY ONLY <5>1, <5>3
      <4>4. max \in Nat \ {0}
        BY LimitsAssumption
      <4>5. QED
        BY ONLY <4>3, <4>4, HistoryExact
    <3>4. part = "wire" => Wire!EnvelopesArrive(input)
      <4>1. SUFFICES ASSUME part = "wire" PROVE Wire!EnvelopesArrive(input)
        OBVIOUS
      <4>2. input \in Atoms \cup Containers \cup Nested
        BY <2>1, <4>1, InputIs
      <4> DEFINE S == MessageKeys \cup {Wire!Tag, Wire!Base64, "x"}
      <4>3. Tree(S, input)
        BY ONLY <4>2, ValuesAreTrees
      <4>4. MessageKeys \cup {Wire!Tag, Wire!Base64} \subseteq S
        OBVIOUS
      <4> HIDE DEF S
      <4>5. QED
        BY ONLY <4>3, <4>4, EnvelopesExact
    <3>5. ASSUME part = "page", NEW address \in Addresses PROVE Web!PageIsReached(input, address)
      <4>1. input \in AllWebs
        BY <2>1, <3>5, InputIs DEF Webs, AllWebs
      <4>2. MaxHops \in Nat /\ MaxPage \in Nat
        BY LimitsAssumption
      <4>3. QED
        BY ONLY <4>1, <4>2, address \in Addresses, PagesExact
    <3>6. part = "search" => Web!SearchIsFound(input)
      <4>1. part = "search" => input \in Seq(Web!Payloads)
        BY <2>1, <3>1, InputIs, UpToIs
      <4>2. QED
        BY ONLY <4>1, SearchesExact
    <3>7. ASSUME part = "files", NEW sub \in Files!SubPaths PROVE Files!FilesAreOwn(input, sub)
      <4>1. input \in Files!Trees
        BY <2>1, <3>7, InputIs
      <4>2. MaxDepth \in Nat /\ {"..", "odd"} \cap FileNames = {}
        BY LimitsAssumption
      <4>3. QED
        BY ONLY <4>1, <4>2, sub \in Files!SubPaths, FilesExact
    <3>8. QED
      BY <3>2, <3>3, <3>4, <3>5, <3>6, <3>7 DEF ConversionsAreExact
  <2>2. QED
    BY <2>1
<1>2. QED
  BY <1>1, ChoiceStays, PTL
=============================================================================
