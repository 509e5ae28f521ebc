-------------------------- MODULE CredentialVault --------------------------
(***************************************************************************)
(* The encrypted file of credentials (SecureStorageBackend) as its users   *)
(* see it (SourceCredentialManager, loadOpenCodeGoKey, saveOpenCodeGoKey): *)
(* the cached store, the key, and a file that is written in place.         *)
(*                                                                         *)
(* The code has no await, so a call is one action.  A write can fail or be *)
(* cut off by the end of the process, and then leaves a part of the file;  *)
(* the file can be carried to another machine.  Of the bytes only what the *)
(* reader tells apart is kept: whether they reach the end of the salt (44),*)
(* of the header (64), of the payload.                                     *)
(***************************************************************************)
EXTENDS Naturals

CONSTANTS
  Accounts, Values, Machines,
  NoValue,   \* what getCredential answers with null
  Nothing,   \* no store, no key
  MaxFaults, \* bound on failed or interrupted writes and on moves
  MaxSets    \* bound on the calls that write

ASSUME VaultAssumption == Nothing \notin [Accounts -> Values \cup {NoValue}]

VARIABLES
  file,    \* [size, salt, key, creds]
  store,   \* cachedStore
  key,     \* salt and encryptionKey: [salt, machine]
  machine, \* what getStableMachineId answers
  asked,   \* history: what each account may hold, by what its callers were told
  atRisk,  \* history: the accounts not stored again since the file was damaged
  cutSalt, \* history: whether a salt was taken from a file that ended within it
  faults, sets

vaultVars == <<file, store, key, machine, asked, atRisk, cutSalt, faults, sets>>

Empty == [a \in Accounts |-> NoValue]
Absent == [size |-> "absent", salt |-> Nothing, key |-> Nothing, creds |-> Empty]

VaultInit ==
  /\ file = Absent /\ store = Nothing /\ key = Nothing
  /\ machine \in Machines
  /\ asked = [a \in Accounts |-> {NoValue}] /\ atRisk = {} /\ cutSalt = FALSE
  /\ faults = 0 /\ sets = 0

(* load *)
Derived(salt) == [salt |-> salt, machine |-> machine]
Opens == file.size = "whole" /\ Derived(file.salt) = file.key
Loaded == IF Opens THEN file.creds ELSE Nothing
HeaderRead == file.size \in {"torn", "whole"}
Store == IF store # Nothing THEN store ELSE Loaded
KeyAfterLoad == IF store = Nothing /\ HeaderRead THEN Derived(file.salt) ELSE key

(* ensureKey: a short file gives a short salt.                             *)
SaltOnDisk ==
  IF file.size = "absent" THEN [number |-> sets, form |-> "random"]
  ELSE IF file.size = "cut" THEN [file.salt EXCEPT !.form = "cut"] ELSE file.salt
EnsuredKey == IF KeyAfterLoad # Nothing THEN KeyAfterLoad ELSE Derived(SaltOnDisk)

(* Variant with a fault: every file gets a salt of its own.                *)
HeaderFreshly(salt) == [number |-> sets + 1, form |-> "random"]

(* A short salt is filled up with zeros in the header.                     *)
Header(salt) == IF salt.form = "cut" THEN [salt EXCEPT !.form = "padded"] ELSE salt

Sealed(creds) ==
  [size |-> "whole", salt |-> Header(EnsuredKey.salt), key |-> EnsuredKey, creds |-> creds]
Torn(whole) == {[whole EXCEPT !.size = s] : s \in {"cut", "stub", "torn"}}

(* getCredential: only the first call loads.                               *)
Get ==
  /\ store = Nothing
  /\ store' = Loaded /\ key' = KeyAfterLoad
  /\ UNCHANGED <<file, machine, asked, atRisk, cutSalt, faults, sets>>

(* The rest of setCredential and deleteCredential: save.                   *)
Save(a, v) ==
  LET creds == [(IF Store = Nothing THEN Empty ELSE Store) EXCEPT ![a] = v]
      written ==
        /\ file' = Sealed(creds) /\ store' = creds /\ key' = EnsuredKey
        /\ asked' = [asked EXCEPT ![a] = {v}] /\ atRisk' = atRisk \ {a}
        /\ UNCHANGED faults
      \* It throws; the cached store was changed in place.
      failed ==
        /\ file' \in {file} \cup Torn(Sealed(creds))
        /\ store' = (IF Store = Nothing THEN Nothing ELSE creds) /\ key' = EnsuredKey
        /\ asked' = [asked EXCEPT ![a] = @ \cup {v}] /\ UNCHANGED atRisk
      \* The process ends.
      interrupted ==
        /\ file' \in Torn(Sealed(creds)) /\ store' = Nothing /\ key' = Nothing
        /\ asked' = [asked EXCEPT ![a] = @ \cup {v}] /\ atRisk' = Accounts
  IN /\ sets < MaxSets /\ sets' = sets + 1
     /\ cutSalt' = (cutSalt \/ EnsuredKey.salt.form = "cut")
     /\ \/ written
        \/ faults < MaxFaults /\ faults' = faults + 1 /\ (failed \/ interrupted)
     /\ UNCHANGED machine

SetCredential(a, v) == Save(a, v)
DeleteCredential(a) == Store # Nothing /\ Store[a] # NoValue /\ Save(a, NoValue)

(* Another instance: after a restart, or at each use of the model's key.   *)
NewInstance ==
  /\ store' = Nothing /\ key' = Nothing
  /\ atRisk' = IF file.size \in {"cut", "stub", "torn"} THEN Accounts ELSE atRisk
  /\ UNCHANGED <<file, machine, asked, cutSalt, faults, sets>>

(* The file is carried to another machine and opened there.                *)
Move(m) ==
  /\ faults < MaxFaults /\ faults' = faults + 1
  /\ m # machine /\ machine' = m
  /\ store' = Nothing /\ key' = Nothing /\ atRisk' = Accounts
  /\ UNCHANGED <<file, asked, cutSalt, sets>>

VaultNext ==
  \/ Get
  \/ \E a \in Accounts : DeleteCredential(a) \/ \E v \in Values : SetCredential(a, v)
  \/ NewInstance
  \/ \E m \in Machines : Move(m)

VaultSpec == VaultInit /\ [][VaultNext]_vaultVars

-----------------------------------------------------------------------------
(* What getCredential answers now.                                         *)
Reads(a) == IF Store = Nothing THEN NoValue ELSE Store[a]

(* A credential is what was last stored for its account, or what a call    *)
(* that threw was storing; never the value of another account, nor one     *)
(* that was replaced.  It is there, in this and in every later instance,   *)
(* unless the file was damaged or moved since; and what is stored after    *)
(* the damage is there again, unless the file had been cut within its salt *)
(* (ensureKey takes the short salt, the header fills it up with zeros, and *)
(* the next instance derives another key).                                 *)
VaultIsTrue ==
  \A a \in Accounts :
    Reads(a) \in asked[a] \/ (Reads(a) = NoValue /\ (a \in atRisk \/ cutSalt))
=============================================================================
