------------------------------ MODULE ApiKeys ------------------------------
(***************************************************************************)
(* The API keys of the HTTP server (citadel-api/src/main.rs): ApiKeyStore, *)
(* auth_middleware and the handlers that create and revoke API keys.       *)
(*                                                                         *)
(* The store is in memory behind a RwLock and is saved whole, by an atomic *)
(* rename, under the write lock.  A save may fail after memory has         *)
(* changed; memory is then not rolled back.  A request carries a copy of   *)
(* its API key's entry from the moment it is authenticated, and every      *)
(* authentication spawns a task that saves the store (for last_used, which *)
(* nothing here reads).                                                    *)
(***************************************************************************)
EXTENDS Naturals, FiniteSets

CONSTANTS
  Proc,          \* requests in progress
  ApiKey,        \* ids
  DomainId,
  Unrestricted,  \* the None of an Option: allowed_domains of a global key
  Bootstrap,     \* "ck_bootstrap"
  Wanted,        \* the scopes and domains asked for in creations
  MaxTouches,    \* bound: last_used updates that wait for the lock
  MaxRestarts,   \* bound: restarts of the server
  MaxFailures    \* bound: saves that fail

Scope == {"Read", "Encrypt", "Manage", "Admin"}
Grant == [scopes : SUBSET Scope, allowed_domains : {Unrestricted} \cup SUBSET DomainId]

ASSUME ApiKeyConstants ==
  /\ Bootstrap \in ApiKey
  /\ Wanted \subseteq Grant
  /\ \A domains \in SUBSET DomainId : domains # Unrestricted
  /\ MaxTouches \in Nat /\ MaxRestarts \in Nat /\ MaxFailures \in Nat

VARIABLES
  keys,      \* ApiKeyStore: the grant of each API key that exists
  active,    \* ApiKeyStore: the active ones
  file,      \* api-keys.json: keys and active as last saved
  pc,        \* per request: "idle", "create" or "revoke"
  auth,      \* per request: its AuthContext
  touches,   \* spawned last_used updates that have not run
  granted,   \* history: what each API key was created with, NoGrant for none
  held,      \* history: API keys whose secret was handed out
  revoked,   \* history: API keys whose revocation was answered "revoked"
  struck,    \* history: API keys a revocation deactivated, whatever it answered
  restarts,  \* history
  failures   \* history

store == <<keys, active>>
requests == <<pc, auth, touches>>
history == <<granted, held, revoked, struck, restarts, failures>>
apiKeysVars == <<store, file, requests, history>>

NoGrant == [scopes |-> {}, allowed_domains |-> Unrestricted]
GlobalAdmin == [scopes |-> {"Admin"}, allowed_domains |-> Unrestricted]

Exists(k) == keys[k] # NoGrant
IsAdmin(g) == "Admin" \in g.scopes
is_global_admin(g) == g.allowed_domains = Unrestricted /\ IsAdmin(g)

\* The bootstrap entry is saved, or the error is logged and the server goes on.
BootstrapKeys == [k \in ApiKey |-> IF k = Bootstrap THEN GlobalAdmin ELSE NoGrant]
Empty == [keys |-> [k \in ApiKey |-> NoGrant], active |-> {}]
Bootstrapped == [keys |-> BootstrapKeys, active |-> {Bootstrap}]

ApiKeysInit ==
  /\ keys = BootstrapKeys
  /\ active = {Bootstrap}
  /\ file \in {Bootstrapped, Empty}
  /\ pc = [p \in Proc |-> "idle"]
  /\ auth = [p \in Proc |-> NoGrant]
  /\ touches = 0
  /\ granted = BootstrapKeys
  /\ held = {Bootstrap}
  /\ revoked = {}
  /\ struck = {}
  /\ restarts = 0
  /\ failures = 0

-----------------------------------------------------------------------------
(* Saving                                                                   *)

\* save of what memory holds after this step.
Saved == file' = [keys |-> keys', active |-> active'] /\ UNCHANGED failures

SaveFails ==
  /\ failures < MaxFailures
  /\ failures' = failures + 1
  /\ UNCHANGED file

\* The task auth_middleware spawned; the outcome of its save is ignored.
Touch ==
  /\ touches > 0
  /\ touches' = touches - 1
  /\ UNCHANGED <<store, pc, auth, granted, held, revoked, struck, restarts>>
  /\ Saved \/ SaveFails

-----------------------------------------------------------------------------
(* auth_middleware                                                          *)

authenticate(k) == Exists(k) /\ k \in active

has_scope(g, s) == IsAdmin(g) \/ s \in g.scopes

\* A request that stays clear of API keys leaves only its last_used update.
Authenticate(p, k, s, step) ==
  /\ pc[p] = "idle"
  /\ k \in held
  /\ authenticate(k)
  /\ has_scope(keys[k], s)
  /\ step # "idle" => s = "Admin"
  /\ touches < MaxTouches
  /\ touches' = touches + 1
  /\ pc' = [pc EXCEPT ![p] = step]
  /\ auth' = [auth EXCEPT ![p] = keys[k]]
  /\ UNCHANGED <<store, file, history>>

Done(p) == pc' = [pc EXCEPT ![p] = "idle"] /\ UNCHANGED <<auth, touches>>

\* The request is refused, or has nothing to do ("already revoked"), or its
\* client goes away while it waits for the lock.
Refused(p) ==
  /\ pc[p] # "idle"
  /\ Done(p)
  /\ UNCHANGED <<store, file, history>>

-----------------------------------------------------------------------------
(* authorize_api_key_admin_action                                           *)

Within(inner, outer) ==
  /\ inner.allowed_domains # Unrestricted
  /\ outer.allowed_domains # Unrestricted
  /\ inner.allowed_domains \subseteq outer.allowed_domains

MayCreate(a, g) ==
  \/ is_global_admin(a)
  \/ /\ Within(g, a)
     /\ ~IsAdmin(g)
     /\ g.scopes \subseteq a.scopes

MayRevoke(a, g) ==
  \/ is_global_admin(a)
  \/ /\ ~is_global_admin(g)
     /\ g.allowed_domains # Unrestricted => Within(g, a)

-----------------------------------------------------------------------------
(* create_api_key                                                           *)

\* The domain scoping rules.
WellScoped(g) ==
  /\ g.scopes # {}
  /\ g.allowed_domains # {}
  /\ g.allowed_domains = Unrestricted => IsAdmin(g)

\* Mutant: the secret is handed out whether or not the entry is saved.
HandedAnyway(k) == held' = held \cup {k} /\ (Saved \/ SaveFails)
\* On a failed save the entry stays in memory and its secret with the server.
HandedSaved(k) ==
  \/ Saved /\ held' = held \cup {k}
  \/ SaveFails /\ UNCHANGED held

\* The id is random, one nobody had.
create_api_key(p, k, g) ==
  /\ pc[p] = "create"
  /\ MayCreate(auth[p], g)
  /\ WellScoped(g)
  /\ granted[k] = NoGrant
  /\ keys' = [keys EXCEPT ![k] = g]
  /\ active' = active \cup {k}
  /\ granted' = [granted EXCEPT ![k] = g]
  /\ HandedSaved(k)
  /\ Done(p)
  /\ UNCHANGED <<revoked, struck, restarts>>

-----------------------------------------------------------------------------
(* revoke_api_key                                                           *)

\* Mutant: revoked admins count.
AnyOtherAdmin(k) == \E j \in ApiKey \ {k} : Exists(j) /\ IsAdmin(keys[j])
other_admins(k) == \E j \in active \ {k} : IsAdmin(keys[j])

\* Mutant: the answer does not wait for the save.
AnsweredAnyway(k) == revoked' = revoked \cup {k} /\ (Saved \/ SaveFails)
AnsweredSaved(k) ==
  \/ Saved /\ revoked' = revoked \cup {k}
  \/ SaveFails /\ UNCHANGED revoked

revoke_api_key(p, k) ==
  /\ pc[p] = "revoke"
  /\ Exists(k)
  /\ MayRevoke(auth[p], keys[k])
  /\ k \in active
  /\ IsAdmin(keys[k]) => other_admins(k)
  /\ active' = active \ {k}
  /\ struck' = struck \cup {k}
  /\ UNCHANGED keys
  /\ AnsweredSaved(k)
  /\ Done(p)
  /\ UNCHANGED <<granted, held, restarts>>

-----------------------------------------------------------------------------
(* bootstrap_api_keys                                                       *)

\* The server refuses to start with a non-admin key that is global.
StartsWith(f) ==
  \A k \in ApiKey : f.keys[k] # NoGrant /\ f.keys[k].allowed_domains = Unrestricted
                      => IsAdmin(f.keys[k])

Restart ==
  /\ restarts < MaxRestarts
  /\ restarts' = restarts + 1
  /\ pc' = [p \in Proc |-> "idle"]
  /\ touches' = 0
  /\ IF file = Empty
     THEN /\ keys' = BootstrapKeys
          /\ active' = {Bootstrap}
          /\ Saved \/ SaveFails
     ELSE /\ StartsWith(file)
          /\ keys' = file.keys
          /\ active' = file.active
          /\ UNCHANGED <<file, failures>>
  /\ UNCHANGED <<auth, granted, held, revoked, struck>>

ApiKeysNext ==
  \/ \E p \in Proc, k \in ApiKey, s \in Scope, step \in {"idle", "create", "revoke"} :
        Authenticate(p, k, s, step)
  \/ \E p \in Proc : Refused(p)
  \/ \E p \in Proc, k \in ApiKey, g \in Wanted : create_api_key(p, k, g)
  \/ \E p \in Proc, k \in ApiKey : revoke_api_key(p, k)
  \/ Touch
  \/ Restart

ApiKeysSpec == ApiKeysInit /\ [][ApiKeysNext]_apiKeysVars

-----------------------------------------------------------------------------
(* Properties                                                               *)

\* Type correctness.
ApiKeysTypeOK ==
  /\ keys \in [ApiKey -> Grant]
  /\ active \subseteq ApiKey
  /\ file \in [keys : [ApiKey -> Grant], active : SUBSET ApiKey]
  /\ pc \in [Proc -> {"idle", "create", "revoke"}]
  /\ auth \in [Proc -> Grant]
  /\ touches \in 0 .. MaxTouches
  /\ granted \in [ApiKey -> Grant]
  /\ held \subseteq ApiKey
  /\ revoked \subseteq ApiKey
  /\ struck \subseteq ApiKey
  /\ restarts \in 0 .. MaxRestarts
  /\ failures \in 0 .. MaxFailures

\* An API key whose revocation was answered is never accepted again, whatever
\* creations, failed saves, last_used updates and restarts follow.
RevokedRefused == \A k \in revoked : ~authenticate(k)

\* "Cannot revoke the last admin key": two admins that revoke each other at
\* once, with contexts authenticated before, leave one of them, in memory and in
\* the file the next process starts from.
AdminRemains ==
  /\ \E k \in active : IsAdmin(keys[k])
  /\ file # Empty => \E k \in file.active : IsAdmin(file.keys[k])

\* An API key whose secret was handed out is accepted, with the grant it was
\* created with, until a revocation deactivates it: whatever other creations and
\* revocations wait for the lock beside it, its creator's own among them, saves
\* fail, last_used updates save what memory holds by then, and servers restart.
HandedOutAccepted ==
  \A k \in held \ struck : authenticate(k) /\ keys[k] = granted[k]

\* The next process always starts from the file this one has saved.
FileStarts == StartsWith(file)
=============================================================================
