----------------------------- MODULE ApiServer -----------------------------
(***************************************************************************)
(* The key handlers of the HTTP server (citadel-api/src/main.rs): two      *)
(* layers of authority over one key store.  A handler resolves the key's   *)
(* domain, asks the StateEnforcer (read lock), calls the keystore, and     *)
(* tells the enforcer what changed (write lock).  No lock spans these      *)
(* steps, the keystore's own get and put are apart, and a client that      *)
(* disconnects makes the server drop a handler that waits for a lock.      *)
(*                                                                         *)
(* A key's record is its state: what else it holds is in Keystore.  The    *)
(* enforcer's tokens are in StateEnforcer: here a handler holds a context  *)
(* from its grant to its use.                                              *)
(***************************************************************************)
EXTENDS EnforcerRegistry, Naturals

CONSTANTS
  Proc,         \* requests in progress
  Requests,     \* the operations that are requested
  DomainOf,     \* each key's domain in the hierarchy; None for a Root
  MaxRestarts   \* bound: restarts of the server

Crypto == {"encrypt", "decrypt", "sign", "issue_assertion"}
Op == Crypto \cup {"generate", "activate", "rotate", "revoke", "destroy", "expire"}

KeyState == {"Absent", "Pending", "Active", "Rotated", "Expired", "Revoked",
             "Suspended", "Destroyed"}

ASSUME ApiConstants ==
  /\ Requests \subseteq Op
  /\ DomainOf \in [Key -> Domain \cup {None}]
  /\ MaxRestarts \in Nat

VARIABLES
  store,      \* the state in each key's record
  pc,         \* per request: what it does next
  op,         \* per request: its operation
  key,        \* per request: its key
  domain,     \* per request: resolved_domain, None for a global admin
  read,       \* per request: the state in its copy of the record
  late,       \* history, per request: began after its key was acknowledged revoked
  acked,      \* history: keys whose revocation or destruction was answered
  betrayed,   \* history: keys used by a late request
  clobbered,  \* history: some put replaced a state other than the one it had read
  restarts    \* history

request == <<op, key, domain>>
history == <<acked, betrayed, clobbered, restarts>>
vars == <<registry, store, pc, request, read, late, history>>

Init ==
  /\ RegistryInit
  /\ store = [k \in Key |-> "Absent"]
  /\ pc = [p \in Proc |-> "idle"]
  /\ op \in [Proc -> {"activate"}]
  /\ key \in [Proc -> Key]
  /\ domain = [p \in Proc |-> None]
  /\ read = [p \in Proc |-> "Absent"]
  /\ late = [p \in Proc |-> FALSE]
  /\ acked = {}
  /\ betrayed = {}
  /\ clobbered = FALSE
  /\ restarts = 0

-----------------------------------------------------------------------------
(* The keystore's own checks                                                *)

\* The states an operation accepts, and the one it leaves behind.
Accepted(o) ==
  CASE o = "activate" -> {"Pending", "Suspended"}
    [] o = "rotate"   -> {"Active"}
    [] o = "revoke"   -> {"Active"}
    [] o = "destroy"  -> {"Pending", "Suspended", "Expired", "Revoked"}
    [] o = "expire"   -> {"Active", "Rotated"}
    [] o = "decrypt"  -> {"Active", "Rotated"}
    [] OTHER          -> {"Active"}

Result(o, s) ==
  CASE o = "generate" -> "Pending"
    [] o = "activate" -> "Active"
    [] o = "revoke"   -> "Revoked"
    [] o = "destroy"  -> "Destroyed"
    [] o = "expire"   -> "Expired"
    [] OTHER          -> s

\* Operations that write the record they read: encrypt for its usage count.
Writes(o) == o \notin {"decrypt", "sign", "issue_assertion"}

-----------------------------------------------------------------------------
(* Requests                                                                 *)

FirstStep(o) ==
  CASE o = "generate"               -> "put"
    [] o = "issue_assertion"        -> "lookup"
    [] o \in {"destroy", "expire"}  -> "get"
    [] OTHER                        -> "authorize"

\* KeyId::generate: an id nobody has.
FreshId(k) ==
  /\ store[k] = "Absent"
  /\ \A q \in Proc : pc[q] # "idle" /\ op[q] = "generate" => key[q] # k

\* authorize_domain_access: a global admin passes with no domain; for a scoped
\* API key the key's domain is resolved and must be an allowed one.
Receive(p, o, k, d) ==
  /\ pc[p] = "idle"
  /\ d # None => d = DomainOf[k] /\ (o = "generate" \/ store[k] # "Absent")
  /\ o = "generate" => FreshId(k)
  /\ o = "expire" => d = None
  /\ pc' = [pc EXCEPT ![p] = FirstStep(o)]
  /\ op' = [op EXCEPT ![p] = o]
  /\ key' = [key EXCEPT ![p] = k]
  /\ domain' = [domain EXCEPT ![p] = d]
  /\ read' = [read EXCEPT ![p] = "Absent"]
  /\ late' = [late EXCEPT ![p] = k \in acked]
  /\ UNCHANGED <<registry, store, history>>

Goto(p, step) == pc' = [pc EXCEPT ![p] = step]

\* issue_assertion takes the version its claims name from a record it reads
\* first; from there on it is a sign_data of those claims.
Lookup(p) ==
  /\ pc[p] = "lookup"
  /\ Goto(p, IF store[key[p]] # "Absent" THEN "authorize" ELSE "idle")
  /\ UNCHANGED <<registry, store, request, read, late, history>>

\* authorize_encrypt, _decrypt, _sign, _key_rotation or _api_request.
Grant(p) ==
  /\ pc[p] = "authorize"
  /\ KeyAllowed(key[p], domain[p])
  /\ Goto(p, IF op[p] \in Crypto THEN "validate" ELSE "get")
  /\ UNCHANGED <<registry, store, request, read, late, history>>

Deny(p) ==
  /\ pc[p] = "authorize"
  /\ ~KeyAllowed(key[p], domain[p])
  /\ Goto(p, "idle")
  /\ UNCHANGED <<registry, store, request, read, late, history>>

\* validate_authz: the context is in time, or it waited too long for the lock.
Validate(p) ==
  /\ pc[p] = "validate"
  /\ \/ Goto(p, "get")
     \/ Goto(p, "idle")
  /\ UNCHANGED <<registry, store, request, read, late, history>>

\* The request has used its key.
Serve(p) ==
  betrayed' = IF late[p] /\ op[p] \in Crypto THEN betrayed \cup {key[p]} ELSE betrayed

\* Mutant: the keystore leaves the state of the key to the enforcer.
AnyState(o, s) == s # "Absent"
Permits(o, s) == s \in Accepted(o)

\* The keystore reads the record and checks its state; operations that only
\* read it end here.
Get(p) ==
  /\ pc[p] = "get"
  /\ Permits(op[p], store[key[p]])
  /\ read' = [read EXCEPT ![p] = store[key[p]]]
  /\ IF Writes(op[p])
     THEN Goto(p, "put") /\ UNCHANGED betrayed
     ELSE Goto(p, "idle") /\ Serve(p)
  /\ UNCHANGED <<registry, store, request, late, acked, clobbered, restarts>>

Refuse(p) ==
  /\ pc[p] = "get"
  /\ ~Permits(op[p], store[key[p]])
  /\ Goto(p, "idle")
  /\ UNCHANGED <<registry, store, request, read, late, history>>

NextAfterPut(o) ==
  CASE o \in {"generate", "rotate"} -> "register"
    [] o \in {"revoke", "destroy"}  -> "withdraw"
    [] OTHER                        -> "idle"

\* The record is written back, whatever became of it since it was read.
Put(p) ==
  /\ pc[p] = "put"
  /\ store' = [store EXCEPT ![key[p]] = Result(op[p], read[p])]
  /\ Goto(p, NextAfterPut(op[p]))
  /\ Serve(p)
  /\ clobbered' = (clobbered \/ store[key[p]] # read[p])
  /\ UNCHANGED <<registry, request, read, late, acked, restarts>>

PutFails(p) ==
  /\ pc[p] = "put"
  /\ Goto(p, "idle")
  /\ UNCHANGED <<registry, store, request, read, late, history>>

\* generate registers the key under the domain it resolves, rotate under the
\* one its caller was checked for.
Register(p) ==
  /\ pc[p] = "register"
  /\ register_key(key[p], IF op[p] = "generate" THEN DomainOf[key[p]] ELSE domain[p])
  /\ Goto(p, "idle")
  /\ UNCHANGED <<store, request, read, late, history>>

Withdraw(p) ==
  /\ pc[p] = "withdraw"
  /\ revoke_key(key[p])
  /\ acked' = acked \cup {key[p]}
  /\ Goto(p, "idle")
  /\ UNCHANGED <<store, request, read, late, betrayed, clobbered, restarts>>

\* The client is gone and the handler, waiting for the enforcer's lock, is dropped.
Cancel(p) ==
  /\ pc[p] \in {"authorize", "validate", "register", "withdraw"}
  /\ Goto(p, "idle")
  /\ UNCHANGED <<registry, store, request, read, late, history>>

\* build_app: a new enforcer with every stored key, whatever its state, or with
\* none when the store cannot be listed.
Restart ==
  /\ restarts < MaxRestarts
  /\ restarts' = restarts + 1
  /\ pc' = [p \in Proc |-> "idle"]
  /\ valid_keys' \in {{}, {k \in Key : store[k] # "Absent"}}
  /\ revoked_keys' = {}
  /\ domain_keys' = {dk \in Domain \X valid_keys' : DomainOf[dk[2]] = dk[1]}
  /\ UNCHANGED <<store, request, read, late, acked, betrayed, clobbered>>

Handle(p) ==
  \/ \E o \in Requests, k \in Key, d \in Domain \cup {None} : Receive(p, o, k, d)
  \/ Lookup(p)   \/ Grant(p)  \/ Deny(p)     \/ Validate(p)
  \/ Get(p)      \/ Refuse(p) \/ Put(p)      \/ PutFails(p)
  \/ Register(p) \/ Withdraw(p)
  \/ Cancel(p)

Next == (\E p \in Proc : Handle(p)) \/ Restart

Spec == Init /\ [][Next]_vars

-----------------------------------------------------------------------------
(* Properties                                                               *)

\* Type correctness.
TypeOK ==
  /\ RegistryTypeOK
  /\ store \in [Key -> KeyState]
  /\ pc \in [Proc -> {"idle", "lookup", "authorize", "validate", "get", "put",
                      "register", "withdraw"}]
  /\ op \in [Proc -> Op]
  /\ key \in [Proc -> Key]
  /\ domain \in [Proc -> Domain \cup {None}]
  /\ read \in [Proc -> KeyState]
  /\ late \in [Proc -> BOOLEAN]
  /\ acked \subseteq Key
  /\ betrayed \subseteq Key
  /\ clobbered \in BOOLEAN
  /\ restarts \in Nat

\* While the server runs, a request that begins after a revocation or a
\* destruction of its key was answered does not use the key: not when a rotate,
\* an activate or an encrypt that overlapped the revocation wrote its stale
\* record back, and not when that rotate registered the key again.
RevocationHolds == restarts = 0 => betrayed = {}

\* The second layer: a restart makes the enforcer forget, and it then takes
\* revoked keys for valid; as long as no stale record was ever written back, the
\* keystore's own check still keeps late requests out.
StoreHolds == ~clobbered => betrayed = {}

\* "Permanently revoke key": the same, across restarts of the server.
RevocationPermanent == betrayed = {}
=============================================================================
