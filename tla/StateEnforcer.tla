--------------------------- MODULE StateEnforcer ---------------------------
(***************************************************************************)
(* The authorisation layer (citadel-core/src/state_enforcer.rs).  An       *)
(* authorize_* call checks a key and a domain and hands the caller an      *)
(* AuthorizedContext that carries a one-shot capability token; the         *)
(* keystore validates that context before it acts (validate_authz and the  *)
(* *_authorized operations of citadel-keystore/src/keystore.rs).           *)
(*                                                                         *)
(* The token registry is behind a mutex and the rest behind a RwLock, so   *)
(* every method is one step.  Random 128-bit nonces do not repeat: a new   *)
(* token takes a nonce of which neither a context nor a registry entry is  *)
(* left.  Time is in units of which TTL, Skew and TOKEN_TTL are multiples. *)
(***************************************************************************)
EXTENDS EnforcerRegistry, Naturals

CONSTANTS
  Message,       \* payloads a signature may be asked for
  Nonce,         \* tokens
  OperationType, \* the operations that are requested
  TTL,           \* ttl_ms
  Skew,          \* clock_skew_ms
  TOKEN_TTL,     \* CAPABILITY_TOKEN_TTL_NANOS
  MaxTime,       \* bound: the clock stops there
  MaxGeneration  \* bound: enforcer instances

ASSUME EnforcerConstants ==
  /\ None \notin Message
  /\ OperationType \subseteq
       {"Encrypt", "Decrypt", "KeyRotation", "KeyAccess", "Sign", "Verify"}
  /\ TTL \in Nat /\ Skew \in Nat /\ TOKEN_TTL \in Nat
  /\ MaxTime \in Nat \ {0} /\ MaxGeneration \in Nat \ {0}

VARIABLES
  now,
  generation,    \* of the live enforcer
  issued_tokens, \* when each nonce was issued, 0 if it is not registered
  contexts,      \* the AuthorizedContexts callers hold, by nonce
  uses           \* history: operations performed under each context

tokenVars   == <<issued_tokens, contexts, uses>>
enforcerVars == <<now, generation, registry, tokenVars>>

\* operation_params: the recipient of Encrypt, the new key of KeyRotation, the
\* hashed message of Sign.
Param == Key \cup Message \cup {None}

Context == [operation : OperationType, key : Key, domain : Domain \cup {None},
            param : Param, timestamp : Nat, generation : Nat]

NoContext == [operation |-> "none", key |-> None, domain |-> None,
              param |-> None, timestamp |-> 0, generation |-> 0]

Init ==
  /\ now = 1
  /\ generation = 1
  /\ RegistryInit
  /\ issued_tokens = [n \in Nonce |-> 0]
  /\ contexts = [n \in Nonce |-> NoContext]
  /\ uses = [n \in Nonce |-> 0]

-----------------------------------------------------------------------------
(* Tokens                                                                   *)

Live(t) == t # 0 /\ now < t + TOKEN_TTL

\* retain
Retained(table) == [n \in Nonce |-> IF Live(table[n]) THEN table[n] ELSE 0]

FreshNonce(n) == contexts[n] = NoContext /\ issued_tokens[n] = 0

ParamAllowed(op, x) ==
  CASE op = "Encrypt"     -> x = None \/ x \in valid_keys \ revoked_keys
    [] op = "KeyRotation" -> x \in Key \ valid_keys
    [] op = "Sign"        -> x \in Message
    [] OTHER              -> x = None

\* generate_capability_token and AuthorizedContext::new.
Issue(n, op, k, d, x) ==
  /\ issued_tokens' = Retained([issued_tokens EXCEPT ![n] = now])
  /\ contexts' = [contexts EXCEPT ![n] =
       [operation |-> op, key |-> k, domain |-> d, param |-> x,
        timestamp |-> now, generation |-> generation]]
  /\ uses' = [uses EXCEPT ![n] = 0]

authorize(n, op, k, d, x) ==
  /\ FreshNonce(n)
  /\ KeyAllowed(k, d)
  /\ ParamAllowed(op, x)
  /\ Issue(n, op, k, d, x)

\* Mutant: the token stays in the registry.
Seen(n) == issued_tokens' = Retained(issued_tokens)
\* validate_capability's registry step: one-shot.
Consume(n) == issued_tokens' = [Retained(issued_tokens) EXCEPT ![n] = 0]

InRegistry(n) == Live(issued_tokens[n])

validate_capability(n) == contexts[n].generation = generation /\ InRegistry(n)

Expired(n) == now > contexts[n].timestamp + TTL + Skew

\* require_encrypt_for, require_decrypt_for, require_sign_for_payload.
Requires(c, op, k, x) ==
  /\ c.operation = op
  /\ c.key = k
  /\ op = "Sign" => c.param = x

Accepts(n, op, k, x) ==
  validate_capability(n) /\ ~Expired(n) /\ Requires(contexts[n], op, k, x)

\* The operations that ask for a context at the keystore's boundary.
Boundary == {"Encrypt", "Decrypt", "Sign"}

\* The keystore's check of a context for op on key k (and message x).  The
\* token is spent even when a later check refuses.
present_token(n, op, k, x) ==
  /\ contexts[n] # NoContext
  /\ IF contexts[n].generation = generation THEN Consume(n) ELSE UNCHANGED issued_tokens
  /\ uses' = IF Accepts(n, op, k, x) THEN [uses EXCEPT ![n] = @ + 1] ELSE uses
  /\ UNCHANGED contexts

\* The caller drops its context; the registry keeps the token until it expires.
drop(n) ==
  /\ contexts[n] # NoContext
  /\ contexts' = [contexts EXCEPT ![n] = NoContext]
  /\ UNCHANGED <<issued_tokens, uses>>

-----------------------------------------------------------------------------
RegisterKey(k, d) == register_key(k, d) /\ UNCHANGED <<now, generation, tokenVars>>

RevokeKey(k) == revoke_key(k) /\ UNCHANGED <<now, generation, tokenVars>>

Authorize(n, op, k, d, x) ==
  authorize(n, op, k, d, x) /\ UNCHANGED <<now, generation, registry>>

Present(n, op, k, x) ==
  present_token(n, op, k, x) /\ UNCHANGED <<now, generation, registry>>

Drop(n) == drop(n) /\ UNCHANGED <<now, generation, registry>>

\* A new StateEnforcer takes the place of the old one; contexts of the old one
\* are still about.
NewInstance ==
  /\ generation < MaxGeneration
  /\ generation' = generation + 1
  /\ valid_keys' = {}
  /\ revoked_keys' = {}
  /\ domain_keys' = {}
  /\ issued_tokens' = [n \in Nonce |-> 0]
  /\ UNCHANGED <<now, contexts, uses>>

Tick ==
  /\ now < MaxTime
  /\ now' = now + 1
  /\ UNCHANGED <<generation, registry, tokenVars>>

Next ==
  \/ \E k \in Key, d \in Domain \cup {None} : RegisterKey(k, d)
  \/ \E k \in Key : RevokeKey(k)
  \/ \E n \in Nonce, op \in OperationType, k \in Key,
        d \in Domain \cup {None}, x \in Param : Authorize(n, op, k, d, x)
  \/ \E n \in Nonce, op \in Boundary, k \in Key, x \in Message \cup {None} :
        Present(n, op, k, x)
  \/ \E n \in Nonce : Drop(n)
  \/ NewInstance
  \/ Tick

Spec == Init /\ [][Next]_enforcerVars

-----------------------------------------------------------------------------
(* Properties                                                               *)

\* Type correctness.
TypeOK ==
  /\ now \in 1 .. MaxTime
  /\ generation \in 1 .. MaxGeneration
  /\ RegistryTypeOK
  /\ issued_tokens \in [Nonce -> Nat]
  /\ contexts \in [Nonce -> Context \cup {NoContext}]
  /\ uses \in [Nonce -> Nat]

\* "Execution permits, not reusable TTL sessions": however often and wherever a
\* context is presented, one operation at most is performed under it, also when
\* the enforcer is replaced or the nonce outlives its context.
OneShot == \A n \in Nonce : uses[n] <= 1
=============================================================================
