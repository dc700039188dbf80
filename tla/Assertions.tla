----------------------------- MODULE Assertions -----------------------------
(***************************************************************************)
(* Signatures and Citadel Native Assertions: the signing handlers of the   *)
(* server (citadel-api/src/main.rs), Keystore::sign_authorized and         *)
(* verify_signature (keystore.rs) and the assertion format                 *)
(* (citadel-signer/src/assertion.rs, dsa.rs), while the keys go through    *)
(* their life.  A signing handler reads the key, asks the enforcer and     *)
(* then has the keystore read the key again, so a rotation may come in     *)
(* between.  Verification changes no state: it is a predicate here, asked  *)
(* of every assertion a holder can present in every state.                 *)
(*                                                                         *)
(* The calls are a global admin's, for whom the domain check passes; the   *)
(* enforcer's decision is free (StateEnforcer and ApiServer model it).     *)
(***************************************************************************)
EXTENDS Keystore, Integers

CONSTANTS
  Signer,     \* the handlers that may sign at the same time
  Claims,     \* claims an assertion may make
  Payload,    \* other messages to sign
  Ttl,        \* ttl_secs a client may ask for
  Width,      \* bits of an integer: 64 in the code
  MaxTime,    \* bound: the clock
  MaxSigned   \* bound: signatures made

\* The second conjunct is arithmetic, stated for the proofs: the provers have no
\* rule for powers.
ASSUME AssertionsConstants ==
  /\ Width \in Nat \ {0}
  /\ 2 ^ Width \in Nat \ {0} /\ 2 ^ (Width - 1) \in Nat
  /\ Ttl \subseteq 0 .. (2 ^ Width - 1)
  /\ MaxTime \in 0 .. (2 ^ (Width - 1) - 1)
  /\ MaxSigned \in Nat

VARIABLES
  now,     \* Utc::now()
  task,    \* per signer: the message it is to have signed
  signed,  \* history: every SignedPayload the keystore returned
  issued   \* history: the assertions handed out

signing == <<now, task, signed, issued>>
assertionVars == <<vars, signing>>

\* x as i64: the cast of ttl_secs and the sum both wrap.
AsI64(x) == ((x + 2 ^ (Width - 1)) % 2 ^ Width) - 2 ^ (Width - 1)

\* build_unsigned.  Version, suite and the random assertion id are left out.
build_unsigned(k, version, claims, ttl) ==
  [signing_key_id |-> k, signing_key_version |-> version, public_claims |-> claims,
   issued_at |-> now, expires_at |-> AsI64(now + AsI64(ttl))]

\* Mutant: the expiry is not signed.
WithoutExpiry(a) ==
  <<a.signing_key_id, a.signing_key_version, a.public_claims, a.issued_at>>
\* Every field but the signature.
canonical_signing_input(a) ==
  <<a.signing_key_id, a.signing_key_version, a.public_claims, a.issued_at, a.expires_at>>

NoTask == [stage |-> "idle"]

AssertionInit ==
  /\ Init
  /\ now = 0
  /\ task = [s \in Signer |-> NoTask]
  /\ signed = {}
  /\ issued = {}

-----------------------------------------------------------------------------
(* Signing                                                                  *)

Takes(s, t) ==
  /\ task[s] = NoTask
  /\ task' = [task EXCEPT ![s] = t]
  /\ UNCHANGED <<vars, now, signed, issued>>

\* sign_data, as far as the enforcer.
sign_data(s, k, payload) ==
  Takes(s, [stage |-> "payload", key |-> k, message |-> payload])

\* issue_assertion, as far as the enforcer: the version named is the one current now.
issue_assertion(s, k, claims, ttl) ==
  /\ Readable(k)
  /\ store[k].type = "Signing"
  /\ LET a == build_unsigned(k, store[k].current, claims, ttl)
     IN  Takes(s, [stage |-> "assertion", key |-> k, message |-> canonical_signing_input(a),
                   assertion |-> a, ttl |-> ttl])

\* sign_message takes a seed of 32 bytes, which the secret of a KEM key is not.
SeedFits(v) == v.kind = "dsa"

\* sign: the key is read again, and must be an Active signing key that unwraps.
CanSign(k) ==
  /\ Readable(k)
  /\ store[k].type = "Signing"
  /\ store[k].state = "Active"
  /\ store[k].current \in DOMAIN store[k].versions
  /\ Opens(k, store[k].current, FALSE)
  /\ SeedFits(Current(store[k]))

\* SignedPayload
SignedPayload(k, message) ==
  [key_id |-> k, key_version |-> store[k].current,
   signature |-> [key |-> k, pk |-> Current(store[k]).pk, message |-> message]]

\* sign_authorized; issue_assertion then attaches the signature.
sign_authorized(s) ==
  /\ task[s] # NoTask
  /\ Cardinality(signed) < MaxSigned
  /\ CanSign(task[s].key)
  /\ LET payload == SignedPayload(task[s].key, task[s].message)
     IN  /\ signed' = signed \cup {payload}
         /\ issued' = IF task[s].stage = "payload" THEN issued
                      ELSE issued \cup {[assertion |-> task[s].assertion, ttl |-> task[s].ttl,
                                         signature |-> payload.signature]}
  /\ task' = [task EXCEPT ![s] = NoTask]
  /\ UNCHANGED <<vars, now>>

\* The enforcer denies, or the keystore does.
SignDenied(s) ==
  /\ task[s] # NoTask
  /\ task' = [task EXCEPT ![s] = NoTask]
  /\ UNCHANGED <<vars, now, signed, issued>>

Tick ==
  /\ now < MaxTime
  /\ now' = now + 1
  /\ UNCHANGED <<vars, task, signed, issued>>

KeystoreStep ==
  /\ \E p \in Proc : \/ \E r \in Requests : Begin(p, r)
                     \/ Continue(p)
                     \/ Fault(p)
  /\ UNCHANGED signing

ServerCrash ==
  /\ Crash
  /\ task' = [s \in Signer |-> NoTask]
  /\ UNCHANGED <<now, signed, issued>>

SigningKeys == {r.key : r \in {q \in Provisioned : q.type = "Signing"}}

AssertionNext ==
  \/ \E s \in Signer, k \in SigningKeys :
       \/ \E payload \in Payload : sign_data(s, k, payload)
       \/ \E claims \in Claims, ttl \in Ttl : issue_assertion(s, k, claims, ttl)
  \/ \E s \in Signer : sign_authorized(s) \/ SignDenied(s)
  \/ Tick
  \/ KeystoreStep
  \/ ServerCrash

AssertionSpec == AssertionInit /\ [][AssertionNext]_assertionVars

-----------------------------------------------------------------------------
(* Verification                                                             *)

\* verify_message: a verifying key of 1952 bytes, and a signature of this very
\* message made with its secret.
verify_message(k, v, message, signature) ==
  v.kind = "dsa" /\ signature = [key |-> k, pk |-> v.pk, message |-> message]

\* Mutant: the version in force.
CurrentVersion(k, payload) == Current(store[k])
\* The version the signature names.
NamedVersion(k, payload) == store[k].versions[payload.key_version]

\* A global admin reads every key that is there.
lookup_readable_key_or_deny(k) == Readable(k)

\* Keystore::verify_signature.
verify_signature(k, message, payload) ==
  /\ Readable(k)
  /\ store[k].type = "Signing"
  /\ store[k].state \in CanDecrypt
  /\ payload.key_version \in DOMAIN store[k].versions
  /\ LET v == NamedVersion(k, payload)
     IN  v.pk # 0 /\ verify_message(k, v, message, payload.signature)

\* POST /api/verify
verify_signature_handler(k, message, payload) ==
  lookup_readable_key_or_deny(k) /\ verify_signature(k, message, payload)

\* CitadelAssertion::verify, with a verifying key.
verify(a, k, v, signature) ==
  /\ a.expires_at > now
  /\ verify_message(k, v, canonical_signing_input(a), signature)

\* GET /api/keys/:id/verifying-key: the current version's, whatever the key's
\* state, until it is destroyed.
HasVerifyingKey(k) ==
  /\ lookup_readable_key_or_deny(k)
  /\ store[k].current \in DOMAIN store[k].versions
  /\ Current(store[k]).pk # 0

\* POST /api/assertions/verify
verify_assertion(k, a, signature) ==
  HasVerifyingKey(k) /\ verify(a, k, Current(store[k]), signature)

-----------------------------------------------------------------------------
(* Properties                                                               *)

\* What a holder of assertion a may present: the assertion, or one with a field changed.
Presented(a) ==
  {a} \cup {[a EXCEPT !.expires_at = t] : t \in 0 .. (2 ^ (Width - 1) - 1)}
      \cup {[a EXCEPT !.public_claims = c] : c \in Claims}
      \cup {[a EXCEPT !.signing_key_version = v] : v \in 0 .. MaxMint}

\* An assertion names the key version that signed it: issue_assertion writes the
\* version it read before it asked the enforcer, and sign reads the key again.
NamesItsSigner ==
  \A i \in issued :
    LET k == i.assertion.signing_key_id
        v == i.assertion.signing_key_version
    IN  Readable(k) /\ store[k].state # "Destroyed" =>
          v \in DOMAIN store[k].versions /\ store[k].versions[v].pk = i.signature.pk

\* A signature made stays verifiable at /api/verify as long as the key is Active
\* or Rotated, whatever was rotated, rewrapped or lost in a crash since.
SignaturesVerify ==
  \A p \in signed :
    Readable(p.key_id) /\ store[p.key_id].state \in CanDecrypt =>
      verify_signature_handler(p.key_id, p.signature.message, p)

\* What /api/assertions/verify calls valid is an assertion exactly as it was issued,
\* by the key asked about, and the time asked for at its issue has not passed, also
\* when the sum of clock and ttl_secs wraps around.
AcceptedAsIssued ==
  \A k \in SigningKeys, i \in issued : \A a \in Presented(i.assertion) :
    verify_assertion(k, a, i.signature) =>
      /\ a = i.assertion
      /\ a.signing_key_id = k
      /\ now < a.issued_at + i.ttl
=============================================================================
