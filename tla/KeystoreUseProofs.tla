-------------------------- MODULE KeystoreUseProofs -------------------------
(***************************************************************************)
(* Proofs about what works through the keystore: the signer's assertions   *)
(* and the operator's command line.                                        *)
(*                                                                         *)
(* Assertions, for any keys, signers, claims, lifetimes and integer width. *)
(* Which assertions verification accepts is a matter of what was signed    *)
(* and holds however calls overlap.  That a signature stays verifiable     *)
(* under the version it names needs calls that do not overlap, as in       *)
(* KeystoreProofs: a stale put can bring back a record without the version *)
(* that signed.                                                            *)
(*                                                                         *)
(* Maintenance, for any keys, commands and calls, which may overlap: a     *)
(* restore recovers what its backup could read, and a migration that       *)
(* reports success has left nothing to do.  A clean report of the doctor   *)
(* is right as long as no two processes work on the same key at once.      *)
(***************************************************************************)
EXTENDS Assertions, Maintenance, KeystoreProofs

\* To the keystore a signing step is a stutter, and a crash a crash.
LEMMA KeystoreFollows == [AssertionNext]_assertionVars => [Next]_vars
<1> SUFFICES ASSUME [AssertionNext]_assertionVars PROVE [Next]_vars
  OBVIOUS
<1>1. CASE KeystoreStep
  BY <1>1 DEF KeystoreStep, Next
<1>2. CASE ServerCrash
  BY <1>2 DEF ServerCrash, Next
<1>3. CASE UNCHANGED assertionVars
  BY <1>3 DEF assertionVars
<1>4. CASE \/ \E s \in Signer, k \in SigningKeys :
                \/ \E payload \in Payload : sign_data(s, k, payload)
                \/ \E claims \in Claims, ttl \in Ttl : issue_assertion(s, k, claims, ttl)
           \/ \E s \in Signer : sign_authorized(s) \/ SignDenied(s)
           \/ Tick
  BY <1>4 DEF sign_data, issue_assertion, Takes, sign_authorized, SignDenied, Tick
<1> QED BY <1>1, <1>2, <1>3, <1>4 DEF AssertionNext

-----------------------------------------------------------------------------
(* What verification accepts.                                               *)

Assertion == [signing_key_id : SigningKeys, signing_key_version : Nat,
              public_claims : Claims, issued_at : 0 .. MaxTime, expires_at : Int]

\* The expiry is what build_unsigned computed at the issue.
Dated(a, ttl) == ttl \in Ttl /\ a.expires_at = AsI64(a.issued_at + AsI64(ttl))

PayloadTask == [stage : {"payload"}, key : SigningKeys, message : Payload]

AssertionTask(t) ==
  /\ t = [stage |-> "assertion", key |-> t.assertion.signing_key_id,
          message |-> canonical_signing_input(t.assertion),
          assertion |-> t.assertion, ttl |-> t.ttl]
  /\ t.assertion \in Assertion
  /\ Dated(t.assertion, t.ttl)

IssuedAsSigned(i) ==
  /\ i.assertion \in Assertion
  /\ Dated(i.assertion, i.ttl)
  /\ i.signature.key = i.assertion.signing_key_id
  /\ i.signature.message = canonical_signing_input(i.assertion)

IssueInv ==
  /\ now \in 0 .. MaxTime
  /\ DOMAIN task = Signer
  /\ \A s \in Signer : task[s] = NoTask \/ task[s] \in PayloadTask \/ AssertionTask(task[s])
  /\ \A i \in issued : IssuedAsSigned(i)

LEMMA SigningKeyIds == SigningKeys \subseteq KeyId
  BY KeystoreConstants DEF SigningKeys, Request

\* The cast never takes a number further into the future.
LEMMA CastIsNoLater ==
  ASSUME NEW x \in Int, x >= - (2 ^ (Width - 1))
  PROVE  AsI64(x) \in Int /\ AsI64(x) <= x /\ AsI64(x) >= - (2 ^ (Width - 1))
<1> DEFINE half == 2 ^ (Width - 1)
           all == 2 ^ Width
<1>1. half \in Nat /\ all \in Nat \ {0}
  BY AssertionsConstants
<1>2. AsI64(x) = ((x + half) % all) - half
  BY DEF AsI64
<1> HIDE DEF half, all
<1>3. x + half \in Nat
  BY <1>1 DEF half
<1>4. ASSUME NEW n \in Nat, NEW m \in Nat \ {0} PROVE n % m \in Nat /\ n % m <= n
  BY <1>4, SMT
<1>5. (x + half) % all \in Nat /\ (x + half) % all <= x + half
  BY <1>1, <1>3, <1>4
<1>6. AsI64(x) \in Int /\ AsI64(x) <= x /\ AsI64(x) >= - half
  BY <1>1, <1>2, <1>5
<1> QED BY <1>6 DEF half

LEMMA ExpiryIsNoLater ==
  ASSUME NEW t \in 0 .. MaxTime, NEW ttl \in Ttl
  PROVE  /\ AsI64(t + AsI64(ttl)) \in Int
         /\ AsI64(t + AsI64(ttl)) <= t + ttl
<1>1. t \in Nat /\ 2 ^ (Width - 1) \in Nat
  BY AssertionsConstants
<1>2. ttl \in Nat
  BY AssertionsConstants
<1>3. AsI64(ttl) \in Int /\ AsI64(ttl) <= ttl /\ AsI64(ttl) >= - (2 ^ (Width - 1))
  BY <1>1, <1>2, CastIsNoLater
<1>4. t + AsI64(ttl) \in Int /\ t + AsI64(ttl) >= - (2 ^ (Width - 1))
  BY <1>1, <1>3
<1>5. AsI64(t + AsI64(ttl)) \in Int /\ AsI64(t + AsI64(ttl)) <= t + AsI64(ttl)
  BY <1>4, CastIsNoLater
<1> QED BY <1>1, <1>2, <1>3, <1>5

\* Read is all a task needs of the keystore: the key it names and its version.
LEMMA IssueStep == StructInv /\ IssueInv /\ [AssertionNext]_assertionVars => IssueInv'
<1> SUFFICES ASSUME StructInv, IssueInv, [AssertionNext]_assertionVars PROVE IssueInv'
  OBVIOUS
<1> USE DEF signing
\* What is left to show when a signer's task is replaced and nothing is issued.
<1>1. ASSUME NEW s \in Signer, NEW t, task' = [task EXCEPT ![s] = t],
             t = NoTask \/ t \in PayloadTask \/ AssertionTask(t),
             UNCHANGED <<now, issued>>
      PROVE  IssueInv'
  <2>1. DOMAIN task' = Signer /\ task'[s] = t /\ \A u \in Signer : u # s => task'[u] = task[u]
    BY <1>1 DEF IssueInv
  <2>2. \A u \in Signer : task'[u] = NoTask \/ task'[u] \in PayloadTask \/ AssertionTask(task'[u])
    BY <1>1, <2>1 DEF IssueInv
  <2> QED BY <1>1, <2>1, <2>2 DEF IssueInv
<1>2. ASSUME NEW s \in Signer, NEW k \in SigningKeys, NEW payload \in Payload,
             sign_data(s, k, payload)
      PROVE  IssueInv'
  <2>1. [stage |-> "payload", key |-> k, message |-> payload] \in PayloadTask
    BY DEF PayloadTask
  <2> QED BY <1>1, <1>2, <2>1 DEF sign_data, Takes
<1>3. ASSUME NEW s \in Signer, NEW k \in SigningKeys, NEW claims \in Claims, NEW ttl \in Ttl,
             issue_assertion(s, k, claims, ttl)
      PROVE  IssueInv'
  <2> DEFINE a == build_unsigned(k, store[k].current, claims, ttl)
             t == [stage |-> "assertion", key |-> k, message |-> canonical_signing_input(a),
                   assertion |-> a, ttl |-> ttl]
  <2>1. task' = [task EXCEPT ![s] = t] /\ UNCHANGED <<now, issued>>
    BY <1>3 DEF issue_assertion, Takes
  <2>2. store[k].current \in Nat
    BY SigningKeyIds DEF StructInv, TypeOK, Meta
  <2>3. now \in 0 .. MaxTime
    BY DEF IssueInv
  <2>4. AsI64(now + AsI64(ttl)) \in Int
    BY <2>3, ExpiryIsNoLater
  <2>5. a \in Assertion /\ a.signing_key_id = k /\ Dated(a, ttl)
    BY <2>2, <2>3, <2>4 DEF build_unsigned, Assertion, Dated
  <2> HIDE DEF a
  <2>6. AssertionTask(t)
    BY <2>5 DEF AssertionTask
  <2> HIDE DEF t
  <2> QED BY <1>1, <2>1, <2>6
<1>4. ASSUME NEW s \in Signer, SignDenied(s) PROVE IssueInv'
  BY <1>1, <1>4 DEF SignDenied
<1>5. ASSUME NEW s \in Signer, sign_authorized(s) PROVE IssueInv'
  <2> DEFINE p == SignedPayload(task[s].key, task[s].message)
             i == [assertion |-> task[s].assertion, ttl |-> task[s].ttl,
                   signature |-> p.signature]
  <2>1. /\ task[s] # NoTask
        /\ issued' = IF task[s].stage = "payload" THEN issued ELSE issued \cup {i}
        /\ task' = [task EXCEPT ![s] = NoTask] /\ UNCHANGED now
    BY <1>5 DEF sign_authorized
  <2>2. ASSUME task[s].stage # "payload" PROVE IssuedAsSigned(i)
    <3>1. AssertionTask(task[s])
      BY <2>1, <2>2 DEF IssueInv, PayloadTask
    <3>2. /\ task[s].key = task[s].assertion.signing_key_id
          /\ task[s].message = canonical_signing_input(task[s].assertion)
      BY <3>1 DEF AssertionTask
    <3>3. p.signature.key = task[s].key /\ p.signature.message = task[s].message
      BY DEF SignedPayload
    <3> HIDE DEF p
    <3> QED BY <3>1, <3>2, <3>3 DEF IssuedAsSigned, AssertionTask
  <2>3. \A j \in issued' : IssuedAsSigned(j)
    <3> HIDE DEF i
    <3> QED BY <2>1, <2>2 DEF IssueInv
  <2>4. DOMAIN task' = Signer /\ task'[s] = NoTask /\ \A u \in Signer : u # s => task'[u] = task[u]
    BY <2>1 DEF IssueInv
  <2>5. \A u \in Signer : task'[u] = NoTask \/ task'[u] \in PayloadTask \/ AssertionTask(task'[u])
    BY <2>4 DEF IssueInv
  <2> QED BY <2>1, <2>3, <2>4, <2>5 DEF IssueInv
<1>6. CASE Tick
  <2>1. now' \in 0 .. MaxTime /\ UNCHANGED <<task, issued>>
    BY <1>6, AssertionsConstants DEF Tick, IssueInv
  <2> QED BY <2>1 DEF IssueInv
<1>7. CASE KeystoreStep \/ UNCHANGED assertionVars
  <2>1. UNCHANGED <<now, task, issued>>
    BY <1>7 DEF KeystoreStep, assertionVars
  <2> QED BY <2>1 DEF IssueInv
<1>8. CASE ServerCrash
  BY <1>8 DEF ServerCrash, IssueInv
<1> QED BY <1>2, <1>3, <1>4, <1>5, <1>6, <1>7, <1>8 DEF AssertionNext

\* The signature covers every field, so only the assertion that was signed verifies,
\* and the expiry it carries is no later than the issue and ttl_secs make it.
LEMMA OnlyIssuedAccepted == IssueInv => AcceptedAsIssued
<1> SUFFICES ASSUME IssueInv, NEW k \in SigningKeys, NEW i \in issued,
                    NEW a \in Presented(i.assertion), verify_assertion(k, a, i.signature)
             PROVE  /\ a = i.assertion
                    /\ a.signing_key_id = k
                    /\ now < a.issued_at + i.ttl
  BY DEF AcceptedAsIssued
<1>1. /\ i.assertion \in Assertion /\ Dated(i.assertion, i.ttl)
      /\ i.signature.key = i.assertion.signing_key_id
      /\ i.signature.message = canonical_signing_input(i.assertion)
  BY DEF IssueInv, IssuedAsSigned
<1>2. /\ i.signature.key = k /\ i.signature.message = canonical_signing_input(a)
      /\ a.expires_at > now
  BY DEF verify_assertion, verify, verify_message
<1>3. canonical_signing_input(a) = canonical_signing_input(i.assertion)
  BY <1>1, <1>2
<1>4. /\ a.signing_key_version = i.assertion.signing_key_version
      /\ a.public_claims = i.assertion.public_claims
      /\ a.expires_at = i.assertion.expires_at
      /\ a.signing_key_id = i.assertion.signing_key_id
      /\ a.issued_at = i.assertion.issued_at
  BY <1>3 DEF canonical_signing_input
<1>5. a = i.assertion
  <2>1. CASE a = i.assertion
    BY <2>1
  <2>2. CASE \E t : a = [i.assertion EXCEPT !.expires_at = t]
    BY <1>1, <1>4, <2>2 DEF Assertion
  <2>3. CASE \E c : a = [i.assertion EXCEPT !.public_claims = c]
    BY <1>1, <1>4, <2>3 DEF Assertion
  <2>4. CASE \E v : a = [i.assertion EXCEPT !.signing_key_version = v]
    BY <1>1, <1>4, <2>4 DEF Assertion
  <2> QED BY <2>1, <2>2, <2>3, <2>4 DEF Presented
<1>6. /\ a.issued_at \in 0 .. MaxTime /\ i.ttl \in Ttl /\ now \in 0 .. MaxTime
      /\ a.expires_at = AsI64(a.issued_at + AsI64(i.ttl))
  BY <1>1, <1>5 DEF Dated, Assertion, IssueInv
<1>7. a.expires_at \in Int /\ a.expires_at <= a.issued_at + i.ttl
  BY <1>6, ExpiryIsNoLater
<1>8. i.ttl \in Nat /\ a.issued_at \in Nat /\ now \in Nat
  <2>1. \A t \in Ttl : t \in Nat
    BY AssertionsConstants
  <2>2. a.issued_at \in Nat /\ now \in Nat
    BY <1>6
  <2> QED BY <1>6, <2>1, <2>2
<1>9. now < a.issued_at + i.ttl
  BY <1>2, <1>7, <1>8
<1> QED BY <1>1, <1>2, <1>5, <1>9

LEMMA IssueInit == AssertionInit => StructInv /\ IssueInv
<1> SUFFICES ASSUME AssertionInit PROVE StructInv /\ IssueInv
  OBVIOUS
<1>1. StructInv
  BY InitStruct DEF AssertionInit
<1>2. now \in 0 .. MaxTime
  BY AssertionsConstants DEF AssertionInit
<1> QED BY <1>1, <1>2 DEF AssertionInit, IssueInv

(* What /api/assertions/verify calls valid is an assertion exactly as it was  *)
(* issued, by the key asked about, within the time asked for at its issue,    *)
(* whatever calls overlap and whatever integer width the sum wraps at.        *)
THEOREM AssertionsAcceptedAsIssued == AssertionSpec => []AcceptedAsIssued
<1>1. StructInv /\ IssueInv /\ [AssertionNext]_assertionVars => StructInv' /\ IssueInv'
  BY KeystoreFollows, NextStruct, IssueStep
<1> QED BY <1>1, IssueInit, OnlyIssuedAccepted, PTL DEF AssertionSpec


-----------------------------------------------------------------------------
(* Signatures stay verifiable when calls do not overlap.                    *)

\* Key k is stored, and until it is destroyed its version v holds keypair pk.
Holds(k, v, pk) ==
  /\ k \in KeyId
  /\ file[k] # "absent"
  /\ store[k].type = "Signing"
  /\ store[k].state # "Destroyed" =>
       /\ v \in DOMAIN store[k].versions
       /\ store[k].versions[v].pk = pk

\* The version is a signing keypair.
Signs(k, v) ==
  store[k].state # "Destroyed" => store[k].versions[v].kind = "dsa"

SignatureKept(p) ==
  /\ p.signature = [key |-> p.key_id, pk |-> p.signature.pk, message |-> p.signature.message]
  /\ Holds(p.key_id, p.key_version, p.signature.pk)
  /\ Signs(p.key_id, p.key_version)

\* The version a waiting issue_assertion wrote down is still one of the key's.
TaskNames(t) ==
  t # NoTask /\ t.stage = "assertion" =>
    /\ t.key = t.assertion.signing_key_id
    /\ \E pk : Holds(t.key, t.assertion.signing_key_version, pk)

SignerInv ==
  /\ DOMAIN task = Signer
  /\ \A s \in Signer :
       task[s] = NoTask \/ (task[s].stage \in {"payload", "assertion"} /\ task[s].key \in KeyId)
  /\ \A s \in Signer : TaskNames(task[s])
  /\ \A p \in signed : SignatureKept(p)
  /\ \A i \in issued :
       Holds(i.assertion.signing_key_id, i.assertion.signing_key_version, i.signature.pk)

\* What the engine keeps, a step keeps.
LEMMA HoldsStays ==
  ASSUME KeepsIdentity, Follows, NEW k, NEW v, NEW pk, Holds(k, v, pk)
  PROVE  Holds(k, v, pk)' /\ (Signs(k, v) => Signs(k, v)')
<1>1. k \in KeyId /\ file[k] # "absent" /\ store[k].type = "Signing"
  BY DEF Holds
<1>2. file'[k] # "absent" /\ store'[k].type = "Signing"
  BY <1>1 DEF KeepsIdentity
<1>3. ASSUME store'[k].state # "Destroyed"
      PROVE  /\ store[k].state # "Destroyed"
             /\ v \in DOMAIN store'[k].versions
             /\ store'[k].versions[v].pk = pk
             /\ store'[k].versions[v].kind = store[k].versions[v].kind
  <2>1. store[k].state # "Destroyed"
    BY <1>1, <1>3 DEF Follows, FollowsLifecycle, LifecycleEdge, CanTransition, ValidTransitions
  <2>2. v \in DOMAIN store[k].versions /\ store[k].versions[v].pk = pk
    BY <2>1 DEF Holds
  <2>3. KeepsKeypairs(store[k], store'[k])
    BY <1>1 DEF Follows, KeypairsKept
  <2> QED BY <1>3, <2>1, <2>2, <2>3 DEF KeepsKeypairs
<1> QED BY <1>1, <1>2, <1>3 DEF Holds, Signs

\* A keystore step keeps what signatures, assertions and waiting tasks rest on.
LEMMA SignerUnmoved ==
  ASSUME SignerInv, KeepsIdentity, Follows
  PROVE  /\ \A p \in signed : SignatureKept(p)'
         /\ \A i \in issued : Holds(i.assertion.signing_key_id,
                                    i.assertion.signing_key_version, i.signature.pk)'
         /\ \A t : TaskNames(t) => TaskNames(t)'
<1>1. ASSUME NEW p \in signed PROVE SignatureKept(p)'
  BY HoldsStays DEF SignerInv, SignatureKept
<1>2. ASSUME NEW i \in issued
      PROVE  Holds(i.assertion.signing_key_id, i.assertion.signing_key_version, i.signature.pk)'
  BY HoldsStays DEF SignerInv
<1>3. ASSUME NEW t, TaskNames(t) PROVE TaskNames(t)'
  BY <1>3, HoldsStays DEF TaskNames
<1> QED BY <1>1, <1>2, <1>3

\* A key that can sign has one version, the first: a rotation leaves the current
\* version without a signing keypair.
LEMMA SignsFirst ==
  ASSUME StructInv, SerialInv, NEW k \in KeyId, CanSign(k)
  PROVE  /\ Holds(k, store[k].current, Current(store[k]).pk) /\ Signs(k, store[k].current)
         /\ DOMAIN store[k].versions = {1} /\ store[k].current = 1
<1>1. /\ file[k] = "json" /\ store[k].type = "Signing" /\ store[k].state = "Active"
      /\ store[k].current \in DOMAIN store[k].versions
      /\ store[k].versions[store[k].current].kind = "dsa"
  BY DEF CanSign, Readable, SeedFits, Current
<1>2. store[k].current = Len(store[k].versions) /\ store[k].versions \in Seq(Version)
  BY <1>1 DEF StructInv, RecordsWellFormed, WellFormed, TypeOK, Meta
<1>3. store[k].current = 1
  BY <1>1 DEF SerialInv, StoreIntact, VersionsIntact
<1>4. DOMAIN store[k].versions = {1}
  <2>1. DOMAIN store[k].versions = 1 .. Len(store[k].versions)
    BY <1>2
  <2>2. 1 .. 1 = {1}
    OBVIOUS
  <2> QED BY <1>2, <1>3, <2>1, <2>2
<1> QED BY <1>1, <1>3, <1>4 DEF Holds, Signs, Current

LEMMA SignerStep ==
  ASSUME OneCaller
  PROVE  StructInv /\ SerialInv /\ SignerInv /\ [AssertionNext]_assertionVars => SignerInv'
<1> SUFFICES ASSUME StructInv, SerialInv, SignerInv, [AssertionNext]_assertionVars
             PROVE  SignerInv'
  OBVIOUS
<1> USE DEF signing
<1>1. Follows /\ KeepsIdentity
  BY KeystoreFollows, NextSerial, NextStruct
<1>2. /\ \A p \in signed : SignatureKept(p)'
      /\ \A i \in issued : Holds(i.assertion.signing_key_id,
                                 i.assertion.signing_key_version, i.signature.pk)'
      /\ \A t : TaskNames(t) => TaskNames(t)'
  BY <1>1, SignerUnmoved
\* It is enough to look at the task that changed and at what was newly signed.
<1>3. ASSUME NEW s \in Signer, NEW t, task' = [task EXCEPT ![s] = t],
             t = NoTask \/ (t.stage \in {"payload", "assertion"} /\ t.key \in KeyId),
             TaskNames(t),
             \A p \in signed' : p \in signed \/ SignatureKept(p)',
             \A i \in issued' : i \in issued
               \/ Holds(i.assertion.signing_key_id, i.assertion.signing_key_version,
                        i.signature.pk)'
      PROVE  SignerInv'
  <2>1. DOMAIN task' = Signer /\ task'[s] = t /\ \A u \in Signer : u # s => task'[u] = task[u]
    BY <1>3 DEF SignerInv
  <2>2. \A u \in Signer : TaskNames(task[u])'
    <3> SUFFICES ASSUME NEW u \in Signer PROVE TaskNames(task[u])'
      OBVIOUS
    <3>1. PICK x : x = task'[u]
      OBVIOUS
    <3>2. TaskNames(x)
      BY <1>3, <2>1, <3>1 DEF SignerInv
    <3>3. TaskNames(x)'
      BY <1>2, <3>2
    <3> QED BY <3>1, <3>3 DEF TaskNames, Holds
  <2>3. \A u \in Signer : task'[u] = NoTask
          \/ (task'[u].stage \in {"payload", "assertion"} /\ task'[u].key \in KeyId)
    BY <1>3, <2>1 DEF SignerInv
  <2>4. \A p \in signed' : SignatureKept(p)'
    BY <1>2, <1>3
  <2>5. \A i \in issued' : Holds(i.assertion.signing_key_id,
                                 i.assertion.signing_key_version, i.signature.pk)'
    BY <1>2, <1>3
  <2> QED BY <2>1, <2>2, <2>3, <2>4, <2>5 DEF SignerInv
<1>4. ASSUME NEW s \in Signer, NEW k \in SigningKeys, NEW payload \in Payload,
             sign_data(s, k, payload)
      PROVE  SignerInv'
  <2> DEFINE t == [stage |-> "payload", key |-> k, message |-> payload]
  <2>1. task' = [task EXCEPT ![s] = t] /\ UNCHANGED <<signed, issued>>
    BY <1>4 DEF sign_data, Takes
  <2>2. t.stage = "payload" /\ t.key = k /\ k \in KeyId
    BY SigningKeyIds
  <2>3. TaskNames(t)
    BY <2>2 DEF TaskNames
  <2> HIDE DEF t
  <2> QED BY <1>3, <2>1, <2>2, <2>3
<1>5. ASSUME NEW s \in Signer, NEW k \in SigningKeys, NEW claims \in Claims, NEW ttl \in Ttl,
             issue_assertion(s, k, claims, ttl)
      PROVE  SignerInv'
  <2> DEFINE a == build_unsigned(k, store[k].current, claims, ttl)
             t == [stage |-> "assertion", key |-> k, message |-> canonical_signing_input(a),
                   assertion |-> a, ttl |-> ttl]
  <2>1. /\ task' = [task EXCEPT ![s] = t] /\ UNCHANGED <<signed, issued>>
        /\ file[k] = "json" /\ store[k].type = "Signing"
    BY <1>5 DEF issue_assertion, Takes, Readable
  <2>2. /\ t.stage = "assertion" /\ t.key = k /\ k \in KeyId
        /\ t.assertion.signing_key_id = k
        /\ t.assertion.signing_key_version = store[k].current
    BY SigningKeyIds DEF build_unsigned
  <2> HIDE DEF t
  <2>3. store[k].current \in DOMAIN store[k].versions
    <3>1. /\ store[k].versions \in Seq(Version) /\ store[k].current = Len(store[k].versions)
          /\ store[k].current \in Nat /\ store[k].current > 0
      BY <2>1, <2>2 DEF StructInv, RecordsWellFormed, WellFormed, TypeOK, Meta
    <3> QED BY <3>1
  <2>4. Holds(k, store[k].current, store[k].versions[store[k].current].pk)
    BY <2>1, <2>2, <2>3 DEF Holds
  <2>5. TaskNames(t)
    BY <2>2, <2>4 DEF TaskNames
  <2> QED BY <1>3, <2>1, <2>2, <2>5
<1>6. ASSUME NEW s \in Signer, SignDenied(s) PROVE SignerInv'
  <2>1. TaskNames(NoTask)
    BY DEF TaskNames
  <2> QED BY <1>3, <1>6, <2>1 DEF SignDenied
<1>7. ASSUME NEW s \in Signer, sign_authorized(s) PROVE SignerInv'
  <2>1. PICK k, message : k = task[s].key /\ message = task[s].message
    OBVIOUS
  <2>2. PICK p : p = SignedPayload(k, message)
    OBVIOUS
  <2>3. PICK i : i = [assertion |-> task[s].assertion, ttl |-> task[s].ttl,
                      signature |-> p.signature]
    OBVIOUS
  <2>4. /\ task[s] # NoTask /\ CanSign(k)
        /\ signed' = signed \cup {p}
        /\ issued' = IF task[s].stage = "payload" THEN issued ELSE issued \cup {i}
        /\ task' = [task EXCEPT ![s] = NoTask]
    BY <1>7, <2>1, <2>2, <2>3 DEF sign_authorized
  <2>5. k \in KeyId /\ task[s].stage \in {"payload", "assertion"}
    BY <2>1, <2>4 DEF SignerInv
  <2>6. PICK v, pk : v = store[k].current /\ pk = Current(store[k]).pk
    OBVIOUS
  <2>7. /\ Holds(k, v, pk) /\ Signs(k, v)
        /\ DOMAIN store[k].versions = {1} /\ v = 1
    BY <2>4, <2>5, <2>6, SignsFirst
  <2>8. /\ p.key_id = k /\ p.key_version = v
        /\ p.signature = [key |-> k, pk |-> pk, message |-> message]
        /\ p.signature.pk = pk /\ p.signature.message = message
    BY <2>2, <2>6 DEF SignedPayload
  <2>9. SignatureKept(p)'
    <3>1. Holds(k, v, pk)' /\ Signs(k, v)'
      BY <1>1, <2>7, HoldsStays
    <3> QED BY <2>8, <3>1 DEF SignatureKept
  <2>10. ASSUME task[s].stage = "assertion"
         PROVE  Holds(i.assertion.signing_key_id, i.assertion.signing_key_version,
                      i.signature.pk)'
    <3>1. i.assertion = task[s].assertion /\ i.signature.pk = pk
      BY <2>3, <2>8
    <3>2. /\ task[s].assertion.signing_key_id = k
          /\ \E x : Holds(k, task[s].assertion.signing_key_version, x)
      BY <2>1, <2>4, <2>10 DEF SignerInv, TaskNames
    <3>3. task[s].assertion.signing_key_version = v
      <4>1. store[k].state = "Active"
        BY <2>4 DEF CanSign
      <4>2. task[s].assertion.signing_key_version \in DOMAIN store[k].versions
        BY <3>2, <4>1 DEF Holds
      <4> QED BY <2>7, <4>2
    <3>4. Holds(k, v, pk)'
      BY <1>1, <2>7, HoldsStays
    <3> QED BY <3>1, <3>2, <3>3, <3>4
  <2>11. TaskNames(NoTask)
    BY DEF TaskNames
  <2>12. \A q \in signed' : q \in signed \/ SignatureKept(q)'
    BY <2>4, <2>9
  <2>13. \A j \in issued' : j \in issued
               \/ Holds(j.assertion.signing_key_id, j.assertion.signing_key_version,
                        j.signature.pk)'
    BY <2>4, <2>5, <2>10
  <2> QED BY <1>3, <2>4, <2>11, <2>12, <2>13
<1>8. CASE Tick \/ KeystoreStep \/ UNCHANGED assertionVars
  <2>1. UNCHANGED <<task, signed, issued>>
    BY <1>8 DEF Tick, KeystoreStep, assertionVars
  <2>2. \A u \in Signer : TaskNames(task[u])'
    BY <1>2, <2>1 DEF SignerInv, TaskNames, Holds
  <2> QED BY <1>2, <2>1, <2>2 DEF SignerInv
<1>9. CASE ServerCrash
  <2>1. task' = [s \in Signer |-> NoTask] /\ UNCHANGED <<signed, issued>>
    BY <1>9 DEF ServerCrash
  <2>2. \A u \in Signer : TaskNames(task[u])'
    BY <2>1 DEF TaskNames
  <2> QED BY <1>2, <2>1, <2>2 DEF SignerInv
<1> QED BY <1>4, <1>5, <1>6, <1>7, <1>8, <1>9 DEF AssertionNext

LEMMA SignerInit == AssertionInit => StructInv /\ SerialInv /\ SignerInv
<1> SUFFICES ASSUME AssertionInit PROVE StructInv /\ SerialInv /\ SignerInv
  OBVIOUS
<1>1. StructInv /\ SerialInv
  BY InitStruct, InitSerial DEF AssertionInit
<1>2. SignerInv
  BY DEF AssertionInit, SignerInv, TaskNames
<1> QED BY <1>1, <1>2

(* When calls to the engine do not overlap, an assertion names the version    *)
(* that signed it, although issue_assertion reads the key long before         *)
(* sign_authorized reads it again and a rotation may come in between.         *)
THEOREM AssertionsNameTheirSigner ==
  ASSUME OneCaller
  PROVE  AssertionSpec => []NamesItsSigner
<1>1. StructInv /\ SerialInv /\ SignerInv /\ [AssertionNext]_assertionVars
        => StructInv' /\ SerialInv' /\ SignerInv'
  BY KeystoreFollows, NextStruct, NextSerial, SignerStep
<1>2. SignerInv => NamesItsSigner
  BY DEF SignerInv, NamesItsSigner, Holds
<1> QED BY <1>1, <1>2, SignerInit, PTL DEF AssertionSpec

(* When calls to the engine do not overlap, every signature made verifies at  *)
(* /api/verify for as long as its key is Active or Rotated, whatever was      *)
(* rotated, rewrapped or lost in a crash since.                               *)
THEOREM SignaturesAlwaysVerify ==
  ASSUME OneCaller
  PROVE  AssertionSpec => []SignaturesVerify
<1>1. StructInv /\ SerialInv /\ SignerInv /\ [AssertionNext]_assertionVars
        => StructInv' /\ SerialInv' /\ SignerInv'
  BY KeystoreFollows, NextStruct, NextSerial, SignerStep
<1>2. StructInv /\ SignerInv => SignaturesVerify
  <2> SUFFICES ASSUME StructInv, SignerInv, NEW p \in signed,
                      Readable(p.key_id), store[p.key_id].state \in CanDecrypt
               PROVE  verify_signature_handler(p.key_id, p.signature.message, p)
    BY DEF SignaturesVerify
  <2>1. PICK k, v : k = p.key_id /\ v = p.key_version
    OBVIOUS
  <2>2. /\ p.signature = [key |-> k, pk |-> p.signature.pk, message |-> p.signature.message]
        /\ Holds(k, v, p.signature.pk) /\ Signs(k, v)
    BY <2>1 DEF SignerInv, SignatureKept
  <2>3. store[k].state # "Destroyed" /\ file[k] = "json"
    BY <2>1 DEF CanDecrypt, Readable
  <2>4. /\ k \in KeyId /\ store[k].type = "Signing" /\ v \in DOMAIN store[k].versions
        /\ store[k].versions[v].pk = p.signature.pk /\ store[k].versions[v].kind = "dsa"
    BY <2>2, <2>3 DEF Holds, Signs
  <2>5. store[k].versions[v].pk # 0
    BY <2>3, <2>4 DEF StructInv, RecordsWellFormed, WellFormed
  <2> QED BY <2>1, <2>2, <2>4, <2>5 DEF verify_signature_handler, lookup_readable_key_or_deny,
             verify_signature, NamedVersion, verify_message
<1> QED BY <1>1, <1>2, SignerInit, PTL DEF AssertionSpec

-----------------------------------------------------------------------------
(***************************************************************************)
(* Maintenance.  A command line that restores and loses keys breaks the    *)
(* identities StructInv is about; what survives everything is that records *)
(* and copies of records are typed and well formed.                        *)
(***************************************************************************)
LocalWell(p) ==
  /\ pc[p] # "idle" => req[p] \in Request
  /\ pc[p] = "zero" => file[req[p].key] # "absent"
  /\ pc[p] \in {"zero", "put"} => WellFormed(meta[p])
  /\ pc[p] = "wrap" =>
       /\ meta[p].state # "Destroyed"
       /\ fresh[p].pk # 0
       /\ IF Generating(p) THEN meta[p].versions = <<>> /\ meta[p].current = 0
          ELSE WellFormed(meta[p])
  /\ \A c \in snap[p] : WellFormed(c.meta)

EngineInv ==
  /\ TypeOK
  /\ RecordsWellFormed
  /\ \A p \in Proc : LocalWell(p)

LEMMA WriteWell ==
  ASSUME TypeOK, RecordsWellFormed, NEW k \in KeyId, NEW m \in Meta, Write(k, m), WellFormed(m)
  PROVE  RecordsWellFormed'
<1>1. /\ \A j \in KeyId : j # k => store'[j] = store[j] /\ file'[j] = file[j]
      /\ store'[k] = m /\ file'[k] = "json"
  BY DEF TypeOK, Write
<1> SUFFICES ASSUME NEW j \in KeyId, file'[j] # "absent" PROVE WellFormed(store'[j])
  BY DEF RecordsWellFormed, WellFormed
<1> QED BY <1>1 DEF RecordsWellFormed

\* A record stays well formed under any change of its state within use.
LEMMA RestatedWell ==
  ASSUME NEW m \in Meta, WellFormed(m), m.state # "Destroyed", NEW s \in KeyState \ {"Destroyed"}
  PROVE  [m EXCEPT !.state = s] \in Meta /\ WellFormed([m EXCEPT !.state = s])
BY DEF WellFormed, Meta

LEMMA DestroyedWell ==
  ASSUME NEW m \in Meta, WellFormed(m)
  PROVE  WellFormed([m EXCEPT !.state = "Destroyed",
                              !.versions = [i \in DOMAIN m.versions |-> Purged(m.versions[i])]])
<1> DEFINE n == [m EXCEPT !.state = "Destroyed",
                          !.versions = [i \in DOMAIN m.versions |-> Purged(m.versions[i])]]
<1>1. n \in Meta
  BY PurgedType
<1>2. /\ n.state = "Destroyed" /\ n.current = m.current
      /\ n.versions = [i \in DOMAIN m.versions |-> Purged(m.versions[i])]
  BY DEF Meta
<1> HIDE DEF n
<1>3. \A i \in DOMAIN n.versions : n.versions[i].sk = "Destroyed" /\ n.versions[i].pk = 0
  <2>1. ASSUME NEW v \in Version PROVE Purged(v).sk = "Destroyed" /\ Purged(v).pk = 0
    BY DEF Purged, Version
  <2>2. \A i \in DOMAIN m.versions : m.versions[i] \in Version
    BY DEF Meta
  <2> QED BY <1>2, <2>1, <2>2
<1>4. Len(n.versions) = Len(m.versions)
  <2>1. m.versions \in Seq(Version) /\ n.versions \in Seq(Version)
    BY <1>1 DEF Meta
  <2>2. DOMAIN n.versions = DOMAIN m.versions
    BY <1>2
  <2>3. 1 .. Len(n.versions) = 1 .. Len(m.versions)
    BY <2>1, <2>2
  <2> QED BY <2>1, <2>3
<1>5. WellFormed(n)
  BY <1>2, <1>3, <1>4 DEF WellFormed
<1> QED BY <1>5 DEF n

\* wrap_secret_key_for completes a well-formed record.
LEMMA InstalledWell ==
  ASSUME EngineInv, NEW p \in Proc, Wrap(p)
  PROVE  \E m \in Meta : /\ WellFormed(m) /\ meta' = [meta EXCEPT ![p] = m]
                         /\ m = Install(meta[p], req[p].op, WrapUnder(fresh[p], NewParent(p)))
<1>1. TypeOK /\ LocalWell(p) /\ pc[p] = "wrap" /\ meta[p] \in Meta /\ fresh[p] \in Version
      /\ req[p] \in Request
  BY DEF EngineInv, LocalWell, TypeOK, Wrap
<1>2. NewParent(p) \in KeyId \cup {NoKey}
  BY <1>1 DEF NewParent, Request, Meta
<1> DEFINE v == WrapUnder(fresh[p], NewParent(p))
           m == Install(meta[p], req[p].op, v)
<1>3. v \in Version /\ m \in Meta
  BY <1>1, <1>2, WrapUnderType, InstallType DEF Wrap
<1>4. v.sk # "Destroyed" /\ v.pk # 0
  BY <1>1 DEF WrapUnder, LocalWell, Version
<1>5. meta' = [meta EXCEPT ![p] = m]
  BY DEF Wrap
<1> HIDE DEF v
<1>6. meta[p].versions \in Seq(Version) /\ meta[p].current \in Nat /\ meta[p].state # "Destroyed"
  BY <1>1 DEF Meta, LocalWell
<1>7. CASE Generating(p)
  <2>1. meta[p].versions = <<>> /\ meta[p].current = 0
    BY <1>1, <1>7 DEF LocalWell
  <2>2. m = [meta[p] EXCEPT !.versions = <<v>>, !.current = 1]
    BY <1>7, <2>1 DEF Install, Generating
  <2>3. m.versions = <<v>> /\ m.current = 1 /\ m.state = meta[p].state
    BY <1>1, <2>2 DEF Meta
  <2>4. WellFormed(m)
    BY <1>4, <1>6, <2>3 DEF WellFormed
  <2> QED BY <1>3, <1>5, <2>4 DEF v
<1>8. CASE req[p].op = "rewrap"
  <2>1. WellFormed(meta[p])
    BY <1>1, <1>8 DEF LocalWell, Generating
  <2>2. m = [meta[p] EXCEPT !.versions = [meta[p].versions EXCEPT ![meta[p].current] = v]]
    BY <1>8 DEF Install
  <2>3. /\ m.versions = [meta[p].versions EXCEPT ![meta[p].current] = v]
        /\ m.current = meta[p].current /\ m.state = meta[p].state
    BY <1>1, <2>2 DEF Meta
  <2>4. Len(m.versions) = Len(meta[p].versions)
    BY <1>3, <1>6, <2>3, SeqExcept
  <2>5. ASSUME NEW i \in DOMAIN m.versions
        PROVE  m.versions[i].sk # "Destroyed" /\ m.versions[i].pk # 0
    BY <1>4, <1>6, <2>1, <2>3, <2>5 DEF WellFormed
  <2>6. WellFormed(m)
    BY <1>6, <2>1, <2>3, <2>4, <2>5 DEF WellFormed
  <2> QED BY <1>3, <1>5, <2>6 DEF v
<1>9. CASE ~Generating(p) /\ req[p].op # "rewrap"
  <2>1. WellFormed(meta[p])
    BY <1>1, <1>9 DEF LocalWell
  <2>2. m = [meta[p] EXCEPT !.versions = Append(meta[p].versions, v),
                            !.current = meta[p].current + 1]
    BY <1>9 DEF Install
  <2>3. /\ m.versions = Append(meta[p].versions, v)
        /\ m.current = meta[p].current + 1 /\ m.state = meta[p].state
    BY <1>1, <2>2 DEF Meta
  <2>4. ASSUME NEW i \in DOMAIN m.versions
        PROVE  m.versions[i].sk # "Destroyed" /\ m.versions[i].pk # 0
    BY <1>3, <1>4, <1>6, <2>1, <2>3, <2>4 DEF WellFormed
  <2>5. Len(m.versions) = m.current /\ m.current > 0
    BY <1>3, <1>6, <2>1, <2>3 DEF WellFormed
  <2>6. WellFormed(m)
    BY <1>6, <2>3, <2>4, <2>5 DEF WellFormed
  <2> QED BY <1>3, <1>5, <2>6 DEF v
<1> QED BY <1>7, <1>8, <1>9

\* Calls that start.
LEMMA BeginEngine ==
  ASSUME EngineInv, NEW p \in Proc, NEW r \in Requests, Begin(p, r)
  PROVE  EngineInv' /\ UNCHANGED <<file, store, blobs>>
<1>1. TypeOK /\ TypeOK'
  BY BeginType DEF EngineInv
<1>2. r \in Request /\ r.key \in KeyId
  BY KeystoreConstants DEF Request
<1>3. PICK op \in Op, stage \in {"wrap", "zero", "put"} : \E m : Start(p, r, op, stage, m)
  BY DEF Begin, Generate, GenerateSigningKey, Create, Activate, Rotate, Rewrap, Revoke,
         RevokeCascade, Expire, Destroy, Encrypt, StartOn, Op
<1>4. /\ UNCHANGED <<file, store, blobs, snap>>
      /\ \A q \in Proc : q # p => /\ pc'[q] = pc[q]
                                  /\ req'[q] = req[q]
                                  /\ meta'[q] = meta[q]
  BY <1>1, <1>3 DEF Start, TypeOK, disk, walk
<1>5. \A q \in Proc : q # p => fresh'[q] = fresh[q]
  BY <1>1 DEF Begin, Generate, GenerateSigningKey, Create, Activate, Rotate, Rewrap, Revoke,
         RevokeCascade, Expire, Destroy, Encrypt, StartOn, Mint, TypeOK
<1>6. RecordsWellFormed'
  BY <1>4 DEF EngineInv, RecordsWellFormed
<1>7. ASSUME NEW q \in Proc, q # p PROVE LocalWell(q)'
  BY <1>4, <1>5, <1>7 DEF EngineInv, LocalWell, Generating
<1>8. ASSUME LocalWell(p)' PROVE EngineInv' /\ UNCHANGED <<file, store, blobs>>
  BY <1>1, <1>4, <1>6, <1>7, <1>8 DEF EngineInv
<1>9. ASSUME NEW o \in Op \ {"generate"}, NEW s \in {"wrap", "zero", "put"}, NEW n \in Meta,
             Start(p, r, o, s, n), WellFormed(n), Readable(r.key),
             s = "wrap" => n.state # "Destroyed" /\ fresh'[p].pk # 0
      PROVE  LocalWell(p)'
  <2>1. /\ pc'[p] = s /\ req'[p] = r /\ meta'[p] = n /\ r.op # "generate"
        /\ snap' = snap /\ file'[r.key] # "absent"
    BY <1>1, <1>4, <1>9 DEF Start, TypeOK, Readable
  <2>2. \A c \in snap[p] : WellFormed(c.meta)
    BY DEF EngineInv, LocalWell
  <2> QED BY <1>2, <1>9, <2>1, <2>2 DEF LocalWell, Generating
<1>10. store[r.key] \in Meta /\ (Readable(r.key) => WellFormed(store[r.key]))
  BY <1>1, <1>2 DEF TypeOK, EngineInv, RecordsWellFormed, Readable
<1>11. CASE Generate(p, r) \/ GenerateSigningKey(p, r)
  <2>1. Start(p, r, "generate", "wrap", Blank(r.type, r.parent)) /\ Mint(p, r.key, r.type)
    BY <1>11 DEF Generate, GenerateSigningKey, Create
  <2>2. /\ pc'[p] = "wrap" /\ req'[p] = r /\ meta'[p] = Blank(r.type, r.parent)
        /\ r.op = "generate" /\ fresh'[p].pk # 0
    BY <1>1, <1>2, <2>1 DEF Start, Mint, Keypair, TypeOK
  <2>3. \A c \in snap[p] : WellFormed(c.meta)
    BY DEF EngineInv, LocalWell
  <2>4. LocalWell(p)'
    BY <1>2, <1>4, <2>2, <2>3 DEF LocalWell, Generating, Blank
  <2> QED BY <1>8, <2>4
<1>12. ASSUME NEW o \in Op \ {"generate"}, NEW s \in KeyState \ {"Destroyed"},
              store[r.key].state # "Destroyed",
              StartOn(p, r, o, "put", [store[r.key] EXCEPT !.state = s])
       PROVE  LocalWell(p)'
  <2>1. Readable(r.key) /\ Start(p, r, o, "put", [store[r.key] EXCEPT !.state = s])
    BY <1>12 DEF StartOn
  <2>2. PICK n : n = [store[r.key] EXCEPT !.state = s]
    OBVIOUS
  <2>3. n \in Meta /\ WellFormed(n)
    BY <1>10, <1>12, <2>1, <2>2, RestatedWell
  <2> QED BY <1>9, <2>1, <2>2, <2>3
<1>13. CASE Activate(p, r)
  <2>1. store[r.key].state # "Destroyed"
    BY <1>13 DEF Activate, CanTransition, ValidTransitions
  <2> QED BY <1>8, <1>12, <1>13, <2>1 DEF Activate, Op, KeyState
<1>14. CASE Rotate(p, r)
  <2>1. fresh'[p].pk # 0
    BY <1>1, <1>2, <1>14 DEF Rotate, Mint, Keypair, TypeOK
  <2> QED BY <1>8, <1>9, <1>10, <1>14, <2>1 DEF Rotate, Op
<1>15. CASE Rewrap(p, r)
  <2>1. WellFormed(store[r.key])
    BY <1>10, <1>15 DEF Rewrap
  <2>2. /\ store[r.key].current \in DOMAIN store[r.key].versions
        /\ Current(store[r.key]).sk # "Destroyed"
    BY <1>15 DEF Rewrap
  <2>3. store[r.key].state # "Destroyed" /\ Current(store[r.key]).pk # 0
    BY <2>1, <2>2 DEF WellFormed, Current
  <2>4. fresh'[p].pk # 0
    BY <1>1, <1>15, <2>3 DEF Rewrap, TypeOK
  <2> QED BY <1>8, <1>9, <1>10, <1>15, <2>1, <2>3, <2>4 DEF Rewrap, Op
<1>16. CASE Revoke(p, r)
  BY <1>8, <1>12, <1>16 DEF Revoke, Revoked, Op, KeyState
<1>17. CASE RevokeCascade(p, r)
  BY <1>8, <1>12, <1>17 DEF RevokeCascade, Revoked, Op, KeyState
<1>18. CASE Expire(p, r)
  <2>1. store[r.key].state # "Destroyed"
    BY <1>18 DEF Expire, Expirable
  <2> QED BY <1>8, <1>12, <1>18, <2>1 DEF Expire, Op, KeyState
<1>19. CASE Destroy(p, r)
  <2> DEFINE n == [store[r.key] EXCEPT
                     !.state = "Destroyed",
                     !.versions = [i \in DOMAIN store[r.key].versions |->
                                     Purged(store[r.key].versions[i])]]
  <2>1. Start(p, r, "destroy", "zero", n) /\ Readable(r.key)
    BY <1>19 DEF Destroy, StartOn
  <2>2. n \in Meta /\ WellFormed(n)
    BY <1>10, <2>1, PurgedType, DestroyedWell
  <2> HIDE DEF n
  <2> QED BY <1>8, <1>9, <2>1, <2>2 DEF Op
<1>20. CASE Encrypt(p, r)
  <2> DEFINE n == [store[r.key] EXCEPT !.usage = @ + 1]
  <2>1. Start(p, r, "encrypt", "put", n) /\ Readable(r.key)
    BY <1>20 DEF Encrypt, StartOn
  <2>2. n \in Meta /\ WellFormed(n)
    BY <1>10, <2>1 DEF WellFormed, Meta
  <2> HIDE DEF n
  <2> QED BY <1>8, <1>9, <2>1, <2>2 DEF Op
<1> QED BY <1>11, <1>13, <1>14, <1>15, <1>16, <1>17, <1>18, <1>19, <1>20 DEF Begin

\* The steps of a call, and its end.
LEMMA ContinueEngine ==
  ASSUME EngineInv, NEW p \in Proc,
         Continue(p) \/ Fault(p) \/ (EndCascade(p) /\ UNCHANGED <<disk, history>>)
  PROVE  EngineInv'
<1> USE DEF disk, history, local, walk
<1>1. TypeOK /\ RecordsWellFormed /\ LocalWell(p)
  BY DEF EngineInv
<1>2. /\ pc[p] # "idle" => req[p] \in Request /\ req[p].key \in KeyId
      /\ meta[p] \in Meta /\ fresh[p] \in Version
      /\ \A c \in snap[p] : c.key \in KeyId /\ c.meta \in Meta /\ WellFormed(c.meta)
  BY <1>1 DEF TypeOK, LocalWell, Request, Listed
<1>3. ASSUME UNCHANGED <<file, store>> PROVE RecordsWellFormed'
  BY <1>1, <1>3 DEF RecordsWellFormed
<1>4. \A q \in Proc : q # p => /\ pc'[q] = pc[q] /\ req'[q] = req[q]
                                /\ meta'[q] = meta[q] /\ fresh'[q] = fresh[q]
                                /\ snap'[q] = snap[q]
  BY <1>1 DEF Continue, Fault, Wrap, WrapFails, ZeroFile, Put, CascadeList, CascadeAborts,
         CascadeSkips, CascadeReports, CascadeSuspends, CascadeUnacknowledged, CascadeDone,
         PutFails, PutUnacknowledged, Return, EndCascade, Visited, TypeOK
<1>p. \A k \in KeyId : file[k] # "absent" => file'[k] # "absent"
  BY <1>1 DEF Continue, Fault, Wrap, WrapFails, ZeroFile, Put, CascadeList, CascadeAborts,
         CascadeSkips, CascadeReports, CascadeSuspends, CascadeUnacknowledged, CascadeDone,
         PutFails, PutUnacknowledged, EndCascade, Write, TypeOK
<1>5. ASSUME TypeOK', RecordsWellFormed', LocalWell(p)' PROVE EngineInv'
  <2>1. ASSUME NEW q \in Proc, q # p PROVE LocalWell(q)'
    <3>1. pc[q] = "zero" => req[q].key \in KeyId
      BY DEF EngineInv, LocalWell, Request
    <3> QED BY <1>4, <1>p, <2>1, <3>1 DEF EngineInv, LocalWell, Generating
  <2> QED BY <1>5, <2>1 DEF EngineInv
<1>6. ASSUME Return(p), snap'[p] \subseteq snap[p] PROVE LocalWell(p)'
  <2>1. pc'[p] = "idle"
    BY <1>1, <1>6 DEF Return, TypeOK
  <2> QED BY <1>2, <1>6, <2>1 DEF LocalWell
<1>7. CASE Wrap(p)
  <2>1. PICK m \in Meta : WellFormed(m) /\ meta' = [meta EXCEPT ![p] = m]
    BY <1>7, InstalledWell
  <2>2. /\ pc' = [pc EXCEPT ![p] = "put"] /\ pc[p] = "wrap"
        /\ UNCHANGED <<file, store, minted, blobs, sealed, req, fresh, queue, snap, errors>>
    BY <1>7 DEF Wrap
  <2>3. TypeOK'
    BY <1>1, <2>1, <2>2 DEF TypeOK
  <2>4. pc'[p] = "put" /\ meta'[p] = m
    BY <1>1, <2>1, <2>2 DEF TypeOK
  <2>5. LocalWell(p)'
    BY <1>2, <2>1, <2>2, <2>4 DEF LocalWell
  <2> QED BY <1>3, <1>5, <2>2, <2>3, <2>5
<1>8. CASE WrapFails(p) \/ PutFails(p)
  <2>1. Return(p) /\ UNCHANGED <<file, store, minted, blobs, sealed, queue, snap, errors>>
    BY <1>8 DEF WrapFails, PutFails
  <2>2. TypeOK'
    BY <1>1, <2>1, ReturnType DEF TypeOK
  <2> QED BY <1>3, <1>5, <1>6, <2>1, <2>2
<1>9. CASE ZeroFile(p)
  <2>1. /\ pc[p] = "zero" /\ file' = [file EXCEPT ![req[p].key] = "zeroed"]
        /\ pc' = [pc EXCEPT ![p] = "put"] /\ req[p].key \in KeyId
        /\ UNCHANGED <<store, minted, blobs, sealed, req, meta, fresh, queue, snap, errors>>
    BY <1>2, <1>9 DEF ZeroFile
  <2>2. TypeOK'
    BY <1>1, <2>1 DEF TypeOK
  <2>3. file[req[p].key] # "absent" /\ WellFormed(meta[p])
    BY <1>1, <2>1 DEF LocalWell
  <2>4. \A j \in KeyId : j # req[p].key => file'[j] = file[j]
    BY <1>1, <2>1 DEF TypeOK
  <2>5. RecordsWellFormed'
    BY <1>1, <2>1, <2>3, <2>4 DEF RecordsWellFormed
  <2>6. pc'[p] = "put"
    BY <1>1, <2>1 DEF TypeOK
  <2>7. LocalWell(p)'
    BY <1>2, <2>1, <2>3, <2>6 DEF LocalWell
  <2> QED BY <1>5, <2>2, <2>5, <2>7
<1>10. ASSUME pc[p] = "put", Write(req[p].key, meta[p])
       PROVE  /\ RecordsWellFormed'
              /\ file' \in [KeyId -> {"absent", "json", "zeroed"}]
              /\ store' \in [KeyId -> Meta]
  <2>1. WellFormed(meta[p]) /\ req[p].key \in KeyId
    BY <1>1, <1>2, <1>10 DEF LocalWell
  <2> QED BY <1>1, <1>2, <1>10, <2>1, WriteWell, WriteType
<1>11. CASE PutUnacknowledged(p)
  <2>1. /\ pc[p] = "put" /\ Write(req[p].key, meta[p]) /\ Return(p)
        /\ UNCHANGED <<minted, blobs, sealed, queue, snap, errors>>
    BY <1>11 DEF PutUnacknowledged
  <2>2. TypeOK'
    BY <1>1, <1>10, <2>1, ReturnType DEF TypeOK
  <2> QED BY <1>5, <1>6, <1>10, <2>1, <2>2
<1>12. CASE Put(p)
  <2>1. /\ pc[p] = "put" /\ Write(req[p].key, meta[p]) /\ req[p].key \in KeyId
        /\ UNCHANGED <<minted, snap, errors>>
    BY <1>2, <1>12 DEF Put
  <2>2. BlobOf(p) \in [key : KeyId, ver : Nat, pk : Nat]
    <3>1. WellFormed(meta[p]) /\ meta[p].versions \in Seq(Version) /\ meta[p].current \in Nat
      BY <1>1, <1>2, <2>1 DEF LocalWell, Meta
    <3>2. Current(meta[p]) \in Version
      BY <3>1 DEF WellFormed, Current
    <3> QED BY <2>1, <3>1, <3>2 DEF BlobOf, Version
  <2>3. blobs' = blobs \cup {BlobOf(p)} \/ blobs' = blobs
    BY <1>12 DEF Put
  <2>4. sealed' = [sealed EXCEPT ![req[p].key] = @ + 1] \/ sealed' = sealed
    BY <1>12 DEF Put
  <2>5. blobs' \subseteq [key : KeyId, ver : Nat, pk : Nat]
    BY <1>1, <2>2, <2>3 DEF TypeOK
  <2>6. sealed' \in [KeyId -> Nat]
    <3>1. [sealed EXCEPT ![req[p].key] = @ + 1] \in [KeyId -> Nat]
      BY <1>1, <2>1 DEF TypeOK
    <3> QED BY <1>1, <2>4, <3>1 DEF TypeOK
  <2>7. CASE req[p].op = "revoke_cascade"
    <3>1. /\ pc' = [pc EXCEPT ![p] = "cascade"] /\ queue' = [queue EXCEPT ![p] = <<req[p].key>>]
          /\ UNCHANGED <<req, meta, fresh>>
      BY <1>12, <2>7 DEF Put
    <3>2. <<req[p].key>> \in Seq(KeyId)
      BY <2>1
    <3>3. TypeOK'
      BY <1>1, <1>10, <2>1, <2>5, <2>6, <3>1, <3>2 DEF TypeOK
    <3>4. pc'[p] = "cascade" /\ req'[p] = req[p]
      BY <1>1, <3>1 DEF TypeOK
    <3>5. LocalWell(p)'
      BY <1>2, <2>1, <3>4 DEF LocalWell
    <3> QED BY <1>5, <1>10, <2>1, <3>3, <3>5
  <2>8. CASE req[p].op # "revoke_cascade"
    <3>1. Return(p) /\ UNCHANGED queue
      BY <1>12, <2>8 DEF Put
    <3>2. TypeOK'
      BY <1>1, <1>10, <2>1, <2>5, <2>6, <3>1, ReturnType DEF TypeOK
    <3> QED BY <1>5, <1>6, <1>10, <2>1, <3>1, <3>2
  <2> QED BY <2>7, <2>8
<1>13. CASE EndCascade(p) /\ UNCHANGED <<disk, history>>
  <2>1. /\ Return(p) /\ queue' = [queue EXCEPT ![p] = <<>>]
        /\ snap' = [snap EXCEPT ![p] = {}] /\ errors' = [errors EXCEPT ![p] = {}]
        /\ UNCHANGED <<file, store, minted, blobs, sealed>>
    BY <1>13 DEF EndCascade
  <2>2. TypeOK'
    BY <1>1, <2>1, ReturnType DEF TypeOK
  <2>3. snap'[p] \subseteq snap[p]
    BY <1>1, <2>1 DEF TypeOK
  <2> QED BY <1>3, <1>5, <1>6, <2>1, <2>2, <2>3
<1>14. ASSUME pc[p] = "cascade", UNCHANGED <<pc, req, meta, fresh>>,
              \A c \in snap'[p] : WellFormed(c.meta)
       PROVE  LocalWell(p)'
  BY <1>2, <1>14 DEF LocalWell
<1>15. CASE CascadeList(p)
  <2>1. /\ pc[p] = "cascade" /\ queue' = [queue EXCEPT ![p] = Popped(queue[p])]
        /\ queue[p] # <<>>
        /\ UNCHANGED <<file, store, minted, blobs, sealed, pc, req, meta, fresh, errors>>
    BY <1>15 DEF CascadeList, InCascade
  <2>2. PICK k : snap' = [snap EXCEPT ![p] = {[key |-> j, meta |-> store[j]] : j \in ChildrenOf(k)}]
    BY <1>15 DEF CascadeList
  <2>3. snap'[p] = {[key |-> j, meta |-> store[j]] : j \in ChildrenOf(k)}
    BY <1>1, <2>2 DEF TypeOK
  <2>4. \A j \in ChildrenOf(k) : j \in KeyId /\ store[j] \in Meta /\ WellFormed(store[j])
    BY <1>1 DEF ChildrenOf, Readable, TypeOK, RecordsWellFormed
  <2>5. \A c \in snap'[p] : c \in Listed /\ WellFormed(c.meta)
    BY <2>1, <2>3, <2>4 DEF Listed
  <2>6. Popped(queue[p]) \in Seq(KeyId)
    BY <1>1, <2>1 DEF Popped, TypeOK
  <2>7. snap' \in [Proc -> SUBSET Listed]
    BY <1>1, <2>2, <2>3, <2>5 DEF TypeOK
  <2>8. TypeOK'
    BY <1>1, <2>1, <2>6, <2>7 DEF TypeOK
  <2> QED BY <1>3, <1>5, <1>14, <2>1, <2>5, <2>8
<1>16. CASE \E c \in snap[p] : CascadeSkips(p, c) \/ CascadeReports(p, c)
  <2>1. PICK c \in snap[p] : CascadeSkips(p, c) \/ CascadeReports(p, c)
    BY <1>16
  <2>2. /\ pc[p] = "cascade" /\ snap' = [snap EXCEPT ![p] = @ \ {c}]
        /\ UNCHANGED <<file, store, minted, blobs, sealed, pc, req, meta, fresh, queue>>
        /\ errors' = errors \/ errors' = [errors EXCEPT ![p] = @ \cup {c.key}]
    BY <2>1 DEF CascadeSkips, CascadeReports, InCascade, Visited
  <2>3. snap'[p] \subseteq snap[p] /\ snap' \in [Proc -> SUBSET Listed]
    BY <1>1, <2>2 DEF TypeOK
  <2>4. TypeOK'
    <3>1. errors' \in [Proc -> SUBSET KeyId]
      <4>1. [errors EXCEPT ![p] = @ \cup {c.key}] \in [Proc -> SUBSET KeyId]
        BY <1>1, <1>2 DEF TypeOK
      <4> QED BY <1>1, <2>2, <4>1 DEF TypeOK
    <3> QED BY <1>1, <2>2, <2>3, <3>1 DEF TypeOK
  <2> QED BY <1>2, <1>3, <1>5, <1>14, <2>2, <2>3, <2>4
<1>17. CASE \E c \in snap[p] : CascadeSuspends(p, c) \/ CascadeUnacknowledged(p, c)
  <2>1. PICK c \in snap[p] : CascadeSuspends(p, c) \/ CascadeUnacknowledged(p, c)
    BY <1>17
  <2> DEFINE m == [c.meta EXCEPT !.state = "Suspended"]
  <2>2. /\ pc[p] = "cascade" /\ snap' = [snap EXCEPT ![p] = @ \ {c}]
        /\ UNCHANGED <<minted, blobs, sealed, pc, req, meta, fresh>>
        /\ errors' = errors \/ errors' = [errors EXCEPT ![p] = @ \cup {c.key}]
        /\ queue' = queue \/ queue' = [queue EXCEPT ![p] = Append(@, c.key)]
        /\ Write(c.key, m) /\ Suspendable(c.meta) /\ c.key \in KeyId
    BY <1>2, <2>1 DEF CascadeSuspends, CascadeUnacknowledged, InCascade, Visited
  <2>3. m \in Meta /\ WellFormed(m)
    <3>1. c.meta.state # "Destroyed"
      BY <2>2 DEF Suspendable, CanTransition, ValidTransitions
    <3> QED BY <1>2, <3>1, RestatedWell DEF KeyState
  <2> HIDE DEF m
  <2>4. RecordsWellFormed'
    BY <1>1, <2>2, <2>3, WriteWell
  <2>5. snap'[p] \subseteq snap[p] /\ snap' \in [Proc -> SUBSET Listed]
    BY <1>1, <2>2 DEF TypeOK
  <2>6. TypeOK'
    <3>1. errors' \in [Proc -> SUBSET KeyId]
      <4>1. [errors EXCEPT ![p] = @ \cup {c.key}] \in [Proc -> SUBSET KeyId]
        BY <1>1, <2>2 DEF TypeOK
      <4> QED BY <1>1, <2>2, <4>1 DEF TypeOK
    <3>2. queue' \in [Proc -> Seq(KeyId)]
      <4>1. [queue EXCEPT ![p] = Append(@, c.key)] \in [Proc -> Seq(KeyId)]
        BY <1>1, <2>2 DEF TypeOK
      <4> QED BY <1>1, <2>2, <4>1 DEF TypeOK
    <3>3. file' \in [KeyId -> {"absent", "json", "zeroed"}] /\ store' \in [KeyId -> Meta]
      BY <1>1, <2>2, <2>3, WriteType
    <3> QED BY <1>1, <2>2, <2>5, <3>1, <3>2, <3>3 DEF TypeOK
  <2> QED BY <1>2, <1>5, <1>14, <2>2, <2>4, <2>5, <2>6
<1>18. CascadeAborts(p) \/ CascadeDone(p) => EndCascade(p) /\ UNCHANGED <<disk, history>>
  BY DEF CascadeAborts, CascadeDone
<1> QED BY <1>7, <1>8, <1>9, <1>11, <1>12, <1>13, <1>15, <1>16, <1>17, <1>18
        DEF Continue, Fault

Steps == {"idle", "list", "opened", "listed", "write", "restore", "put",
          "create", "generate", "activate", "activated", "rewrap", "key"}

Held == Ids(archive.keys)

\* What the command line has read, and what is in the backup, is typed and well
\* formed; a restore works on keys of the backup.
CommandTyped ==
  /\ step \in Steps
  /\ step = "idle" => listed = {}
  /\ failed \in BOOLEAN /\ disturbed \in BOOLEAN /\ archive.quiet \in BOOLEAN
  /\ pending \subseteq KeyId
  /\ listed \subseteq Listed
  /\ archive.keys \subseteq Listed
  /\ archive.readable \subseteq [key : KeyId, ver : Nat, pk : Nat]
  /\ \A r \in listed \cup archive.keys : WellFormed(r.meta)
  /\ step \in {"restore", "put"} => pending \subseteq Held
  /\ step = "opened" /\ Decrypts(archive, command) => pending = Held
  /\ step = "put" => target \in Held
  /\ step = "write" => command.op = "create" /\ lineage # "restoring"

\* The command line's engine is inside a call only where the command waits for one.
CallsInPlace ==
  pc[Cli] \in {"wrap", "zero", "put"} => step \in {"generate", "activated", "rewrap", "key"}

\* As long as no one else writes, a listing is the directory, or will be.
ListedTruly ==
  step \in {"list", "listed", "write"} /\ ~disturbed =>
    /\ \A r \in listed : r = Record(r.key) /\ Readable(r.key)
    /\ step = "list" => pending \subseteq Stored /\ Stored \subseteq pending \cup Ids(listed)
    /\ step \in {"listed", "write"} =>
         \/ Stored \subseteq Ids(listed)
         \/ command.op # "create" /\ ListFails /\ listed = {}

\* The directory holds records of the backup and nothing else.
FromArchive ==
  /\ archive.quiet
  /\ \A k \in KeyId : file[k] # "absent" =>
       file[k] = "json" /\ k \in Held /\ store[k] = Archived(k)

\* What the files are, by where they come from.
LineageTrue ==
  /\ lineage = "lost" => \A k \in KeyId : file[k] = "absent"
  /\ lineage = "restoring" => FromArchive
  /\ lineage = "restored" =>
       archive.readable = {} \/ (FromArchive /\ \A k \in Held : file[k] = "json")
  /\ step \in {"restore", "put"} /\ lineage \in {"lost", "restoring"} /\ ~failed =>
       \A k \in Held : k \in pending \/ (step = "put" /\ k = target) \/ file[k] = "json"
  /\ disturbed => lineage \notin {"restoring", "restored"} /\ (lineage = "lost" => step = "idle")

RecoveryInv == EngineInv /\ CommandTyped /\ CallsInPlace /\ ListedTruly /\ LineageTrue

LEMMA ArchivedListed ==
  ASSUME CommandTyped, NEW k \in Held
  PROVE  k \in KeyId /\ Archived(k) \in Meta /\ WellFormed(Archived(k))
<1>1. PICK r \in archive.keys : r.key = k
  BY DEF Held, Ids
<1>2. (CHOOSE s \in archive.keys : s.key = k) \in archive.keys
  BY <1>1
<1> QED BY <1>1, <1>2 DEF Archived, CommandTyped, Listed

LEMMA StutterEngine ==
  ASSUME EngineInv, UNCHANGED vars
  PROVE  EngineInv'
<1>1. UNCHANGED <<file, store, minted, blobs, sealed, pc, req, meta, fresh, queue, snap, errors>>
  BY DEF vars, disk, history, local, walk
<1>2. TypeOK' /\ RecordsWellFormed'
  BY <1>1 DEF EngineInv, TypeOK, RecordsWellFormed
<1>3. \A p \in Proc : LocalWell(p)'
  BY <1>1 DEF EngineInv, LocalWell, Generating
<1> QED BY <1>2, <1>3 DEF EngineInv

\* A call that begins is one of the requests.
LEMMA BegunRequests ==
  ASSUME NEW p, NEW r, Begin(p, r)
  PROVE  r \in Requests
BY DEF Begin, Generate, GenerateSigningKey, Create, Activate, Rotate, Rewrap, Revoke,
       RevokeCascade, Expire, Destroy, Encrypt, StartOn, Start

\* The steps of the command line that leave the engine and the files alone.
CommandOnly ==
  \/ \E c \in Commands : BeginListing(c) \/ BeginReading(c)
  \/ \E k \in KeyId : ListFile(k) \/ ListBreaks(k)
  \/ ListEnds
  \/ TruncateArchive \/ WriteArchive
  \/ VerifyExits \/ BeginRestore
  \/ \E k \in KeyId : RestorePasses(k) \/ RestoreChecks(k)
  \/ RestorePutFails \/ RestoreExits
  \/ PlanExits \/ Plan
  \/ MigrateRefused \/ MigrateInactive
  \/ \E k \in KeyId : MigrateCannotRewrap(k)
  \/ MigrateExits
  \/ \E aged \in {{}, KeyId} : Diagnose(aged)

\* Those that begin a call of its engine, and those of the call.
CommandCalls ==
  \/ \E r \in KeyRequests : KeyCommand(r)
  \/ MigrateGenerates \/ MigrateActivates
  \/ \E k \in KeyId : MigrateRewraps(k)
CommandWorks == CliWorks \/ CliPut \/ CliRefused \/ CliWriteFails \/ CliCrash

ServerSteps(p) == ServerBegins(p) \/ ServerWorks(p) \/ ServerFaults(p)

LEMMA MaintenanceCases ==
  ASSUME MaintenanceNext
  PROVE  \/ CommandOnly \/ CommandCalls \/ CommandWorks
         \/ \E p \in Servers : ServerSteps(p)
         \/ RestorePuts \/ LoseStore
BY DEF MaintenanceNext, CliStep, CommandOnly, CommandCalls, CommandWorks, ServerSteps

LEMMA CommandOnlyStill == CommandOnly => UNCHANGED vars
BY DEF CommandOnly, BeginListing, BeginReading, ListFile, ListBreaks, ListEnds, TruncateArchive,
       WriteArchive, VerifyExits, BeginRestore, RestorePasses, RestoreChecks, RestorePutFails,
       RestoreExits, PlanExits, Plan, MigrateRefused, MigrateInactive, MigrateCannotRewrap,
       MigrateExits, Diagnose

LEMMA CommandCallsBegin ==
  ASSUME CommandCalls
  PROVE  \E r \in Requests : Begin(Cli, r)
<1>1. \E r : Begin(Cli, r)
  BY DEF CommandCalls, KeyCommand, MigrateGenerates, MigrateActivates, MigrateRewraps, Begin
<1> QED BY <1>1, BegunRequests

LEMMA CommandWorksContinue ==
  ASSUME CommandWorks
  PROVE  Continue(Cli) \/ Fault(Cli) \/ (EndCascade(Cli) /\ UNCHANGED <<disk, history>>)
BY DEF CommandWorks, CliWorks, CliPut, CliRefused, CliWriteFails, CliCrash, Continue, Fault

LEMMA ServerEngine ==
  ASSUME NEW p \in Servers, ServerSteps(p)
  PROVE  \/ \E r \in Requests : Begin(p, r)
         \/ Continue(p) \/ Fault(p) \/ (EndCascade(p) /\ UNCHANGED <<disk, history>>)
BY MaintenanceConstants DEF ServerSteps, ServerBegins, ServerWorks, ServerFaults

LEMMA NextEngine ==
  ASSUME EngineInv, CommandTyped, [MaintenanceNext]_maintenanceVars
  PROVE  EngineInv'
<1>1. ASSUME UNCHANGED vars PROVE EngineInv'
  BY <1>1, StutterEngine
<1>2. Cli \in Proc /\ Servers \subseteq Proc
  BY MaintenanceConstants DEF Servers
<1>3. CASE CommandOnly
  BY <1>1, <1>3, CommandOnlyStill
<1>4. CASE CommandCalls
  BY <1>2, <1>4, CommandCallsBegin, BeginEngine
<1>5. CASE CommandWorks
  BY <1>2, <1>5, CommandWorksContinue, ContinueEngine
<1>6. ASSUME NEW p \in Servers, ServerSteps(p) PROVE EngineInv'
  BY <1>2, <1>6, ServerEngine, BeginEngine, ContinueEngine
<1>7. CASE RestorePuts
  <2>1. target \in KeyId /\ Archived(target) \in Meta /\ WellFormed(Archived(target))
    BY <1>7, ArchivedListed DEF RestorePuts, CommandTyped
  <2>2. /\ Write(target, Archived(target))
        /\ UNCHANGED <<minted, blobs, sealed, pc, req, meta, fresh, queue, snap, errors>>
    BY <1>7 DEF RestorePuts, history, local, walk
  <2>3. TypeOK' /\ RecordsWellFormed'
    BY <2>1, <2>2, WriteWell, WriteType DEF EngineInv, TypeOK
  <2>4. ASSUME NEW p \in Proc PROVE LocalWell(p)'
    <3>1. \A k \in KeyId : file[k] # "absent" => file'[k] # "absent"
      BY <2>1, <2>2 DEF Write, EngineInv, TypeOK
    <3>2. pc[p] = "zero" => req[p].key \in KeyId
      BY DEF EngineInv, LocalWell, Request
    <3> QED BY <2>2, <3>1, <3>2 DEF EngineInv, LocalWell, Generating
  <2> QED BY <2>3, <2>4 DEF EngineInv
<1>8. CASE LoseStore
  <2>1. /\ file' = [k \in KeyId |-> "absent"] /\ \A p \in Proc : pc[p] = "idle"
        /\ UNCHANGED <<store, minted, blobs, sealed, pc, req, meta, fresh, queue, snap, errors>>
    BY <1>8 DEF LoseStore, history, local, walk
  <2>2. TypeOK' /\ RecordsWellFormed'
    BY <2>1 DEF EngineInv, TypeOK, RecordsWellFormed
  <2>3. \A p \in Proc : LocalWell(p)'
    BY <2>1 DEF EngineInv, LocalWell
  <2> QED BY <2>2, <2>3 DEF EngineInv
<1>9. CASE UNCHANGED maintenanceVars
  BY <1>1, <1>9 DEF maintenanceVars
<1> QED BY <1>3, <1>4, <1>5, <1>6, <1>7, <1>8, <1>9, MaintenanceCases

\* Any write by an engine leaves the lineage known.
LEMMA LineageAfter ==
  ASSUME LineageAfterWrite
  PROVE  lineage' \in {lineage, "mixed", "live"}
BY DEF LineageAfterWrite

LEMMA NextCommandTyped ==
  ASSUME EngineInv, CommandTyped, [MaintenanceNext]_maintenanceVars
  PROVE  CommandTyped'
<1> USE DEF Steps
<1>1. ASSUME UNCHANGED <<progress, archive>>, disturbed' \in BOOLEAN,
             lineage' = "restoring" => lineage = "restoring"
      PROVE  CommandTyped'
  <2>1. UNCHANGED <<command, step, pending, listed, target, failed, archive>>
    BY <1>1 DEF progress
  <2> QED BY <1>1, <2>1 DEF CommandTyped, Held, Decrypts
\* A command that has ended.
<1>2. ASSUME NEW c, Exit(c), archive'.keys \subseteq Listed, archive'.quiet \in BOOLEAN,
             archive'.readable \subseteq [key : KeyId, ver : Nat, pk : Nat],
             \A r \in archive'.keys : WellFormed(r.meta), UNCHANGED disturbed
      PROVE  CommandTyped'
  BY <1>2 DEF Exit, CommandTyped
<1>3. ASSUME NEW c, Exit(c), UNCHANGED <<archive, disturbed>> PROVE CommandTyped'
  BY <1>2, <1>3 DEF CommandTyped
\* The steps of a migration.
<1>4. ASSUME UNCHANGED <<listed, archive, disturbed>>, pending' \subseteq KeyId, failed' \in BOOLEAN,
             step' \in {"create", "generate", "activate", "activated", "rewrap", "key"}
      PROVE  CommandTyped'
  BY <1>4 DEF CommandTyped
<1>5. CASE CommandOnly
  <2>1. ASSUME NEW c \in Commands, BeginListing(c) PROVE CommandTyped'
    BY <2>1 DEF BeginListing, Starts, CommandTyped, Stored
  <2>2. ASSUME NEW c \in Commands, BeginReading(c) PROVE CommandTyped'
    <3>1. /\ step' = "opened" /\ command' = c /\ disturbed' = FALSE
          /\ pending' = IF Decrypts(archive, c) THEN Held ELSE {}
          /\ UNCHANGED <<listed, archive, failed>>
      BY <2>2 DEF BeginReading, Starts, Held, Ids
    <3>2. Held \subseteq KeyId
      BY ArchivedListed
    <3>3. Held' = Held /\ Decrypts(archive, command)' = Decrypts(archive, c)
      BY <3>1 DEF Held, Decrypts
    <3> QED BY <3>1, <3>2, <3>3 DEF CommandTyped
  <2>3. ASSUME NEW k \in KeyId, ListFile(k) PROVE CommandTyped'
    <3>1. Record(k) \in Listed /\ WellFormed(Record(k).meta)
      BY <2>3 DEF ListFile, Record, Listed, EngineInv, TypeOK, RecordsWellFormed, Readable
    <3> QED BY <2>3, <3>1 DEF ListFile, CommandTyped
  <2>4. ASSUME NEW k \in KeyId, ListBreaks(k) PROVE CommandTyped'
    <3>1. CASE command.op = "create"
      BY <1>3, <2>4, <3>1 DEF ListBreaks
    <3>2. CASE command.op # "create"
      BY <2>4, <3>2 DEF ListBreaks, CommandTyped
    <3> QED BY <3>1, <3>2
  <2>5. CASE ListEnds
    BY <2>5 DEF ListEnds, CommandTyped
  <2>6. CASE TruncateArchive
    <3>1. archive'.keys = {} /\ archive'.readable = {} /\ archive'.quiet = FALSE
      BY <2>6 DEF TruncateArchive, NoArchive
    <3>2. /\ step' = "write" /\ command' = command /\ command.op = "create" /\ lineage' # "restoring"
          /\ UNCHANGED <<pending, listed, failed, disturbed>>
      BY <2>6 DEF TruncateArchive
    <3> QED BY <3>1, <3>2 DEF CommandTyped
  <2>7. CASE WriteArchive
    <3>1. /\ archive'.keys = listed /\ archive'.readable = {b \in blobs : Decryptable(b)}
          /\ archive'.quiet \in BOOLEAN /\ Exit(0) /\ UNCHANGED disturbed
      BY <2>7 DEF WriteArchive
    <3>2. archive'.readable \subseteq [key : KeyId, ver : Nat, pk : Nat]
      BY <3>1 DEF EngineInv, TypeOK
    <3> QED BY <1>2, <3>1, <3>2 DEF CommandTyped
  <2>8. CASE VerifyExits \/ RestoreExits \/ PlanExits \/ MigrateExits
             \/ \E aged \in {{}, KeyId} : Diagnose(aged)
    <3>1. UNCHANGED <<archive, disturbed>> /\ \E c : Exit(c)
      BY <2>8 DEF VerifyExits, RestoreExits, PlanExits, MigrateExits, Diagnose, ExitByErrors
    <3> QED BY <1>3, <3>1
  <2>9. CASE BeginRestore
    BY <2>9 DEF BeginRestore, CommandTyped, Held
  <2>10. ASSUME NEW k \in KeyId, RestorePasses(k) PROVE CommandTyped'
    <3>1. failed' \in BOOLEAN
      BY <2>10 DEF RestorePasses
    <3> QED BY <2>10, <3>1 DEF RestorePasses, CommandTyped, Held
  <2>11. ASSUME NEW k \in KeyId, RestoreChecks(k) PROVE CommandTyped'
    BY <2>11 DEF RestoreChecks, CommandTyped, Held
  <2>12. CASE RestorePutFails
    BY <2>12 DEF RestorePutFails, CountError, CommandTyped, Held
  <2>13. CASE Plan
    <3>1. keys_to_rewrap(listed) \subseteq KeyId
      BY DEF keys_to_rewrap, CommandTyped, Listed
    <3> QED BY <1>4, <2>13, <3>1 DEF Plan, CommandTyped
  <2>14. CASE MigrateRefused \/ MigrateInactive \/ \E k \in KeyId : MigrateCannotRewrap(k)
    <3>1. /\ UNCHANGED <<listed, archive, disturbed>> /\ pending' \subseteq KeyId
          /\ failed' = TRUE /\ step' = "create"
      BY <2>14 DEF MigrateRefused, MigrateInactive, MigrateCannotRewrap, CommandTyped
    <3> QED BY <1>4, <3>1
  <2> QED BY <1>5, <2>1, <2>2, <2>3, <2>4, <2>5, <2>6, <2>7, <2>8, <2>9, <2>10, <2>11, <2>12,
             <2>13, <2>14 DEF CommandOnly
<1>6. CASE CommandCalls
  <2>1. ASSUME NEW r \in KeyRequests, KeyCommand(r) PROVE CommandTyped'
    BY <2>1 DEF KeyCommand, Starts, CommandTyped
  <2>2. ASSUME NEW k \in KeyId, MigrateRewraps(k) PROVE CommandTyped'
    BY <1>4, <2>2 DEF MigrateRewraps, CommandTyped
  <2>3. CASE MigrateGenerates \/ MigrateActivates
    BY <1>4, <2>3 DEF MigrateGenerates, MigrateActivates, CommandTyped
  <2> QED BY <1>6, <2>1, <2>2, <2>3 DEF CommandCalls
<1>7. CASE CommandWorks
  <2>1. CASE CliWorks
    <3>1. lineage' \in {lineage, "mixed", "live"}
      BY <2>1, LineageAfter DEF CliWorks
    <3> QED BY <1>1, <2>1, <3>1 DEF CliWorks, CommandTyped
  <2>2. CASE CliPut
    <3>1. CASE step = "key"
      BY <1>3, <2>2, <3>1 DEF CliPut
    <3>2. CASE step # "key"
      BY <1>4, <2>2, <3>2 DEF CliPut, CallSucceeded, CommandTyped
    <3> QED BY <3>1, <3>2
  <2>3. ASSUME CliErr PROVE CommandTyped'
    <3>1. CASE step = "key"
      BY <1>3, <2>3, <3>1 DEF CliErr
    <3>2. CASE step # "key"
      BY <1>4, <2>3, <3>2 DEF CliErr, CallFailed, CommandTyped
    <3> QED BY <3>1, <3>2
  <2>4. CASE CliCrash
    BY <1>3, <2>4 DEF CliCrash
  <2> QED BY <1>7, <2>1, <2>2, <2>3, <2>4 DEF CommandWorks, CliRefused, CliWriteFails
<1>8. ASSUME NEW p \in Servers, ServerSteps(p) PROVE CommandTyped'
  <2>1. Disturbs
    BY <1>8 DEF ServerSteps, ServerBegins, ServerWorks, ServerFaults
  <2>2. lineage' \in {lineage, "mixed", "live"}
    BY <2>1, LineageAfter DEF Disturbs
  <2>3. disturbed' \in BOOLEAN /\ UNCHANGED <<progress, archive>>
    BY <2>1 DEF Disturbs
  <2> QED BY <1>1, <2>2, <2>3
<1>9. CASE RestorePuts
  <2>1. failed' \in BOOLEAN
    BY <1>9 DEF RestorePuts, CountError, CommandTyped
  <2> QED BY <1>9, <2>1 DEF RestorePuts, CommandTyped, Held
<1>10. CASE LoseStore
  BY <1>1, <1>10 DEF LoseStore
<1>11. CASE UNCHANGED maintenanceVars
  BY <1>1, <1>11 DEF maintenanceVars, CommandTyped
<1> QED BY <1>5, <1>6, <1>7, <1>8, <1>9, <1>10, <1>11, MaintenanceCases

\* A call begins with what Start says.
LEMMA BegunStarts ==
  ASSUME NEW p, NEW r, Begin(p, r)
  PROVE  \E op, stage, m : Start(p, r, op, stage, m)
<1>1. CASE Generate(p, r) \/ GenerateSigningKey(p, r)
  BY <1>1 DEF Generate, GenerateSigningKey, Create
<1>2. CASE Rotate(p, r) \/ Rewrap(p, r)
  BY <1>2 DEF Rotate, Rewrap
<1>3. CASE Activate(p, r) \/ Revoke(p, r) \/ RevokeCascade(p, r)
  BY <1>3 DEF Activate, Revoke, RevokeCascade, StartOn
<1>4. CASE Expire(p, r) \/ Destroy(p, r) \/ Encrypt(p, r)
  BY <1>4 DEF Expire, Destroy, Encrypt, StartOn
<1> QED BY <1>1, <1>2, <1>3, <1>4 DEF Begin

\* A process of the engine changes no other one's.
LEMMA CallsApart ==
  ASSUME TypeOK, NEW p \in Proc, NEW q \in Proc, p # q,
         (\E r \in Requests : Begin(p, r)) \/ Continue(p) \/ Fault(p) \/ EndCascade(p)
  PROVE  pc'[q] = pc[q] /\ req'[q] = req[q] /\ meta'[q] = meta[q]
<1>1. CASE \E r \in Requests : Begin(p, r)
  <2>1. PICK r, op, stage, m : Start(p, r, op, stage, m)
    BY <1>1, BegunStarts
  <2> QED BY <2>1 DEF Start, TypeOK
<1>2. CASE Return(p) \/ UNCHANGED <<pc, req, meta>>
  BY <1>2 DEF Return, TypeOK
<1>3. CASE Wrap(p) \/ ZeroFile(p)
  BY <1>3 DEF Wrap, ZeroFile, TypeOK
<1>4. CASE Put(p)
  <2>1. Return(p) \/ (pc' = [pc EXCEPT ![p] = "cascade"] /\ UNCHANGED <<req, meta>>)
    BY <1>4 DEF Put
  <2> QED BY <1>2, <2>1 DEF TypeOK
<1>5. Continue(p) \/ Fault(p) \/ EndCascade(p) =>
        Wrap(p) \/ ZeroFile(p) \/ Put(p) \/ Return(p) \/ UNCHANGED <<pc, req, meta>>
  BY DEF Continue, Fault, WrapFails, CascadeList, CascadeAborts, CascadeSkips, CascadeReports,
         CascadeSuspends, CascadeUnacknowledged, CascadeDone, PutFails, PutUnacknowledged,
         EndCascade, local
<1> QED BY <1>1, <1>2, <1>3, <1>4, <1>5

LEMMA NextCallsInPlace ==
  ASSUME EngineInv, CallsInPlace, [MaintenanceNext]_maintenanceVars
  PROVE  CallsInPlace'
<1>1. TypeOK /\ Cli \in Proc
  BY MaintenanceConstants DEF EngineInv
<1>2. CASE CommandOnly
  <2>1. pc' = pc
    BY <1>2, CommandOnlyStill DEF vars, local
  <2>2. step \in {"generate", "activated", "rewrap", "key"} => FALSE
    BY <1>2 DEF CommandOnly, BeginListing, BeginReading, Starts, ListFile, ListBreaks, ListEnds,
         TruncateArchive, WriteArchive, VerifyExits, BeginRestore, RestorePasses, RestoreChecks,
         RestorePutFails, RestoreExits, PlanExits, Plan, MigrateRefused, MigrateInactive,
         MigrateCannotRewrap, MigrateExits, Diagnose
  <2> QED BY <2>1, <2>2 DEF CallsInPlace
<1>3. CASE CommandCalls
  BY <1>3 DEF CommandCalls, KeyCommand, Starts, MigrateGenerates, MigrateActivates, MigrateRewraps,
              CallsInPlace
<1>4. CASE CliWorks
  BY <1>1, <1>4 DEF CliWorks, Wrap, ZeroFile, progress, CallsInPlace, TypeOK
<1>5. CASE CliPut \/ CliRefused \/ CliWriteFails \/ CliCrash
  <2>1. pc'[Cli] \in {"idle", "cascade"}
    BY <1>1, <1>5 DEF CliPut, CliRefused, CliWriteFails, CliCrash, Put, WrapFails, PutFails,
         PutUnacknowledged, EndCascade, Return, TypeOK
  <2> QED BY <2>1 DEF CallsInPlace
<1>6. ASSUME NEW p \in Servers, ServerSteps(p) PROVE CallsInPlace'
  <2>1. p # Cli /\ p \in Proc
    BY DEF Servers
  <2>2. step' = step
    BY <1>6 DEF ServerSteps, ServerBegins, ServerWorks, ServerFaults, Disturbs, progress
  <2>3. pc'[Cli] = pc[Cli]
    BY <1>1, <1>6, <2>1, ServerEngine, CallsApart
  <2> QED BY <2>2, <2>3 DEF CallsInPlace
<1>7. CASE RestorePuts \/ LoseStore \/ UNCHANGED maintenanceVars
  BY <1>7 DEF RestorePuts, LoseStore, maintenanceVars, progress, vars, local, CallsInPlace
<1> QED BY <1>2, <1>3, <1>4, <1>5, <1>6, <1>7, MaintenanceCases DEF CommandWorks

\* What the server and the command line's engine do to the files.
LEMMA EngineBeginsStill ==
  ASSUME NEW p, NEW r, Begin(p, r)
  PROVE  UNCHANGED <<file, store, blobs>>
BY DEF Begin, Generate, GenerateSigningKey, Create, Activate, Rotate, Rewrap, Revoke,
       RevokeCascade, Expire, Destroy, Encrypt, StartOn, Start, disk

LEMMA IdsAdd ==
  ASSUME NEW S, NEW r
  PROVE  Ids(S \cup {r}) = Ids(S) \cup {r.key}
BY DEF Ids

LEMMA NextListedTruly ==
  ASSUME EngineInv, CommandTyped, CallsInPlace, ListedTruly, [MaintenanceNext]_maintenanceVars
  PROVE  ListedTruly'
<1>1. ASSUME UNCHANGED <<file, store, step, listed, pending, command>>,
             disturbed' = FALSE => disturbed = FALSE
      PROVE  ListedTruly'
  <2>1. /\ Stored' = Stored /\ ListFails' = ListFails /\ Ids(listed)' = Ids(listed)
        /\ \A k : Record(k)' = Record(k) /\ Readable(k)' = Readable(k)
    BY <1>1 DEF Stored, ListFails, Ids, Record, Readable
  <2> QED BY <1>1, <2>1 DEF ListedTruly
<1>2. ASSUME step' \notin {"list", "listed", "write"} PROVE ListedTruly'
  BY <1>2 DEF ListedTruly
<1>3. CASE CommandOnly
  <2>1. UNCHANGED <<file, store>>
    BY <1>3, CommandOnlyStill DEF vars, disk
  <2>2. /\ Stored' = Stored /\ ListFails' = ListFails
        /\ \A k : Record(k)' = Record(k) /\ Readable(k)' = Readable(k)
    BY <2>1 DEF Stored, ListFails, Record, Readable
  <2>3. ASSUME NEW c \in Commands, BeginListing(c) PROVE ListedTruly'
    <3>1. step = "idle" /\ step' = "list" /\ listed' = listed /\ pending' = Stored
      BY <2>3 DEF BeginListing, Starts
    <3>2. listed = {}
      BY <3>1 DEF CommandTyped
    <3> QED BY <2>2, <3>1, <3>2 DEF ListedTruly
  <2>4. ASSUME NEW k \in KeyId, ListFile(k) PROVE ListedTruly'
    <3>1. /\ step = "list" /\ step' = "list" /\ k \in pending /\ Readable(k)
          /\ listed' = listed \cup {Record(k)} /\ pending' = pending \ {k}
          /\ UNCHANGED <<disturbed, command>>
      BY <2>4 DEF ListFile
    <3>2. Ids(listed)' = Ids(listed) \cup {k} /\ Record(k).key = k
      <4>1. Record(k).key = k
        BY DEF Record
      <4>2. Ids(listed') = Ids(listed) \cup {k}
        BY <3>1, <4>1, IdsAdd
      <4> QED BY <4>1, <4>2 DEF Ids
    <3> SUFFICES ASSUME ~disturbed PROVE ListedTruly'
      BY <3>1 DEF ListedTruly
    <3>3. \A r \in listed' : r = Record(r.key) /\ Readable(r.key)
      BY <3>1, <3>2 DEF ListedTruly
    <3>4. pending' \subseteq Stored /\ Stored \subseteq pending' \cup (Ids(listed) \cup {k})
      BY <3>1 DEF ListedTruly
    <3> QED BY <2>2, <3>1, <3>2, <3>3, <3>4 DEF ListedTruly
  <2>5. ASSUME NEW k \in KeyId, ListBreaks(k) PROVE ListedTruly'
    <3>1. CASE command.op = "create"
      BY <1>2, <2>5, <3>1 DEF ListBreaks, Exit
    <3>2. CASE command.op # "create"
      <4>1. /\ step = "list" /\ k \in pending /\ ~Readable(k)
            /\ step' = "listed" /\ listed' = {} /\ UNCHANGED <<disturbed, command>>
        BY <2>5, <3>2 DEF ListBreaks
      <4>2. ~disturbed => k \in Stored
        BY <4>1 DEF ListedTruly
      <4>3. ~disturbed => ListFails
        BY <4>1, <4>2 DEF Stored, Readable, ListFails, EngineInv, TypeOK
      <4> QED BY <2>2, <3>2, <4>1, <4>3 DEF ListedTruly
    <3> QED BY <3>1, <3>2
  <2>6. CASE ListEnds
    <3>1. /\ step = "list" /\ step' = "listed" /\ pending = {}
          /\ UNCHANGED <<pending, listed, disturbed, command>>
      BY <2>6 DEF ListEnds
    <3>2. Ids(listed)' = Ids(listed)
      BY <3>1 DEF Ids
    <3> QED BY <2>2, <3>1, <3>2 DEF ListedTruly
  <2>7. CASE TruncateArchive
    <3>1. /\ step = "listed" /\ step' = "write" /\ UNCHANGED <<pending, listed, disturbed, command>>
      BY <2>7 DEF TruncateArchive
    <3>2. Ids(listed)' = Ids(listed)
      BY <3>1 DEF Ids
    <3> QED BY <2>2, <3>1, <3>2 DEF ListedTruly
  <2>8. ASSUME ~\E c \in Commands : BeginListing(c), ~\E k \in KeyId : ListFile(k) \/ ListBreaks(k),
               ~ListEnds, ~TruncateArchive
        PROVE  step' \notin {"list", "listed", "write"}
    BY <1>3, <2>8 DEF CommandOnly, BeginReading, Starts, WriteArchive, VerifyExits, BeginRestore,
         RestorePasses, RestoreChecks, RestorePutFails, RestoreExits, PlanExits, Plan,
         MigrateRefused, MigrateInactive, MigrateCannotRewrap, MigrateExits, Diagnose,
         Exit, ExitByErrors
  <2> QED BY <1>2, <2>3, <2>4, <2>5, <2>6, <2>7, <2>8
<1>4. CASE CommandCalls
  BY <1>2, <1>4 DEF CommandCalls, KeyCommand, Starts, MigrateGenerates, MigrateActivates,
                    MigrateRewraps
<1>5. CASE CliWorks
  <2>1. pc[Cli] \in {"wrap", "zero"} /\ step' = step
    BY <1>5 DEF CliWorks, Wrap, ZeroFile, progress
  <2> QED BY <1>2, <2>1 DEF CallsInPlace
<1>6. CASE CliPut \/ CliRefused \/ CliWriteFails \/ CliCrash
  <2>1. step' \in {"idle", "activate", "create"}
    BY <1>6 DEF CliPut, CliRefused, CliWriteFails, CliErr, CliCrash, Exit
  <2> QED BY <1>2, <2>1
<1>7. ASSUME NEW p \in Servers, ServerSteps(p) PROVE ListedTruly'
  <2>1. Disturbs
    BY <1>7 DEF ServerSteps, ServerBegins, ServerWorks, ServerFaults
  <2>2. CASE disk' = disk
    BY <1>1, <2>1, <2>2 DEF Disturbs, disk, progress, CommandTyped
  <2>3. CASE disk' # disk
    <3>1. disturbed' = TRUE
      BY <2>1, <2>3 DEF Disturbs
    <3> QED BY <3>1 DEF ListedTruly
  <2> QED BY <2>2, <2>3
<1>8. CASE RestorePuts \/ LoseStore
  BY <1>2, <1>8 DEF RestorePuts, LoseStore, progress
<1>9. CASE UNCHANGED maintenanceVars
  BY <1>1, <1>9 DEF maintenanceVars, progress, vars, disk
<1> QED BY <1>3, <1>4, <1>5, <1>6, <1>7, <1>8, <1>9, MaintenanceCases DEF CommandWorks

\* The record of a key in a true listing is the stored one.
LEMMA ListedIsStored ==
  ASSUME \A r \in listed : r = Record(r.key) /\ Readable(r.key), NEW k \in Ids(listed)
  PROVE  Readable(k) /\ (CHOOSE r \in listed : r.key = k).meta = store[k]
<1>1. PICK r \in listed : r.key = k
  BY DEF Ids
<1>2. PICK s : s = (CHOOSE q \in listed : q.key = k)
  OBVIOUS
<1>3. s \in listed /\ s.key = k
  BY <1>1, <1>2
<1>4. s = Record(k) /\ Readable(k)
  BY <1>3
<1>5. s.meta = store[k]
  BY <1>4 DEF Record
<1> QED BY <1>2, <1>4, <1>5, Zenon

\* A backup written over a quiet directory describes it.
LEMMA WrittenDescribes ==
  ASSUME CommandTyped, ListedTruly, ~disturbed, WriteArchive, lineage \in {"live", "restored"}
  PROVE  FromArchive' /\ \A k \in Held' : file'[k] = "json"
<1>1. /\ archive'.keys = listed /\ archive'.quiet = TRUE /\ UNCHANGED <<file, store>>
      /\ step = "write" /\ command.op = "create"
  BY DEF WriteArchive, vars, disk, CommandTyped
<1>2. (\A r \in listed : r = Record(r.key) /\ Readable(r.key)) /\ Stored \subseteq Ids(listed)
  BY <1>1 DEF ListedTruly
<1>3. Held' = Ids(listed)
  BY <1>1 DEF Held, Ids
<1>4. \A k : Archived(k)' = (CHOOSE r \in listed : r.key = k).meta
  BY <1>1 DEF Archived
<1>5. \A k \in Ids(listed) : Readable(k) /\ Archived(k)' = store[k]
  BY <1>2, <1>4, ListedIsStored
<1> QED BY <1>1, <1>2, <1>3, <1>5 DEF FromArchive, Stored, Readable

LEMMA NextLineage ==
  ASSUME EngineInv, CommandTyped, CallsInPlace, ListedTruly, LineageTrue,
         [MaintenanceNext]_maintenanceVars
  PROVE  LineageTrue'
<1>1. ASSUME UNCHANGED <<file, store, archive, lineage>>, step' \notin {"restore", "put"},
             disturbed' => disturbed /\ (step = "idle" => step' = "idle")
      PROVE  LineageTrue'
  <2>1. FromArchive' = FromArchive /\ Held' = Held
    BY <1>1 DEF FromArchive, Held, Ids, Archived
  <2> QED BY <1>1, <2>1 DEF LineageTrue
<1>2. ASSUME lineage' \in {"mixed", "live"} PROVE LineageTrue'
  BY <1>2 DEF LineageTrue
<1>3. CASE CommandOnly
  <2>1. UNCHANGED <<file, store>>
    BY <1>3, CommandOnlyStill DEF vars, disk
  <2>2. ASSUME UNCHANGED archive PROVE FromArchive' = FromArchive /\ Held' = Held
    BY <2>1, <2>2 DEF FromArchive, Held, Ids, Archived
  <2>3. CASE TruncateArchive
    <3>1. /\ archive'.readable = {} /\ lineage' # "restoring" /\ step' = "write" /\ step = "listed"
          /\ disturbed' = disturbed /\ lineage' \in {lineage, "mixed"}
      BY <2>3 DEF TruncateArchive, NoArchive
    <3> QED BY <2>1, <3>1 DEF LineageTrue
  <2>4. CASE WriteArchive
    <3>1. step = "write" /\ step' = "idle" /\ UNCHANGED <<lineage, disturbed>> /\ lineage # "restoring"
      BY <2>4 DEF WriteArchive, Exit, CommandTyped
    <3>2. CASE lineage = "restored"
      <4>1. ~disturbed
        BY <3>2 DEF LineageTrue
      <4>2. FromArchive' /\ \A k \in Held' : file'[k] = "json"
        BY <2>4, <3>2, <4>1, WrittenDescribes
      <4> QED BY <3>1, <3>2, <4>2, <4>1 DEF LineageTrue
    <3>3. CASE lineage # "restored"
      BY <2>1, <3>1, <3>3 DEF LineageTrue
    <3> QED BY <3>2, <3>3
  <2>5. CASE BeginRestore
    <3>1. /\ step = "opened" /\ step' = "restore" /\ pending = Held
          /\ UNCHANGED <<archive, lineage, disturbed, pending, failed>>
      BY <2>5 DEF BeginRestore, CommandTyped
    <3> QED BY <2>1, <2>2, <3>1 DEF LineageTrue
  <2>6. ASSUME NEW k \in KeyId, RestorePasses(k) PROVE LineageTrue'
    <3>1. /\ step = "restore" /\ step' = "restore" /\ pending' = pending \ {k}
          /\ UNCHANGED <<archive, lineage, disturbed>>
          /\ ~failed' => ~failed /\ file[k] = "json"
      BY <2>6 DEF RestorePasses, Conflict, Unreadable, Readable
    <3> QED BY <2>1, <2>2, <3>1 DEF LineageTrue
  <2>7. ASSUME NEW k \in KeyId, RestoreChecks(k) PROVE LineageTrue'
    <3>1. /\ step = "restore" /\ step' = "put" /\ pending' = pending \ {k} /\ target' = k
          /\ UNCHANGED <<archive, lineage, disturbed, failed>>
      BY <2>7 DEF RestoreChecks
    <3> QED BY <2>1, <2>2, <3>1 DEF LineageTrue
  <2>8. CASE RestorePutFails
    <3>1. /\ step = "put" /\ step' = "restore" /\ failed' = TRUE
          /\ UNCHANGED <<archive, lineage, disturbed>>
      BY <2>8 DEF RestorePutFails, CountError
    <3> QED BY <2>1, <2>2, <3>1 DEF LineageTrue
  <2>9. CASE RestoreExits
    <3>1. /\ step = "restore" /\ step' = "idle" /\ pending = {} /\ UNCHANGED <<archive, disturbed>>
          /\ lineage' = IF lineage = "restoring" /\ ~failed THEN "restored" ELSE lineage
      BY <2>9 DEF RestoreExits, ExitByErrors, Exit
    <3>2. CASE lineage = "restoring" /\ ~failed
      <4>1. FromArchive /\ ~disturbed /\ \A k \in Held : file[k] = "json"
        BY <3>1, <3>2 DEF LineageTrue
      <4> QED BY <2>1, <2>2, <3>1, <3>2, <4>1 DEF LineageTrue
    <3>3. CASE ~(lineage = "restoring" /\ ~failed)
      BY <1>1, <2>1, <3>1, <3>3
    <3> QED BY <3>2, <3>3
  <2>10. ASSUME NEW c \in Commands, BeginListing(c) \/ BeginReading(c) PROVE LineageTrue'
    <3>1. disturbed' = FALSE /\ UNCHANGED <<archive, lineage>> /\ step' \in {"list", "opened"}
      BY <2>10 DEF BeginListing, BeginReading, Starts
    <3> QED BY <1>1, <2>1, <3>1
  <2>11. ASSUME NEW k \in KeyId, ListFile(k) \/ ListBreaks(k) \/ MigrateCannotRewrap(k)
         PROVE LineageTrue'
    <3>1. UNCHANGED <<archive, lineage, disturbed>> /\ step # "idle"
          /\ step' \in {"list", "idle", "listed", "create"}
      BY <2>11 DEF ListFile, ListBreaks, MigrateCannotRewrap, Exit
    <3> QED BY <1>1, <2>1, <3>1
  <2>12. CASE ListEnds \/ VerifyExits \/ PlanExits \/ Plan \/ MigrateRefused \/ MigrateInactive
              \/ MigrateExits \/ \E aged \in {{}, KeyId} : Diagnose(aged)
    <3>1. UNCHANGED <<archive, lineage, disturbed>> /\ step # "idle"
          /\ step' \in {"idle", "listed", "create"}
      BY <2>12 DEF ListEnds, VerifyExits, PlanExits, Plan, MigrateRefused, MigrateInactive,
                   MigrateExits, Diagnose, Exit, ExitByErrors
    <3> QED BY <1>1, <2>1, <3>1
  <2> QED BY <1>3, <2>3, <2>4, <2>5, <2>6, <2>7, <2>8, <2>9, <2>10, <2>11, <2>12 DEF CommandOnly
<1>4. CASE CommandCalls
  <2>1. UNCHANGED <<file, store>>
    BY <1>4, CommandCallsBegin, EngineBeginsStill
  <2>2. /\ UNCHANGED <<archive, lineage>> /\ step' \notin {"restore", "put"}
        /\ disturbed' => disturbed /\ step # "idle"
    BY <1>4 DEF CommandCalls, KeyCommand, Starts, MigrateGenerates, MigrateActivates, MigrateRewraps,
                CommandTyped
  <2> QED BY <1>1, <2>1, <2>2
<1>5. ASSUME CommandWorks, LineageAfterWrite, UNCHANGED <<archive, disturbed>>,
             step # "idle", step' \notin {"restore", "put"}
      PROVE  LineageTrue'
  <2>1. CASE disk' = disk
    BY <1>1, <1>5, <2>1 DEF LineageAfterWrite, disk
  <2>2. CASE disk' # disk
    BY <1>2, <1>5, <2>2 DEF LineageAfterWrite
  <2> QED BY <2>1, <2>2
<1>6. CASE CommandWorks
  <2>1. CASE CliWorks \/ CliPut \/ CliRefused \/ CliWriteFails
    <3>1. pc[Cli] \in {"wrap", "zero", "put"}
      BY <2>1 DEF CliWorks, CliPut, CliRefused, CliWriteFails, Wrap, ZeroFile, Put, WrapFails,
                  PutFails, PutUnacknowledged
    <3>2. step \in {"generate", "activated", "rewrap", "key"}
      BY <3>1 DEF CallsInPlace
    <3>3. LineageAfterWrite /\ UNCHANGED <<archive, disturbed>>
          /\ step' \in {step, "idle", "create", "activate"}
      BY <2>1 DEF CliWorks, CliPut, CliRefused, CliWriteFails, CliErr, Exit, progress
    <3> QED BY <1>5, <1>6, <3>2, <3>3
  <2>2. CASE CliCrash
    BY <1>1, <2>2 DEF CliCrash, Exit, disk
  <2> QED BY <1>6, <2>1, <2>2 DEF CommandWorks
<1>7. ASSUME NEW p \in Servers, ServerSteps(p) PROVE LineageTrue'
  <2>1. Disturbs
    BY <1>7 DEF ServerSteps, ServerBegins, ServerWorks, ServerFaults
  <2>2. CASE disk' = disk
    <3>1. /\ UNCHANGED <<file, store, archive, lineage, step, pending, target, failed>>
          /\ disturbed' = disturbed
      BY <2>1, <2>2 DEF Disturbs, LineageAfterWrite, disk, progress, CommandTyped
    <3>2. FromArchive' = FromArchive /\ Held' = Held
      BY <3>1 DEF FromArchive, Held, Ids, Archived
    <3> QED BY <3>1, <3>2 DEF LineageTrue
  <2>3. CASE disk' # disk
    BY <1>2, <2>1, <2>3 DEF Disturbs, LineageAfterWrite
  <2> QED BY <2>2, <2>3
<1>8. CASE RestorePuts
  <2>1. /\ step = "put" /\ Write(target, Archived(target)) /\ step' = "restore"
        /\ UNCHANGED <<pending, archive, disturbed>>
        /\ ~failed' => ~failed
        /\ lineage' = IF lineage \in {"lost", "restoring"} /\ archive.quiet
                      THEN "restoring" ELSE "mixed"
    BY <1>8 DEF RestorePuts, CountError
  <2>2. CASE lineage \in {"lost", "restoring"} /\ archive.quiet
    <3>1. target \in Held /\ target \in KeyId /\ ~disturbed
      BY <2>1, <2>2, ArchivedListed DEF CommandTyped, LineageTrue
    <3>2. /\ file'[target] = "json" /\ store'[target] = Archived(target)
          /\ \A k \in KeyId \ {target} : file'[k] = file[k] /\ store'[k] = store[k]
      BY <2>1, <3>1 DEF Write, EngineInv, TypeOK
    <3>3. Held' = Held /\ \A k : Archived(k)' = Archived(k)
      BY <2>1 DEF Held, Ids, Archived
    <3>4. \A k \in KeyId : file[k] # "absent" =>
            file[k] = "json" /\ k \in Held /\ store[k] = Archived(k)
      BY <2>2 DEF LineageTrue, FromArchive
    <3>5. FromArchive'
      BY <2>1, <2>2, <3>1, <3>2, <3>3, <3>4 DEF FromArchive
    <3>6. ~failed => \A k \in Held : k \in pending \/ file'[k] = "json"
      <4>1. Held \subseteq KeyId
        BY ArchivedListed
      <4> QED BY <2>1, <2>2, <3>2, <4>1 DEF LineageTrue
    <3> QED BY <2>1, <2>2, <3>1, <3>3, <3>5, <3>6 DEF LineageTrue
  <2>3. CASE ~(lineage \in {"lost", "restoring"} /\ archive.quiet)
    BY <1>2, <2>1, <2>3
  <2> QED BY <2>2, <2>3
<1>9. CASE LoseStore
  BY <1>9 DEF LoseStore, LineageTrue, progress
<1>10. CASE UNCHANGED maintenanceVars
  <2>1. UNCHANGED <<file, store, archive, lineage, step, pending, target, failed, disturbed>>
    BY <1>10 DEF maintenanceVars, progress, vars, disk
  <2>2. FromArchive' = FromArchive /\ Held' = Held
    BY <2>1 DEF FromArchive, Held, Ids, Archived
  <2> QED BY <2>1, <2>2 DEF LineageTrue
<1> QED BY <1>3, <1>4, <1>6, <1>7, <1>8, <1>9, <1>10, MaintenanceCases

-----------------------------------------------------------------------------
(* What a backup holds.                                                     *)

ArchivedIn(a, k) == (CHOOSE r \in a.keys : r.key = k).meta

\* The records of backup a are the ones stored.
Describes(a) ==
  \A k \in Ids(a.keys) : k \in KeyId /\ Readable(k) /\ store[k] = ArchivedIn(a, k)

\* In backup a the key that wraps v is in use, and has the version and the
\* keypair v was wrapped to.
ServedIn(a, v) ==
  /\ v.by \in Ids(a.keys)
  /\ ArchivedIn(a, v.by).state \in CanDecrypt
  /\ v.byVer \in DOMAIN ArchivedIn(a, v.by).versions
  /\ ArchivedIn(a, v.by).versions[v.byVer].pk = v.byPk

OpensFrom(f, a, d, k, v) ==
  \/ v.sk = "Encrypted"
  \/ v.sk = "CitadelWrapped" /\ d > 0 /\ ServedIn(a, v) /\ f[d - 1][v.by][v.byVer]

\* What f says opens with d levels of recursion left, opens from the backup alone.
ArchiveUnrolled(f, a) ==
  \A d \in 0..4, k \in Ids(a.keys), i \in Nat :
    f[d][k][i] => /\ i \in DOMAIN ArchivedIn(a, k).versions
                  /\ OpensFrom(f, a, d, k, ArchivedIn(a, k).versions[i])

ReadsFrom(f, a, b) ==
  /\ b.key \in Ids(a.keys) /\ b.ver \in Nat
  /\ ArchivedIn(a, b.key).state \in CanDecrypt
  /\ ArchivedIn(a, b.key).versions[b.ver].pk = b.pk
  /\ f[4][b.key][b.ver]

\* Every ciphertext the backup is answerable for opens with its records alone.
ArchiveOpens(a) ==
  \E f : ArchiveUnrolled(f, a) /\ \A b \in a.readable : ReadsFrom(f, a, b)

\* A backup that describes the directory opens what the directory opens.
LEMMA DescribedOpens ==
  ASSUME TypeOK, NEW a, Describes(a), Stored \subseteq Ids(a.keys),
         \A b \in a.readable : b.key \in KeyId /\ b.ver \in Nat /\ Decryptable(b)
  PROVE  ArchiveOpens(a)
<1>1. PICK f : Unrolled(f, FALSE)
  BY OpensUnrolls, Zenon
<1>2. ASSUME NEW d \in 0..4, NEW k \in Ids(a.keys), NEW i \in Nat, f[d][k][i]
      PROVE  /\ i \in DOMAIN ArchivedIn(a, k).versions
             /\ OpensFrom(f, a, d, k, ArchivedIn(a, k).versions[i])
  <2>1. k \in KeyId /\ store[k] = ArchivedIn(a, k)
    BY DEF Describes
  <2>2. f[d][k][i] = OpensOver(f, d, k, i, FALSE)
    BY <1>1, <2>1, Zenon DEF Unrolled
  <2>3. OpensOver(f, d, k, i, FALSE)
    BY <1>2, <2>2, Zenon
  <2>4. i \in DOMAIN store[k].versions
    BY <2>3, Zenon DEF OpensOver
  <2>5. PICK v : v = store[k].versions[i]
    OBVIOUS
  <2>6. v \in Version
    BY <2>1, <2>4, <2>5 DEF TypeOK, Meta
  <2>7. \/ v.sk = "Encrypted"
        \/ v.sk = "CitadelWrapped" /\ d > 0 /\ ParentServes(v, FALSE) /\ f[d - 1][v.by][v.byVer]
    BY <2>3, <2>5, Zenon DEF OpensOver
  <2>8. ASSUME v.sk = "CitadelWrapped", ParentServes(v, FALSE) PROVE ServedIn(a, v)
    <3>1. v.by # NoKey /\ Readable(v.by) /\ store[v.by].state \in CanDecrypt
          /\ v.byVer \in DOMAIN store[v.by].versions /\ store[v.by].versions[v.byVer].pk = v.byPk
      BY <2>8 DEF ParentServes
    <3>2. v.by \in KeyId
      BY <2>6, <2>8, <3>1 DEF Version
    <3>3. v.by \in Ids(a.keys) /\ store[v.by] = ArchivedIn(a, v.by)
      BY <3>1, <3>2 DEF Stored, Readable, Describes
    <3> QED BY <3>1, <3>3 DEF ServedIn
  <2>9. OpensFrom(f, a, d, k, v)
    BY <2>7, <2>8, Zenon DEF OpensFrom
  <2> QED BY <2>1, <2>4, <2>5, <2>9, Zenon
<1>3. ASSUME NEW b \in a.readable PROVE ReadsFrom(f, a, b)
  <2>1. b.key \in KeyId /\ b.ver \in Nat
    OBVIOUS
  <2>2. /\ Readable(b.key) /\ store[b.key].state \in CanDecrypt
        /\ Opens(b.key, b.ver, FALSE) /\ store[b.key].versions[b.ver].pk = b.pk
    BY Zenon DEF Decryptable
  <2>3. b.key \in Ids(a.keys) /\ store[b.key] = ArchivedIn(a, b.key)
    BY <2>1, <2>2 DEF Stored, Readable, Describes
  <2>4. Opens(b.key, b.ver, FALSE) = f[4][b.key][b.ver]
    BY <1>1, <2>1, Zenon DEF Unrolled
  <2>5. f[4][b.key][b.ver]
    BY <2>2, <2>4, Zenon
  <2> QED BY <2>1, <2>2, <2>3, <2>5, Zenon DEF ReadsFrom
<1>4. ArchiveUnrolled(f, a)
  BY <1>2, Zenon DEF ArchiveUnrolled
<1> QED BY <1>3, <1>4, Zenon DEF ArchiveOpens

\* Once the records of a backup are the ones stored, what it opens decrypts.
LEMMA RestoredOpens ==
  ASSUME TypeOK, NEW a, ArchiveOpens(a), Describes(a), NEW b \in a.readable
  PROVE  Decryptable(b)
<1>1. PICK f : ArchiveUnrolled(f, a) /\ \A c \in a.readable : ReadsFrom(f, a, c)
  BY Zenon DEF ArchiveOpens
<1>2. PICK g : Unrolled(g, FALSE)
  BY OpensUnrolls, Zenon
<1> DEFINE Covered(d) == \A k \in Ids(a.keys), i \in Nat : f[d][k][i] => g[d][k][i]
\* What f says opens, opens in the directory if all above it does.
<1>3. ASSUME NEW d \in 0..4, d > 0 => Covered(d - 1) PROVE Covered(d)
  <2> SUFFICES ASSUME NEW k \in Ids(a.keys), NEW i \in Nat, f[d][k][i] PROVE g[d][k][i]
    BY Zenon
  <2>1. k \in KeyId /\ store[k] = ArchivedIn(a, k)
    BY DEF Describes
  <2>2. i \in DOMAIN store[k].versions /\ OpensFrom(f, a, d, k, store[k].versions[i])
    BY <1>1, <2>1, Zenon DEF ArchiveUnrolled
  <2>3. PICK v : v = store[k].versions[i]
    OBVIOUS
  <2>4. \/ v.sk = "Encrypted"
        \/ v.sk = "CitadelWrapped" /\ d > 0 /\ ServedIn(a, v) /\ f[d - 1][v.by][v.byVer]
    BY <2>2, <2>3, Zenon DEF OpensFrom
  <2>5. ASSUME ServedIn(a, v) PROVE ParentServes(v, FALSE)
    BY <2>5, KeystoreConstants DEF ServedIn, Describes, ParentServes
  <2>6. ASSUME d > 0, ServedIn(a, v), f[d - 1][v.by][v.byVer] PROVE g[d - 1][v.by][v.byVer]
    <3>1. v.by \in Ids(a.keys) /\ store[v.by] \in Meta /\ v.byVer \in DOMAIN store[v.by].versions
      BY <2>6 DEF ServedIn, Describes, TypeOK
    <3>2. v.byVer \in Nat
      BY <3>1 DEF Meta
    <3> QED BY <1>3, <2>6, <3>1, <3>2, Zenon
  <2>7. OpensOver(g, d, k, i, FALSE)
    BY <2>2, <2>3, <2>4, <2>5, <2>6, Zenon DEF OpensOver
  <2>8. g[d][k][i] = OpensOver(g, d, k, i, FALSE)
    BY <1>2, <2>1, Zenon DEF Unrolled
  <2> QED BY <2>7, <2>8, Zenon
<1> HIDE DEF Covered
<1>4. Covered(0)
  BY <1>3
<1>5. Covered(1)
  BY <1>3, <1>4
<1>6. Covered(2)
  BY <1>3, <1>5
<1>7. Covered(3)
  BY <1>3, <1>6
<1>8. Covered(4)
  BY <1>3, <1>7
<1>9. /\ b.key \in Ids(a.keys) /\ b.ver \in Nat
      /\ ArchivedIn(a, b.key).state \in CanDecrypt
      /\ ArchivedIn(a, b.key).versions[b.ver].pk = b.pk
      /\ f[4][b.key][b.ver]
  BY <1>1, Zenon DEF ReadsFrom
<1>10. b.key \in KeyId /\ Readable(b.key) /\ store[b.key] = ArchivedIn(a, b.key)
  BY <1>9 DEF Describes
<1>11. g[4][b.key][b.ver]
  BY <1>8, <1>9, Zenon DEF Covered
<1>12. Opens(b.key, b.ver, FALSE) = g[4][b.key][b.ver]
  BY <1>2, <1>9, <1>10, Zenon DEF Unrolled
<1>13. Opens(b.key, b.ver, FALSE)
  BY <1>11, <1>12, Zenon
<1> QED BY <1>9, <1>10, <1>13, Zenon DEF Decryptable

\* Every ciphertext that decrypted when the backup was taken in quiet opens with
\* the records of the backup.
ArchiveKept == archive.quiet => ArchiveOpens(archive)

LEMMA NextArchiveKept ==
  ASSUME EngineInv, CommandTyped, ListedTruly, ArchiveKept, [MaintenanceNext]_maintenanceVars
  PROVE  ArchiveKept'
<1>1. ASSUME archive' = archive PROVE ArchiveKept'
  <2> SUFFICES ASSUME archive'.quiet PROVE ArchiveOpens(archive')
    BY DEF ArchiveKept, ArchiveOpens, ArchiveUnrolled, ReadsFrom, OpensFrom, ServedIn, ArchivedIn, Ids
  <2> QED BY <1>1 DEF ArchiveKept
<1>2. CASE WriteArchive
  <2> SUFFICES ASSUME archive'.quiet PROVE ArchiveOpens(archive')
    BY DEF ArchiveKept, ArchiveOpens, ArchiveUnrolled, ReadsFrom, OpensFrom, ServedIn, ArchivedIn, Ids
  <2>1. /\ ~disturbed /\ lineage \in {"live", "restored"}
        /\ archive'.readable = {b \in blobs : Decryptable(b)}
    BY <1>2 DEF WriteArchive
  <2>2. UNCHANGED <<file, store>>
    BY <1>2 DEF WriteArchive, vars, disk
  <2>3. FromArchive' /\ \A k \in Held' : file'[k] = "json"
    BY <1>2, <2>1, WrittenDescribes
  <2>4. Held' = Ids(archive'.keys) /\ \A k : Archived(k)' = ArchivedIn(archive', k)
    BY DEF Held, Ids, Archived, ArchivedIn
  <2>5. archive'.keys \subseteq Listed
    BY <1>2 DEF WriteArchive, CommandTyped
  <2>6. Ids(archive'.keys) \subseteq KeyId
    BY <2>5 DEF Ids, Listed
  <2>7. \A k \in KeyId : file[k] # "absent" =>
          k \in Ids(archive'.keys) /\ store[k] = ArchivedIn(archive', k)
    BY <2>2, <2>3, <2>4 DEF FromArchive
  <2>8. Describes(archive') /\ Stored \subseteq Ids(archive'.keys)
    BY <2>2, <2>3, <2>4, <2>6, <2>7 DEF Describes, Stored, Readable
  <2>9. \A b \in archive'.readable : b.key \in KeyId /\ b.ver \in Nat /\ Decryptable(b)
    BY <2>1 DEF EngineInv, TypeOK
  <2> QED BY <2>8, <2>9, DescribedOpens DEF EngineInv
<1>3. CASE TruncateArchive
  BY <1>3 DEF TruncateArchive, NoArchive, ArchiveKept
<1>4. ASSUME CommandOnly, ~WriteArchive, ~TruncateArchive PROVE archive' = archive
  BY <1>4 DEF CommandOnly, BeginListing, BeginReading, Starts, ListFile, ListBreaks, ListEnds,
       VerifyExits, BeginRestore, RestorePasses, RestoreChecks, RestorePutFails, RestoreExits,
       PlanExits, Plan, MigrateRefused, MigrateInactive, MigrateCannotRewrap, MigrateExits, Diagnose
<1>5. ASSUME CommandCalls \/ CommandWorks PROVE archive' = archive
  BY <1>5 DEF CommandCalls, KeyCommand, Starts, MigrateGenerates, MigrateActivates, MigrateRewraps,
       CommandWorks, CliWorks, CliPut, CliRefused, CliWriteFails, CliErr, CliCrash
<1>6. ASSUME NEW p \in Servers, ServerSteps(p) PROVE archive' = archive
  BY <1>6 DEF ServerSteps, ServerBegins, ServerWorks, ServerFaults, Disturbs
<1>7. RestorePuts \/ LoseStore \/ UNCHANGED maintenanceVars => archive' = archive
  BY DEF RestorePuts, LoseStore, maintenanceVars
<1> QED BY <1>1, <1>2, <1>3, <1>4, <1>5, <1>6, <1>7, MaintenanceCases

\* A store from before the hierarchy is typed and well formed as well.
LEMMA FlatEngine ==
  ASSUME StoreInit
  PROVE  EngineInv
<1>1. CASE Init
  <2>1. TypeOK /\ RecordsWellFormed
    BY <1>1, InitStruct DEF StructInv
  <2>2. \A p \in Proc : LocalWell(p)
    BY <1>1 DEF Init, LocalWell
  <2> QED BY <2>1, <2>2 DEF EngineInv
<1>2. CASE ~Init
  <2>1. /\ file = [k \in KeyId |-> IF k \in Flat THEN "json" ELSE "absent"]
        /\ store = [k \in KeyId |-> IF k \in Flat THEN FlatMeta ELSE NoMeta]
        /\ minted = [k \in KeyId |-> IF k \in Flat THEN 1 ELSE 0]
        /\ blobs = {} /\ sealed = [k \in KeyId |-> 0]
        /\ pc = [p \in Proc |-> "idle"] /\ req = [p \in Proc |-> NoRequest]
        /\ meta = [p \in Proc |-> NoMeta] /\ fresh = [p \in Proc |-> NoVersion]
        /\ queue = [p \in Proc |-> <<>>] /\ snap = [p \in Proc |-> {}]
        /\ errors = [p \in Proc |-> {}]
    BY <1>2 DEF StoreInit
  <2> DEFINE w == [Keypair(1, "DataEncrypting") EXCEPT !.sk = "Encrypted"]
  <2>2. w \in Version /\ w.sk = "Encrypted" /\ w.pk = 1
    BY DEF Keypair, Version
  <2>3. NoVersion \in Version /\ NoMeta \in Meta
    BY DEF NoVersion, Keypair, Version, NoMeta, Blank, Meta, KeyType, KeyState
  <2> HIDE DEF w
  <2>4. FlatMeta = [type |-> "DataEncrypting", state |-> "Active", parent |-> NoKey,
                    versions |-> <<w>>, current |-> 1, usage |-> 0]
    BY DEF FlatMeta, w
  <2>5. FlatMeta \in Meta /\ WellFormed(FlatMeta)
    BY <2>2, <2>4 DEF Meta, KeyType, KeyState, WellFormed
  <2>6. TypeOK
    BY <2>1, <2>3, <2>5 DEF TypeOK
  <2>7. RecordsWellFormed
    BY <2>1, <2>5 DEF RecordsWellFormed
  <2>8. \A p \in Proc : LocalWell(p)
    BY <2>1 DEF LocalWell
  <2> QED BY <2>6, <2>7, <2>8 DEF EngineInv
<1> QED BY <1>1, <1>2

LEMMA InitRecovery == MaintenanceInit => RecoveryInv /\ ArchiveKept
<1> SUFFICES ASSUME MaintenanceInit PROVE RecoveryInv /\ ArchiveKept
  OBVIOUS
<1>1. EngineInv
  BY FlatEngine DEF MaintenanceInit
<1>2. pc[Cli] = "idle"
  BY MaintenanceConstants DEF MaintenanceInit, StoreInit, Init
<1>3. CommandTyped
  BY DEF MaintenanceInit, CommandTyped, Steps, NoArchive
<1>4. CallsInPlace /\ ListedTruly /\ LineageTrue
  BY <1>2 DEF MaintenanceInit, CallsInPlace, ListedTruly, LineageTrue
<1>5. ArchiveKept
  BY DEF MaintenanceInit, ArchiveKept, NoArchive
<1> QED BY <1>1, <1>3, <1>4, <1>5 DEF RecoveryInv

LEMMA NextRecovery ==
  ASSUME RecoveryInv, ArchiveKept, [MaintenanceNext]_maintenanceVars
  PROVE  RecoveryInv' /\ ArchiveKept'
BY NextEngine, NextCommandTyped, NextCallsInPlace, NextListedTruly, NextLineage, NextArchiveKept
   DEF RecoveryInv

(* What was lost comes back: after a restore that exits with 0, of a backup   *)
(* taken while nobody wrote, every ciphertext that decrypted when the backup  *)
(* was taken decrypts again -- for any keys, any calls of the server and any  *)
(* sequence of commands, crashes, failed writes and losses between the two.   *)
THEOREM RestoreRecovers == MaintenanceSpec => []RecoveredDecrypts
<1>1. RecoveryInv /\ ArchiveKept => RecoveredDecrypts
  <2> SUFFICES ASSUME RecoveryInv, ArchiveKept, lineage = "restored", NEW b \in archive.readable
               PROVE  Decryptable(b)
    BY DEF RecoveredDecrypts
  <2>1. FromArchive /\ \A k \in Held : file[k] = "json"
    BY DEF RecoveryInv, LineageTrue
  <2>2. Held = Ids(archive.keys) /\ \A k : Archived(k) = ArchivedIn(archive, k)
    BY DEF Held, Archived, ArchivedIn
  <2>3. Held \subseteq KeyId
    BY ArchivedListed DEF RecoveryInv
  <2>4. Describes(archive)
    BY <2>1, <2>2, <2>3 DEF FromArchive, Describes, Readable
  <2>5. ArchiveOpens(archive) /\ TypeOK
    BY <2>1 DEF ArchiveKept, FromArchive, RecoveryInv, EngineInv
  <2> QED BY <2>4, <2>5, RestoredOpens
<1> QED BY <1>1, InitRecovery, NextRecovery, PTL DEF MaintenanceSpec

-----------------------------------------------------------------------------
(* Migration.                                                               *)

MigrationSteps == {"create", "generate", "activate", "activated", "rewrap"}

\* The key of a level of the named hierarchy, and a DEK no key wraps.
LevelKey(k, t) ==
  k \in Named /\ file[k] # "absent" /\ store[k].type = t /\ store[k].state = "Active"
Bare(m) == m.type = "DataEncrypting" /\ m.state \in CanDecrypt /\ Current(m).by = NoKey

\* A step belongs to the command that has it.
StepsOfCommands ==
  /\ step = "opened" => command.op \in {"verify", "restore"}
  /\ step \in {"restore", "put"} => command.op = "restore"
  /\ step = "key" => command.op = "key"

\* The levels to make, and the keys that are already there.
CreatedKept ==
  /\ created \in [Level -> KeyId \cup {NoKey}]
  /\ \A t \in Level : created[t] # NoKey =>
       file[created[t]] # "absent" /\ store[created[t]].type = t

\* What call the migration is in, on which record.
MigrationCalls ==
  step \in MigrationSteps /\ ~disturbed =>
    /\ pc[Cli] # "zero" /\ missing \subseteq Level /\ CreatedKept
    /\ step \in {"generate", "activate", "activated"} => missing # {} /\ target \in Named
    /\ step = "generate" =>
         /\ req[Cli].op = "generate" /\ req[Cli].key = target
         /\ meta[Cli].type = NextLevel /\ file[target] = "absent"
    /\ step \in {"activate", "activated"} =>
         file[target] = "json" /\ store[target].type = NextLevel
    /\ step = "activated" =>
         /\ pc[Cli] # "wrap" /\ req[Cli].op = "activate" /\ req[Cli].key = target
         /\ meta[Cli].type = NextLevel /\ meta[Cli].state = "Active"
    /\ step = "rewrap" =>
         /\ req[Cli].op = "rewrap" /\ req[Cli].parent = created["KeyEncrypting"]
         /\ created["KeyEncrypting"] # NoKey
         /\ file[req[Cli].key] = "json"
         /\ meta[Cli].type = store[req[Cli].key].type
         /\ meta[Cli].state = store[req[Cli].key].state
         /\ pc[Cli] = "put" => Current(meta[Cli]).by # NoKey

\* As long as nothing failed, the levels that are not missing are there, and
\* every bare DEK is waiting or being rewrapped.
MigrationOnCourse ==
  step \in MigrationSteps /\ ~disturbed /\ ~failed /\ ~ListFails =>
    /\ \A t \in Level \ missing : \E k \in KeyId : LevelKey(k, t)
    /\ \A k \in KeyId : file[k] # "absent" /\ Bare(store[k]) =>
         k \in pending \/ (step = "rewrap" /\ k = req[Cli].key)

\* The hierarchy is there and every DEK in use is wrapped by a key.
Migrated ==
  /\ \A t \in Level : \E k \in KeyId : LevelKey(k, t)
  /\ \A k \in KeyId : file[k] # "absent" => ~Bare(store[k])

MigrationEnds ==
  Succeeded("migrate") /\ command.flag = "none" /\ ~ListFails => Migrated

MigrationInv == StepsOfCommands /\ MigrationCalls /\ MigrationOnCourse /\ MigrationEnds

LEMMA LevelAhead ==
  ASSUME missing \subseteq Level, missing # {}
  PROVE  NextLevel \in missing /\ NextLevel \in Level /\ NextLevel # "DataEncrypting"
BY DEF NextLevel, Level

LEMMA InstallKeeps ==
  ASSUME NEW m \in Meta, NEW op, NEW v \in Version
  PROVE  /\ Install(m, op, v).type = m.type /\ Install(m, op, v).state = m.state
         /\ op = "rewrap" /\ m.current \in DOMAIN m.versions => Current(Install(m, op, v)) = v
<1>1. m.versions \in Seq(Version)
  BY DEF Meta
<1>2. CASE op = "rewrap"
  <2> DEFINE vs == [m.versions EXCEPT ![m.current] = v]
  <2>1. Install(m, op, v) = [m EXCEPT !.versions = vs]
    BY <1>2 DEF Install
  <2> HIDE DEF vs
  <2>2. /\ Install(m, op, v).type = m.type /\ Install(m, op, v).state = m.state
        /\ Install(m, op, v).versions = vs /\ Install(m, op, v).current = m.current
    BY <2>1 DEF Meta
  <2>3. m.current \in DOMAIN m.versions => vs[m.current] = v
    BY <1>1 DEF vs
  <2> QED BY <2>2, <2>3 DEF Current
<1>3. CASE op # "rewrap"
  BY <1>3 DEF Install, Meta
<1> QED BY <1>2, <1>3

\* The server's steps are not the command line's, and they disturb when they write.
LEMMA ServerApart ==
  ASSUME EngineInv, CommandTyped, NEW p \in Servers, ServerSteps(p)
  PROVE  /\ pc'[Cli] = pc[Cli] /\ req'[Cli] = req[Cli] /\ meta'[Cli] = meta[Cli]
         /\ UNCHANGED progress
         /\ disturbed' = TRUE \/ (UNCHANGED <<file, store>> /\ disturbed = FALSE)
<1>1. TypeOK /\ Cli \in Proc /\ p # Cli /\ p \in Proc
  BY MaintenanceConstants DEF EngineInv, Servers
<1>2. Disturbs
  BY DEF ServerSteps, ServerBegins, ServerWorks, ServerFaults
<1>3. pc'[Cli] = pc[Cli] /\ req'[Cli] = req[Cli] /\ meta'[Cli] = meta[Cli]
  BY <1>1, ServerEngine, CallsApart
<1>4. CASE disturbed = TRUE \/ disk' # disk
  BY <1>2, <1>3, <1>4 DEF Disturbs
<1>5. CASE disturbed = FALSE /\ disk' = disk
  BY <1>2, <1>3, <1>5 DEF Disturbs, disk
<1> QED BY <1>4, <1>5 DEF CommandTyped

LEMMA MigrationUnmoved ==
  ASSUME MigrationInv, UNCHANGED <<file, store, progress>>, disturbed => disturbed',
         pc'[Cli] = pc[Cli], req'[Cli] = req[Cli], meta'[Cli] = meta[Cli]
  PROVE  MigrationInv'
<1> USE DEF progress
<1>1. StepsOfCommands'
  BY DEF MigrationInv, StepsOfCommands
<1>2. MigrationCalls'
  BY DEF MigrationInv, MigrationCalls, CreatedKept, NextLevel, Current
<1>3. MigrationOnCourse'
  BY DEF MigrationInv, MigrationOnCourse, LevelKey, Bare, Current, ListFails
<1>4. MigrationEnds'
  BY DEF MigrationInv, MigrationEnds, Migrated, Succeeded, LevelKey, Bare, Current, ListFails
<1> QED BY <1>1, <1>2, <1>3, <1>4 DEF MigrationInv

\* A true listing with nothing to do shows a migrated directory.
LEMMA ListedPlanned ==
  ASSUME ListedTruly, step = "listed", command.op = "migrate", ~disturbed, ~ListFails
  PROVE  /\ \A t \in Level \ keys_to_create(listed) : \E k \in KeyId : LevelKey(k, t)
         /\ \A k \in KeyId : file[k] # "absent" /\ Bare(store[k]) => k \in keys_to_rewrap(listed)
<1>1. (\A r \in listed : r = Record(r.key) /\ Readable(r.key)) /\ Stored \subseteq Ids(listed)
  BY DEF ListedTruly
<1>2. ASSUME NEW t \in Level, t \notin keys_to_create(listed) PROVE \E k \in KeyId : LevelKey(k, t)
  <2>1. PICK r \in listed : IsLevel(r, t)
    BY <1>2 DEF keys_to_create
  <2>2. r.key \in Named /\ r.meta.type = t /\ r.meta.state = "Active"
    BY <2>1 DEF IsLevel
  <2>3. r.meta = store[r.key] /\ Readable(r.key)
    <3>1. r = Record(r.key) /\ Readable(r.key)
      BY <1>1
    <3> QED BY <3>1 DEF Record
  <2>4. LevelKey(r.key, t)
    BY <2>2, <2>3 DEF LevelKey, Readable
  <2> QED BY <2>2, <2>4, MaintenanceConstants
<1>3. ASSUME NEW k \in KeyId, file[k] # "absent", Bare(store[k]) PROVE k \in keys_to_rewrap(listed)
  <2>1. PICK r \in listed : r.key = k
    BY <1>1, <1>3 DEF Stored, Ids
  <2>2. r.meta = store[k]
    <3>1. r = Record(k)
      BY <1>1, <2>1
    <3> QED BY <3>1 DEF Record
  <2> QED BY <1>3, <2>1, <2>2 DEF keys_to_rewrap, Bare
<1> QED BY <1>2, <1>3

LEMMA MigratedPlanned == Migrated => Planned({Record(k) : k \in Stored})
<1> SUFFICES ASSUME Migrated PROVE Planned({Record(k) : k \in Stored})
  OBVIOUS
<1> DEFINE R == {Record(k) : k \in Stored}
<1>1. keys_to_create(R) = {}
  <2> SUFFICES ASSUME NEW t \in Level PROVE \E r \in R : IsLevel(r, t)
    BY DEF keys_to_create
  <2>1. PICK k \in KeyId : LevelKey(k, t)
    BY DEF Migrated
  <2>2. k \in Stored /\ Record(k).key = k /\ Record(k).meta = store[k]
    BY <2>1 DEF LevelKey, Stored, Record
  <2>3. IsLevel(Record(k), t)
    BY <2>1, <2>2 DEF LevelKey, IsLevel
  <2> QED BY <2>2, <2>3
<1>2. keys_to_rewrap(R) = {}
  <2>1. ASSUME NEW k \in Stored
        PROVE  ~(/\ Record(k).meta.type = "DataEncrypting"
                 /\ Record(k).meta.state \in CanDecrypt
                 /\ Current(Record(k).meta).by = NoKey)
    <3>1. Record(k).meta = store[k]
      BY DEF Record
    <3>2. ~Bare(store[k])
      BY DEF Migrated, Stored
    <3> QED BY <3>1, <3>2 DEF Bare
  <2> QED BY <2>1 DEF keys_to_rewrap
<1> QED BY <1>1, <1>2 DEF Planned

\* A call of the migration writes its own record, and keeps the type of what was there.
LEMMA MigrationWrites ==
  ASSUME EngineInv, MigrationCalls, step \in {"generate", "activated", "rewrap"}, ~disturbed,
         pc[Cli] = "put", Write(req[Cli].key, meta[Cli])
  PROVE  /\ req[Cli].key \in KeyId /\ file[req[Cli].key] # "zeroed"
         /\ file'[req[Cli].key] = "json" /\ store'[req[Cli].key] = meta[Cli]
         /\ \A k \in KeyId \ {req[Cli].key} : file'[k] = file[k] /\ store'[k] = store[k]
         /\ \A k \in KeyId : file[k] # "absent" =>
              file'[k] # "absent" /\ store'[k].type = store[k].type
         /\ ListFails' => ListFails
         /\ ListFails => ListFails'
<1>1. TypeOK /\ req[Cli].key \in KeyId
  BY MaintenanceConstants DEF EngineInv, LocalWell, Request
<1>2. /\ file'[req[Cli].key] = "json" /\ store'[req[Cli].key] = meta[Cli]
      /\ \A k \in KeyId \ {req[Cli].key} : file'[k] = file[k] /\ store'[k] = store[k]
  BY <1>1 DEF Write, TypeOK
<1>3. /\ file[req[Cli].key] # "zeroed"
      /\ file[req[Cli].key] # "absent" => meta[Cli].type = store[req[Cli].key].type
  BY DEF MigrationCalls, MigrationSteps
<1>4. (ListFails' => ListFails) /\ (ListFails => ListFails')
  BY <1>1, <1>2, <1>3 DEF ListFails
<1> QED BY <1>1, <1>2, <1>3, <1>4

LEMMA ExistingKept ==
  ASSUME NEW t \in Level
  PROVE  /\ Existing(t) \in KeyId \cup {NoKey}
         /\ Existing(t) # NoKey => file[Existing(t)] # "absent" /\ store[Existing(t)].type = t
<1> DEFINE found == {k \in Stored : IsLevel(Record(k), t)}
<1>1. CASE ListFails \/ found = {}
  BY <1>1 DEF Existing
<1>2. CASE ~(ListFails \/ found = {})
  <2>1. PICK k \in found : k = Existing(t)
    BY <1>2 DEF Existing
  <2>2. k \in Stored /\ Record(k).meta = store[k] /\ Record(k).meta.type = t
    BY <2>1 DEF IsLevel, Record
  <2> QED BY <2>1, <2>2 DEF Stored
<1> QED BY <1>1, <1>2

\* What is owed by a step of another command, at the end of one, and in a migration.
LEMMA OtherSteps ==
  ASSUME step' \notin MigrationSteps \cup {"idle"}, StepsOfCommands'
  PROVE  MigrationInv'
BY DEF MigrationInv, MigrationCalls, MigrationOnCourse, MigrationEnds, Succeeded

LEMMA CommandOver ==
  ASSUME step' = "idle", MigrationEnds'
  PROVE  MigrationInv'
BY DEF MigrationInv, MigrationSteps, StepsOfCommands, MigrationCalls, MigrationOnCourse

LEMMA MigrationGoesOn ==
  ASSUME step' \in MigrationSteps, MigrationCalls', MigrationOnCourse'
  PROVE  MigrationInv'
BY DEF MigrationInv, MigrationSteps, StepsOfCommands, MigrationEnds, Succeeded

\* The steps that touch neither the files nor the engine.
LEMMA CommandMigration ==
  ASSUME RecoveryInv, MigrationInv, CommandOnly
  PROVE  MigrationInv'
<1>1. UNCHANGED <<file, store, pc, req, meta>>
  BY CommandOnlyStill DEF vars, disk, local
<1>2. ListFails' = ListFails
  BY <1>1 DEF ListFails
<1>3. ASSUME NEW c \in Commands, BeginListing(c) \/ BeginReading(c) PROVE MigrationInv'
  <2>1. \/ step' = "list"
        \/ step' = "opened" /\ command'.op \in {"verify", "restore"}
    BY <1>3 DEF BeginListing, BeginReading, Starts
  <2> QED BY OtherSteps, <2>1 DEF MigrationSteps, StepsOfCommands
<1>4. ASSUME NEW k \in KeyId, ListFile(k) \/ ListBreaks(k) PROVE MigrationInv'
  <2>1. CASE step' \in {"list", "listed"}
    BY OtherSteps, <2>1 DEF MigrationSteps, StepsOfCommands
  <2>2. CASE Exit(1)
    BY CommandOver, <2>2 DEF Exit, MigrationEnds, Succeeded
  <2> QED BY <1>4, <2>1, <2>2 DEF ListFile, ListBreaks
<1>5. CASE ListEnds \/ TruncateArchive
  BY OtherSteps, <1>5 DEF ListEnds, TruncateArchive, MigrationSteps, StepsOfCommands
<1>6. CASE BeginRestore \/ RestorePutFails \/ \E k \in KeyId : RestorePasses(k) \/ RestoreChecks(k)
  <2>1. step' \in {"restore", "put"} /\ command' = command /\ command.op = "restore"
    BY <1>6 DEF BeginRestore, RestorePutFails, RestorePasses, RestoreChecks, MigrationInv,
                StepsOfCommands
  <2> QED BY OtherSteps, <2>1 DEF MigrationSteps, StepsOfCommands
<1>7. CASE WriteArchive \/ VerifyExits \/ RestoreExits \/ \E aged \in {{}, KeyId} : Diagnose(aged)
  <2>1. step' = "idle" /\ command' = command /\ command.op # "migrate"
    BY <1>7 DEF WriteArchive, VerifyExits, RestoreExits, Diagnose, Exit, ExitByErrors,
                 RecoveryInv, CommandTyped, MigrationInv, StepsOfCommands
  <2> QED BY CommandOver, <2>1 DEF MigrationEnds, Succeeded
<1>8. CASE PlanExits
  <2>1. /\ step' = "idle" /\ UNCHANGED <<command, disturbed>> /\ step = "listed"
        /\ command.op = "migrate" /\ (command.flag = "dry_run" \/ Planned(listed))
    BY <1>8 DEF PlanExits, Exit
  <2>2. CASE command.flag = "dry_run" \/ disturbed \/ ListFails
    BY <1>2, CommandOver, <2>1, <2>2 DEF MigrationEnds, Succeeded
  <2>3. CASE ~disturbed /\ ~ListFails /\ Planned(listed)
    <3>1. Migrated
      BY <2>1, <2>3, ListedPlanned DEF RecoveryInv, Planned, Migrated
    <3>2. Migrated'
      BY <1>1, <3>1 DEF Migrated, LevelKey, Bare, Current
    <3> QED BY CommandOver, <2>1, <3>2 DEF MigrationEnds
  <2> QED BY <2>1, <2>2, <2>3
<1>9. CASE Plan
  <2>1. /\ step = "listed" /\ step' = "create" /\ command.op = "migrate"
        /\ missing' = keys_to_create(listed) /\ pending' = keys_to_rewrap(listed)
        /\ created' = [t \in Level |-> Existing(t)] /\ UNCHANGED disturbed
    BY <1>9 DEF Plan
  <2>2. CreatedKept'
    <3>1. \A t \in Level : created'[t] = Existing(t)
      BY <2>1
    <3> QED BY <1>1, <2>1, <3>1, ExistingKept DEF CreatedKept
  <2>3. missing' \subseteq Level
    BY <2>1 DEF keys_to_create
  <2>4. pc'[Cli] # "zero"
    BY <1>1, <2>1 DEF RecoveryInv, CallsInPlace
  <2>5. MigrationCalls'
    BY <2>1, <2>2, <2>3, <2>4 DEF MigrationCalls
  <2>6. ASSUME ~disturbed, ~ListFails
        PROVE  /\ \A t \in Level \ missing' : \E k \in KeyId : LevelKey(k, t)
               /\ \A k \in KeyId : file[k] # "absent" /\ Bare(store[k]) => k \in pending'
    BY <2>1, <2>6, ListedPlanned DEF RecoveryInv
  <2>7. MigrationOnCourse'
    BY <1>1, <1>2, <2>1, <2>6 DEF MigrationOnCourse, LevelKey, Bare, Current
  <2> QED BY MigrationGoesOn, <2>1, <2>5, <2>7 DEF MigrationSteps
<1>10. CASE MigrateRefused \/ MigrateInactive \/ \E k \in KeyId : MigrateCannotRewrap(k)
  <2>1. /\ step \in MigrationSteps /\ step' = "create" /\ failed' = TRUE
        /\ missing' \subseteq missing /\ UNCHANGED <<created, disturbed>>
    BY <1>10 DEF MigrateRefused, MigrateInactive, MigrateCannotRewrap, MigrationSteps
  <2>2. ~disturbed => pc[Cli] # "zero" /\ missing \subseteq Level /\ CreatedKept
    BY <2>1 DEF MigrationInv, MigrationCalls
  <2>3. CreatedKept => CreatedKept'
    BY <1>1, <2>1 DEF CreatedKept
  <2>4. MigrationCalls' /\ MigrationOnCourse'
    BY <1>1, <2>1, <2>2, <2>3 DEF MigrationCalls, MigrationOnCourse
  <2> QED BY MigrationGoesOn, <2>1, <2>4 DEF MigrationSteps
<1>11. CASE MigrateExits
  <2>1. /\ step = "create" /\ missing = {} /\ pending = {} /\ Exit(IF failed THEN 1 ELSE 0)
        /\ UNCHANGED disturbed
    BY <1>11 DEF MigrateExits, ExitByErrors
  <2>2. CASE failed \/ disturbed \/ ListFails
    BY <1>2, CommandOver, <2>1, <2>2 DEF MigrationEnds, Succeeded, Exit
  <2>3. CASE ~(failed \/ disturbed \/ ListFails)
    <3>1. Migrated
      BY <2>1, <2>3 DEF MigrationInv, MigrationOnCourse, MigrationSteps, Migrated
    <3>2. Migrated'
      BY <1>1, <3>1 DEF Migrated, LevelKey, Bare, Current
    <3> QED BY CommandOver, <2>1, <3>2 DEF MigrationEnds, Exit
  <2> QED BY <2>2, <2>3
<1> QED BY <1>3, <1>4, <1>5, <1>6, <1>7, <1>8, <1>9, <1>10, <1>11 DEF CommandOnly

\* The steps that begin a call.
LEMMA CallMigration ==
  ASSUME RecoveryInv, MigrationInv, CommandCalls
  PROVE  MigrationInv'
<1>1. TypeOK /\ Cli \in Proc /\ Named \subseteq KeyId
  BY MaintenanceConstants DEF RecoveryInv, EngineInv
<1>2. UNCHANGED <<file, store>>
  BY CommandCallsBegin, EngineBeginsStill
<1>3. ListFails' = ListFails
  BY <1>2 DEF ListFails
<1>4. UNCHANGED created /\ CreatedKept => CreatedKept'
  BY <1>2 DEF CreatedKept
<1>5. ASSUME NEW r \in KeyRequests, KeyCommand(r) PROVE MigrationInv'
  BY <1>5, OtherSteps DEF KeyCommand, Starts, NoCommand, MigrationSteps, StepsOfCommands
<1>6. CASE MigrateGenerates
  <2>1. /\ step = "create" /\ step' = "generate" /\ missing # {} /\ target' = NewRequest.key
        /\ NewIds # {} /\ UNCHANGED <<pending, missing, created, failed, disturbed>>
        /\ Generate(Cli, NewRequest)
    BY <1>6 DEF MigrateGenerates
  <2>2. NewRequest.key \in Named /\ NewRequest.type = NextLevel /\ NewRequest.op = "generate"
    BY <2>1 DEF NewRequest, Generation, NewIds
  <2>3. /\ file[NewRequest.key] = "absent" /\ req'[Cli] = NewRequest /\ pc'[Cli] = "wrap"
        /\ meta'[Cli].type = NewRequest.type
    BY <1>1, <2>1 DEF Generate, Create, IsFreshId, Start, Blank, TypeOK
  <2>4. NextLevel' = NextLevel
    BY <2>1 DEF NextLevel
  <2>5. MigrationCalls'
    BY <1>2, <1>4, <2>1, <2>2, <2>3, <2>4 DEF MigrationInv, MigrationCalls, MigrationSteps
  <2>6. MigrationOnCourse'
    BY <1>2, <1>3, <2>1 DEF MigrationInv, MigrationOnCourse, MigrationSteps, LevelKey, Bare, Current
  <2> QED BY <2>1, <2>5, <2>6, MigrationGoesOn DEF MigrationSteps
<1>7. CASE MigrateActivates
  <2>1. /\ step = "activate" /\ step' = "activated" /\ Activate(Cli, Call("activate", target))
        /\ UNCHANGED <<pending, missing, created, target, failed, disturbed>>
    BY <1>7 DEF MigrateActivates
  <2>2. /\ req'[Cli] = Call("activate", target) /\ pc'[Cli] = "put"
        /\ meta'[Cli] = [store[target] EXCEPT !.state = "Active"]
    BY <1>1, <2>1 DEF Activate, StartOn, Start, Call, TypeOK
  <2>3. NextLevel' = NextLevel /\ Call("activate", target).op = "activate"
        /\ Call("activate", target).key = target
    BY <2>1 DEF NextLevel, Call
  <2>4. ~disturbed => /\ missing # {} /\ target \in Named /\ file[target] = "json"
                      /\ store[target].type = NextLevel /\ missing \subseteq Level /\ CreatedKept
    BY <2>1 DEF MigrationInv, MigrationCalls, MigrationSteps
  <2>5. ~disturbed => meta'[Cli].type = NextLevel /\ meta'[Cli].state = "Active"
    BY <1>1, <2>2, <2>4 DEF TypeOK, Meta
  <2>6. MigrationCalls'
    BY <1>2, <1>4, <2>1, <2>2, <2>3, <2>4, <2>5 DEF MigrationCalls
  <2>7. MigrationOnCourse'
    BY <1>2, <1>3, <2>1 DEF MigrationInv, MigrationOnCourse, MigrationSteps, LevelKey, Bare, Current
  <2> QED BY <2>1, <2>6, <2>7, MigrationGoesOn DEF MigrationSteps
<1>8. ASSUME NEW k \in KeyId, MigrateRewraps(k) PROVE MigrationInv'
  <2> DEFINE r == Rewrapping(k, created["KeyEncrypting"])
  <2>1. /\ step = "create" /\ step' = "rewrap" /\ pending' = pending \ {k}
        /\ created["KeyEncrypting"] # NoKey /\ Rewrap(Cli, r)
        /\ UNCHANGED <<missing, created, failed, disturbed>>
    BY <1>8 DEF MigrateRewraps
  <2>2. r.op = "rewrap" /\ r.key = k /\ r.parent = created["KeyEncrypting"]
    BY DEF Rewrapping
  <2> HIDE DEF r
  <2>3. req'[Cli] = r /\ pc'[Cli] = "wrap" /\ meta'[Cli] = store[k] /\ file[k] = "json"
    BY <1>1, <2>1, <2>2 DEF Rewrap, Start, Readable, TypeOK
  <2>4. MigrationCalls'
    BY <1>2, <1>4, <2>1, <2>2, <2>3 DEF MigrationInv, MigrationCalls, MigrationSteps
  <2>5. MigrationOnCourse'
    BY <1>2, <1>3, <2>1, <2>2, <2>3
       DEF MigrationInv, MigrationOnCourse, MigrationSteps, LevelKey, Bare, Current
  <2> QED BY <2>1, <2>4, <2>5, MigrationGoesOn DEF MigrationSteps
<1> QED BY <1>5, <1>6, <1>7, <1>8 DEF CommandCalls

\* The parent is read and the new record made.
LEMMA WrapMigration ==
  ASSUME RecoveryInv, MigrationInv, CliWorks
  PROVE  MigrationInv'
<1>1. /\ TypeOK /\ Cli \in Proc /\ LocalWell(Cli) /\ step \in {"generate", "activated", "rewrap", "key"}
      /\ UNCHANGED <<progress, disturbed>>
  BY MaintenanceConstants DEF RecoveryInv, EngineInv, CallsInPlace, CliWorks, Wrap, ZeroFile
<1> USE DEF progress
<1>2. CASE step = "key"
  BY <1>1, <1>2, OtherSteps DEF MigrationInv, StepsOfCommands, MigrationSteps
<1>3. CASE step # "key" /\ disturbed
  <2>1. MigrationCalls' /\ MigrationOnCourse'
    BY <1>1, <1>3 DEF MigrationCalls, MigrationOnCourse
  <2> QED BY <1>1, <1>3, <2>1, MigrationGoesOn DEF MigrationSteps
<1>4. CASE step # "key" /\ ~disturbed
  <2>1. step \in MigrationSteps /\ Wrap(Cli) /\ step \in {"generate", "rewrap"}
    BY <1>1, <1>4 DEF MigrationInv, MigrationCalls, CliWorks, ZeroFile, Wrap, MigrationSteps
  <2>2. /\ UNCHANGED <<file, store, req>> /\ pc'[Cli] = "put" /\ WrapPossible(NewParent(Cli))
    BY <1>1, <2>1 DEF Wrap, disk, TypeOK
  <2>3. meta[Cli] \in Meta /\ fresh[Cli] \in Version /\ NewParent(Cli) \in KeyId \cup {NoKey}
    <3>1. meta[Cli] \in Meta /\ fresh[Cli] \in Version /\ req[Cli] \in Request
      BY <1>1, <2>1 DEF LocalWell, TypeOK, Wrap
    <3> QED BY <3>1 DEF NewParent, Meta, Request
  <2> DEFINE v == WrapUnder(fresh[Cli], NewParent(Cli))
             m == Install(meta[Cli], req[Cli].op, v)
  <2>4. v \in Version
    BY <1>1, <2>2, <2>3, WrapUnderType
  <2>5. meta'[Cli] = m
    BY <1>1, <2>1 DEF Wrap, TypeOK
  <2> HIDE DEF v
  <2>6. /\ m.type = meta[Cli].type /\ m.state = meta[Cli].state
        /\ req[Cli].op = "rewrap" /\ meta[Cli].current \in DOMAIN meta[Cli].versions =>
             Current(m) = v
    BY <2>3, <2>4, InstallKeeps
  <2> HIDE DEF m
  <2>7. ASSUME step = "rewrap" PROVE Current(m).by # NoKey
    <3>1. /\ req[Cli].op = "rewrap" /\ NewParent(Cli) = created["KeyEncrypting"]
          /\ created["KeyEncrypting"] # NoKey /\ CreatedKept
      BY <1>4, <2>1, <2>7 DEF MigrationInv, MigrationCalls, NewParent
    <3>2. WrapsChildren(NewParent(Cli))
      BY <3>1 DEF CreatedKept, WrapsChildren, Level
    <3>3. v.by = NewParent(Cli)
      BY <2>3, <3>1, <3>2 DEF v, WrapUnder, Version
    <3>4. meta[Cli].current \in DOMAIN meta[Cli].versions
      <4>1. WellFormed(meta[Cli])
        BY <1>1, <2>1, <3>1 DEF LocalWell, Generating, Wrap
      <4>2. meta[Cli].versions \in Seq(Version) /\ meta[Cli].current \in Nat
        BY <2>3 DEF Meta
      <4> QED BY <4>1, <4>2 DEF WellFormed
    <3> QED BY <2>6, <3>1, <3>3, <3>4
  <2>8. CreatedKept => CreatedKept'
    BY <1>1, <2>2 DEF CreatedKept
  <2>9. NextLevel' = NextLevel
    BY <1>1 DEF NextLevel
  <2>10. MigrationCalls'
    <3>1. step = "generate" => MigrationCalls'
      BY <1>1, <1>4, <2>1, <2>2, <2>5, <2>6, <2>8, <2>9 DEF MigrationInv, MigrationCalls
    <3>2. step = "rewrap" => MigrationCalls'
      BY <1>1, <1>4, <2>1, <2>2, <2>5, <2>6, <2>7, <2>8 DEF MigrationInv, MigrationCalls, Current
    <3> QED BY <2>1, <3>1, <3>2
  <2>11. MigrationOnCourse'
    BY <1>1, <2>2 DEF MigrationInv, MigrationOnCourse, LevelKey, Bare, Current, ListFails
  <2> QED BY <1>1, <2>1, <2>10, <2>11, MigrationGoesOn
<1> QED BY <1>2, <1>3, <1>4

\* A call succeeds.
LEMMA PutMigration ==
  ASSUME RecoveryInv, MigrationInv, CliPut
  PROVE  MigrationInv'
<1>1. /\ TypeOK /\ EngineInv /\ Cli \in Proc /\ Named \subseteq KeyId /\ CommandTyped
      /\ pc[Cli] = "put" /\ step \in {"generate", "activated", "rewrap", "key"}
      /\ Write(req[Cli].key, meta[Cli]) /\ UNCHANGED disturbed
  BY MaintenanceConstants DEF RecoveryInv, EngineInv, CallsInPlace, CliPut, Put
<1>2. CASE step = "key"
  <2>1. step' = "idle" /\ command'.op = "key"
    BY <1>2 DEF CliPut, Exit, MigrationInv, StepsOfCommands
  <2> QED BY <2>1, CommandOver DEF MigrationEnds, Succeeded
<1>3. ASSUME step # "key"
      PROVE  /\ CallSucceeded /\ UNCHANGED <<pending, target>>
             /\ step' = IF step = "generate" THEN "activate" ELSE "create"
             /\ step \in {"generate", "activated", "rewrap"}
             /\ step \in MigrationSteps /\ step' \in MigrationSteps
  BY <1>1, <1>3 DEF CliPut, MigrationSteps
<1>4. CASE step # "key" /\ disturbed
  <2>1. MigrationCalls' /\ MigrationOnCourse'
    BY <1>1, <1>4 DEF MigrationCalls, MigrationOnCourse
  <2> QED BY <1>3, <1>4, <2>1, MigrationGoesOn
<1>5. CASE step # "key" /\ ~disturbed
  <2>0. PICK key \in KeyId : key = req[Cli].key
    BY <1>1 DEF EngineInv, LocalWell, Request
  <2>1. /\ key \in KeyId /\ file[key] # "zeroed" /\ file'[key] = "json" /\ store'[key] = meta[Cli]
        /\ \A k \in KeyId \ {key} : file'[k] = file[k] /\ store'[k] = store[k]
        /\ \A k \in KeyId : file[k] # "absent" =>
              file'[k] # "absent" /\ store'[k].type = store[k].type
        /\ ListFails' => ListFails
        /\ ListFails => ListFails'
    BY <1>1, <1>3, <1>5, <2>0, MigrationWrites DEF MigrationInv
  <2>2. pc'[Cli] = "idle"
    BY <1>1, <1>3, <1>5 DEF CliPut, Put, Return, TypeOK, MigrationInv, MigrationCalls
  <2>3. missing \subseteq Level /\ CreatedKept
    BY <1>3, <1>5 DEF MigrationInv, MigrationCalls
  <2>4. ASSUME UNCHANGED created PROVE CreatedKept'
    BY <2>1, <2>3, <2>4 DEF CreatedKept
  <2>5. ASSUME ~failed, ~ListFails
        PROVE  /\ \A t \in Level \ missing : \E k \in KeyId : LevelKey(k, t)
               /\ \A k \in KeyId : file[k] # "absent" /\ Bare(store[k]) =>
                    k \in pending \/ (step = "rewrap" /\ k = key)
    BY <1>3, <1>5, <2>0, <2>5 DEF MigrationInv, MigrationOnCourse
  <2>6. ASSUME NEW k \in KeyId, k # key
        PROVE  /\ \A t \in Level : LevelKey(k, t) => LevelKey(k, t)'
               /\ Bare(store[k])' => Bare(store[k])
    BY <2>1, <2>6 DEF LevelKey, Bare, Current
  <2>7. CASE step = "generate"
    <3>1. /\ step' = "activate" /\ UNCHANGED <<created, missing, failed, pending, target>>
          /\ missing # {} /\ target \in Named /\ key = target
          /\ meta[Cli].type = NextLevel /\ file[target] = "absent"
      BY <1>3, <1>5, <2>0, <2>7 DEF CallSucceeded, MigrationInv, MigrationCalls
    <3>2. NextLevel' = NextLevel
      BY <3>1 DEF NextLevel
    <3>3. MigrationCalls'
      BY <2>1, <2>2, <2>3, <2>4, <3>1, <3>2 DEF MigrationCalls
    <3>4. ASSUME ~disturbed', ~failed', ~ListFails' PROVE
             /\ \A t \in Level \ missing' : \E k \in KeyId : LevelKey(k, t)'
             /\ \A k \in KeyId : file'[k] # "absent" /\ Bare(store[k])' => k \in pending'
      <4>1. ~Bare(store[key])'
        BY <2>1, <2>3, <3>1, LevelAhead DEF Bare
      <4>2. \A t : ~LevelKey(key, t)
        BY <3>1 DEF LevelKey
      <4> QED BY <2>1, <2>5, <2>6, <2>7, <3>1, <3>4, <4>1, <4>2
    <3>5. MigrationOnCourse'
      BY <3>4 DEF MigrationOnCourse
    <3> QED BY <1>3, <1>5, <3>3, <3>5, MigrationGoesOn
  <2>8. CASE step = "activated"
    <3>1. /\ step' = "create" /\ UNCHANGED <<failed, pending, target>>
          /\ created' = [created EXCEPT ![NextLevel] = target]
          /\ missing' = missing \ {NextLevel}
          /\ missing # {} /\ target \in Named /\ key = target
          /\ meta[Cli].type = NextLevel /\ meta[Cli].state = "Active"
          /\ store[target].type = NextLevel
      BY <1>3, <1>5, <2>0, <2>8 DEF CallSucceeded, MigrationInv, MigrationCalls
    <3>2. NextLevel \in Level /\ NextLevel \in missing /\ NextLevel # "DataEncrypting"
      BY <2>3, <3>1, LevelAhead
    <3>3. CreatedKept'
      <4>1. created' \in [Level -> KeyId \cup {NoKey}] /\ created'[NextLevel] = target
        BY <1>1, <2>3, <3>1, <3>2 DEF CreatedKept
      <4>2. \A t \in Level : t # NextLevel => created'[t] = created[t]
        BY <2>3, <3>1 DEF CreatedKept
      <4>3. file'[target] # "absent" /\ store'[target].type = NextLevel
        BY <2>1, <3>1
      <4>4. ASSUME NEW t \in Level, created'[t] # NoKey
            PROVE  file'[created'[t]] # "absent" /\ store'[created'[t]].type = t
        BY <2>1, <2>3, <4>1, <4>2, <4>3, <4>4 DEF CreatedKept
      <4> QED BY <4>1, <4>4 DEF CreatedKept
    <3>4. MigrationCalls'
      BY <2>2, <2>3, <3>1, <3>3 DEF MigrationCalls
    <3>5. ASSUME ~disturbed', ~failed', ~ListFails' PROVE
             /\ \A t \in Level \ missing' : \E k \in KeyId : LevelKey(k, t)'
             /\ \A k \in KeyId : file'[k] # "absent" /\ Bare(store[k])' => k \in pending'
      <4>1. ~Bare(store[key])'
        BY <2>1, <3>1, <3>2 DEF Bare
      <4>2. \A t \in Level : t = NextLevel => LevelKey(key, t)'
        BY <2>1, <3>1 DEF LevelKey
      <4>3. \A t \in Level : LevelKey(key, t) => t = NextLevel
        BY <3>1 DEF LevelKey
      <4> QED BY <2>1, <2>5, <2>6, <2>8, <3>1, <3>2, <3>5, <4>1, <4>2, <4>3
    <3>6. MigrationOnCourse'
      BY <3>1, <3>5 DEF MigrationOnCourse
    <3> QED BY <1>3, <1>5, <3>4, <3>6, MigrationGoesOn
  <2>9. CASE step = "rewrap"
    <3>1. /\ step' = "create" /\ UNCHANGED <<created, missing, failed, pending, target>>
          /\ meta[Cli].type = store[key].type /\ meta[Cli].state = store[key].state
          /\ Current(meta[Cli]).by # NoKey
      BY <1>1, <1>3, <1>5, <2>0, <2>9 DEF CallSucceeded, MigrationInv, MigrationCalls
    <3>2. MigrationCalls'
      BY <2>2, <2>3, <2>4, <3>1 DEF MigrationCalls
    <3>3. ASSUME ~disturbed', ~failed', ~ListFails' PROVE
             /\ \A t \in Level \ missing' : \E k \in KeyId : LevelKey(k, t)'
             /\ \A k \in KeyId : file'[k] # "absent" /\ Bare(store[k])' => k \in pending'
      <4>1. ~Bare(store[key])'
        BY <2>1, <3>1 DEF Bare, Current
      <4>2. \A t \in Level : LevelKey(key, t) => LevelKey(key, t)'
        BY <2>1, <3>1 DEF LevelKey
      <4> QED BY <2>1, <2>5, <2>6, <2>9, <3>1, <3>3, <4>1, <4>2
    <3>4. MigrationOnCourse'
      BY <3>1, <3>3 DEF MigrationOnCourse
    <3> QED BY <1>3, <1>5, <3>2, <3>4, MigrationGoesOn
  <2> QED BY <1>3, <1>5, <2>7, <2>8, <2>9
<1> QED BY <1>2, <1>4, <1>5

\* A call fails, before or after its write.
LEMMA ErrMigration ==
  ASSUME RecoveryInv, MigrationInv, CliRefused \/ CliWriteFails
  PROVE  MigrationInv'
<1>1. /\ TypeOK /\ EngineInv /\ Cli \in Proc /\ CliErr
      /\ step \in {"generate", "activated", "rewrap", "key"} /\ UNCHANGED disturbed
  BY MaintenanceConstants DEF RecoveryInv, EngineInv, CallsInPlace, CliRefused, CliWriteFails,
       CliErr, WrapFails, PutFails, PutUnacknowledged
<1>2. /\ pc'[Cli] = "idle"
      /\ UNCHANGED <<file, store>> \/ (pc[Cli] = "put" /\ Write(req[Cli].key, meta[Cli]))
  BY <1>1 DEF CliRefused, CliWriteFails, WrapFails, PutFails, PutUnacknowledged, Return, disk, TypeOK
<1>3. CASE step = "key"
  <2>1. step' = "idle" /\ exit' = 1
    BY <1>1, <1>3 DEF CliErr, Exit
  <2> QED BY <2>1, CommandOver DEF MigrationEnds, Succeeded
<1>4. CASE step # "key"
  <2>1. step' = "create" /\ failed' = TRUE /\ UNCHANGED created /\ missing' \subseteq missing
    BY <1>1, <1>4 DEF CliErr, CallFailed
  <2>2. ASSUME ~disturbed PROVE missing \subseteq Level /\ CreatedKept'
    <3>1. missing \subseteq Level /\ CreatedKept
      BY <1>1, <1>4, <2>2 DEF MigrationInv, MigrationCalls, MigrationSteps
    <3>2. \A k \in KeyId : file[k] # "absent" =>
              file'[k] # "absent" /\ store'[k].type = store[k].type
      BY <1>1, <1>2, <1>4, <2>2, MigrationWrites DEF MigrationInv
    <3> QED BY <2>1, <3>1, <3>2 DEF CreatedKept
  <2>3. MigrationCalls' /\ MigrationOnCourse'
    BY <1>1, <1>2, <2>1, <2>2 DEF MigrationCalls, MigrationOnCourse
  <2> QED BY <2>1, <2>3, MigrationGoesOn DEF MigrationSteps
<1> QED BY <1>3, <1>4

LEMMA NextMigration ==
  ASSUME RecoveryInv, MigrationInv, [MaintenanceNext]_maintenanceVars
  PROVE  MigrationInv'
<1>1. ASSUME NEW p \in Servers, ServerSteps(p) PROVE MigrationInv'
  <2>1. /\ pc'[Cli] = pc[Cli] /\ req'[Cli] = req[Cli] /\ meta'[Cli] = meta[Cli]
        /\ UNCHANGED progress
        /\ disturbed' = TRUE \/ (UNCHANGED <<file, store>> /\ disturbed = FALSE)
    BY <1>1, ServerApart DEF RecoveryInv
  <2>2. CASE disturbed' = TRUE
    BY <2>1, <2>2 DEF progress, MigrationInv, StepsOfCommands, MigrationCalls, MigrationOnCourse,
                      MigrationEnds, Succeeded
  <2>3. CASE UNCHANGED <<file, store>> /\ disturbed = FALSE
    BY <2>1, <2>3, MigrationUnmoved
  <2> QED BY <2>1, <2>2, <2>3
<1>2. CASE CliCrash
  <2>1. step' = "idle" /\ exit' = 1
    BY <1>2 DEF CliCrash, Exit
  <2> QED BY <2>1, CommandOver DEF MigrationEnds, Succeeded
<1>3. CASE RestorePuts
  BY <1>3, OtherSteps DEF RestorePuts, MigrationInv, StepsOfCommands, MigrationSteps
<1>4. CASE LoseStore
  <2>1. step' = "idle" /\ disturbed' = TRUE
    BY <1>4 DEF LoseStore, progress
  <2> QED BY <2>1, CommandOver DEF MigrationEnds, Succeeded
<1>5. CASE UNCHANGED maintenanceVars
  BY <1>5, MigrationUnmoved DEF maintenanceVars, vars, disk, local
<1> QED BY <1>1, <1>2, <1>3, <1>4, <1>5, MaintenanceCases, CommandMigration, CallMigration,
           WrapMigration, PutMigration, ErrMigration DEF CommandWorks

LEMMA InitMigration == MaintenanceInit => MigrationInv
BY DEF MaintenanceInit, NoCommand, MigrationInv, StepsOfCommands, MigrationCalls, MigrationSteps,
       MigrationOnCourse, MigrationEnds, Succeeded

\* A migration that exits with 0, no matter what crashed or failed before it, left
\* the named hierarchy active and every DEK in use wrapped by a key: the next plan
\* would be empty (plan_migration, cmd_hierarchy).  It holds for any number of keys,
\* commands and concurrent calls, as long as the server writes no key meanwhile and
\* every key file parses.
THEOREM MigrationAlwaysSettles == MaintenanceSpec => []MigrationSettles
<1>1. MigrationInv => MigrationSettles
  BY MigratedPlanned DEF MigrationInv, MigrationEnds, MigrationSettles
<1> QED BY <1>1, InitRecovery, NextRecovery, InitMigration, NextMigration, PTL DEF MaintenanceSpec

-----------------------------------------------------------------------------
(***************************************************************************)
(* The doctor looks at the current version of every key and at the state   *)
(* of the key that wraps it.  That this is enough rests on what it does    *)
(* not look at: in a directory that grew by calls of the engine, or came   *)
(* back whole from a quiet backup, every version names a version of its    *)
(* wrapping key that is there.  A stale put can break that, so no two      *)
(* processes may work on the same key at once; on different keys, a parent *)
(* and its child included, they may interleave freely.                     *)
(***************************************************************************)

\* The keys a process works on: the one of its call, the children its cascade
\* has listed, and the one a restore is about to write.
Busy(p) ==
  (IF pc[p] = "idle" THEN {} ELSE {req[p].key})
    \cup Ids(snap[p])
    \cup (IF p = Cli /\ step = "put" THEN {target} ELSE {})

KeysApart == \A p, q \in Proc : p # q => Busy(p) \cap Busy(q) = {}

\* A world is a set of records that refer to each other.
Files == [k \in Stored |-> store[k]]
Backup == [k \in Held |-> Archived(k)]

\* While a restore is under way, what its keys refer to is in the backup.
World == IF lineage = "restoring" THEN Backup ELSE Files

\* The key that wraps a version is there and of a type that wraps, and until it
\* is destroyed it has the version and the keypair named.
VersionSound(w, v) ==
  v.sk = "CitadelWrapped" =>
    /\ v.by \in DOMAIN w
    /\ w[v.by].type \in {"KeyEncrypting", "Domain"}
    /\ w[v.by].state # "Destroyed" =>
         v.byVer \in DOMAIN w[v.by].versions /\ w[v.by].versions[v.byVer].pk = v.byPk

Sits(w, t, j) == j # NoKey => j \in DOMAIN w /\ <<w[j].type, t>> \in CanWrap

RecordSound(w, m) ==
  /\ Sits(w, m.type, m.parent)
  /\ \A i \in DOMAIN m.versions : VersionSound(w, m.versions[i])

Closed(w) == \A k \in DOMAIN w : RecordSound(w, w[k])

\* What may take the place of a record that others refer to.
Replaces(m, n) ==
  /\ n.type = m.type
  /\ n.state # "Destroyed" =>
       /\ m.state # "Destroyed"
       /\ \A i \in DOMAIN m.versions :
            i \in DOMAIN n.versions /\ n.versions[i].pk = m.versions[i].pk

Grows(w, x) == \A k \in DOMAIN w : k \in DOMAIN x /\ Replaces(w[k], x[k])

\* What a process holds of the records it works on.
CallSound(p) ==
  /\ pc[p] \in {"wrap", "zero", "put"} =>
       /\ RecordSound(World, meta[p])
       /\ IF Generating(p) THEN file[req[p].key] = "absent"
          ELSE /\ file[req[p].key] # "absent"
               /\ pc[p] = "wrap" => meta[p] = store[req[p].key]
               /\ Replaces(store[req[p].key], meta[p])
  /\ pc[p] = "wrap" /\ req[p].op = "rewrap" => fresh[p].pk = Current(meta[p]).pk
  /\ \A c \in snap[p] : file[c.key] # "absent" /\ c.meta = store[c.key]

SnapsInPlace == snap[Cli] = {} /\ \A p \in Proc : pc[p] # "cascade" => snap[p] = {}

WorldInv ==
  /\ SnapsInPlace
  /\ archive.quiet => Closed(Backup)
  /\ lineage # "mixed" => Closed(World) /\ \A p \in Proc : CallSound(p)

\* What the doctor has seen, of the whole directory.
Healthy ==
  /\ ~ListFails
  /\ \A k \in Stored :
       IF Wrapper(store[k]) = NoKey THEN store[k].type \in allow_external_master
       ELSE /\ Wrapper(store[k]) \in Stored
            /\ <<store[Wrapper(store[k])].type, store[k].type>> \in CanWrap
            /\ store[Wrapper(store[k])].state \in CanDecrypt

DoctorInv ==
  /\ command.op = "doctor" => step \in {"idle", "list", "listed"}
  /\ Succeeded("doctor") => Healthy

LEMMA ReplacesSelf == \A m : Replaces(m, m)
BY DEF Replaces

LEMMA GrowsSelf == \A w : Grows(w, w)
BY DEF Grows, Replaces

\* A record stays sound in a world that grows around it.
LEMMA SoundStays ==
  ASSUME NEW w, NEW x, Grows(w, x), NEW m, RecordSound(w, m)
  PROVE  RecordSound(x, m)
<1>1. Sits(x, m.type, m.parent)
  BY DEF RecordSound, Sits, Grows, Replaces
<1>2. ASSUME NEW v, VersionSound(w, v) PROVE VersionSound(x, v)
  <2> SUFFICES ASSUME v.sk = "CitadelWrapped" PROVE VersionSound(x, v)
    BY DEF VersionSound
  <2>1. PICK j : j = v.by
    OBVIOUS
  <2>2. /\ j \in DOMAIN w /\ w[j].type \in {"KeyEncrypting", "Domain"}
        /\ w[j].state # "Destroyed" =>
             v.byVer \in DOMAIN w[j].versions /\ w[j].versions[v.byVer].pk = v.byPk
    BY <1>2, <2>1 DEF VersionSound
  <2>3. j \in DOMAIN x /\ Replaces(w[j], x[j])
    BY <2>2 DEF Grows
  <2>4. /\ x[j].type = w[j].type
        /\ x[j].state # "Destroyed" =>
             v.byVer \in DOMAIN x[j].versions /\ x[j].versions[v.byVer].pk = v.byPk
    BY <2>2, <2>3 DEF Replaces
  <2> QED BY <2>1, <2>2, <2>3, <2>4 DEF VersionSound
<1> QED BY <1>1, <1>2 DEF RecordSound

\* A closed world stays closed when a sound record takes its place in it.
LEMMA ClosedPut ==
  ASSUME NEW w, NEW x, NEW k, NEW n, Closed(w), RecordSound(w, n),
         k \in DOMAIN w => Replaces(w[k], n),
         DOMAIN x = DOMAIN w \cup {k}, x[k] = n, \A j \in DOMAIN w : j # k => x[j] = w[j]
  PROVE  Closed(x) /\ Grows(w, x)
<1>1. Grows(w, x)
  <2> SUFFICES ASSUME NEW j \in DOMAIN w PROVE j \in DOMAIN x /\ Replaces(w[j], x[j])
    BY DEF Grows
  <2> QED BY ReplacesSelf
<1>2. \A j \in DOMAIN x : RecordSound(w, x[j])
  BY DEF Closed
<1> QED BY <1>1, <1>2, SoundStays DEF Closed

\* The stored records are in the world, as they are stored.
LEMMA WorldHasFiles ==
  ASSUME LineageTrue, NEW k \in KeyId, file[k] # "absent"
  PROVE  k \in DOMAIN World /\ World[k] = store[k]
<1>1. k \in Stored
  BY DEF Stored
<1>2. CASE lineage = "restoring"
  <2>1. k \in Held /\ store[k] = Archived(k)
    BY <1>2 DEF LineageTrue, FromArchive
  <2> QED BY <1>2, <2>1 DEF World, Backup
<1>3. CASE lineage # "restoring"
  BY <1>1, <1>3 DEF World, Files
<1> QED BY <1>2, <1>3

LEMMA WorldUnmoved ==
  ASSUME Stored' = Stored, store' = store, archive' = archive, lineage' = lineage
  PROVE  World' = World /\ Backup' = Backup
BY DEF World, Files, Backup, Held, Ids, Archived

\* What a write of an engine does to the world.
LEMMA WorldWritten ==
  ASSUME TypeOK, LineageTrue, lineage # "mixed", Closed(World), archive' = archive,
         NEW k \in KeyId, NEW m \in Meta, Write(k, m), RecordSound(World, m),
         file[k] # "absent" => Replaces(store[k], m),
         LineageAfterWrite, lineage' # "mixed"
  PROVE  Closed(World') /\ Grows(World, World')
<1>1. CASE disk' = disk
  <2>1. World' = World
    BY <1>1, WorldUnmoved DEF LineageAfterWrite, disk, Stored
  <2> QED BY <2>1, GrowsSelf
<1>2. CASE disk' # disk
  <2>1. lineage # "restoring" /\ lineage' = "live"
    BY <1>2 DEF LineageAfterWrite
  <2>2. World = Files /\ World' = Files'
    BY <2>1 DEF World
  <2>3. /\ Stored' = Stored \cup {k} /\ store'[k] = m
        /\ \A j \in KeyId : j # k => store'[j] = store[j]
    BY DEF Write, TypeOK, Stored
  <2>4. /\ DOMAIN Files' = DOMAIN Files \cup {k} /\ Files'[k] = m
        /\ \A j \in DOMAIN Files : j # k => Files'[j] = Files[j]
    BY <2>3 DEF Files, Stored
  <2>5. k \in DOMAIN Files => Replaces(Files[k], m)
    BY DEF Files, Stored
  <2>6. PICK w, x : w = World /\ x = World'
    OBVIOUS
  <2>7. Closed(x) /\ Grows(w, x)
    BY <2>2, <2>4, <2>5, <2>6, ClosedPut
  <2> QED BY <2>6, <2>7
<1> QED BY <1>1, <1>2

\* A step of one process: a call begins, goes on, fails or dies.
EngineStep(p) ==
  \/ \E r \in Requests : Begin(p, r)
  \/ Continue(p) \/ Fault(p) \/ (EndCascade(p) /\ UNCHANGED <<disk, history>>)

\* It changes no other process's copies.
LEMMA CopiesApart ==
  ASSUME TypeOK, NEW p \in Proc, NEW q \in Proc, p # q, EngineStep(p)
  PROVE  /\ pc'[q] = pc[q] /\ req'[q] = req[q] /\ meta'[q] = meta[q]
         /\ fresh'[q] = fresh[q] /\ snap'[q] = snap[q]
<1>1. pc'[q] = pc[q] /\ req'[q] = req[q] /\ meta'[q] = meta[q]
  BY CallsApart DEF EngineStep
<1>2. CASE \E r \in Requests : Begin(p, r)
  <2>1. PICK r, op, stage, m : Start(p, r, op, stage, m)
    BY <1>2, BegunStarts
  <2>2. snap' = snap
    BY <2>1 DEF Start, walk
  <2>3. fresh'[q] = fresh[q]
    BY <1>2 DEF Begin, Generate, GenerateSigningKey, Create, Activate, Rotate, Rewrap, Revoke,
           RevokeCascade, Expire, Destroy, Encrypt, StartOn, Mint, TypeOK
  <2> QED BY <1>1, <2>2, <2>3
<1>3. ASSUME Continue(p) \/ Fault(p) \/ EndCascade(p)
      PROVE  /\ Return(p) \/ UNCHANGED fresh
             /\ \/ UNCHANGED snap
                \/ \E s : snap' = [snap EXCEPT ![p] = s]
  BY <1>3 DEF Continue, Fault, Wrap, WrapFails, ZeroFile, Put, CascadeList, CascadeAborts,
         CascadeSkips, CascadeReports, CascadeSuspends, CascadeUnacknowledged, CascadeDone,
         PutFails, PutUnacknowledged, EndCascade, Visited, local, walk
<1>4. ASSUME Return(p) \/ UNCHANGED fresh PROVE fresh'[q] = fresh[q]
  BY <1>4 DEF Return, TypeOK
<1>5. ASSUME UNCHANGED snap \/ \E s : snap' = [snap EXCEPT ![p] = s] PROVE snap'[q] = snap[q]
  BY <1>5 DEF TypeOK
<1> QED BY <1>1, <1>2, <1>3, <1>4, <1>5 DEF EngineStep

\* Children are listed in a cascade only, and never by the command line.
LEMMA SnapsStay ==
  ASSUME TypeOK, SnapsInPlace, NEW p \in Proc, EngineStep(p),
         p = Cli => snap'[Cli] = {}
  PROVE  SnapsInPlace'
<1>1. pc'[p] # "cascade" => snap'[p] = {}
  <2>1. CASE snap' = snap /\ pc[p] # "cascade"
    BY <2>1 DEF SnapsInPlace
  <2>2. CASE EndCascade(p)
    BY <2>2 DEF EndCascade, TypeOK
  <2>3. CASE pc' = pc /\ pc[p] = "cascade"
    BY <2>3
  <2>4. CASE \E r \in Requests : Begin(p, r)
    <3>1. PICK r, op, stage, m : Start(p, r, op, stage, m)
      BY <2>4, BegunStarts
    <3>2. snap' = snap /\ pc[p] = "idle"
      BY <3>1 DEF Start, walk
    <3> QED BY <2>1, <3>2
  <2>5. Continue(p) \/ Fault(p) => \/ snap' = snap /\ pc[p] # "cascade"
                                   \/ EndCascade(p)
                                   \/ pc' = pc /\ pc[p] = "cascade"
    BY DEF Continue, Fault, Wrap, WrapFails, ZeroFile, Put, CascadeList, CascadeAborts,
         CascadeSkips, CascadeReports, CascadeSuspends, CascadeUnacknowledged, CascadeDone,
         PutFails, PutUnacknowledged, InCascade, CascadeEnded, local, walk
  <2> QED BY <2>1, <2>2, <2>3, <2>4, <2>5 DEF EngineStep
<1>2. \A q \in Proc : q # p => pc'[q] = pc[q] /\ snap'[q] = snap[q]
  BY CopiesApart
<1>3. Cli \in Proc
  BY MaintenanceConstants
<1> QED BY <1>1, <1>2, <1>3 DEF SnapsInPlace

\* The other processes hold what they held: the step wrote no key of theirs.
LEMMA OthersSound ==
  ASSUME TypeOK, NEW q \in Proc, CallSound(q), pc[q] # "idle" => req[q].key \in KeyId,
         pc'[q] = pc[q], req'[q] = req[q], meta'[q] = meta[q],
         fresh'[q] = fresh[q], snap'[q] = snap[q],
         Grows(World, World'),
         \A k \in Busy(q) \cap KeyId : file'[k] = file[k] /\ store'[k] = store[k]
  PROVE  CallSound(q)'
<1>1. \A c \in snap[q] : c.key \in Busy(q) /\ c.key \in KeyId
  BY DEF TypeOK, Listed, Busy, Ids
<1>2. \A c \in snap'[q] : file'[c.key] # "absent" /\ c.meta = store'[c.key]
  BY <1>1 DEF CallSound
<1>3. ASSUME pc[q] \in {"wrap", "zero", "put"}
      PROVE  /\ RecordSound(World', meta[q])
             /\ file'[req[q].key] = file[req[q].key] /\ store'[req[q].key] = store[req[q].key]
  <2>1. req[q].key \in Busy(q) \cap KeyId
    BY <1>3 DEF Busy
  <2>2. RecordSound(World, meta[q])
    BY <1>3 DEF CallSound
  <2>3. PICK w, x, m : w = World /\ x = World' /\ m = meta[q]
    OBVIOUS
  <2>4. RecordSound(x, m)
    BY <2>2, <2>3, SoundStays
  <2> QED BY <2>1, <2>3, <2>4
<1>4. ASSUME pc[q] \in {"wrap", "zero", "put"}
      PROVE  /\ RecordSound(World, meta[q])'
             /\ IF Generating(q)' THEN file'[req'[q].key] = "absent"
                ELSE /\ file'[req'[q].key] # "absent"
                     /\ pc'[q] = "wrap" => meta'[q] = store'[req'[q].key]
                     /\ Replaces(store[req[q].key], meta[q])'
  <2>1. RecordSound(World, meta[q])'
    BY <1>3, <1>4 DEF RecordSound, Sits, VersionSound
  <2>2. Generating(q)' = Generating(q)
    BY DEF Generating
  <2>3. ~Generating(q) => Replaces(store[req[q].key], meta[q])
    BY <1>4 DEF CallSound
  <2>4. ~Generating(q) => Replaces(store[req[q].key], meta[q])'
    BY <1>3, <1>4, <2>3 DEF Replaces
  <2> QED BY <1>3, <1>4, <2>1, <2>2, <2>4 DEF CallSound
<1>5. pc'[q] = "wrap" /\ req'[q].op = "rewrap" => fresh'[q].pk = Current(meta'[q]).pk
  BY DEF CallSound, Current
<1> QED BY <1>2, <1>4, <1>5 DEF CallSound, Current

\* A record that differs in its state alone, or is destroyed, may take the place
\* of the record read.
LEMMA RestatedSound ==
  ASSUME NEW w, NEW m \in Meta, RecordSound(w, m), m.state # "Destroyed", NEW s \in KeyState
  PROVE  /\ RecordSound(w, [m EXCEPT !.state = s])
         /\ Replaces(m, [m EXCEPT !.state = s])
<1>1. PICK n : n = [m EXCEPT !.state = s]
  OBVIOUS
<1>2. n.type = m.type /\ n.parent = m.parent /\ n.versions = m.versions
  BY <1>1 DEF Meta
<1>3. RecordSound(w, n) /\ Replaces(m, n)
  BY <1>2 DEF RecordSound, Replaces
<1> QED BY <1>1, <1>3

LEMMA DestroyedSound ==
  ASSUME NEW w, NEW m \in Meta, RecordSound(w, m), NEW n,
         n = [m EXCEPT !.state = "Destroyed",
                       !.versions = [i \in DOMAIN m.versions |-> Purged(m.versions[i])]]
  PROVE  RecordSound(w, n) /\ Replaces(m, n)
<1>1. /\ n.type = m.type /\ n.parent = m.parent /\ n.state = "Destroyed"
      /\ n.versions = [i \in DOMAIN m.versions |-> Purged(m.versions[i])]
  BY DEF Meta
<1>2. ASSUME NEW i \in DOMAIN n.versions PROVE VersionSound(w, n.versions[i])
  <2>1. m.versions[i] \in Version /\ n.versions[i] = Purged(m.versions[i])
    BY <1>1, <1>2 DEF Meta
  <2>2. ASSUME NEW v \in Version PROVE Purged(v).sk = "Destroyed"
    BY DEF Purged, Version
  <2>3. n.versions[i].sk = "Destroyed"
    BY <2>1, <2>2
  <2> QED BY <2>3 DEF VersionSound
<1> QED BY <1>1, <1>2 DEF RecordSound, Replaces

\* A call begins on a sound copy of a stored record, or on a new one.
LEMMA BeginSound ==
  ASSUME EngineInv, LineageTrue, Closed(World), World' = World, SnapsInPlace,
         NEW p \in Proc, NEW r \in Requests, Begin(p, r)
  PROVE  CallSound(p)'
<1>1. TypeOK /\ r \in Request /\ r.key \in KeyId /\ r.parent \in KeyId \cup {NoKey}
  BY KeystoreConstants DEF EngineInv, Request
<1>2. UNCHANGED <<file, store>>
  BY EngineBeginsStill
<1>3. PICK k, w : k = r.key /\ w = World
  OBVIOUS
<1>4. ASSUME Readable(k)
      PROVE  store[k] \in Meta /\ RecordSound(w, store[k]) /\ file[k] # "absent"
  <2>1. file[k] # "absent" /\ k \in KeyId
    BY <1>1, <1>3, <1>4 DEF Readable
  <2>2. k \in DOMAIN w /\ w[k] = store[k]
    BY <1>3, <2>1, WorldHasFiles
  <2> QED BY <1>1, <1>3, <2>1, <2>2 DEF Closed, TypeOK
\* What is to be shown of the new copy.
<1>5. ASSUME NEW op, NEW stage \in {"wrap", "zero", "put"}, NEW m, Start(p, r, op, stage, m),
             RecordSound(w, m),
             op = "generate" => file[k] = "absent",
             op # "generate" => /\ file[k] # "absent" /\ Replaces(store[k], m)
                                /\ stage = "wrap" => m = store[k],
             stage = "wrap" /\ op = "rewrap" => fresh'[p].pk = Current(m).pk
      PROVE  CallSound(p)'
  <2>1. /\ pc[p] = "idle" /\ pc'[p] = stage /\ req'[p] = r /\ meta'[p] = m /\ snap'[p] = snap[p]
        /\ r.op = op
    BY <1>1, <1>5 DEF Start, TypeOK, walk
  <2>2. snap'[p] = {}
    BY <2>1 DEF SnapsInPlace
  <2>3. RecordSound(World, meta[p])'
    <3>1. RecordSound(World', m)
      BY <1>3, <1>5
    <3> QED BY <2>1, <3>1 DEF RecordSound, Sits, VersionSound
  <2>4. op # "generate" => Replaces(store[req[p].key], meta[p])'
    BY <1>2, <1>3, <1>5, <2>1 DEF Replaces
  <2>5. Generating(p)' <=> op = "generate"
    BY <2>1 DEF Generating
  <2> QED BY <1>2, <1>3, <1>5, <2>1, <2>2, <2>3, <2>4, <2>5 DEF CallSound, Current
<1>6. CASE Generate(p, r) \/ GenerateSigningKey(p, r)
  <2>1. /\ Start(p, r, "generate", "wrap", Blank(r.type, r.parent)) /\ file[k] = "absent"
    BY <1>3, <1>6 DEF Generate, GenerateSigningKey, Create, IsFreshId
  <2>2. r.parent # NoKey => Readable(r.parent) /\ <<store[r.parent].type, r.type>> \in CanWrap
    BY <1>6 DEF Generate, GenerateSigningKey, ParentAccepts
  <2>3. Sits(w, r.type, r.parent)
    <3>1. r.parent # NoKey => r.parent \in DOMAIN w /\ w[r.parent] = store[r.parent]
      BY <1>1, <1>3, <2>2, WorldHasFiles DEF Readable
    <3> QED BY <2>2, <3>1 DEF Sits
  <2>4. PICK m : m = Blank(r.type, r.parent)
    OBVIOUS
  <2>5. RecordSound(w, m)
    BY <2>3, <2>4 DEF RecordSound, Blank
  <2> QED BY <1>5, <2>1, <2>4, <2>5
<1>7. ASSUME NEW op \in Op \ {"generate"}, NEW s \in KeyState, store[k].state # "Destroyed",
             StartOn(p, r, op, "put", [store[k] EXCEPT !.state = s])
      PROVE  CallSound(p)'
  <2>1. Readable(k) /\ Start(p, r, op, "put", [store[k] EXCEPT !.state = s])
    BY <1>3, <1>7 DEF StartOn
  <2>2. PICK m, n : m = store[k] /\ n = [m EXCEPT !.state = s]
    OBVIOUS
  <2>3. RecordSound(w, n) /\ Replaces(m, n)
    BY <1>4, <1>7, <2>1, <2>2, RestatedSound
  <2> QED BY <1>4, <1>5, <2>1, <2>2, <2>3
<1>8. CASE Activate(p, r) \/ Revoke(p, r) \/ RevokeCascade(p, r) \/ Expire(p, r)
  <2>1. store[k].state # "Destroyed"
    BY <1>3, <1>8 DEF Activate, CanTransition, ValidTransitions, Revoke, RevokeCascade, Expire,
                      Expirable
  <2> QED BY <1>3, <1>7, <1>8, <2>1 DEF Activate, Revoke, RevokeCascade, Expire, Revoked, Op, KeyState
<1>9. CASE Rotate(p, r) \/ Rewrap(p, r)
  <2>1. Readable(k) /\ \E op \in {"rotate", "rewrap"} : Start(p, r, op, "wrap", store[k])
    BY <1>3, <1>9 DEF Rotate, Rewrap
  <2>2. PICK op \in {"rotate", "rewrap"} : Start(p, r, op, "wrap", store[k])
    BY <2>1
  <2>3. op = "rewrap" => fresh'[p].pk = Current(store[k]).pk
    <3>1. op = "rewrap" => Rewrap(p, r)
      BY <1>9, <2>2 DEF Rotate, Start
    <3> QED BY <1>1, <1>3, <3>1 DEF Rewrap, TypeOK
  <2> QED BY <1>4, <1>5, <2>1, <2>2, <2>3, ReplacesSelf
<1>10. CASE Destroy(p, r)
  <2>1. PICK m, n : /\ m = store[k]
                    /\ n = [m EXCEPT !.state = "Destroyed",
                              !.versions = [i \in DOMAIN m.versions |-> Purged(m.versions[i])]]
    OBVIOUS
  <2>2. Readable(k) /\ Start(p, r, "destroy", "zero", n)
    BY <1>3, <1>10, <2>1 DEF Destroy, StartOn
  <2>3. RecordSound(w, n) /\ Replaces(m, n)
    BY <1>4, <2>1, <2>2, DestroyedSound
  <2> QED BY <1>4, <1>5, <2>1, <2>2, <2>3
<1>11. CASE Encrypt(p, r)
  <2>1. PICK m, n : m = store[k] /\ n = [m EXCEPT !.usage = @ + 1]
    OBVIOUS
  <2>2. Readable(k) /\ Start(p, r, "encrypt", "put", n) /\ m.state # "Destroyed"
    BY <1>3, <1>11, <2>1 DEF Encrypt, StartOn, CanEncrypt
  <2>3. m \in Meta
    BY <1>4, <2>1, <2>2
  <2>4. n.type = m.type /\ n.parent = m.parent /\ n.versions = m.versions /\ n.state = m.state
    BY <2>1, <2>3 DEF Meta
  <2>5. RecordSound(w, n) /\ Replaces(m, n)
    BY <1>4, <2>1, <2>2, <2>4 DEF RecordSound, Replaces
  <2> QED BY <1>4, <1>5, <2>1, <2>2, <2>5
<1> QED BY <1>6, <1>8, <1>9, <1>10, <1>11 DEF Begin

\* The record with the wrapped version may take the place of the one without.
LEMMA InstallReplaces ==
  ASSUME NEW m \in Meta, NEW op, NEW v \in Version, m.state # "Destroyed",
         op = "rewrap" => v.pk = Current(m).pk
  PROVE  Replaces(m, Install(m, op, v)) /\ Install(m, op, v).parent = m.parent
<1>1. m.versions \in Seq(Version) /\ m.current \in Nat
  BY DEF Meta
<1>2. PICK n : n = Install(m, op, v)
  OBVIOUS
<1>3. CASE op = "rewrap"
  <2> DEFINE vs == [m.versions EXCEPT ![m.current] = v]
  <2>1. n = [m EXCEPT !.versions = vs]
    BY <1>2, <1>3 DEF Install
  <2>2. \A i \in DOMAIN m.versions : i \in DOMAIN vs /\ vs[i].pk = m.versions[i].pk
    BY <1>1, <1>3 DEF Current
  <2> HIDE DEF vs
  <2>3. n.type = m.type /\ n.parent = m.parent /\ n.state = m.state /\ n.versions = vs
    BY <2>1 DEF Meta
  <2> QED BY <1>2, <2>2, <2>3 DEF Replaces
<1>4. CASE op # "rewrap"
  <2> DEFINE vs == Append(m.versions, v)
  <2>1. n = [m EXCEPT !.versions = vs, !.current = m.current + 1]
    BY <1>2, <1>4 DEF Install
  <2>2. \A i \in DOMAIN m.versions : i \in DOMAIN vs /\ vs[i] = m.versions[i]
    BY <1>1
  <2> HIDE DEF vs
  <2>3. n.type = m.type /\ n.parent = m.parent /\ n.state = m.state /\ n.versions = vs
    BY <2>1 DEF Meta
  <2> QED BY <1>2, <2>2, <2>3 DEF Replaces
<1> QED BY <1>3, <1>4

\* wrap_secret_key_for wraps to the version it reads.
LEMMA WrappedSound ==
  ASSUME TypeOK, LineageTrue, NEW v \in Version, NEW j \in KeyId \cup {NoKey}, WrapPossible(j)
  PROVE  VersionSound(World, WrapUnder(v, j)) /\ WrapUnder(v, j).pk = v.pk
<1>1. PICK u, w : u = WrapUnder(v, j) /\ w = World
  OBVIOUS
<1>2. CASE j # NoKey /\ WrapsChildren(j)
  <2>1. /\ j \in KeyId /\ Readable(j) /\ store[j].current \in DOMAIN store[j].versions
    BY <1>2 DEF WrapPossible
  <2>2. j \in DOMAIN w /\ w[j] = store[j]
    BY <1>1, <2>1, WorldHasFiles DEF Readable
  <2>3. /\ u.pk = v.pk /\ u.by = j /\ u.byVer = store[j].current
        /\ u.byPk = store[j].versions[store[j].current].pk
    BY <1>1, <1>2 DEF WrapUnder, Version, Current
  <2>4. VersionSound(w, u)
    BY <1>2, <2>1, <2>2, <2>3 DEF VersionSound, WrapsChildren
  <2> QED BY <1>1, <2>3, <2>4
<1>3. CASE ~(j # NoKey /\ WrapsChildren(j))
  <2>1. u.sk = "Encrypted" /\ u.pk = v.pk
    BY <1>1, <1>3 DEF WrapUnder, Version
  <2> QED BY <1>1, <2>1 DEF VersionSound
<1> QED BY <1>2, <1>3

LEMMA WrapSound ==
  ASSUME EngineInv, LineageTrue, World' = World, NEW p \in Proc, CallSound(p), Wrap(p)
  PROVE  CallSound(p)'
<1>1. /\ TypeOK /\ LocalWell(p) /\ pc[p] = "wrap" /\ meta[p] \in Meta /\ fresh[p] \in Version
      /\ req[p] \in Request
  BY DEF EngineInv, LocalWell, TypeOK, Wrap
<1>2. NewParent(p) \in KeyId \cup {NoKey} /\ WrapPossible(NewParent(p))
  BY <1>1 DEF NewParent, Request, Meta, Wrap
<1>3. PICK m, v, n, w : /\ m = meta[p] /\ v = WrapUnder(fresh[p], NewParent(p))
                        /\ n = Install(m, req[p].op, v) /\ w = World
  OBVIOUS
<1>4. v \in Version /\ VersionSound(w, v) /\ v.pk = fresh[p].pk
  BY <1>1, <1>2, <1>3, WrapUnderType, WrappedSound
<1>5. /\ pc'[p] = "put" /\ meta'[p] = n /\ UNCHANGED <<file, store, req, fresh, snap>>
  BY <1>1, <1>3 DEF Wrap, TypeOK, disk, walk
<1>6. /\ m \in Meta /\ RecordSound(w, m) /\ m.state # "Destroyed"
      /\ req[p].op = "rewrap" => v.pk = Current(m).pk
  BY <1>1, <1>3, <1>4 DEF CallSound, LocalWell
<1>7. Replaces(m, n) /\ n.parent = m.parent
  BY <1>3, <1>4, <1>6, InstallReplaces
<1>8. /\ n.type = m.type
      /\ \A i \in DOMAIN n.versions : (i \in DOMAIN m.versions /\ n.versions[i] = m.versions[i])
                                      \/ n.versions[i] = v
  BY <1>3, <1>4, <1>6, InstallVersions
<1>9. RecordSound(w, n)
  BY <1>4, <1>6, <1>7, <1>8 DEF RecordSound
<1>10. RecordSound(World, meta[p])'
  <2>1. RecordSound(World', n)
    BY <1>3, <1>9
  <2> QED BY <1>5, <2>1 DEF RecordSound, Sits, VersionSound
<1>11. /\ Generating(p) => file[req[p].key] = "absent"
       /\ ~Generating(p) => file[req[p].key] # "absent" /\ m = store[req[p].key]
  BY <1>1, <1>3 DEF CallSound
<1>12. ~Generating(p) => Replaces(store[req[p].key], meta[p])'
  BY <1>5, <1>7, <1>11 DEF Replaces
<1>13. Generating(p)' = Generating(p)
  BY <1>5 DEF Generating
<1>14. \A c \in snap'[p] : file'[c.key] # "absent" /\ c.meta = store'[c.key]
  BY <1>5 DEF CallSound
<1> QED BY <1>5, <1>10, <1>11, <1>12, <1>13, <1>14 DEF CallSound

\* A step writes keys of its own call only.
LEMMA StepWrites ==
  ASSUME EngineInv, NEW p \in Proc, EngineStep(p), NEW k \in KeyId, k \notin Busy(p)
  PROVE  file'[k] = file[k] /\ store'[k] = store[k]
<1>1. CASE UNCHANGED disk
  BY <1>1 DEF disk
<1>2. ASSUME NEW j, j \in Busy(p),
             (UNCHANGED store /\ file' = [file EXCEPT ![j] = "zeroed"]) \/ \E m : Write(j, m)
      PROVE  file'[k] = file[k] /\ store'[k] = store[k]
  BY <1>2 DEF Write, EngineInv, TypeOK
<1>3. pc[p] # "idle" => req[p].key \in Busy(p)
  BY DEF Busy
<1>4. \A c \in snap[p] : c.key \in Busy(p)
  BY DEF Busy, Ids
<1>5. CASE ZeroFile(p) \/ Put(p) \/ PutUnacknowledged(p)
  <2>1. PICK j : j = req[p].key
    OBVIOUS
  <2>2. j \in Busy(p)
    BY <1>3, <1>5, <2>1 DEF ZeroFile, Put, PutUnacknowledged
  <2>3. (UNCHANGED store /\ file' = [file EXCEPT ![j] = "zeroed"]) \/ \E m : Write(j, m)
    BY <1>5, <2>1 DEF ZeroFile, Put, PutUnacknowledged
  <2> QED BY <1>2, <2>2, <2>3
<1>6. ASSUME NEW c \in snap[p], CascadeSuspends(p, c) \/ CascadeUnacknowledged(p, c)
      PROVE  file'[k] = file[k] /\ store'[k] = store[k]
  <2>1. \E m : Write(c.key, m)
    BY <1>6 DEF CascadeSuspends, CascadeUnacknowledged
  <2> QED BY <1>2, <1>4, <2>1
<1>7. ASSUME NEW r \in Requests, Begin(p, r) PROVE UNCHANGED disk
  BY <1>7, EngineBeginsStill DEF disk
<1>8. ASSUME NEW c, CascadeSkips(p, c) \/ CascadeReports(p, c) PROVE UNCHANGED disk
  BY <1>8 DEF CascadeSkips, CascadeReports
<1>9. Wrap(p) \/ WrapFails(p) \/ CascadeList(p) \/ CascadeAborts(p) \/ CascadeDone(p) \/ PutFails(p)
        => UNCHANGED disk
  BY DEF Wrap, WrapFails, CascadeList, CascadeAborts, CascadeDone, PutFails
<1> QED BY <1>1, <1>5, <1>6, <1>7, <1>8, <1>9 DEF EngineStep, Continue, Fault

\* A step that leaves the files alone leaves the world alone.
LEMMA WorldStill ==
  ASSUME UNCHANGED disk, LineageAfterWrite, archive' = archive
  PROVE  World' = World
BY WorldUnmoved DEF LineageAfterWrite, disk, Stored

\* A process that returned holds nothing.
LEMMA ReturnedSound ==
  ASSUME NEW p \in Proc, pc'[p] \notin {"wrap", "zero", "put"}, snap'[p] = {}
  PROVE  CallSound(p)'
BY DEF CallSound

\* The overwrite of a file leaves its record in the world.
LEMMA ZeroSound ==
  ASSUME EngineInv, LineageTrue, LineageAfterWrite, archive' = archive, lineage' # "mixed",
         SnapsInPlace, NEW p \in Proc, CallSound(p), ZeroFile(p)
  PROVE  World' = World /\ CallSound(p)'
<1>1. /\ TypeOK /\ pc[p] = "zero" /\ req[p] \in Request /\ file[req[p].key] # "absent"
      /\ snap[p] = {}
  BY DEF EngineInv, LocalWell, ZeroFile, SnapsInPlace
<1>2. PICK k \in KeyId : k = req[p].key
  BY <1>1 DEF Request
<1>3. /\ file' = [file EXCEPT ![k] = "zeroed"] /\ pc'[p] = "put"
      /\ UNCHANGED <<store, req, meta, fresh, snap>>
  BY <1>1, <1>2 DEF ZeroFile, TypeOK, walk
<1>4. Stored' = Stored
  BY <1>1, <1>2, <1>3 DEF Stored, TypeOK
<1>5. World' = World
  <2>1. CASE disk' = disk
    BY <2>1, WorldStill
  <2>2. CASE disk' # disk
    <3>1. lineage # "restoring" /\ lineage' # "restoring"
      BY <2>2 DEF LineageAfterWrite
    <3> QED BY <1>3, <1>4, <3>1 DEF World, Files
  <2> QED BY <2>1, <2>2
<1>6. ~Generating(p) /\ Generating(p)' = Generating(p)
  BY <1>1, <1>3 DEF CallSound, Generating
<1>7. RecordSound(World, meta[p]) /\ Replaces(store[req[p].key], meta[p])
  BY <1>1, <1>6 DEF CallSound
<1>8. RecordSound(World, meta[p])'
  BY <1>3, <1>5, <1>7 DEF RecordSound, Sits, VersionSound
<1>9. Replaces(store[req[p].key], meta[p])'
  BY <1>3, <1>7 DEF Replaces
<1>10. file'[req'[p].key] # "absent" /\ snap'[p] = {}
  BY <1>1, <1>2, <1>3 DEF TypeOK
<1> QED BY <1>3, <1>5, <1>6, <1>8, <1>9, <1>10 DEF CallSound

\* A put of the copy.
LEMMA PutSound ==
  ASSUME EngineInv, LineageTrue, lineage # "mixed", Closed(World), LineageAfterWrite,
         archive' = archive, lineage' # "mixed",
         SnapsInPlace, NEW p \in Proc, CallSound(p), Put(p) \/ PutUnacknowledged(p)
  PROVE  Closed(World') /\ Grows(World, World') /\ CallSound(p)'
<1>1. /\ TypeOK /\ pc[p] = "put" /\ req[p] \in Request /\ snap[p] = {} /\ meta[p] \in Meta
  BY DEF EngineInv, LocalWell, Put, PutUnacknowledged, SnapsInPlace, TypeOK
<1>2. PICK k, m : k = req[p].key /\ m = meta[p]
  OBVIOUS
<1>3. k \in KeyId /\ m \in Meta /\ Write(k, m)
  BY <1>1, <1>2 DEF Request, Put, PutUnacknowledged
<1>4. RecordSound(World, m) /\ (file[k] # "absent" => Replaces(store[k], m))
  BY <1>1, <1>2 DEF CallSound
<1>5. Closed(World') /\ Grows(World, World')
  BY <1>1, <1>3, <1>4, WorldWritten
<1>6. snap'[p] = {} /\ pc'[p] \in {"idle", "cascade"}
  BY <1>1 DEF Put, PutUnacknowledged, Return, walk, TypeOK
<1> QED BY <1>5, <1>6, ReturnedSound

\* A child put back as suspended.
LEMMA SuspendSound ==
  ASSUME EngineInv, LineageTrue, lineage # "mixed", Closed(World), LineageAfterWrite,
         archive' = archive, lineage' # "mixed",
         NEW p \in Proc, CallSound(p), NEW c \in snap[p],
         CascadeSuspends(p, c) \/ CascadeUnacknowledged(p, c)
  PROVE  Closed(World') /\ Grows(World, World') /\ CallSound(p)'
<1>1. TypeOK /\ pc[p] = "cascade" /\ snap[p] \subseteq Listed
  BY DEF EngineInv, CascadeSuspends, CascadeUnacknowledged, InCascade, TypeOK
<1>2. PICK k, m, n : k = c.key /\ m = c.meta /\ n = [m EXCEPT !.state = "Suspended"]
  OBVIOUS
<1>3. k \in KeyId /\ m \in Meta /\ file[k] # "absent" /\ m = store[k]
  BY <1>1, <1>2 DEF Listed, CallSound
<1>4. Write(k, n) /\ m.state # "Destroyed" /\ snap' = Visited(p, c) /\ pc' = pc
  BY <1>2 DEF CascadeSuspends, CascadeUnacknowledged, Suspendable, CanTransition,
              ValidTransitions, local
<1>5. n \in Meta
  BY <1>2, <1>3 DEF Meta, KeyState
<1>6. PICK w : w = World
  OBVIOUS
<1>7. RecordSound(w, m)
  BY <1>3, <1>6, WorldHasFiles DEF Closed
<1>8. RecordSound(w, n) /\ Replaces(m, n)
  BY <1>2, <1>3, <1>4, <1>7, RestatedSound DEF KeyState
<1>9. Closed(World') /\ Grows(World, World')
  BY <1>1, <1>3, <1>4, <1>5, <1>6, <1>8, WorldWritten
<1>10. ASSUME NEW d \in snap'[p] PROVE file'[d.key] # "absent" /\ d.meta = store'[d.key]
  <2>1. d \in snap[p] /\ d # c
    BY <1>1, <1>4, <1>10 DEF Visited, TypeOK
  <2>2. d \in Listed /\ c \in Listed /\ file[d.key] # "absent" /\ d.meta = store[d.key]
    BY <1>1, <2>1 DEF CallSound
  <2>3. d.key # k
    <3>1. d = [key |-> d.key, meta |-> d.meta] /\ c = [key |-> c.key, meta |-> c.meta]
      BY <2>2 DEF Listed
    <3> QED BY <1>2, <1>3, <2>1, <2>2, <3>1
  <2>4. d.key \in KeyId
    BY <2>2 DEF Listed
  <2> QED BY <1>1, <1>4, <2>2, <2>3, <2>4 DEF Write, TypeOK
<1> QED BY <1>1, <1>4, <1>9, <1>10 DEF CallSound

\* Each step of an engine keeps the world closed, and its own copy sound in it.
LEMMA StepSound ==
  ASSUME EngineInv, LineageTrue, lineage # "mixed", Closed(World), LineageAfterWrite,
         archive' = archive, lineage' # "mixed",
         SnapsInPlace, NEW p \in Proc, CallSound(p), EngineStep(p)
  PROVE  Closed(World') /\ Grows(World, World') /\ CallSound(p)'
<1>1. ASSUME World' = World, CallSound(p)'
      PROVE  Closed(World') /\ Grows(World, World') /\ CallSound(p)'
  BY <1>1, GrowsSelf
<1>2. ASSUME NEW r \in Requests, Begin(p, r) PROVE World' = World /\ CallSound(p)'
  <2>1. World' = World
    BY <1>2, EngineBeginsStill, WorldStill DEF disk
  <2> QED BY <1>2, <2>1, BeginSound
<1>3. CASE Wrap(p)
  <2>1. World' = World
    BY <1>3, WorldStill DEF Wrap
  <2> QED BY <1>1, <1>3, <2>1, WrapSound
<1>4. CASE ZeroFile(p)
  BY <1>1, <1>4, ZeroSound
<1>5. CASE Put(p) \/ PutUnacknowledged(p)
  BY <1>5, PutSound
<1>6. CASE \E c \in snap[p] : CascadeSuspends(p, c) \/ CascadeUnacknowledged(p, c)
  BY <1>6, SuspendSound
<1>7. CASE UNCHANGED disk /\ (EndCascade(p) \/ WrapFails(p) \/ PutFails(p))
  <2>1. pc'[p] = "idle" /\ snap'[p] = {}
    BY <1>7 DEF EndCascade, WrapFails, PutFails, Return, walk, EngineInv, TypeOK, SnapsInPlace
  <2>2. World' = World
    BY <1>7, WorldStill
  <2> QED BY <1>1, <2>1, <2>2, ReturnedSound
<1>8. CASE CascadeList(p)
  <2>1. World' = World /\ UNCHANGED <<file, store>> /\ pc'[p] = "cascade"
    BY <1>8, WorldStill DEF CascadeList, InCascade, disk, local
  <2>2. ASSUME NEW c \in snap'[p] PROVE file[c.key] # "absent" /\ c.meta = store[c.key]
    <3>1. PICK K : snap'[p] = {[key |-> j, meta |-> store[j]] : j \in ChildrenOf(K)}
      BY <1>8 DEF CascadeList, EngineInv, TypeOK
    <3>2. PICK j \in ChildrenOf(K) : c = [key |-> j, meta |-> store[j]]
      BY <2>2, <3>1
    <3> QED BY <3>2 DEF ChildrenOf, Readable
  <2>3. CallSound(p)'
    BY <2>1, <2>2 DEF CallSound
  <2> QED BY <1>1, <2>1, <2>3
<1>9. ASSUME NEW c \in snap[p], CascadeSkips(p, c) \/ CascadeReports(p, c)
      PROVE  World' = World /\ CallSound(p)'
  <2>1. World' = World /\ UNCHANGED <<file, store>> /\ pc'[p] = "cascade"
    BY <1>9, WorldStill DEF CascadeSkips, CascadeReports, InCascade, disk, local
  <2>2. snap'[p] \subseteq snap[p]
    BY <1>9 DEF CascadeSkips, CascadeReports, Visited, EngineInv, TypeOK
  <2> QED BY <2>1, <2>2 DEF CallSound
<1>10. CascadeAborts(p) \/ CascadeDone(p) => EndCascade(p) /\ UNCHANGED disk
  BY DEF CascadeAborts, CascadeDone
<1>11. WrapFails(p) \/ PutFails(p) => UNCHANGED disk
  BY DEF WrapFails, PutFails
<1> QED BY <1>1, <1>2, <1>3, <1>4, <1>5, <1>6, <1>7, <1>8, <1>9, <1>10, <1>11
        DEF EngineStep, Continue, Fault

LEMMA ClosedLater ==
  ASSUME NEW w, Closed(w)
  PROVE  (World' = w => Closed(World)') /\ (Backup' = w => Closed(Backup)')
<1>1. \A k \in DOMAIN w : RecordSound(w, w[k])
  BY DEF Closed
<1>2. ASSUME World' = w PROVE Closed(World)'
  <2>1. ASSUME NEW k \in DOMAIN World' PROVE RecordSound(World, World[k])'
    <3>1. RecordSound(World', World'[k])
      BY <1>1, <1>2, <2>1
    <3> QED BY <3>1 DEF RecordSound, Sits, VersionSound
  <2> QED BY <2>1 DEF Closed
<1>3. ASSUME Backup' = w PROVE Closed(Backup)'
  <2>1. ASSUME NEW k \in DOMAIN Backup' PROVE RecordSound(Backup, Backup[k])'
    <3>1. RecordSound(Backup', Backup'[k])
      BY <1>1, <1>3, <2>1
    <3> QED BY <3>1 DEF RecordSound, Sits, VersionSound
  <2> QED BY <2>1 DEF Closed
<1> QED BY <1>2, <1>3

LEMMA BackupStays ==
  ASSUME archive' = archive, archive.quiet => Closed(Backup)
  PROVE  archive'.quiet => Closed(Backup)'
<1>1. Backup' = Backup
  BY DEF Backup, Held, Ids, Archived
<1>2. PICK w : w = Backup
  OBVIOUS
<1> QED BY <1>1, <1>2, ClosedLater

\* A step of any engine, the server's or the command line's.
LEMMA EngineWorld ==
  ASSUME RecoveryInv, WorldInv, KeysApart, NEW p \in Proc, EngineStep(p), LineageAfterWrite,
         archive' = archive, p = Cli => snap'[Cli] = {}
  PROVE  WorldInv'
<1>1. EngineInv /\ TypeOK /\ LineageTrue
  BY DEF RecoveryInv, EngineInv
<1>2. SnapsInPlace'
  BY <1>1, SnapsStay DEF WorldInv
<1>3. archive'.quiet => Closed(Backup)'
  BY BackupStays DEF WorldInv
<1>4. ASSUME lineage' # "mixed" PROVE Closed(World)' /\ \A q \in Proc : CallSound(q)'
  <2>1. lineage # "mixed"
    BY <1>4 DEF LineageAfterWrite
  <2>2. /\ Closed(World) /\ SnapsInPlace /\ \A q \in Proc : CallSound(q)
    BY <2>1 DEF WorldInv
  <2>3. Closed(World') /\ Grows(World, World') /\ CallSound(p)'
    BY <1>1, <1>4, <2>1, <2>2, StepSound
  <2>4. Closed(World)'
    <3>1. PICK w : w = World'
      OBVIOUS
    <3> QED BY <2>3, <3>1, ClosedLater
  <2>5. ASSUME NEW q \in Proc, q # p PROVE CallSound(q)'
    <3>1. Busy(p) \cap Busy(q) = {}
      BY <2>5 DEF KeysApart
    <3>2. \A k \in Busy(q) \cap KeyId : file'[k] = file[k] /\ store'[k] = store[k]
      BY <1>1, <3>1, StepWrites
    <3>3. pc[q] # "idle" => req[q].key \in KeyId
      BY <1>1 DEF EngineInv, LocalWell, Request
    <3> QED BY <1>1, <2>2, <2>3, <2>5, <3>2, <3>3, CopiesApart, OthersSound
  <2> QED BY <2>3, <2>4, <2>5
<1> QED BY <1>2, <1>3, <1>4 DEF WorldInv

\* Steps that leave the engines alone keep the copies sound in the same world.
LEMMA StillWorld ==
  ASSUME RecoveryInv, WorldInv, UNCHANGED vars, lineage' # "mixed" => lineage # "mixed",
         lineage' # "mixed" => World' = World, archive'.quiet => Closed(Backup)'
  PROVE  WorldInv'
<1>1. /\ UNCHANGED <<file, store, pc, req, meta, fresh, snap>>
      /\ EngineInv /\ TypeOK
  BY DEF vars, disk, local, walk, RecoveryInv, EngineInv
<1>2. SnapsInPlace'
  BY <1>1 DEF WorldInv, SnapsInPlace
<1>3. ASSUME lineage' # "mixed" PROVE Closed(World)' /\ \A q \in Proc : CallSound(q)'
  <2>1. Closed(World) /\ (\A q \in Proc : CallSound(q)) /\ World' = World
    BY <1>3 DEF WorldInv
  <2>2. PICK w : w = World
    OBVIOUS
  <2>3. Closed(World)'
    BY <2>1, <2>2, ClosedLater
  <2>4. Grows(World, World')
    BY <2>1, GrowsSelf
  <2>5. ASSUME NEW q \in Proc PROVE CallSound(q)'
    <3>1. pc[q] # "idle" => req[q].key \in KeyId
      BY <1>1 DEF EngineInv, LocalWell, Request
    <3> QED BY <1>1, <2>1, <2>4, <3>1, OthersSound
  <2> QED BY <2>3, <2>5
<1> QED BY <1>2, <1>3 DEF WorldInv

LEMMA CommandWorld ==
  ASSUME RecoveryInv, WorldInv, CommandOnly
  PROVE  WorldInv'
<1>1. UNCHANGED vars /\ UNCHANGED <<file, store>>
  BY CommandOnlyStill DEF vars, disk
<1>2. Files' = Files /\ Stored' = Stored
  BY <1>1 DEF Files, Stored
<1>3. CASE TruncateArchive
  <2>1. archive'.quiet = FALSE /\ lineage' = IF lineage = "restoring" THEN "mixed" ELSE lineage
    BY <1>3 DEF TruncateArchive, NoArchive
  <2>2. lineage' # "mixed" => lineage # "mixed" /\ World' = World
    BY <1>2, <2>1 DEF World
  <2> QED BY <1>1, <2>1, <2>2, StillWorld
<1>4. CASE WriteArchive
  <2>1. lineage' = lineage /\ lineage # "restoring"
    BY <1>4 DEF WriteArchive, RecoveryInv, CommandTyped
  <2>2. World' = World /\ World = Files
    BY <1>2, <2>1 DEF World
  <2>3. ASSUME archive'.quiet PROVE Closed(Backup)'
    <3>1. ~disturbed /\ lineage \in {"live", "restored"}
      BY <1>4, <2>3 DEF WriteArchive
    <3>2. FromArchive' /\ \A k \in Held' : file'[k] = "json"
      BY <1>4, <3>1, WrittenDescribes DEF RecoveryInv
    <3>3. archive'.keys \subseteq Listed
      BY <1>4 DEF WriteArchive, RecoveryInv, CommandTyped
    <3>4. Held' \subseteq KeyId
      BY <3>3 DEF Held, Ids, Listed
    <3>5. Held' = Stored /\ \A k \in Stored : Archived(k)' = store[k]
      BY <1>1, <3>2, <3>4 DEF FromArchive, Stored
    <3>6. Backup' = Files
      BY <3>5 DEF Backup, Files
    <3>7. PICK w : w = Files
      OBVIOUS
    <3>8. Closed(w)
      BY <2>2, <3>1, <3>7 DEF WorldInv
    <3> QED BY <3>6, <3>7, <3>8, ClosedLater
  <2> QED BY <1>1, <2>1, <2>2, <2>3, StillWorld
<1>5. CASE RestoreExits
  <2>1. /\ step = "restore" /\ pending = {} /\ archive' = archive
        /\ lineage' = IF lineage = "restoring" /\ ~failed THEN "restored" ELSE lineage
    BY <1>5 DEF RestoreExits
  <2>2. CASE lineage = "restoring" /\ ~failed
    <3>1. FromArchive /\ \A k \in Held : file[k] = "json"
      BY <2>1, <2>2 DEF RecoveryInv, LineageTrue
    <3>2. Held \subseteq KeyId
      BY ArchivedListed DEF RecoveryInv
    <3>3. Held = Stored /\ \A k \in Stored : Archived(k) = store[k]
      BY <3>1, <3>2 DEF FromArchive, Stored
    <3>4. Backup = Files
      BY <3>3 DEF Backup, Files
    <3>5. World' = World /\ lineage # "mixed"
      BY <1>2, <2>1, <2>2, <3>4 DEF World
    <3> QED BY <1>1, <2>1, <3>5, BackupStays, StillWorld DEF WorldInv
  <2>3. CASE ~(lineage = "restoring" /\ ~failed)
    BY <1>1, <1>2, <2>1, <2>3, BackupStays, WorldUnmoved, StillWorld DEF WorldInv
  <2> QED BY <2>2, <2>3
<1>6. ASSUME ~TruncateArchive, ~WriteArchive, ~RestoreExits PROVE UNCHANGED <<archive, lineage>>
  BY <1>6 DEF CommandOnly, BeginListing, BeginReading, Starts, ListFile, ListBreaks, ListEnds,
       VerifyExits, BeginRestore, RestorePasses, RestoreChecks, RestorePutFails,
       PlanExits, Plan, MigrateRefused, MigrateInactive, MigrateCannotRewrap, MigrateExits, Diagnose
<1>7. CASE UNCHANGED <<archive, lineage>>
  BY <1>1, <1>2, <1>7, BackupStays, WorldUnmoved, StillWorld DEF WorldInv
<1> QED BY <1>3, <1>4, <1>5, <1>6, <1>7

\* A restore writes keys of the world it restores.
LEMMA RestoreWorld ==
  ASSUME RecoveryInv, WorldInv, KeysApart, RestorePuts
  PROVE  WorldInv'
<1>1. /\ step = "put" /\ Write(target, Archived(target)) /\ archive' = archive
      /\ UNCHANGED <<pc, req, meta, fresh, snap>>
      /\ lineage' = IF lineage \in {"lost", "restoring"} /\ archive.quiet
                    THEN "restoring" ELSE "mixed"
  BY DEF RestorePuts, local, walk
<1>2. EngineInv /\ TypeOK /\ LineageTrue /\ CommandTyped /\ CallsInPlace
  BY DEF RecoveryInv, EngineInv
<1>3. SnapsInPlace'
  BY <1>1 DEF WorldInv, SnapsInPlace
<1>4. archive'.quiet => Closed(Backup)'
  BY <1>1, BackupStays DEF WorldInv
<1>5. ASSUME lineage' # "mixed" PROVE Closed(World)' /\ \A q \in Proc : CallSound(q)'
  <2>1. lineage \in {"lost", "restoring"} /\ archive.quiet /\ lineage' = "restoring"
    BY <1>1, <1>5
  <2>2. Closed(World) /\ Closed(Backup) /\ \A q \in Proc : CallSound(q)
    BY <2>1 DEF WorldInv
  <2>3. World' = Backup
    BY <1>1, <2>1 DEF World, Backup, Held, Ids, Archived
  <2>4. Closed(World)'
    <3>1. PICK w : w = Backup
      OBVIOUS
    <3> QED BY <2>2, <2>3, <3>1, ClosedLater
  <2>5. Grows(World, World')
    <3>1. CASE lineage = "restoring"
      BY <2>3, <3>1, GrowsSelf DEF World
    <3>2. CASE lineage = "lost"
      <4>1. Stored = {} /\ World = Files
        BY <1>2, <3>2 DEF LineageTrue, Stored, World
      <4>2. DOMAIN World = {}
        BY <4>1 DEF Files
      <4> QED BY <4>2 DEF Grows
    <3> QED BY <2>1, <3>1, <3>2
  <2>6. ASSUME NEW q \in Proc, q # Cli PROVE CallSound(q)'
    <3>1. target \in Busy(Cli) /\ Cli \in Proc
      BY <1>1, MaintenanceConstants DEF Busy
    <3>2. target \notin Busy(q)
      BY <2>6, <3>1 DEF KeysApart
    <3>3. \A k \in Busy(q) \cap KeyId : file'[k] = file[k] /\ store'[k] = store[k]
      BY <1>1, <1>2, <3>2 DEF Write, TypeOK
    <3>4. pc[q] # "idle" => req[q].key \in KeyId
      BY <1>2 DEF EngineInv, LocalWell, Request
    <3> QED BY <1>1, <1>2, <2>2, <2>5, <3>3, <3>4, OthersSound
  <2>7. CallSound(Cli)'
    <3>1. Cli \in Proc /\ pc'[Cli] \notin {"wrap", "zero", "put"} /\ snap'[Cli] = {}
      BY <1>1, <1>2, MaintenanceConstants DEF CallsInPlace, WorldInv, SnapsInPlace
    <3> QED BY <3>1, ReturnedSound
  <2> QED BY <2>4, <2>6, <2>7
<1> QED BY <1>3, <1>4, <1>5 DEF WorldInv

\* An empty directory is closed.
LEMMA LostWorld ==
  ASSUME RecoveryInv, WorldInv, LoseStore
  PROVE  WorldInv'
<1>1. /\ file' = [k \in KeyId |-> "absent"] /\ lineage' = "lost" /\ archive' = archive
      /\ \A p \in Proc : pc[p] = "idle"
      /\ UNCHANGED <<pc, snap>>
  BY DEF LoseStore, local, walk
<1>2. SnapsInPlace' /\ \A p \in Proc : pc'[p] = "idle" /\ snap'[p] = {}
  BY <1>1 DEF WorldInv, SnapsInPlace
<1>3. archive'.quiet => Closed(Backup)'
  BY <1>1, BackupStays DEF WorldInv
<1>4. Stored' = {} /\ World' = Files'
  BY <1>1 DEF Stored, World
<1>5. DOMAIN World' = {}
  BY <1>4 DEF Files
<1>6. Closed(World)'
  BY <1>5 DEF Closed
<1>7. \A p \in Proc : CallSound(p)'
  BY <1>2, ReturnedSound
<1> QED BY <1>2, <1>3, <1>6, <1>7 DEF WorldInv

LEMMA NextWorld ==
  ASSUME RecoveryInv, WorldInv, KeysApart, [MaintenanceNext]_maintenanceVars
  PROVE  WorldInv'
<1>1. Cli \in Proc /\ Servers \subseteq Proc /\ TypeOK /\ snap[Cli] = {}
  BY MaintenanceConstants DEF Servers, RecoveryInv, EngineInv, WorldInv, SnapsInPlace
<1>2. CASE CommandOnly
  BY <1>2, CommandWorld
<1>3. CASE CommandCalls
  <2>1. PICK r \in Requests : Begin(Cli, r)
    BY <1>3, CommandCallsBegin
  <2>2. EngineStep(Cli) /\ disk' = disk
    BY <2>1, EngineBeginsStill DEF EngineStep, disk
  <2>3. snap' = snap
    <3>1. PICK op, stage, m : Start(Cli, r, op, stage, m)
      BY <2>1, BegunStarts
    <3> QED BY <3>1 DEF Start, walk
  <2>4. UNCHANGED <<archive, lineage>>
    BY <1>3 DEF CommandCalls, KeyCommand, Starts, MigrateGenerates, MigrateActivates, MigrateRewraps
  <2> QED BY <1>1, <2>2, <2>3, <2>4, EngineWorld DEF LineageAfterWrite
<1>4. CASE CommandWorks
  <2>1. EngineStep(Cli)
    BY <1>4, CommandWorksContinue DEF EngineStep
  <2>2. LineageAfterWrite /\ archive' = archive
    BY <1>4 DEF CommandWorks, CliWorks, CliPut, CliRefused, CliWriteFails, CliErr, CliCrash,
                LineageAfterWrite
  <2>3. snap'[Cli] = {}
    BY <1>1, <1>4 DEF CommandWorks, CliWorks, CliPut, CliRefused, CliWriteFails, CliCrash, Wrap,
         ZeroFile, Put, WrapFails, PutFails, PutUnacknowledged, EndCascade, walk, TypeOK
  <2> QED BY <1>1, <2>1, <2>2, <2>3, EngineWorld
<1>5. ASSUME NEW p \in Servers, ServerSteps(p) PROVE WorldInv'
  <2>1. EngineStep(p) /\ p \in Proc /\ p # Cli
    BY <1>1, <1>5, ServerEngine DEF EngineStep, Servers
  <2>2. LineageAfterWrite /\ archive' = archive
    BY <1>5 DEF ServerSteps, ServerBegins, ServerWorks, ServerFaults, Disturbs
  <2> QED BY <2>1, <2>2, EngineWorld
<1>6. CASE RestorePuts
  BY <1>6, RestoreWorld
<1>7. CASE LoseStore
  BY <1>7, LostWorld
<1>8. CASE UNCHANGED maintenanceVars
  <2>1. UNCHANGED vars /\ UNCHANGED <<file, store, archive, lineage>>
    BY <1>8 DEF maintenanceVars, vars, disk
  <2>2. Stored' = Stored
    BY <2>1 DEF Stored
  <2> QED BY <2>1, <2>2, BackupStays, WorldUnmoved, StillWorld DEF WorldInv
<1> QED BY <1>2, <1>3, <1>4, <1>5, <1>6, <1>7, <1>8, MaintenanceCases

LEMMA InitWorld == MaintenanceInit => WorldInv
<1> SUFFICES ASSUME MaintenanceInit PROVE WorldInv
  OBVIOUS
<1>1. /\ StoreInit /\ lineage = "live" /\ archive.quiet = FALSE
      /\ \A p \in Proc : pc[p] = "idle" /\ snap[p] = {}
  BY DEF MaintenanceInit, StoreInit, Init, NoArchive
<1>2. SnapsInPlace /\ \A p \in Proc : CallSound(p)
  BY <1>1, MaintenanceConstants DEF SnapsInPlace, CallSound
<1>3. World = Files
  BY <1>1 DEF World
<1>4. ASSUME NEW k \in Stored PROVE RecordSound(Files, store[k])
  <2>1. PICK w, m : w = Files /\ m = store[k]
    OBVIOUS
  <2>2. k \in KeyId /\ file[k] # "absent" /\ \A j \in Stored : j \in DOMAIN w /\ w[j] = store[j]
    BY <2>1 DEF Stored, Files
  <2>3. CASE Init
    <3>1. StructInv /\ SerialInv /\ DescentInv
      BY <2>3, InitStruct, InitSerial, InitDescent
    <3>2. Sits(w, m.type, m.parent)
      <4>1. m.parent # NoKey => m.parent \in Stored /\ <<store[m.parent].type, m.type>> \in CanWrap
        BY <2>1, <2>2, <3>1 DEF StructInv, HierarchySound, ParentFits, Stored
      <4> QED BY <2>2, <4>1 DEF Sits
    <3>3. ASSUME NEW i \in DOMAIN m.versions PROVE VersionSound(w, m.versions[i])
      <4>1. PICK v : v = m.versions[i]
        OBVIOUS
      <4>2. WrapIntactIn(v)
        BY <2>1, <2>2, <3>1, <4>1 DEF SerialInv, StoreIntact, VersionsIntact
      <4>3. v.sk = "CitadelWrapped" => store[v.by].type \in {"KeyEncrypting", "Domain"}
        BY <2>1, <2>2, <3>1, <4>1 DEF DescentInv, StoreDescends, WrapsDown
      <4>4. v.sk = "CitadelWrapped" => v.by \in Stored
        BY <4>2 DEF WrapIntactIn, Stored
      <4>5. VersionSound(w, v)
        BY <2>2, <4>2, <4>3, <4>4 DEF WrapIntactIn, VersionSound
      <4> QED BY <4>1, <4>5
    <3> QED BY <2>1, <3>2, <3>3 DEF RecordSound
  <2>4. CASE ~Init
    <3>1. m = FlatMeta
      BY <1>1, <2>1, <2>2, <2>4 DEF StoreInit
    <3>2. PICK v : v = [Keypair(1, "DataEncrypting") EXCEPT !.sk = "Encrypted"]
      OBVIOUS
    <3>3. v.sk = "Encrypted" /\ m.parent = NoKey /\ m.versions = <<v>>
      BY <3>1, <3>2 DEF FlatMeta, Keypair
    <3>4. \A i \in DOMAIN m.versions : m.versions[i].sk = "Encrypted"
      BY <3>3
    <3>5. RecordSound(w, m)
      BY <3>3, <3>4 DEF RecordSound, Sits, VersionSound
    <3> QED BY <2>1, <3>5
  <2> QED BY <2>3, <2>4
<1>5. Closed(World)
  <2>1. DOMAIN Files = Stored /\ \A k \in Stored : Files[k] = store[k]
    BY DEF Files
  <2>2. PICK w : w = Files
    OBVIOUS
  <2>3. Closed(w)
    BY <1>4, <2>1, <2>2 DEF Closed
  <2> QED BY <1>3, <2>2, <2>3
<1> QED BY <1>1, <1>2, <1>5 DEF WorldInv

\* What a report without a failure and without a warning says of the directory.
LEMMA DiagnosisHealthy ==
  ASSUME RecoveryInv, NEW aged, Diagnose(aged), ~disturbed, exit' = 0
  PROVE  Healthy
<1>1. PICK R : R = run_all_checks(listed, command.env, aged)
  OBVIOUS
<1>2. step = "listed" /\ command.op = "doctor" /\ exit_code(R) = 0
  BY <1>1 DEF Diagnose, Exit
<1>3. "Fail" \notin R /\ "Warn" \notin R
  BY <1>2 DEF exit_code
<1>4. check_wrapping_graph(listed) \in R /\ check_hierarchy_exists(listed) \in R
  BY <1>1 DEF run_all_checks
<1>5. Violations(listed) = {}
  BY <1>3, <1>4 DEF check_wrapping_graph, If
<1>6. listed # {}
  <2> SUFFICES ASSUME listed = {} PROVE FALSE
    OBVIOUS
  <2>1. check_hierarchy_exists(listed) = "Warn"
    BY DEF check_hierarchy_exists, If, Level
  <2> QED BY <1>3, <1>4, <2>1
<1>7. (\A r \in listed : r = Record(r.key) /\ Readable(r.key)) /\ Stored \subseteq Ids(listed)
  BY <1>2, <1>6 DEF RecoveryInv, ListedTruly
<1>8. Ids(listed) \subseteq KeyId
  BY DEF RecoveryInv, CommandTyped, Ids, Listed
<1>9. ASSUME NEW k \in Ids(listed)
      PROVE  Readable(k) /\ k \in Stored /\ Find(listed, k) = store[k]
  BY <1>7, <1>8, ListedIsStored DEF Find, Readable, Stored
<1>10. ~ListFails
  BY <1>7, <1>9 DEF ListFails, Readable, Stored
<1>11. ASSUME NEW k \in Stored
       PROVE  IF Wrapper(store[k]) = NoKey THEN store[k].type \in allow_external_master
              ELSE /\ Wrapper(store[k]) \in Stored
                   /\ <<store[Wrapper(store[k])].type, store[k].type>> \in CanWrap
                   /\ store[Wrapper(store[k])].state \in CanDecrypt
  <2>1. PICK r \in listed : r.key = k
    BY <1>7 DEF Ids
  <2>2. r = Record(k)
    BY <1>7, <2>1
  <2>3. PICK m, j : m = store[k] /\ j = Wrapper(m)
    OBVIOUS
  <2>4. r.meta = m
    BY <2>2, <2>3 DEF Record
  <2>5. /\ ~OrphanedParent(listed, m) /\ ~InvalidDirection(listed, m)
        /\ ~InactiveParent(listed, m) /\ ~InvalidWrappingForRole(m)
    BY <1>5, <2>1, <2>4 DEF Violations
  <2>6. CASE j = NoKey
    BY <2>3, <2>5, <2>6 DEF InvalidWrappingForRole
  <2>7. CASE j # NoKey
    <3>1. j \in Ids(listed)
      BY <2>3, <2>5, <2>7 DEF OrphanedParent
    <3>2. j \in Stored /\ Find(listed, j) = store[j]
      BY <1>9, <3>1
    <3>3. <<store[j].type, m.type>> \in CanWrap /\ store[j].state \in CanDecrypt
      BY <2>3, <2>5, <3>1, <3>2 DEF InvalidDirection, InactiveParent
    <3> QED BY <2>3, <2>7, <3>2, <3>3
  <2> QED BY <2>6, <2>7
<1> QED BY <1>10, <1>11 DEF Healthy

LEMMA NextDoctor ==
  ASSUME RecoveryInv, DoctorInv, [MaintenanceNext]_maintenanceVars
  PROVE  DoctorInv'
<1>1. ASSUME command'.op # "doctor" PROVE DoctorInv'
  BY <1>1 DEF DoctorInv, Succeeded
<1>2. ASSUME UNCHANGED command, step \notin {"idle", "list", "listed"} PROVE DoctorInv'
  BY <1>1, <1>2 DEF DoctorInv
<1>3. ASSUME step' \in {"list", "listed"} PROVE DoctorInv'
  BY <1>3 DEF DoctorInv, Succeeded
<1>4. ASSUME UNCHANGED <<command, step, exit>>,
             disturbed' = TRUE \/ (UNCHANGED <<file, store>> /\ disturbed' = disturbed)
      PROVE  DoctorInv'
  <2>1. UNCHANGED <<file, store>> => (Healthy => Healthy')
    BY DEF Healthy, ListFails, Stored, Wrapper, Current
  <2> QED BY <1>4, <2>1 DEF DoctorInv, Succeeded
<1>5. CASE CommandOnly
  <2>1. UNCHANGED <<file, store>>
    BY <1>5, CommandOnlyStill DEF vars, disk
  <2>2. ASSUME NEW c \in Commands, BeginListing(c) \/ BeginReading(c) PROVE DoctorInv'
    <3>1. step' = "list" \/ command'.op # "doctor"
      BY <2>2 DEF BeginListing, BeginReading, Starts
    <3> QED BY <1>1, <1>3, <3>1
  <2>3. ASSUME NEW k \in KeyId, ListFile(k) \/ ListBreaks(k) PROVE DoctorInv'
    <3>1. step' \in {"list", "listed"} \/ command'.op # "doctor"
      BY <2>3 DEF ListFile, ListBreaks, Exit
    <3> QED BY <1>1, <1>3, <3>1
  <2>4. CASE ListEnds
    BY <1>3, <2>4 DEF ListEnds
  <2>5. CASE TruncateArchive \/ PlanExits \/ Plan
    BY <1>1, <2>5 DEF TruncateArchive, PlanExits, Plan, Exit
  <2>6. CASE WriteArchive \/ VerifyExits \/ BeginRestore \/ RestorePutFails \/ RestoreExits
             \/ MigrateRefused \/ MigrateInactive \/ MigrateExits
    BY <1>2, <2>6 DEF WriteArchive, VerifyExits, BeginRestore, RestorePutFails, RestoreExits,
         MigrateRefused, MigrateInactive, MigrateExits, Exit, ExitByErrors
  <2>7. ASSUME NEW k \in KeyId, RestorePasses(k) \/ RestoreChecks(k) \/ MigrateCannotRewrap(k)
        PROVE  DoctorInv'
    BY <1>2, <2>7 DEF RestorePasses, RestoreChecks, MigrateCannotRewrap
  <2>8. ASSUME NEW aged, Diagnose(aged) PROVE DoctorInv'
    <3>1. step' = "idle" /\ disturbed' = disturbed
      BY <2>8 DEF Diagnose, Exit
    <3>2. Succeeded("doctor")' => Healthy
      BY <2>8, <3>1, DiagnosisHealthy DEF Succeeded
    <3>3. Healthy => Healthy'
      BY <2>1 DEF Healthy, ListFails, Stored, Wrapper, Current
    <3> QED BY <3>1, <3>2, <3>3 DEF DoctorInv
  <2> QED BY <1>5, <2>2, <2>3, <2>4, <2>5, <2>6, <2>7, <2>8 DEF CommandOnly
<1>6. CASE CommandCalls
  <2>1. CASE \E r \in KeyRequests : KeyCommand(r)
    BY <1>1, <2>1 DEF KeyCommand, Starts, NoCommand
  <2>2. CASE MigrateGenerates \/ MigrateActivates \/ \E k \in KeyId : MigrateRewraps(k)
    BY <1>2, <2>2 DEF MigrateGenerates, MigrateActivates, MigrateRewraps
  <2> QED BY <1>6, <2>1, <2>2 DEF CommandCalls
<1>7. CASE CommandWorks
  <2>1. CASE CliCrash
    <3>1. step' = "idle" /\ exit' = 1
      BY <2>1 DEF CliCrash, Exit
    <3> QED BY <3>1 DEF DoctorInv, Succeeded
  <2>2. CASE CliWorks \/ CliPut \/ CliRefused \/ CliWriteFails
    <3>1. pc[Cli] \in {"wrap", "zero", "put"}
      BY <2>2 DEF CliWorks, CliPut, CliRefused, CliWriteFails, Wrap, ZeroFile, Put, WrapFails,
                  PutFails, PutUnacknowledged
    <3>2. step \in {"generate", "activated", "rewrap", "key"}
      BY <3>1 DEF RecoveryInv, CallsInPlace
    <3>3. UNCHANGED command
      BY <2>2 DEF CliWorks, CliPut, CliRefused, CliWriteFails, CliErr, Exit, progress
    <3> QED BY <1>2, <3>2, <3>3
  <2> QED BY <1>7, <2>1, <2>2 DEF CommandWorks
<1>8. ASSUME NEW p \in Servers, ServerSteps(p) PROVE DoctorInv'
  <2>1. /\ UNCHANGED progress
        /\ disturbed' = TRUE \/ (UNCHANGED <<file, store>> /\ disturbed = FALSE)
    BY <1>8, ServerApart DEF RecoveryInv
  <2>2. UNCHANGED <<file, store>> /\ disturbed = FALSE => disturbed' = disturbed
    BY <1>8 DEF ServerSteps, ServerBegins, ServerWorks, ServerFaults, Disturbs, disk
  <2> QED BY <1>4, <2>1, <2>2 DEF progress
<1>9. CASE RestorePuts
  BY <1>2, <1>9 DEF RestorePuts
<1>10. CASE LoseStore
  BY <1>4, <1>10 DEF LoseStore, progress
<1>11. CASE UNCHANGED maintenanceVars
  BY <1>4, <1>11 DEF maintenanceVars, progress, vars, disk
<1> QED BY <1>5, <1>6, <1>7, <1>8, <1>9, <1>10, <1>11, MaintenanceCases

LEMMA InitDoctor == MaintenanceInit => DoctorInv
BY DEF MaintenanceInit, NoCommand, DoctorInv, Succeeded

\* In a closed directory found healthy, where every version is wrapped by the
\* master key or by the key's parent, the parent that wraps any version of a key
\* is the one that wraps its current version: it is there and in use.
LEMMA HealthyHangs ==
  ASSUME EngineInv, Closed(Files), Healthy, AtHome, NEW f, Unrolled(f, FALSE)
  PROVE  AllHang(f)
<1>1. TypeOK
  BY DEF EngineInv
<1>2. ASSUME NEW k \in Stored PROVE k \in KeyId /\ Readable(k) /\ store[k] \in Meta
  BY <1>1 DEF Stored, Healthy, ListFails, Readable, TypeOK
<1>3. ASSUME NEW k \in Stored PROVE Files[k] = store[k] /\ RecordSound(Files, store[k])
  <2>1. k \in DOMAIN Files /\ Files[k] = store[k]
    BY DEF Files
  <2>2. PICK w : w = Files
    OBVIOUS
  <2>3. RecordSound(w, w[k])
    BY <2>1, <2>2 DEF Closed
  <2> QED BY <2>1, <2>2, <2>3
<1>4. ASSUME NEW k \in KeyId, file[k] # "absent", store[k].state \in CanDecrypt,
             NEW i \in DOMAIN store[k].versions, store[k].versions[i].sk # "Encrypted"
      PROVE  \E j \in KeyId, n \in Nat : HangsFrom(f, k, i, j, n)
  <2>1. k \in Stored
    BY <1>4 DEF Stored
  <2>2. PICK m, v, j, w : m = store[k] /\ v = m.versions[i] /\ j = m.parent /\ w = Files
    OBVIOUS
  <2>3. m \in Meta /\ v \in Version
    BY <1>2, <1>4, <2>1, <2>2 DEF Meta
  <2>4. WellFormed(m) /\ m.state # "Destroyed"
    BY <1>4, <2>2 DEF EngineInv, RecordsWellFormed, CanDecrypt
  <2>5. v.sk = "CitadelWrapped" /\ m.current \in DOMAIN m.versions
    BY <1>4, <2>2, <2>3, <2>4 DEF WellFormed, Version, Meta
  <2>6. DOMAIN w = Stored /\ RecordSound(w, m) /\ \A l \in Stored : w[l] = store[l]
    BY <1>3, <2>1, <2>2 DEF Files
  <2>7. /\ v.by \in Stored /\ store[v.by].type \in {"KeyEncrypting", "Domain"}
        /\ store[v.by].state # "Destroyed" =>
             /\ v.byVer \in DOMAIN store[v.by].versions
             /\ store[v.by].versions[v.byVer].pk = v.byPk
    <3>1. VersionSound(w, v)
      BY <1>4, <2>2, <2>6 DEF RecordSound
    <3> QED BY <2>5, <2>6, <3>1 DEF VersionSound
  <2>8. v.by = j /\ j # NoKey /\ Current(m).by \in {NoKey, j}
    <3>1. \A n \in DOMAIN m.versions : m.versions[n].by \in {NoKey, j}
      BY <2>1, <2>2 DEF AtHome
    <3>2. v.by # NoKey
      BY <2>7, KeystoreConstants DEF Stored
    <3> QED BY <1>4, <2>2, <2>5, <3>1, <3>2 DEF Current
  <2>9. <<store[j].type, m.type>> \in CanWrap
    BY <2>2, <2>6, <2>7, <2>8 DEF RecordSound, Sits
  <2>10. m.type \notin allow_external_master
    BY <2>7, <2>8, <2>9 DEF CanWrap, allow_external_master
  <2>11. Wrapper(m) = j /\ store[j].state \in CanDecrypt
    BY <2>1, <2>2, <2>8, <2>10 DEF Healthy, Wrapper
  <2>12. j \in KeyId /\ Readable(j) /\ store[j].state # "Destroyed"
    BY <1>2, <2>7, <2>8, <2>11 DEF CanDecrypt
  <2> QED BY <1>1, <1>4, <2>2, <2>3, <2>5, <2>7, <2>8, <2>9, <2>11, <2>12, HangsFromWrapper
<1> QED BY <1>4 DEF AllHang

LEMMA DiagnosisRight ==
  ASSUME RecoveryInv, WorldInv, DoctorInv
  PROVE  DoctorSound
<1> SUFFICES ASSUME Succeeded("doctor"), AtHome, NEW b \in blobs, Readable(b.key),
                    store[b.key].state \in CanDecrypt, Retains(b)
             PROVE  Decryptable(b)
  BY DEF DoctorSound
<1>1. EngineInv /\ TypeOK /\ Healthy
  BY DEF RecoveryInv, EngineInv, DoctorInv
<1>2. lineage \in {"live", "restored"}
  BY DEF AtHome
<1>3. Closed(Files)
  BY <1>2 DEF WorldInv, World
<1>4. PICK f : Unrolled(f, FALSE)
  BY OpensUnrolls, Zenon
<1>5. AllHang(f)
  BY <1>1, <1>3, <1>4, HealthyHangs
<1>6. /\ b.key \in KeyId /\ file[b.key] # "absent"
      /\ b.ver \in DOMAIN store[b.key].versions /\ store[b.key].versions[b.ver].pk = b.pk
  BY <1>1 DEF TypeOK, Readable, Retains, CanDecrypt
<1>7. Opens(b.key, b.ver, FALSE)
  BY <1>1, <1>4, <1>5, <1>6, HangingOpens
<1> QED BY <1>6, <1>7 DEF Decryptable

(* A clean bill of health is right.  When the doctor, which looks at current  *)
(* versions only, exits with 0 and nobody wrote since it began, every         *)
(* ciphertext of a key in use whose keypair the record holds decrypts,        *)
(* whatever version it was sealed to: for any keys, any calls of the server   *)
(* and any sequence of commands, crashes, failed writes, losses and restores  *)
(* before it, as long as no two processes work on the same key at once.       *)
THEOREM DoctorAlwaysSound == MaintenanceSpec /\ []KeysApart => []DoctorSound
<1>1. RecoveryInv /\ WorldInv /\ DoctorInv => DoctorSound
  BY DiagnosisRight
<1>2. RecoveryInv /\ WorldInv /\ KeysApart /\ [MaintenanceNext]_maintenanceVars => WorldInv'
  BY NextWorld
<1>3. RecoveryInv /\ DoctorInv /\ [MaintenanceNext]_maintenanceVars => DoctorInv'
  BY NextDoctor
<1>4. RecoveryInv /\ ArchiveKept /\ [MaintenanceNext]_maintenanceVars => RecoveryInv' /\ ArchiveKept'
  BY NextRecovery
<1> QED BY <1>1, <1>2, <1>3, <1>4, InitRecovery, InitWorld, InitDoctor, PTL DEF MaintenanceSpec
=============================================================================
