-------------------------- MODULE ApiServerProofs --------------------------
(***************************************************************************)
(* That a revocation, once answered, holds, for any keys, domains and      *)
(* number of requests in progress: by the enforcer alone while the server  *)
(* runs, and by the keystore alone as long as no stale record is written.  *)
(***************************************************************************)
EXTENDS ApiServer, TLAPS

-----------------------------------------------------------------------------
(* Types                                                                    *)

LEMMA ApiTypeInitially == Init => TypeOK
<1> SUFFICES ASSUME Init PROVE TypeOK
  OBVIOUS
<1>1. op \in [Proc -> Op]
  <2>1. "activate" \in Op
    BY DEF Op
  <2> QED BY <2>1 DEF Init
<1>2. RegistryTypeOK
  BY DEF Init, RegistryInit, RegistryTypeOK
<1> QED BY <1>1, <1>2 DEF Init, TypeOK, KeyState

LEMMA ApiTypeStep == TypeOK /\ [Next]_vars => TypeOK'
<1> SUFFICES ASSUME TypeOK, [Next]_vars PROVE TypeOK'
  OBVIOUS
<1> USE ApiConstants
<1>r. ASSUME UNCHANGED registry PROVE RegistryTypeOK'
  BY <1>r DEF TypeOK, RegistryTypeOK, registry
<1>s. ASSUME NEW o \in Op, NEW s \in KeyState PROVE Result(o, s) \in KeyState
  BY DEF Result, KeyState
<1>1. ASSUME NEW p \in Proc, NEW o \in Requests, NEW k \in Key,
             NEW d \in Domain \cup {None}, Receive(p, o, k, d)
      PROVE  TypeOK'
  <2>1. FirstStep(o) \in {"put", "lookup", "get", "authorize"}
    BY DEF FirstStep
  <2> QED BY <1>1, <1>r, <2>1 DEF Receive, TypeOK, history, KeyState
<1>2. ASSUME NEW p \in Proc, Grant(p) PROVE TypeOK'
  BY <1>2, <1>r DEF Grant, Goto, TypeOK, request, history
<1>3. ASSUME NEW p \in Proc, Deny(p) PROVE TypeOK'
  BY <1>3, <1>r DEF Deny, Goto, TypeOK, request, history
<1>4. ASSUME NEW p \in Proc, Validate(p) PROVE TypeOK'
  BY <1>4, <1>r DEF Validate, Goto, TypeOK, request, history
<1>5. ASSUME NEW p \in Proc, Get(p) PROVE TypeOK'
  <2>1. betrayed' \subseteq Key
    BY <1>5 DEF Get, Serve, TypeOK
  <2>2. pc' \in [Proc -> {"idle", "lookup", "authorize", "validate", "get", "put",
                          "register", "withdraw"}]
    BY <1>5 DEF Get, Goto, TypeOK
  <2> QED BY <1>5, <1>r, <2>1, <2>2 DEF Get, TypeOK, request
<1>6. ASSUME NEW p \in Proc, Refuse(p) PROVE TypeOK'
  BY <1>6, <1>r DEF Refuse, Goto, TypeOK, request, history
<1>7. ASSUME NEW p \in Proc, Put(p) PROVE TypeOK'
  <2>1. NextAfterPut(op[p]) \in {"register", "withdraw", "idle"}
    BY DEF NextAfterPut
  <2>2. Result(op[p], read[p]) \in KeyState
    BY <1>s DEF TypeOK
  <2>3. betrayed' \subseteq Key
    BY <1>7 DEF Put, Serve, TypeOK
  <2>4. clobbered' \in BOOLEAN
    BY <1>7 DEF Put, TypeOK
  <2> QED BY <1>7, <1>r, <2>1, <2>2, <2>3, <2>4 DEF Put, Goto, TypeOK, request
<1>8. ASSUME NEW p \in Proc, PutFails(p) PROVE TypeOK'
  BY <1>8, <1>r DEF PutFails, Goto, TypeOK, request, history
<1>9. ASSUME NEW p \in Proc, Register(p) PROVE TypeOK'
  <2>1. RegistryTypeOK'
    BY <1>9 DEF Register, register_key, TypeOK, RegistryTypeOK
  <2> QED BY <1>9, <2>1 DEF Register, Goto, TypeOK, request, history
<1>10. ASSUME NEW p \in Proc, Withdraw(p) PROVE TypeOK'
  <2>1. RegistryTypeOK'
    BY <1>10 DEF Withdraw, revoke_key, TypeOK, RegistryTypeOK
  <2> QED BY <1>10, <2>1 DEF Withdraw, Goto, TypeOK, request
<1>11. ASSUME NEW p \in Proc, Cancel(p) PROVE TypeOK'
  BY <1>11, <1>r DEF Cancel, Goto, TypeOK, request, history
<1>12. CASE Restart
  <2>1. RegistryTypeOK'
    <3>1. valid_keys' \subseteq Key
      BY <1>12 DEF Restart
    <3>2. domain_keys' \subseteq Domain \X Key
      BY <1>12, <3>1 DEF Restart
    <3> QED BY <1>12, <3>1, <3>2 DEF Restart, RegistryTypeOK
  <2> QED BY <1>12, <2>1 DEF Restart, TypeOK, request
<1>13. CASE UNCHANGED vars
  BY <1>13, <1>r DEF vars, TypeOK, request, history
<1>14. ASSUME NEW p \in Proc, Lookup(p) PROVE TypeOK'
  BY <1>14, <1>r DEF Lookup, Goto, TypeOK, request, history
<1> QED
  BY <1>1, <1>2, <1>3, <1>4, <1>5, <1>6, <1>7, <1>8, <1>9, <1>10, <1>11, <1>12, <1>13,
     <1>14
  DEF Next, Handle

\* Every reachable state of the server is well typed.
THEOREM ApiTypeCorrect == Spec => []TypeOK
  BY ApiTypeInitially, ApiTypeStep, PTL DEF Spec

-----------------------------------------------------------------------------
(* The enforcer's layer                                                     *)

\* The enforcer remembers every revocation it has answered for, and a late
\* cryptographic request has not got past it.
LateKeys == \A p \in Proc : late[p] => key[p] \in acked
EnforcerKnows == restarts = 0 => acked \subseteq revoked_keys
LateStopped ==
  restarts = 0 => \A p \in Proc :
    late[p] /\ op[p] \in Crypto => pc[p] \in {"idle", "lookup", "authorize"}

EnforcerInv == LateKeys /\ EnforcerKnows /\ LateStopped /\ RevocationHolds

LEMMA EnforcerLayerStep ==
  TypeOK /\ EnforcerInv /\ [Next]_vars => EnforcerInv'
<1> SUFFICES ASSUME TypeOK, EnforcerInv, [Next]_vars PROVE EnforcerInv'
  OBVIOUS
<1> USE ApiConstants DEF EnforcerInv, LateKeys, EnforcerKnows, LateStopped, RevocationHolds
<1>1. ASSUME NEW p \in Proc, NEW o \in Requests, NEW k \in Key,
             NEW d \in Domain \cup {None}, Receive(p, o, k, d)
      PROVE  EnforcerInv'
  <2>1. o \in Crypto => FirstStep(o) \in {"lookup", "authorize"}
    BY DEF FirstStep, Crypto
  <2> QED BY <1>1, <2>1 DEF Receive, TypeOK, history, registry
<1>2. ASSUME NEW p \in Proc, Grant(p) PROVE EnforcerInv'
  <2>1. restarts = 0 => ~late[p]
    BY <1>2 DEF Grant, KeyAllowed, TypeOK
  <2> QED BY <1>2, <2>1 DEF Grant, Goto, TypeOK, request, history, registry
<1>3. ASSUME NEW p \in Proc, Lookup(p) \/ Deny(p) \/ Refuse(p) \/ PutFails(p) \/ Cancel(p)
      PROVE  EnforcerInv'
  BY <1>3 DEF Lookup, Deny, Refuse, PutFails, Cancel, Goto, TypeOK, request, history, registry
<1>4. ASSUME NEW p \in Proc, Validate(p) PROVE EnforcerInv'
  BY <1>4 DEF Validate, Goto, TypeOK, request, history, registry
<1>5. ASSUME NEW p \in Proc, Get(p) PROVE EnforcerInv'
  <2>1. restarts = 0 => betrayed' = betrayed
    BY <1>5 DEF Get, Serve
  <2> QED BY <1>5, <2>1 DEF Get, Goto, TypeOK, request, registry
<1>6. ASSUME NEW p \in Proc, Put(p) PROVE EnforcerInv'
  <2>1. restarts = 0 => betrayed' = betrayed
    BY <1>6 DEF Put, Serve
  <2> QED BY <1>6, <2>1 DEF Put, Goto, TypeOK, request, registry
<1>7. ASSUME NEW p \in Proc, Register(p) PROVE EnforcerInv'
  BY <1>7 DEF Register, register_key, Goto, TypeOK, request, history
<1>8. ASSUME NEW p \in Proc, Withdraw(p) PROVE EnforcerInv'
  BY <1>8 DEF Withdraw, revoke_key, Goto, TypeOK, request
<1>9. CASE Restart
  BY <1>9 DEF Restart, TypeOK, request
<1>10. CASE UNCHANGED vars
  BY <1>10 DEF vars, request, history, registry
<1> QED
  BY <1>1, <1>2, <1>3, <1>4, <1>5, <1>6, <1>7, <1>8, <1>9, <1>10 DEF Next, Handle

\* While the server runs, no request that begins after a revocation of its key
\* was answered uses the key, whatever stale records are written back and
\* however often the key is registered again.
THEOREM ApiRevocationHolds == Spec => []RevocationHolds
<1>1. Init => EnforcerInv
  BY DEF Init, EnforcerInv, LateKeys, EnforcerKnows, LateStopped, RevocationHolds
<1>2. EnforcerInv => RevocationHolds
  BY DEF EnforcerInv
<1> QED BY ApiTypeCorrect, EnforcerLayerStep, <1>1, <1>2, PTL DEF Spec

-----------------------------------------------------------------------------
(* The keystore's layer                                                     *)

Dead == {"Revoked", "Destroyed"}

\* A record about to be written was accepted by the operation when it was read.
ReadAccepted ==
  \A p \in Proc : pc[p] = "put" =>
    \/ op[p] = "generate" /\ read[p] = "Absent"
    \/ op[p] # "generate" /\ read[p] \in Accepted(op[p])

\* generate asks nobody and reads no record.
GenerateSteps ==
  \A p \in Proc : op[p] = "generate" => pc[p] \notin {"lookup", "authorize", "validate", "get"}

\* With no stale put, a revocation that is answered, or about to be, is in the
\* store.
DeadInStore ==
  ~clobbered =>
    /\ \A k \in acked : store[k] \in Dead
    /\ \A p \in Proc : pc[p] = "withdraw" => store[key[p]] \in Dead

StoreInv == LateKeys /\ GenerateSteps /\ ReadAccepted /\ DeadInStore /\ StoreHolds

\* A put that replaces what it read leaves a dead key dead.
LEMMA DeadStaysDead ==
  ASSUME NEW o \in Op, NEW s \in Dead,
         \/ o = "generate" /\ s = "Absent"
         \/ o # "generate" /\ s \in Accepted(o)
  PROVE  Result(o, s) \in Dead /\ o \notin Crypto
  BY DEF Dead, Accepted, Result, Crypto, Op

LEMMA StoreLayerStep == TypeOK /\ StoreInv /\ [Next]_vars => StoreInv'
<1> SUFFICES ASSUME TypeOK, StoreInv, [Next]_vars PROVE StoreInv'
  OBVIOUS
<1> USE ApiConstants DEF StoreInv, LateKeys, GenerateSteps, ReadAccepted, DeadInStore, StoreHolds
<1>1. ASSUME NEW p \in Proc, NEW o \in Requests, NEW k \in Key,
             NEW d \in Domain \cup {None}, Receive(p, o, k, d)
      PROVE  StoreInv'
  <2>1. FirstStep(o) # "withdraw" /\ (FirstStep(o) = "put" <=> o = "generate")
    BY DEF FirstStep
  <2> QED BY <1>1, <2>1 DEF Receive, TypeOK, history
<1>2. ASSUME NEW p \in Proc, Grant(p) PROVE StoreInv'
  BY <1>2 DEF Grant, Goto, TypeOK, request, history
<1>3. ASSUME NEW p \in Proc, Lookup(p) \/ Deny(p) \/ Refuse(p) \/ PutFails(p) \/ Cancel(p)
      PROVE  StoreInv'
  BY <1>3 DEF Lookup, Deny, Refuse, PutFails, Cancel, Goto, TypeOK, request, history
<1>4. ASSUME NEW p \in Proc, Validate(p) PROVE StoreInv'
  BY <1>4 DEF Validate, Goto, TypeOK, request, history
<1>5. ASSUME NEW p \in Proc, Get(p) PROVE StoreInv'
  <2>0. op[p] # "generate"
    BY <1>5 DEF Get
  <2>1. ~clobbered /\ late[p] => op[p] \notin Crypto
    BY <1>5, <2>0, DeadStaysDead DEF Get, Permits, TypeOK
  <2>2. ~clobbered => betrayed' = betrayed
    BY <1>5, <2>1 DEF Get, Serve
  <2>3. StoreHolds'
    BY <1>5, <2>2 DEF Get
  <2>4. LateKeys' /\ GenerateSteps' /\ DeadInStore'
    BY <1>5, <2>0 DEF Get, Goto, TypeOK, request
  <2>5. ReadAccepted'
    BY <1>5, <2>0 DEF Get, Goto, Permits, TypeOK, request
  <2> QED BY <2>3, <2>4, <2>5
<1>6. ASSUME NEW p \in Proc, Put(p) PROVE StoreInv'
  <2> DEFINE r == Result(op[p], read[p])
  <2>1. ~clobbered' => ~clobbered /\ store[key[p]] = read[p]
    BY <1>6 DEF Put
  <2>2. \/ op[p] = "generate" /\ read[p] = "Absent"
        \/ op[p] # "generate" /\ read[p] \in Accepted(op[p])
    BY <1>6 DEF Put
  <2>3. ~clobbered' /\ store[key[p]] \in Dead => r \in Dead /\ op[p] \notin Crypto
    BY <2>1, <2>2, DeadStaysDead DEF TypeOK
  <2>4. ~clobbered' => betrayed' = betrayed
    <3>1. ~clobbered' /\ late[p] => store[key[p]] \in Dead
      BY <2>1
    <3> QED BY <1>6, <2>3, <3>1 DEF Put, Serve
  <2>5. NextAfterPut(op[p]) = "withdraw" => r \in Dead
    BY DEF NextAfterPut, Result, Dead
  <2>6. NextAfterPut(op[p]) \in {"register", "withdraw", "idle"}
    BY DEF NextAfterPut
  <2>7. /\ store' = [store EXCEPT ![key[p]] = r]
        /\ pc' = [pc EXCEPT ![p] = NextAfterPut(op[p])]
        /\ UNCHANGED <<op, key, read, late, acked>>
    BY <1>6 DEF Put, Goto, request
  <2>8. LateKeys' /\ GenerateSteps' /\ ReadAccepted'
    BY <2>6, <2>7 DEF TypeOK
  <2>9. StoreHolds'
    BY <2>1, <2>4
  <2>10. DeadInStore'
    <3> SUFFICES ASSUME ~clobbered' PROVE /\ \A k \in acked : store'[k] \in Dead
                                          /\ \A q \in Proc : pc'[q] = "withdraw" => store'[key[q]] \in Dead
      BY <2>7
    <3>1. \A k \in Key : store[k] \in Dead => store'[k] \in Dead
      BY <2>3, <2>7 DEF TypeOK
    <3>2. store'[key[p]] = r
      BY <2>7 DEF TypeOK
    <3> QED BY <2>1, <2>5, <2>7, <3>1, <3>2 DEF TypeOK
  <2> QED BY <2>8, <2>9, <2>10
<1>7. ASSUME NEW p \in Proc, Register(p) PROVE StoreInv'
  BY <1>7 DEF Register, Goto, TypeOK, request, history
<1>8. ASSUME NEW p \in Proc, Withdraw(p) PROVE StoreInv'
  BY <1>8 DEF Withdraw, Goto, TypeOK, request
<1>9. CASE Restart
  BY <1>9 DEF Restart, TypeOK, request
<1>10. CASE UNCHANGED vars
  BY <1>10 DEF vars, request, history
<1> QED
  BY <1>1, <1>2, <1>3, <1>4, <1>5, <1>6, <1>7, <1>8, <1>9, <1>10 DEF Next, Handle

\* Across restarts, which empty the enforcer, the keystore's own state check
\* keeps late requests out as long as no stale record was written back.
THEOREM ApiStoreHolds == Spec => []StoreHolds
<1>1. Init => StoreInv
  BY DEF Init, StoreInv, LateKeys, GenerateSteps, ReadAccepted, DeadInStore, StoreHolds
<1>2. StoreInv => StoreHolds
  BY DEF StoreInv
<1> QED BY ApiTypeCorrect, StoreLayerStep, <1>1, <1>2, PTL DEF Spec
=============================================================================
