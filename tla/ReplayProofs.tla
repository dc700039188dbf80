---------------------------- MODULE ReplayProofs ----------------------------
(***************************************************************************)
(* What holds of replay protection, over the file backend and over the     *)
(* backends that keep a table of slots, for any number of ciphertexts and  *)
(* calls, any TTL and any batching parameters.                             *)
(***************************************************************************)
EXTENDS FileReplayStore, SlotReplayStore, FiniteSetTheorems, TLAPS

-----------------------------------------------------------------------------
(* Types                                                                    *)

\* The table that eviction leaves is a table of claims.
LEMMA KeptType ==
  ASSUME NEW t \in [Blob -> Nat], TypeOK
  PROVE  /\ Kept(t) \in [Blob -> Nat]
         /\ \A b \in Blob : Kept(t)[b] = IF Unexpired(t[b]) THEN t[b] ELSE 0
  BY DEF Kept, TypeOK

\* Every step of the file backend and of decrypt keeps the state well typed.
LEMMA TypeStep == TypeOK /\ [Next]_vars => TypeOK'
<1> SUFFICES ASSUME TypeOK, [Next]_vars PROVE TypeOK'
  OBVIOUS
<1> USE FileReplayConstants
<1>0. Kept(claims) \in [Blob -> Nat] /\ Kept(disk) \in [Blob -> Nat]
  BY KeptType DEF TypeOK
<1>a. ASSUME NEW b \in Blob
      PROVE  /\ Claimed(b) \in [Blob -> Nat] /\ Kept(Claimed(b)) \in [Blob -> Nat]
             /\ Released(b) \in [Blob -> Nat] /\ Kept(Released(b)) \in [Blob -> Nat]
  <2>1. Claimed(b) \in [Blob -> Nat] /\ Released(b) \in [Blob -> Nat]
    BY <1>0 DEF Claimed, Released, TypeOK
  <2> QED BY <2>1, KeptType
<1>1. ASSUME NEW p \in Proc, NEW b \in Blob, ClaimInMemory(p, b) PROVE TypeOK'
  BY <1>1, <1>a DEF TypeOK, ClaimInMemory, Take, ghost
<1>2. ASSUME NEW p \in Proc, NEW b \in Blob, ClaimFlushed(p, b) PROVE TypeOK'
  BY <1>2, <1>a DEF TypeOK, ClaimFlushed, Take, Flush, ghost
<1>3. ASSUME NEW p \in Proc, NEW b \in Blob, ClaimFlushFails(p, b) PROVE TypeOK'
  BY <1>3, <1>0 DEF TypeOK, ClaimFlushFails, calls, ghost
<1>4. ASSUME NEW p \in Proc, NEW b \in Blob, ClaimRefused(p, b) PROVE TypeOK'
  BY <1>4, <1>0 DEF TypeOK, ClaimRefused, calls, ghost
<1>5. ASSUME NEW p \in Proc, Opened(p) PROVE TypeOK'
  BY <1>5 DEF TypeOK, Opened, EndCall, mirror
<1>6. ASSUME NEW p \in Proc, OpenFails(p) PROVE TypeOK'
  <2>1. blob[p] \in Blob
    BY DEF TypeOK
  <2> QED BY <1>6, <1>a, <2>1 DEF TypeOK, OpenFails, Flush, EndCall, ghost
<1>7. ASSUME NEW p \in Proc, OpenFailsUnflushed(p) PROVE TypeOK'
  <2>1. blob[p] \in Blob
    BY DEF TypeOK
  <2> QED BY <1>7, <1>a, <2>1 DEF TypeOK, OpenFailsUnflushed, EndCall, ghost
<1>8. CASE ForceFlush
  BY <1>8, <1>0 DEF TypeOK, ForceFlush, Flush, calls, ghost
<1>9. CASE Restart
  <2>1. Kept(Kept(claims)) \in [Blob -> Nat]
    BY <1>0, KeptType
  <2> QED BY <1>9, <1>0, <2>1 DEF TypeOK, Restart, Load, calls, ghost
<1>10. CASE Crash
  BY <1>10, <1>0 DEF TypeOK, Crash, Load
<1>11. CASE Tick
  BY <1>11 DEF TypeOK, Tick, mirror, calls, ghost
<1>12. CASE UNCHANGED vars
  BY <1>12 DEF TypeOK, vars, mirror, calls, ghost
<1> QED
  BY <1>1, <1>2, <1>3, <1>4, <1>5, <1>6, <1>7, <1>8, <1>9, <1>10, <1>11, <1>12
  DEF Next, Decrypt

\* The state of the replay store and of the decrypt calls is always well typed.
THEOREM FileTypeCorrect == Spec => []TypeOK
<1>1. Init => TypeOK
  BY FileReplayConstants DEF Init, TypeOK, None
<1> QED BY <1>1, TypeStep, PTL DEF Spec

-----------------------------------------------------------------------------
(* Memory of openings: the invariant behind the contract.                   *)

\* A call that holds a claim holds it alone, and the claim is in memory.
ClaimsHeld ==
  /\ \A p \in Proc : Holds(p) =>
       /\ claims[blob[p]] = taken[p]
       /\ taken[p] <= now
       /\ now <= taken[p] + TTL
  /\ \A p, q \in Proc : Holds(p) /\ Holds(q) /\ blob[p] = blob[q] => p = q

\* The last opening of b is remembered: while it is unexpired its claim is in
\* memory and nobody holds another, and a claim held now was made after it
\* expired.
Remembered(b) ==
  opened[b] # 0 =>
    /\ now <= opened[b] + TTL =>
         /\ claims[b] = opened[b]
         /\ \A p \in Proc : Holds(p) => blob[p] # b
    /\ \A p \in Proc : Holds(p) /\ blob[p] = b => opened[b] + TTL < taken[p]

\* Each crash may forget each opening once; all others are remembered.
OpeningsKnown ==
  \A b \in Blob :
    /\ replays[b] <= crashes
    /\ replays[b] = crashes => Remembered(b)

ReplayInv == TypeOK /\ ClaimsHeld /\ OpeningsKnown

\* A claim of a free key preserves the invariant: its table and its caller.
LEMMA ClaimKeepsInv ==
  ASSUME ReplayInv, TypeOK', NEW p \in Proc, NEW b \in Blob,
         Request(p, b), IsFree(b), claims' = Claimed(b), Take(p, b),
         UNCHANGED <<now, ghost>>
  PROVE  ReplayInv'
<1> USE FileReplayConstants
<1>1. \A c \in Blob : claims'[c] = IF c = b THEN now
                                   ELSE IF Unexpired(claims[c]) THEN claims[c] ELSE 0
  BY KeptType DEF ReplayInv, TypeOK, Claimed
<1>2. ~Unexpired(claims[b])
  BY KeptType DEF IsFree, Unclaimed, ReplayInv, TypeOK, Unexpired
<1>3. now \in Nat /\ now # 0
  BY DEF ReplayInv, TypeOK
<1>4. \A q \in Proc : taken'[q] = (IF q = p THEN now ELSE taken[q])
                      /\ blob'[q] = (IF q = p THEN b ELSE blob[q])
  BY DEF Take, ReplayInv, TypeOK
<1>5. \A q \in Proc : Holds(q) => blob[q] # b /\ Unexpired(claims[blob[q]])
  BY <1>2 DEF ReplayInv, ClaimsHeld, Unexpired, Holds, TypeOK
<1>6. ClaimsHeld'
  BY <1>1, <1>3, <1>4, <1>5 DEF ClaimsHeld, Holds, ReplayInv, TypeOK, ghost, Request
<1>7. ASSUME NEW c \in Blob, replays[c] = crashes, Remembered(c) PROVE Remembered(c)'
  <2>1. CASE c = b
    <3>1. opened[b] # 0 => opened[b] + TTL < now
      BY <1>2, <1>7, <2>1 DEF Remembered, Unexpired, ReplayInv, TypeOK
    <3> QED BY <3>1, <2>1, <1>3, <1>4, <1>5 DEF Remembered, Holds, ReplayInv, TypeOK, ghost
  <2>2. CASE c # b
    BY <1>1, <1>3, <1>4, <1>7, <2>2 DEF Remembered, Holds, Unexpired, ReplayInv, TypeOK, ghost, Request
  <2> QED BY <2>1, <2>2
<1> QED BY <1>6, <1>7 DEF ReplayInv, OpeningsKnown, ghost

\* Eviction alone preserves the invariant.
LEMMA EvictKeepsInv ==
  ASSUME ReplayInv, TypeOK', claims' = Kept(claims), UNCHANGED <<now, calls, ghost>>
  PROVE  ReplayInv'
<1>1. \A c \in Blob : claims'[c] = IF Unexpired(claims[c]) THEN claims[c] ELSE 0
  BY KeptType DEF ReplayInv, TypeOK
<1>2. ClaimsHeld'
  BY <1>1, FileReplayConstants DEF ClaimsHeld, Holds, Unexpired, ReplayInv, TypeOK, calls
<1>3. \A c \in Blob : Remembered(c) => Remembered(c)'
  BY <1>1, FileReplayConstants DEF Remembered, Holds, Unexpired, ReplayInv, TypeOK, calls, ghost
<1> QED BY <1>2, <1>3 DEF ReplayInv, OpeningsKnown, ghost

\* A release removes only a claim its caller holds alone.
LEMMA ReleaseKeepsInv ==
  ASSUME ReplayInv, TypeOK', NEW p \in Proc, Holds(p),
         claims' = Released(blob[p]), EndCall(p), UNCHANGED <<now, ghost>>
  PROVE  ReplayInv'
<1>1. \A c \in Blob : claims'[c] = IF c = blob[p] THEN 0 ELSE claims[c]
  BY DEF Released, ReplayInv, TypeOK
<1>2. \A q \in Proc : taken'[q] = (IF q = p THEN 0 ELSE taken[q]) /\ blob'[q] = blob[q]
  BY DEF EndCall, ReplayInv, TypeOK
<1>3. ClaimsHeld'
  BY <1>1, <1>2 DEF ClaimsHeld, Holds, ReplayInv, TypeOK
<1>4. ASSUME NEW c \in Blob, Remembered(c) PROVE Remembered(c)'
  BY <1>1, <1>2, <1>4 DEF Remembered, Holds, ReplayInv, TypeOK, ghost
<1> QED BY <1>3, <1>4 DEF ReplayInv, OpeningsKnown, ghost

\* Every step of the file backend and of decrypt preserves the invariant.
LEMMA ReplayStep == ReplayInv /\ [Next]_vars => ReplayInv'
<1> SUFFICES ASSUME ReplayInv, [Next]_vars PROVE ReplayInv'
  OBVIOUS
<1> USE FileReplayConstants
<1>0. TypeOK'
  BY TypeStep DEF ReplayInv
<1>1. ASSUME NEW p \in Proc, NEW b \in Blob, ClaimInMemory(p, b) PROVE ReplayInv'
  BY <1>0, <1>1, ClaimKeepsInv DEF ClaimInMemory
<1>2. ASSUME NEW p \in Proc, NEW b \in Blob, ClaimFlushed(p, b) PROVE ReplayInv'
  BY <1>0, <1>2, ClaimKeepsInv DEF ClaimFlushed
<1>3. ASSUME NEW p \in Proc, NEW b \in Blob, ClaimFlushFails(p, b) PROVE ReplayInv'
  BY <1>0, <1>3, EvictKeepsInv DEF ClaimFlushFails
<1>4. ASSUME NEW p \in Proc, NEW b \in Blob, ClaimRefused(p, b) PROVE ReplayInv'
  BY <1>0, <1>4, EvictKeepsInv DEF ClaimRefused
<1>5. ASSUME NEW p \in Proc, Opened(p) PROVE ReplayInv'
  <2> DEFINE B == blob[p]
  <2>1. B \in Blob /\ claims[B] = taken[p] /\ taken[p] # 0 /\ taken[p] \in Nat
    BY <1>5 DEF Opened, Holds, ReplayInv, ClaimsHeld, TypeOK
  <2>2. \A q \in Proc : taken'[q] = (IF q = p THEN 0 ELSE taken[q]) /\ blob'[q] = blob[q]
    BY <1>5 DEF Opened, EndCall, ReplayInv, TypeOK
  <2>3. ClaimsHeld'
    BY <1>5, <2>2 DEF Opened, mirror, ClaimsHeld, Holds, ReplayInv, TypeOK
  <2>4. \A c \in Blob : opened'[c] = IF c = B THEN taken[p] ELSE opened[c]
    BY <1>5, <2>1 DEF Opened, ReplayInv, TypeOK
  <2>5. \A c \in Blob : c # B => replays'[c] = replays[c]
    BY <1>5 DEF Opened, ReplayInv, TypeOK
  <2>6. replays'[B] <= crashes
    <3>1. CASE opened[B] # 0 /\ taken[p] <= opened[B] + TTL
      <4>1. ~Remembered(B)
        BY <1>5, <2>1, <3>1 DEF Remembered, Opened, Holds, ReplayInv, TypeOK
      <4>2. replays[B] < crashes
        BY <4>1, <2>1 DEF ReplayInv, OpeningsKnown, TypeOK
      <4>3. replays'[B] = replays[B] + 1
        BY <1>5, <2>1, <3>1 DEF Opened, ReplayInv, TypeOK
      <4> QED BY <4>2, <4>3, <2>1 DEF ReplayInv, TypeOK
    <3>2. CASE ~(opened[B] # 0 /\ taken[p] <= opened[B] + TTL)
      BY <1>5, <2>1, <3>2 DEF Opened, ReplayInv, OpeningsKnown
    <3> QED BY <3>1, <3>2
  <2>7. ASSUME NEW c \in Blob, c = B PROVE Remembered(c)'
    BY <1>5, <2>1, <2>2, <2>4, <2>7 DEF Remembered, Opened, mirror, Holds, ReplayInv, ClaimsHeld, TypeOK
  <2>8. ASSUME NEW c \in Blob, c # B, Remembered(c) PROVE Remembered(c)'
    BY <1>5, <2>2, <2>4, <2>8 DEF Remembered, Opened, mirror, Holds, ReplayInv, TypeOK
  <2>9. crashes' = crashes
    BY <1>5 DEF Opened
  <2>10. ASSUME NEW c \in Blob
         PROVE  replays'[c] <= crashes' /\ (replays'[c] = crashes' => Remembered(c)')
    <3>1. CASE c = B
      <4>1. Remembered(c)'
        BY <2>7, <3>1
      <4> QED BY <2>6, <2>9, <3>1, <4>1
    <3>2. CASE c # B
      BY <2>5, <2>8, <2>9, <3>2 DEF ReplayInv, OpeningsKnown
    <3> QED BY <3>1, <3>2
  <2> QED BY <1>0, <2>3, <2>10 DEF ReplayInv, OpeningsKnown
<1>6. ASSUME NEW p \in Proc, OpenFails(p) PROVE ReplayInv'
  BY <1>0, <1>6, ReleaseKeepsInv DEF OpenFails
<1>7. ASSUME NEW p \in Proc, OpenFailsUnflushed(p) PROVE ReplayInv'
  BY <1>0, <1>7, ReleaseKeepsInv DEF OpenFailsUnflushed
<1>8. CASE ForceFlush
  BY <1>0, <1>8 DEF ForceFlush, calls, ghost, ReplayInv, ClaimsHeld, OpeningsKnown, Remembered, Holds
<1>9. CASE Restart
  <2>1. Kept(Kept(claims)) = Kept(claims)
    BY DEF Kept, Unexpired
  <2> QED BY <1>0, <1>9, <2>1, EvictKeepsInv DEF Restart, Load, Kept, Unexpired
<1>10. CASE Crash
  <2>1. \A q \in Proc : ~Holds(q)'
    BY <1>10 DEF Crash, Holds
  <2>2. \A b \in Blob : replays'[b] < crashes' /\ replays'[b] # crashes'
    BY <1>10 DEF Crash, ReplayInv, OpeningsKnown, TypeOK
  <2> QED BY <1>0, <2>1, <2>2 DEF ReplayInv, ClaimsHeld, OpeningsKnown, TypeOK
<1>11. CASE Tick
  <2>1. ClaimsHeld'
    BY <1>11 DEF Tick, mirror, calls, ClaimsHeld, Holds, ReplayInv, TypeOK
  <2>2. \A b \in Blob : Remembered(b) => Remembered(b)'
    BY <1>11 DEF Tick, mirror, calls, ghost, Remembered, Holds, ReplayInv, TypeOK
  <2> QED BY <1>0, <1>11, <2>1, <2>2 DEF Tick, ghost, ReplayInv, OpeningsKnown
<1>12. CASE UNCHANGED vars
  BY <1>0, <1>12 DEF vars, mirror, calls, ghost, ReplayInv, ClaimsHeld, OpeningsKnown, Remembered, Holds
<1> QED
  BY <1>1, <1>2, <1>3, <1>4, <1>5, <1>6, <1>7, <1>8, <1>9, <1>10, <1>11, <1>12
  DEF Next, Decrypt

\* The invariant holds throughout: a call holds its claim alone, and every
\* opening a crash has not made the store forget is remembered.
THEOREM FileOpeningsKnown == Spec => []ReplayInv
<1>1. Init => ReplayInv
  <2> SUFFICES ASSUME Init PROVE ReplayInv
    OBVIOUS
  <2>1. TypeOK
    BY FileReplayConstants DEF Init, TypeOK, None
  <2>2. \A b \in Blob : opened[b] = 0 /\ replays[b] = 0 /\ crashes = 0
    BY DEF Init, None
  <2>3. \A p \in Proc : ~Holds(p)
    BY DEF Init, Holds
  <2> QED BY <2>1, <2>2, <2>3 DEF ReplayInv, ClaimsHeld, OpeningsKnown, Remembered
<1> QED BY <1>1, ReplayStep, PTL DEF Spec

-----------------------------------------------------------------------------
(* The file backend implements the contract.                                *)

\* Every step is a step of the contract or leaves what it speaks of alone.
LEMMA PromiseStep ==
  ReplayInv /\ [Next]_vars => [Promise!Next]_(Promise!contract)
<1> SUFFICES ASSUME ReplayInv, [Next]_vars
             PROVE  [Promise!Next]_(Promise!contract)
  OBVIOUS
<1> USE FileReplayConstants
<1>1. ASSUME NEW p \in Proc, Opened(p) PROVE Promise!Next
  <2> DEFINE B == blob[p]
             t == taken[p]
  <2>1. B \in Blob /\ t \in 1 .. MaxTime
    BY <1>1 DEF Opened, Holds, ReplayInv, ClaimsHeld, TypeOK
  <2>2. opened' = [opened EXCEPT ![B] = t] /\ crashes' = crashes
    BY <1>1 DEF Opened
  <2>3. opened[B] \in Nat /\ replays[B] \in Nat /\ crashes \in Nat
    BY <2>1 DEF ReplayInv, TypeOK
  <2>4. CASE opened[B] # 0 /\ t <= opened[B] + TTL
    <3>1. ~Remembered(B)
      BY <1>1, <2>1, <2>4 DEF Remembered, Opened, Holds, ReplayInv, TypeOK
    <3>2. replays[B] < crashes
      BY <3>1, <2>1, <2>3 DEF ReplayInv, OpeningsKnown
    <3>3. replays' = [replays EXCEPT ![B] = @ + 1]
      BY <1>1, <2>4 DEF Opened
    <3>4. Promise!Spent(B, t)
      BY <2>1, <2>3, <2>4 DEF Promise!Spent
    <3>5. Promise!Reopen(B, t)
      BY <2>2, <3>2, <3>3, <3>4 DEF Promise!Reopen
    <3> QED BY <2>1, <3>5 DEF Promise!Next
  <2>5. CASE ~(opened[B] # 0 /\ t <= opened[B] + TTL)
    <3>1. replays' = replays
      BY <1>1, <2>5 DEF Opened
    <3>2. ~Promise!Spent(B, t)
      BY <2>1, <2>3, <2>5 DEF Promise!Spent
    <3>3. Promise!Open(B, t)
      BY <2>2, <3>1, <3>2 DEF Promise!Open
    <3> QED BY <2>1, <3>3 DEF Promise!Next
  <2> QED BY <2>4, <2>5
<1>2. CASE Crash
  BY <1>2 DEF Crash, Promise!Next, Promise!Crash
<1>3. ASSUME NEW p \in Proc, Decrypt(p), ~Opened(p) PROVE UNCHANGED ghost
  BY <1>3 DEF Decrypt, ClaimInMemory, ClaimFlushed, ClaimFlushFails, ClaimRefused,
              OpenFails, OpenFailsUnflushed
<1>4. CASE ForceFlush \/ Restart \/ Tick \/ UNCHANGED vars
  BY <1>4 DEF ForceFlush, Restart, Tick, vars, ghost, Promise!contract
<1> QED
  BY <1>1, <1>2, <1>3, <1>4 DEF Next, ghost, Promise!contract

\* decrypt over the file backend opens an unexpired ciphertext again at most
\* once per crash: it implements OneTimeUse.
THEOREM FileImplementsOneTimeUse == Spec => OnePlaintextPerClaim
<1>1. Init => Promise!Init
  BY DEF Init, None, Promise!Init
<1> QED BY <1>1, PromiseStep, FileOpeningsKnown, PTL DEF Spec, OnePlaintextPerClaim, Promise!Spec

-----------------------------------------------------------------------------
(* Nothing but an opening spends a ciphertext.                              *)

\* Every step keeps the claims of a process that never crashed accounted for.
LEMMA PoisonStep ==
  ReplayInv /\ NoPoisonedClaim /\ [Next]_vars => NoPoisonedClaim'
<1> SUFFICES ASSUME ReplayInv, NoPoisonedClaim, [Next]_vars, crashes' = 0,
                    NEW b \in Blob, claims'[b] # 0
             PROVE  \/ opened'[b] = claims'[b]
                    \/ \E p \in Proc : Holds(p)' /\ blob'[p] = b
  BY DEF NoPoisonedClaim
<1> DEFINE Accounted == \/ opened[b] = claims[b]
                        \/ \E p \in Proc : Holds(p) /\ blob[p] = b
           Goal == \/ opened'[b] = claims'[b]
                   \/ \E p \in Proc : Holds(p)' /\ blob'[p] = b
<1>a. ReplayInv' /\ TypeOK'
  BY ReplayStep, TypeStep DEF ReplayInv
<1>b. ASSUME claims[b] # 0, crashes = 0 PROVE Accounted
  BY <1>b DEF NoPoisonedClaim
<1>c. ASSUME NEW t \in [Blob -> Nat], Kept(t)[b] # 0 PROVE t[b] # 0 /\ Kept(t)[b] = t[b]
  BY <1>c, KeptType DEF ReplayInv, Unexpired
<1>1. ASSUME NEW p \in Proc, NEW c \in Blob, Take(p, c), claims' = Claimed(c),
             ~Holds(p), UNCHANGED <<now, ghost>>
      PROVE  Goal
  <2>1. taken'[p] = now /\ blob'[p] = c /\ now # 0
    BY <1>1 DEF Take, ReplayInv, TypeOK
  <2>2. CASE c = b
    BY <2>1, <2>2 DEF Holds
  <2>3. CASE c # b
    <3>1. claims'[b] = Kept(claims)[b]
      BY <1>1, <2>3, KeptType DEF Claimed, ReplayInv, TypeOK
    <3>2. claims[b] # 0 /\ claims'[b] = claims[b]
      BY <3>1, <1>c DEF ReplayInv, TypeOK
    <3>3. \A q \in Proc : q # p => taken'[q] = taken[q] /\ blob'[q] = blob[q]
      BY <1>1 DEF Take, ReplayInv, TypeOK
    <3> QED BY <1>1, <1>b, <3>2, <3>3 DEF Holds, ghost
  <2> QED BY <2>2, <2>3
<1>2. ASSUME claims' = Kept(claims), UNCHANGED <<calls, ghost>> PROVE Goal
  <2>1. claims[b] # 0 /\ claims'[b] = claims[b]
    BY <1>2, <1>c DEF ReplayInv, TypeOK
  <2> QED BY <1>2, <1>b, <2>1 DEF Holds, calls, ghost
<1>3. ASSUME NEW p \in Proc, claims' = Released(blob[p]), EndCall(p), UNCHANGED ghost
      PROVE  Goal
  <2>1. b # blob[p] /\ claims'[b] = claims[b]
    BY <1>3 DEF Released, ReplayInv, TypeOK
  <2>2. \A q \in Proc : q # p => taken'[q] = taken[q] /\ blob'[q] = blob[q]
    BY <1>3 DEF EndCall, ReplayInv, TypeOK
  <2> QED BY <1>3, <1>b, <2>1, <2>2 DEF Holds, ghost
<1>4. ASSUME NEW p \in Proc, Opened(p) PROVE Goal
  <2>1. claims'[b] = claims[b] /\ crashes = 0
    BY <1>4 DEF Opened, mirror
  <2>2. CASE b = blob[p]
    BY <1>4, <2>1, <2>2 DEF Opened, ReplayInv, ClaimsHeld, TypeOK
  <2>3. CASE b # blob[p]
    <3>1. opened'[b] = opened[b]
      BY <1>4, <2>3 DEF Opened, ReplayInv, TypeOK
    <3>2. \A q \in Proc : q # p => taken'[q] = taken[q] /\ blob'[q] = blob[q]
      BY <1>4 DEF Opened, EndCall, ReplayInv, TypeOK
    <3> QED BY <1>b, <2>1, <2>3, <3>1, <3>2 DEF Holds
  <2> QED BY <2>2, <2>3
<1>5. CASE ForceFlush \/ Tick \/ UNCHANGED vars
  BY <1>5, <1>b DEF ForceFlush, Tick, vars, mirror, calls, ghost, Holds
<1>6. CASE Restart
  <2>1. Kept(Kept(claims)) = Kept(claims)
    BY DEF Kept, Unexpired
  <2> QED BY <1>2, <1>6, <2>1 DEF Restart, Load, Kept, Unexpired
<1>7. CASE Crash
  BY <1>7 DEF Crash, ReplayInv, TypeOK
<1>8. ASSUME NEW p \in Proc, NEW c \in Blob, ClaimInMemory(p, c) \/ ClaimFlushed(p, c)
      PROVE  Goal
  BY <1>1, <1>8 DEF ClaimInMemory, ClaimFlushed, Request
<1>9. ASSUME NEW p \in Proc, NEW c \in Blob, ClaimFlushFails(p, c) \/ ClaimRefused(p, c)
      PROVE  Goal
  BY <1>2, <1>9 DEF ClaimFlushFails, ClaimRefused
<1>10. ASSUME NEW p \in Proc, OpenFails(p) \/ OpenFailsUnflushed(p) PROVE Goal
  BY <1>3, <1>10 DEF OpenFails, OpenFailsUnflushed
<1> QED BY <1>4, <1>5, <1>6, <1>7, <1>8, <1>9, <1>10 DEF Next, Decrypt

\* Until a crash, every claim in memory is an opening's or a running call's.
THEOREM FileNoPoison == Spec => []NoPoisonedClaim
<1>1. Init => NoPoisonedClaim
  BY DEF Init, None, NoPoisonedClaim
<1> QED BY <1>1, PoisonStep, FileOpeningsKnown, PTL DEF Spec

-----------------------------------------------------------------------------
(* How much a crash forgets.                                                *)

\* ops_since_flush counts at least the unsaved claims, and a claim that would
\* make them BATCH_SIZE is flushed or rolled back.
LossInv ==
  /\ Cardinality(Unsaved) <= ops
  /\ LossBounded

\* Any set of ciphertexts is finite and has a size.
LEMMA BlobsFinite ==
  \A S \in SUBSET Blob : IsFiniteSet(S) /\ Cardinality(S) \in Nat
  BY FileReplayConstants, FS_Subset, FS_CardinalityType

\* Fewer claims are never more at stake.
LEMMA FewerUnsaved ==
  ASSUME NEW S \in SUBSET Blob, NEW T \in SUBSET Blob, S \subseteq T
  PROVE  Cardinality(S) <= Cardinality(T)
  BY BlobsFinite, FS_Subset

\* Every step keeps the loss bounded.
LEMMA LossStep == TypeOK /\ LossInv /\ [Next]_vars => LossInv'
<1> SUFFICES ASSUME TypeOK, LossInv, [Next]_vars PROVE LossInv'
  OBVIOUS
<1> USE FileReplayConstants
<1>a. TypeOK'
  BY TypeStep
<1>b. Unsaved \in SUBSET Blob /\ Unsaved' \in SUBSET Blob
  BY DEF Unsaved
<1>c. /\ Cardinality(Unsaved) \in Nat /\ Cardinality(Unsaved') \in Nat
      /\ ops \in Nat /\ ops' \in Nat
  BY <1>a, <1>b, BlobsFinite DEF TypeOK
<1>d. ASSUME Unsaved' \subseteq Unsaved, ops' >= ops PROVE LossInv'
  BY <1>b, <1>c, <1>d, FewerUnsaved DEF LossInv, LossBounded
<1>e. ASSUME Unsaved' = {} PROVE LossInv'
  BY <1>c, <1>e, FS_EmptySet DEF LossInv, LossBounded
<1>1. ASSUME NEW p \in Proc, NEW b \in Blob, ClaimInMemory(p, b) PROVE LossInv'
  <2>1. \A c \in Blob : c # b => claims'[c] = IF Unexpired(claims[c]) THEN claims[c] ELSE 0
    BY <1>1, KeptType DEF ClaimInMemory, Claimed, TypeOK
  <2>2. Unsaved' \subseteq Unsaved \cup {b}
    BY <1>1, <2>1 DEF ClaimInMemory, Unsaved, Unexpired
  <2>3. Unsaved \cup {b} \in SUBSET Blob
    BY <1>b
  <2>4. Cardinality(Unsaved \cup {b}) <= Cardinality(Unsaved) + 1
    <3>1. IsFiniteSet(Unsaved)
      BY <1>b, BlobsFinite
    <3>2. Cardinality(Unsaved \cup {b}) =
            IF b \in Unsaved THEN Cardinality(Unsaved) ELSE Cardinality(Unsaved) + 1
      BY <3>1, FS_AddElement
    <3> QED BY <1>c, <3>2
  <2>5. Cardinality(Unsaved') <= Cardinality(Unsaved) + 1
    BY <1>b, <1>c, <2>2, <2>3, <2>4, FewerUnsaved, BlobsFinite
  <2>6. ops' = ops + 1 /\ ops + 1 < BATCH_SIZE
    BY <1>1, <1>c DEF ClaimInMemory, ShouldFlush
  <2> QED BY <1>c, <2>5, <2>6 DEF LossInv, LossBounded
<1>2. ASSUME NEW t \in [Blob -> Nat], claims' = t, disk' = Kept(t), now' = now
      PROVE  LossInv'
  <2>1. \A c \in Blob : disk'[c] = IF Unexpired(t[c]) THEN t[c] ELSE 0
    BY <1>2, KeptType
  <2>2. Unsaved' = {}
    BY <1>2, <2>1 DEF Unsaved, Unexpired
  <2> QED BY <1>e, <2>2
<1>3. ASSUME NEW p \in Proc, NEW b \in Blob, ClaimFlushed(p, b) PROVE LossInv'
  <2>1. Claimed(b) \in [Blob -> Nat]
    BY <1>3, <1>a DEF ClaimFlushed, TypeOK
  <2> QED BY <1>2, <1>3, <2>1 DEF ClaimFlushed, Flush
<1>4. ASSUME claims' = Kept(claims), ops' >= ops, UNCHANGED <<now, disk>> PROVE LossInv'
  <2>1. \A c \in Blob : claims'[c] = IF Unexpired(claims[c]) THEN claims[c] ELSE 0
    BY <1>4, KeptType DEF TypeOK
  <2>2. Unsaved' \subseteq Unsaved
    BY <1>4, <2>1 DEF Unsaved, Unexpired
  <2> QED BY <1>d, <1>4, <2>2
<1>5. ASSUME NEW p \in Proc, NEW b \in Blob, ClaimFlushFails(p, b) \/ ClaimRefused(p, b)
      PROVE  LossInv'
  BY <1>4, <1>5, <1>c DEF ClaimFlushFails, ClaimRefused
<1>6. ASSUME NEW p \in Proc, OpenFails(p) PROVE LossInv'
  <2>1. Released(blob[p]) \in [Blob -> Nat]
    BY <1>6, <1>a DEF OpenFails, TypeOK
  <2> QED BY <1>2, <1>6, <2>1 DEF OpenFails, Flush
<1>7. ASSUME NEW p \in Proc, OpenFailsUnflushed(p) PROVE LossInv'
  <2>1. \A c \in Blob : claims'[c] = IF c = blob[p] THEN 0 ELSE claims[c]
    BY <1>7 DEF OpenFailsUnflushed, Released, TypeOK
  <2>2. Unsaved' \subseteq Unsaved
    BY <1>7, <2>1 DEF OpenFailsUnflushed, Unsaved, Unexpired
  <2> QED BY <1>c, <1>d, <1>7, <2>2 DEF OpenFailsUnflushed
<1>8. CASE ForceFlush
  BY <1>2, <1>8 DEF ForceFlush, Flush, TypeOK
<1>9. CASE Restart
  <2>1. claims' \in [Blob -> Nat] /\ claims' = Kept(disk') /\ now' = now /\ disk' = Kept(claims)
    BY <1>9, <1>a DEF Restart, Load, TypeOK, Kept, Unexpired
  <2>2. Kept(claims') = claims' /\ disk' = claims'
    BY <2>1 DEF Kept, Unexpired, TypeOK
  <2> QED BY <1>2, <2>1, <2>2
<1>10. CASE Crash
  <2>1. \A c \in Blob : claims'[c] = IF Unexpired(disk[c]) THEN disk[c] ELSE 0
    BY <1>10, KeptType DEF Crash, Load, TypeOK
  <2>2. Unsaved' = {}
    BY <1>10, <2>1 DEF Crash, Unsaved, Unexpired
  <2> QED BY <1>e, <2>2
<1>11. CASE Tick
  <2>1. Unsaved' \subseteq Unsaved
    BY <1>11 DEF Tick, mirror, Unsaved, Unexpired, TypeOK
  <2> QED BY <1>c, <1>d, <1>11, <2>1 DEF Tick, mirror
<1>12. ASSUME NEW p \in Proc, Opened(p) PROVE LossInv'
  BY <1>12, <1>c, <1>d DEF Opened, mirror, Unsaved, Unexpired
<1>13. CASE UNCHANGED vars
  BY <1>13, <1>c, <1>d DEF vars, mirror, Unsaved, Unexpired
<1> QED
  BY <1>1, <1>3, <1>5, <1>6, <1>7, <1>8, <1>9, <1>10, <1>11, <1>12, <1>13 DEF Next, Decrypt

\* A crash forgets fewer than BATCH_SIZE claims, whatever flushes failed.
THEOREM FileLossBounded == Spec => []LossBounded
<1>1. Init => LossInv
  <2> SUFFICES ASSUME Init PROVE LossInv
    OBVIOUS
  <2>1. Unsaved = {}
    BY DEF Init, None, Unsaved, Unexpired
  <2> QED BY <2>1, FS_EmptySet, FileReplayConstants DEF LossInv, LossBounded, Init
<1>2. LossInv => LossBounded
  BY DEF LossInv
<1> QED BY <1>1, <1>2, LossStep, FileTypeCorrect, PTL DEF Spec

-----------------------------------------------------------------------------
(* The memory and Redis backends                                            *)

SlotTypeOK ==
  /\ backend \in Backends
  /\ slotNow \in 1 .. MaxSlotTime
  /\ slots \in [SlotBlob -> Nat]
  /\ slotBlob \in [SlotCall -> SlotBlob]
  /\ slotTaken \in [SlotCall -> Nat]
  /\ slotOpened \in [SlotBlob -> Nat]
  /\ slotReplays \in [SlotBlob -> Nat]
  /\ slotCrashes \in Nat

\* A call that holds a slot holds it alone, and the slot stands.
SlotsHeld ==
  /\ \A p \in SlotCall : HoldsSlot(p) =>
       /\ slots[slotBlob[p]] = slotTaken[p]
       /\ slotTaken[p] <= slotNow
       /\ slotNow < slotTaken[p] + SlotTTL
  /\ \A p, q \in SlotCall : HoldsSlot(p) /\ HoldsSlot(q) /\ slotBlob[p] = slotBlob[q] => p = q

\* The last opening of b is remembered: until it expires its slot is there and
\* nobody holds it, and a slot held now was taken after it expired.
SlotRemembered(b) ==
  slotOpened[b] # 0 =>
    /\ slotNow < slotOpened[b] + SlotTTL =>
         /\ slots[b] = slotOpened[b]
         /\ \A p \in SlotCall : HoldsSlot(p) => slotBlob[p] # b
    /\ \A p \in SlotCall : HoldsSlot(p) /\ slotBlob[p] = b => slotOpened[b] + SlotTTL <= slotTaken[p]

\* Each crash of a memory backend may forget each opening once.
SlotOpeningsKnown ==
  \A b \in SlotBlob :
    /\ slotReplays[b] <= slotCrashes
    /\ slotReplays[b] = slotCrashes => SlotRemembered(b)

SlotInv == SlotTypeOK /\ SlotsHeld /\ SlotOpeningsKnown

\* A slot that is set was free, so nobody held it and no unexpired opening is
\* forgotten: whether or not the caller learns that it was set.
LEMMA SetKeepsInv ==
  ASSUME SlotInv, NEW b \in SlotBlob, SlotFree(b), Set(b), UNCHANGED <<backend, slotNow, slotGhost>>,
         NEW p \in SlotCall, ~HoldsSlot(p),
         \/ /\ slotTaken' = [slotTaken EXCEPT ![p] = slotNow]
            /\ slotBlob' = [slotBlob EXCEPT ![p] = b]
         \/ UNCHANGED <<slotTaken, slotBlob>>
  PROVE  SlotInv'
<1> USE SlotReplayConstants DEF SlotInv, SlotTypeOK
<1>1. SlotTypeOK' /\ slots' = [slots EXCEPT ![b] = slotNow] /\ UNCHANGED <<slotOpened, slotReplays, slotCrashes>>
  BY DEF Set, slotGhost
<1>2. \A q \in SlotCall : HoldsSlot(q) => slotBlob[q] # b
  BY DEF SlotsHeld, SlotFree, Stands, HoldsSlot
<1>3. SlotsHeld'
  BY <1>1, <1>2 DEF SlotsHeld, HoldsSlot
<1>4. ASSUME NEW c \in SlotBlob, SlotRemembered(c) PROVE SlotRemembered(c)'
  <2>1. CASE c = b
    <3>1. slotOpened[b] # 0 => slotOpened[b] + SlotTTL <= slotNow
      BY <1>4, <2>1 DEF SlotRemembered, SlotFree, Stands
    <3> QED
      BY <1>1, <1>2, <2>1, <3>1 DEF SlotRemembered, HoldsSlot
  <2>2. CASE c # b
    BY <1>1, <1>4, <2>2 DEF SlotRemembered, HoldsSlot
  <2> QED
    BY <2>1, <2>2
<1> QED
  BY <1>1, <1>3, <1>4 DEF SlotOpeningsKnown

\* A call gives its claim up: its slot stays, or it goes and no opening with it.
LEMMA EndKeepsInv ==
  ASSUME SlotInv, NEW p \in SlotCall, HoldsSlot(p), EndSlotCall(p),
         UNCHANGED <<backend, slotNow, slotGhost>>,
         UNCHANGED slots \/ slots' = [slots EXCEPT ![slotBlob[p]] = 0]
  PROVE  SlotInv'
<1> USE SlotReplayConstants DEF SlotInv, SlotTypeOK
<1>1. /\ SlotTypeOK' /\ UNCHANGED <<slotBlob, slotOpened, slotReplays, slotCrashes>>
      /\ slotTaken' = [slotTaken EXCEPT ![p] = 0]
  BY DEF EndSlotCall, slotGhost
<1>2. SlotsHeld'
  BY <1>1 DEF SlotsHeld, HoldsSlot
<1>3. ASSUME NEW c \in SlotBlob, SlotRemembered(c) PROVE SlotRemembered(c)'
  BY <1>1, <1>3 DEF SlotRemembered, HoldsSlot
<1> QED
  BY <1>1, <1>2, <1>3 DEF SlotOpeningsKnown

\* An opening keeps the invariant, and is one the contract allows.
LEMMA SlotOpensKeepsInv ==
  ASSUME SlotInv, NEW p \in SlotCall, SlotOpens(p)
  PROVE  SlotInv' /\ SlotPromise!Next
<1> USE SlotReplayConstants
<1>1. PICK b \in SlotBlob, t \in Nat \ {0} :
        /\ b = slotBlob[p] /\ t = slotTaken[p] /\ HoldsSlot(p)
        /\ slots[b] = t /\ t <= slotNow /\ slotNow < t + SlotTTL
  BY DEF SlotInv, SlotTypeOK, SlotsHeld, SlotOpens, HoldsSlot
<1> DEFINE spent == slotOpened[b] # 0 /\ t < slotOpened[b] + SlotTTL
<1>2. /\ slotOpened' = [slotOpened EXCEPT ![b] = t]
      /\ slotReplays' = IF spent THEN [slotReplays EXCEPT ![b] = @ + 1] ELSE slotReplays
      /\ slotTaken' = [slotTaken EXCEPT ![p] = 0]
      /\ UNCHANGED <<backend, slotNow, slots, slotBlob, slotCrashes>>
  BY <1>1 DEF SlotOpens, EndSlotCall
<1>3. spent => slotReplays[b] < slotCrashes
  <2>1. spent => ~SlotRemembered(b)
    BY <1>1 DEF SlotRemembered, SlotInv, SlotTypeOK
  <2>2. slotReplays[b] \in Nat /\ slotCrashes \in Nat
    BY <1>1 DEF SlotInv, SlotTypeOK
  <2> QED
    BY <1>1, <2>1, <2>2 DEF SlotInv, SlotOpeningsKnown
<1> HIDE DEF spent
<1>4. SlotTypeOK'
  BY <1>1, <1>2 DEF SlotInv, SlotTypeOK
<1>5. SlotsHeld'
  BY <1>2 DEF SlotInv, SlotTypeOK, SlotsHeld, HoldsSlot
<1>6. \A q \in SlotCall : HoldsSlot(q) /\ slotBlob[q] = b => q = p
  BY <1>1 DEF SlotInv, SlotsHeld
<1>7. SlotRemembered(b)'
  BY <1>1, <1>2, <1>6 DEF SlotInv, SlotTypeOK, SlotRemembered, HoldsSlot
<1>8. ASSUME NEW c \in SlotBlob, c # b, SlotRemembered(c) PROVE SlotRemembered(c)'
  BY <1>2, <1>8 DEF SlotInv, SlotTypeOK, SlotRemembered, HoldsSlot
<1>9. SlotOpeningsKnown'
  <2>1. slotReplays'[b] <= slotCrashes
    BY <1>1, <1>2, <1>3 DEF SlotInv, SlotTypeOK, SlotOpeningsKnown
  <2>2. \A c \in SlotBlob : c # b => slotReplays'[c] = slotReplays[c]
    BY <1>2 DEF SlotInv, SlotTypeOK
  <2>3. ASSUME NEW c \in SlotBlob
        PROVE  slotReplays'[c] <= slotCrashes /\ (slotReplays'[c] = slotCrashes => SlotRemembered(c)')
    BY <1>7, <1>8, <2>1, <2>2 DEF SlotInv, SlotOpeningsKnown
  <2> QED
    BY <1>2, <2>3 DEF SlotOpeningsKnown
<1>10. SlotPromise!Next
  <2>1. t \in 1 .. MaxSlotTime
    BY <1>1 DEF SlotInv, SlotTypeOK
  <2>2. SlotPromise!Spent(b, t) <=> spent
    BY DEF SlotPromise!Spent, spent
  <2>3. CASE spent
    <3>1. SlotPromise!Reopen(b, t)
      BY <1>2, <1>3, <2>2, <2>3 DEF SlotPromise!Reopen
    <3> QED
      BY <1>1, <2>1, <3>1 DEF SlotPromise!Next
  <2>4. CASE ~spent
    <3>1. SlotPromise!Open(b, t)
      BY <1>2, <2>2, <2>4 DEF SlotPromise!Open
    <3> QED
      BY <1>1, <2>1, <3>1 DEF SlotPromise!Next
  <2> QED
    BY <2>3, <2>4
<1> QED
  BY <1>4, <1>5, <1>9, <1>10 DEF SlotInv

LEMMA SlotStep ==
  ASSUME SlotInv, [SlotNext]_slotVars
  PROVE  SlotInv' /\ [SlotPromise!Next]_(SlotPromise!contract)
<1> USE SlotReplayConstants
<1>1. ASSUME NEW p \in SlotCall, NEW b \in SlotBlob, Claim(p, b) \/ ClaimUnanswered(p, b)
      PROVE  SlotInv' /\ UNCHANGED slotGhost
  BY <1>1, SetKeepsInv DEF Claim, ClaimUnanswered
<1>2. ASSUME NEW p \in SlotCall, SlotOpenFails(p) \/ OpenFailsUnreleased(p) \/ InstanceDies(p)
      PROVE  SlotInv' /\ UNCHANGED slotGhost
  BY <1>2, EndKeepsInv DEF SlotOpenFails, OpenFailsUnreleased, InstanceDies
<1>3. CASE SlotCrash
  <2>1. SlotTypeOK' /\ SlotsHeld'
    BY <1>3 DEF SlotCrash, NoSlots, SlotInv, SlotTypeOK, SlotsHeld, HoldsSlot
  <2>2. SlotOpeningsKnown'
    BY <1>3 DEF SlotCrash, SlotInv, SlotTypeOK, SlotOpeningsKnown
  <2>3. SlotPromise!Crash
    BY <1>3 DEF SlotCrash, SlotPromise!Crash
  <2> QED
    BY <2>1, <2>2, <2>3 DEF SlotInv, SlotPromise!Next
<1>4. CASE SlotTick
  <2>1. SlotTypeOK' /\ SlotsHeld'
    BY <1>4 DEF SlotTick, slotGhost, SlotInv, SlotTypeOK, SlotsHeld, HoldsSlot
  <2>2. ASSUME NEW b \in SlotBlob, SlotRemembered(b) PROVE SlotRemembered(b)'
    BY <1>4, <2>2 DEF SlotTick, slotGhost, SlotInv, SlotTypeOK, SlotRemembered, HoldsSlot
  <2> QED
    BY <1>4, <2>1, <2>2 DEF SlotTick, slotGhost, SlotInv, SlotOpeningsKnown, SlotPromise!contract
<1>5. CASE UNCHANGED slotVars
  BY <1>5 DEF slotVars, slotGhost, SlotInv, SlotTypeOK, SlotsHeld, SlotOpeningsKnown, SlotRemembered,
              HoldsSlot, SlotPromise!contract
<1> QED
  BY <1>1, <1>2, <1>3, <1>4, <1>5, SlotOpensKeepsInv
     DEF SlotNext, SlotDecrypt, slotGhost, SlotPromise!contract

(***************************************************************************)
(* Over MemoryReplayStore and RedisReplayStore too, decrypt keeps the      *)
(* contract of one-time use (SlotOnePlaintext): an unexpired ciphertext is *)
(* opened a second time only after a crash that emptied the table, however *)
(* many calls of however many API instances race for it, and whatever      *)
(* answers of Redis are lost.                                              *)
(***************************************************************************)
THEOREM SlotImplementsOneTimeUse == SlotSpec => SlotOnePlaintext
<1>1. SlotInit => SlotInv
  BY SlotReplayConstants
     DEF SlotInit, NoSlots, SlotInv, SlotTypeOK, SlotsHeld, HoldsSlot, SlotOpeningsKnown, SlotRemembered
<1>2. SlotInit => SlotPromise!Init
  BY DEF SlotInit, NoSlots, SlotPromise!Init
<1> QED
  BY <1>1, <1>2, SlotStep, PTL DEF SlotSpec, SlotOnePlaintext, SlotPromise!Spec
=============================================================================
