-------------------------- MODULE SlotReplayStore --------------------------
(***************************************************************************)
(* Replay protection of decrypt over the two backends that keep one table  *)
(* of slots and no file: MemoryReplayStore, which dies with its process,   *)
(* and RedisReplayStore, which outlives every API instance but is reached  *)
(* over a network that loses answers.  A claim is one step under the       *)
(* memory backend's mutex, or one SET NX EX at the Redis server.           *)
(***************************************************************************)
EXTENDS Naturals

CONSTANTS
  SlotBlob,       \* ciphertexts, one replay key each
  SlotCall,       \* concurrent decrypt calls, of several API instances under Redis
  Backends,       \* the backends a deployment may choose (CITADEL_REPLAY_STORE)
  SlotTTL,        \* ttl of the memory backend, EX of the Redis slot
  MaxSlotTime,    \* bound: the clock stops there
  MaxSlotCrashes  \* bound: crashes

ASSUME SlotReplayConstants ==
  /\ Backends \subseteq {"memory", "redis"}
  /\ SlotTTL \in Nat \ {0}
  /\ MaxSlotTime \in Nat \ {0}
  /\ MaxSlotCrashes \in Nat

VARIABLES
  backend,      \* the backend in use, chosen when the server starts
  slotNow,      \* seconds
  slots,        \* when each slot was set, 0 if it is not there
  slotBlob,     \* per call: the ciphertext it holds a claim on
  slotTaken,    \* per call: when it was claimed; 0 while the call holds none
  slotOpened,   \* history: the claim under which a plaintext was last returned
  slotReplays,  \* history: plaintexts returned before the last such claim expired
  slotCrashes   \* history: crashes that emptied the table

slotGhost == <<slotOpened, slotReplays, slotCrashes>>
slotVars  == <<backend, slotNow, slots, slotBlob, slotTaken, slotGhost>>

NoSlots == [b \in SlotBlob |-> 0]

SlotInit ==
  /\ backend \in Backends
  /\ slotNow = 1
  /\ slots = NoSlots
  /\ slotBlob \in [SlotCall -> SlotBlob]
  /\ slotTaken = [p \in SlotCall |-> 0]
  /\ slotOpened = NoSlots
  /\ slotReplays = NoSlots
  /\ slotCrashes = 0

HoldsSlot(p) == slotTaken[p] # 0

\* evict_expired's retain; EX at the server.
Stands(t) == t # 0 /\ slotNow < t + SlotTTL

\* Mutant: SET EX without NX takes a slot that is there.
AnySlot(b) == TRUE
SlotFree(b) == ~Stands(slots[b])

Set(b) == slots' = [slots EXCEPT ![b] = slotNow]

\* claim returns Ok(true).
Claim(p, b) ==
  /\ ~HoldsSlot(p)
  /\ SlotFree(b)
  /\ Set(b)
  /\ slotTaken' = [slotTaken EXCEPT ![p] = slotNow]
  /\ slotBlob' = [slotBlob EXCEPT ![p] = b]
  /\ UNCHANGED <<backend, slotNow, slotGhost>>

\* Redis sets the slot but its answer is lost: Err, and decrypt is denied.
\* Nobody releases the slot.
ClaimUnanswered(p, b) ==
  /\ backend = "redis"
  /\ ~HoldsSlot(p)
  /\ SlotFree(b)
  /\ Set(b)
  /\ UNCHANGED <<backend, slotNow, slotBlob, slotTaken, slotGhost>>

EndSlotCall(p) == slotTaken' = [slotTaken EXCEPT ![p] = 0] /\ UNCHANGED slotBlob

\* open() succeeds: the plaintext is returned and the slot kept.
SlotOpens(p) ==
  /\ HoldsSlot(p)
  /\ slotOpened' = [slotOpened EXCEPT ![slotBlob[p]] = slotTaken[p]]
  /\ slotReplays' =
       IF slotOpened[slotBlob[p]] # 0 /\ slotTaken[p] < slotOpened[slotBlob[p]] + SlotTTL
       THEN [slotReplays EXCEPT ![slotBlob[p]] = @ + 1]
       ELSE slotReplays
  /\ EndSlotCall(p)
  /\ UNCHANGED <<backend, slotNow, slots, slotCrashes>>

\* The unwrap or open() fails: the slot is removed.
SlotOpenFails(p) ==
  /\ HoldsSlot(p)
  /\ slots' = [slots EXCEPT ![slotBlob[p]] = 0]
  /\ EndSlotCall(p)
  /\ UNCHANGED <<backend, slotNow, slotGhost>>

\* DEL does not reach Redis: a warning, and the slot stays.
OpenFailsUnreleased(p) ==
  /\ backend = "redis"
  /\ HoldsSlot(p)
  /\ EndSlotCall(p)
  /\ UNCHANGED <<backend, slotNow, slots, slotGhost>>

\* An API instance dies in the middle of a decrypt; Redis keeps the slot.
InstanceDies(p) ==
  /\ backend = "redis"
  /\ HoldsSlot(p)
  /\ EndSlotCall(p)
  /\ UNCHANGED <<backend, slotNow, slots, slotGhost>>

\* The process dies with its table and all its calls.
SlotCrash ==
  /\ backend = "memory"
  /\ slotCrashes < MaxSlotCrashes
  /\ slotCrashes' = slotCrashes + 1
  /\ slots' = NoSlots
  /\ slotTaken' = [p \in SlotCall |-> 0]
  /\ UNCHANGED <<backend, slotNow, slotBlob, slotOpened, slotReplays>>

\* A decrypt in progress takes far less than SlotTTL (24 hours).
SlotTick ==
  /\ slotNow < MaxSlotTime
  /\ \A p \in SlotCall : HoldsSlot(p) => slotNow + 1 < slotTaken[p] + SlotTTL
  /\ slotNow' = slotNow + 1
  /\ UNCHANGED <<backend, slots, slotBlob, slotTaken, slotGhost>>

SlotDecrypt(p) ==
  \/ \E b \in SlotBlob : Claim(p, b) \/ ClaimUnanswered(p, b)
  \/ SlotOpens(p)
  \/ SlotOpenFails(p)
  \/ OpenFailsUnreleased(p)
  \/ InstanceDies(p)

SlotNext == (\E p \in SlotCall : SlotDecrypt(p)) \/ SlotCrash \/ SlotTick

SlotSpec == SlotInit /\ [][SlotNext]_slotVars

-----------------------------------------------------------------------------
\* The contract of replay protection: across all API instances, an unexpired
\* ciphertext is opened again only after a crash that emptied the table,
\* which Redis never counts: lost answers and dead instances cost nothing.
SlotPromise == INSTANCE OneTimeUse WITH
  Blob <- SlotBlob, Time <- 1 .. MaxSlotTime, Window <- SlotTTL,
  opened <- slotOpened, replays <- slotReplays, crashes <- slotCrashes
SlotOnePlaintext == SlotPromise!Spec
=============================================================================
