---------------------------------- MODULE Ffi ---------------------------------
(***************************************************************************)
(* The C interface (citadel-ffi/src/lib.rs): the buffers it hands out, the *)
(* registry that knows their sizes, and the host threads that call it.     *)
(*                                                                         *)
(* The registry's mutex protects only the map: allocating, copying,        *)
(* zeroing and deallocating happen outside it, so every one of them is a   *)
(* step of its own.  An address the allocator took back may be handed to   *)
(* any thread next.  Host threads keep the contract at the top of the      *)
(* file: they free every non-null output of a call that did not return     *)
(* CITADEL_ERR_NULL, once and from any thread.  The length they pass to    *)
(* citadel_free is not used, and not modelled.                             *)
(***************************************************************************)
EXTENDS Naturals, Sequences

CONSTANTS
    Thread,        \* the host's threads
    Address,       \* the addresses the allocator hands out
    Dangling,      \* NonNull::dangling(), the pointer of a zero-length buffer
    Null,          \* the null pointer
    TextLens       \* the lengths of ciphertexts and plaintexts

ASSUME FfiAssumption == TextLens \subseteq Nat /\ {Dangling, Null} \cap Address = {}

VARIABLES
    heap,          \* heap[a]: the size the allocator gave out at a, 0: none
    data,          \* data[a]: how many bytes at a hold what a call wrote
    registry,      \* registry[a]: the size ALLOCATIONS has for a, 0: absent
    poisoned,      \* a thread panicked while it held the registry's lock
    call,          \* call[t]: what thread t is doing in the library
    out,           \* out[t]: the output parameters of t's call
    owned          \* the buffers the host holds: pointer and reported length

ffiVars == <<heap, data, registry, poisoned, call, out, owned>>

CITADEL_OK == 0
CITADEL_ERR_NULL == 1
CITADEL_ERR_SEAL == 2
CITADEL_ERR_OPEN == 3
CITADEL_ERR_KEY == 4
CITADEL_ERR_ALLOC == 5
CITADEL_ERR_PANIC == 6

Suites == {163, 164}

\* citadel_public_key_bytes_for_suite, citadel_secret_key_bytes_for_suite
PublicKeyBytes(suite) == IF suite = 163 THEN 1216 ELSE 1665
SecretKeyBytes(suite) == IF suite = 163 THEN 2432 ELSE 112

Buffer(p, n) == [ptr |-> p, len |-> n]
NoBuffer == Buffer(Null, 0)

Idle == [pc |-> "idle", todo |-> <<>>, buf |-> NoBuffer, rc |-> CITADEL_OK]

\* A call with the outputs of lengths todo still to write; a call that only has
\* its return code left to hand over.
Writing(todo) == [pc |-> "alloc", todo |-> todo, buf |-> NoBuffer, rc |-> CITADEL_OK]
Leaving(rc) == [pc |-> "return", todo |-> <<>>, buf |-> NoBuffer, rc |-> rc]

Buffers == [ptr : Address \union {Dangling, Null}, len : Nat]

Calls == [pc : {"idle", "alloc", "insert", "copy", "return", "remove", "zero", "dealloc"},
          todo : Seq(Nat), buf : Buffers, rc : 0..6]

FfiTypeOK ==
    /\ heap \in [Address -> Nat] /\ data \in [Address -> Nat] /\ registry \in [Address -> Nat]
    /\ poisoned \in BOOLEAN
    /\ call \in [Thread -> Calls]
    /\ out \in [Thread -> Seq(Buffers)]
    /\ owned \subseteq Buffers

-----------------------------------------------------------------------------
(* Entering a call *)

\* A required pointer is null: no output is touched.
NullArgument(t) ==
    /\ call[t] = Idle
    /\ call' = [call EXCEPT ![t] = Leaving(CITADEL_ERR_NULL)]
    /\ UNCHANGED <<heap, data, registry, poisoned, out, owned>>

\* The outputs are zeroed, the arguments parsed and the engine run: it fails
\* with an error code, it panics, or it produces the outputs still to write.
Enter(t, outputs, rc, lens) ==
    /\ call[t] = Idle
    /\ out' = [out EXCEPT ![t] = [i \in 1..outputs |-> NoBuffer]]
    /\ call' = [call EXCEPT ![t] =
                  IF rc = CITADEL_OK THEN Writing(lens) ELSE Leaving(rc)]
    /\ UNCHANGED <<heap, data, registry, poisoned, owned>>

Keygen(t, suite) ==
    \E rc \in {CITADEL_OK, CITADEL_ERR_PANIC} :
        Enter(t, 2, rc, <<PublicKeyBytes(suite), SecretKeyBytes(suite)>>)

\* A key parses when its length is the suite's; the engine fails past the size
\* limit.
SealCall(t, suite, keylen, n) ==
    \E rc \in IF keylen # PublicKeyBytes(suite) THEN {CITADEL_ERR_KEY}
              ELSE {CITADEL_OK, CITADEL_ERR_SEAL, CITADEL_ERR_PANIC} :
        Enter(t, 1, rc, <<n>>)

\* The same for the secret key; a ciphertext that does not authenticate fails.
OpenCall(t, suite, keylen, n) ==
    \E rc \in IF keylen # SecretKeyBytes(suite) THEN {CITADEL_ERR_KEY}
              ELSE {CITADEL_OK, CITADEL_ERR_OPEN, CITADEL_ERR_PANIC} :
        Enter(t, 1, rc, <<n>>)

citadel_keygen(t) == Keygen(t, 163)
citadel_p384_keygen(t) == Keygen(t, 164)
citadel_seal(t, keylen, n) == SealCall(t, 163, keylen, n)
citadel_p384_seal(t, keylen, n) == SealCall(t, 164, keylen, n)
citadel_open(t, keylen, n) == OpenCall(t, 163, keylen, n)
citadel_p384_open(t, keylen, n) == OpenCall(t, 164, keylen, n)

-----------------------------------------------------------------------------
(* Writing an output *)

\* Mutant of lock_allocations: the poisoned mutex is not recovered.
lock_allocations_unwraps == ~poisoned

\* Whether lock_allocations gets the map: also from a poisoned mutex.
lock_allocations == TRUE

Fail(t, rc) == call' = [call EXCEPT ![t] = Leaving(rc)]

\* alloc_buf, before it takes the lock.
alloc_buf(t) ==
    LET n == Head(call[t].todo) IN
    /\ call[t].pc = "alloc"
    /\ \/ /\ n = 0
          /\ call' = [call EXCEPT ![t].pc = "copy", ![t].buf = Buffer(Dangling, 0)]
          /\ UNCHANGED heap
       \/ /\ n # 0
          /\ Fail(t, CITADEL_ERR_ALLOC)
          /\ UNCHANGED heap
       \/ \E a \in Address :
            /\ n # 0 /\ heap[a] = 0
            /\ heap' = [heap EXCEPT ![a] = n]
            /\ call' = [call EXCEPT ![t].pc = "insert", ![t].buf = Buffer(a, n)]
    /\ UNCHANGED <<data, registry, poisoned, out, owned>>

\* The insertion, under the lock; a panic in it leaves the map as it was, the
\* mutex poisoned and the fresh buffer, still unwritten, behind.
Insert(t) ==
    /\ call[t].pc = "insert"
    /\ lock_allocations
    /\ \/ /\ registry' = [registry EXCEPT ![call[t].buf.ptr] = call[t].buf.len]
          /\ call' = [call EXCEPT ![t].pc = "copy"]
          /\ UNCHANGED poisoned
       \/ /\ Fail(t, CITADEL_ERR_PANIC)
          /\ poisoned' = TRUE
          /\ UNCHANGED registry
    /\ UNCHANGED <<heap, data, out, owned>>

\* write_output: copy, publish pointer and length, then the next output.
write_output(t) ==
    LET b    == call[t].buf
        slot == Len(out[t]) - Len(call[t].todo) + 1
        rest == Tail(call[t].todo)
    IN  /\ call[t].pc = "copy"
        /\ out' = [out EXCEPT ![t][slot] = b]
        /\ data' = IF b.ptr = Dangling THEN data ELSE [data EXCEPT ![b.ptr] = b.len]
        /\ \/ call' = [call EXCEPT ![t] = IF rest = <<>> THEN Leaving(CITADEL_OK)
                                                        ELSE Writing(rest)]
           \/ rest # <<>> /\ Fail(t, CITADEL_ERR_PANIC)
        /\ UNCHANGED <<heap, registry, poisoned, owned>>

\* The call returns; the host takes what the contract says is now its own.
Return(t) ==
    /\ call[t].pc = "return"
    /\ owned' = IF call[t].rc = CITADEL_ERR_NULL THEN owned
                ELSE owned \union ({out[t][i] : i \in DOMAIN out[t]} \ {NoBuffer})
    /\ call' = [call EXCEPT ![t] = Idle]
    /\ out' = [out EXCEPT ![t] = <<>>]
    /\ UNCHANGED <<heap, data, registry, poisoned>>

-----------------------------------------------------------------------------
(* Freeing *)

citadel_free(t, b) ==
    /\ call[t] = Idle
    /\ b \in owned
    /\ owned' = owned \ {b}
    /\ call' = [call EXCEPT ![t].pc = "remove", ![t].buf = Buffer(b.ptr, 0)]
    /\ UNCHANGED <<heap, data, registry, poisoned, out>>

\* Remove, under the lock.  A pointer the registry does not know (that of a
\* zero-length buffer) ends the call; otherwise the registry's length is used
\* from here on.
Remove(t) ==
    LET p == call[t].buf.ptr IN
    /\ call[t].pc = "remove"
    /\ lock_allocations
    /\ IF p \notin Address
       THEN call' = [call EXCEPT ![t] = Idle] /\ UNCHANGED registry
       ELSE IF registry[p] = 0
       THEN call' = [call EXCEPT ![t] = Idle] /\ UNCHANGED registry
       ELSE /\ call' = [call EXCEPT ![t].pc = "zero", ![t].buf = Buffer(p, registry[p])]
            /\ registry' = [registry EXCEPT ![p] = 0]
    /\ UNCHANGED <<heap, data, poisoned, out, owned>>

\* Mutant of WriteBytes: a buffer is wiped after it was given back.
WriteBytesLate(t) ==
    LET p == call[t].buf.ptr IN
    /\ call[t].pc = "zero"
    /\ heap' = [heap EXCEPT ![p] = 0]
    /\ call' = [call EXCEPT ![t].pc = "dealloc"]
    /\ UNCHANGED <<data, registry, poisoned, out, owned>>

\* write_bytes over the registered length.
WriteBytes(t) ==
    LET p == call[t].buf.ptr IN
    /\ call[t].pc = "zero"
    /\ data' = [data EXCEPT ![p] = IF @ > call[t].buf.len THEN @ - call[t].buf.len ELSE 0]
    /\ call' = [call EXCEPT ![t].pc = "dealloc"]
    /\ UNCHANGED <<heap, registry, poisoned, out, owned>>

\* Mutant of Dealloc: the registry entry goes last, in a step of its own.
DeallocThenForget(t) ==
    LET b == call[t].buf IN
    /\ call[t].pc = "dealloc"
    /\ \/ /\ b.len # 0
          /\ heap' = [heap EXCEPT ![b.ptr] = 0]
          /\ call' = [call EXCEPT ![t].buf.len = 0]
          /\ UNCHANGED registry
       \/ /\ b.len = 0
          /\ registry' = [registry EXCEPT ![b.ptr] = 0]
          /\ call' = [call EXCEPT ![t] = Idle]
          /\ UNCHANGED heap
    /\ UNCHANGED <<data, poisoned, out, owned>>

Dealloc(t) ==
    /\ call[t].pc = "dealloc"
    /\ heap' = [heap EXCEPT ![call[t].buf.ptr] = 0]
    /\ call' = [call EXCEPT ![t] = Idle]
    /\ UNCHANGED <<data, registry, poisoned, out, owned>>

-----------------------------------------------------------------------------
FfiInit ==
    /\ heap = [a \in Address |-> 0]
    /\ data = [a \in Address |-> 0]
    /\ registry = [a \in Address |-> 0]
    /\ poisoned = FALSE
    /\ call = [t \in Thread |-> Idle]
    /\ out = [t \in Thread |-> <<>>]
    /\ owned = {}

Begin(t) ==
    \/ NullArgument(t)
    \/ citadel_keygen(t)
    \/ citadel_p384_keygen(t)
    \/ \E keylen \in {PublicKeyBytes(s) : s \in Suites}, n \in TextLens :
        citadel_seal(t, keylen, n) \/ citadel_p384_seal(t, keylen, n)
    \/ \E keylen \in {SecretKeyBytes(s) : s \in Suites}, n \in TextLens \union {0} :
        citadel_open(t, keylen, n) \/ citadel_p384_open(t, keylen, n)

Step(t) == alloc_buf(t) \/ Insert(t) \/ write_output(t) \/ Return(t)
           \/ Remove(t) \/ WriteBytes(t) \/ Dealloc(t)

FreeBuffer(b) == \E t \in Thread : citadel_free(t, b)

FfiNext == (\E t \in Thread : Begin(t) \/ Step(t)) \/ \E b \in owned : FreeBuffer(b)

\* Every thread inside the library runs on, and the host frees what it owns.
FfiFairness ==
    /\ \A t \in Thread : WF_ffiVars(Step(t))
    /\ \A a \in Address : SF_ffiVars(\E b \in owned : b.ptr = a /\ FreeBuffer(b))

FfiSpec == FfiInit /\ [][FfiNext]_ffiVars /\ FfiFairness

-----------------------------------------------------------------------------
(* Properties *)

\* What calls in progress have published, on its way to the host.
Published(t) ==
    IF call[t].pc \in {"alloc", "insert", "copy", "return"} /\ call[t].rc # CITADEL_ERR_NULL
    THEN {out[t][i] : i \in DOMAIN out[t]} \ {NoBuffer} ELSE {}

(***************************************************************************)
(* Every buffer the host holds, or is about to, is allocated and known to  *)
(* the registry with the length the host was told, and no two of them are  *)
(* at one address, whatever other threads allocate and free meanwhile: so  *)
(* the free the host owes will find it and wipe all of it.                 *)
(***************************************************************************)
BuffersRegistered ==
    LET live == owned \union UNION {Published(t) : t \in Thread} IN
    \A b \in live : b.ptr # Dangling =>
        /\ heap[b.ptr] = b.len
        /\ registry[b.ptr] = b.len
        /\ \A c \in live : c.ptr = b.ptr => c = b

(***************************************************************************)
(* Memory the allocator has back holds nothing a call wrote: keys and      *)
(* plaintexts are wiped over their whole length before citadel_free gives  *)
(* the buffer up.                                                          *)
(***************************************************************************)
FreedIsWiped == \A a \in Address : heap[a] = 0 => data[a] = 0

(***************************************************************************)
(* Nothing a call wrote stays in memory for good when the host keeps the   *)
(* contract, also after a panic poisoned the registry's mutex, after a     *)
(* keygen that failed half way, and although buffers move between threads. *)
(***************************************************************************)
EveryBufferWiped == \A a \in Address : data[a] # 0 ~> data[a] = 0
=============================================================================
