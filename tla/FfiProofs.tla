----------------------------- MODULE FfiProofs ------------------------------
(***************************************************************************)
(* The buffers of the C interface, for any threads, addresses and lengths. *)
(* BuffersRegistered is not inductive: it says nothing of the buffers that *)
(* are between the allocator and the host.  FfiInv adds who may touch an   *)
(* address (Apart) and what allocator, registry and memory hold of it at   *)
(* every step of a call (Delivered, InProgress).                           *)
(***************************************************************************)
EXTENDS Ffi, SequenceTheorems, TLAPS

\* A pointer a call works on.
Working(t) == call[t].pc \in {"insert", "copy", "remove", "zero", "dealloc"}

\* A buffer handed out, or about to be: whole and registered, or empty.
Good(b) ==
    \/ b = NoBuffer
    \/ b = Buffer(Dangling, 0)
    \/ b.ptr \in Address /\ b.len # 0 /\ heap[b.ptr] = b.len /\ registry[b.ptr] = b.len

Delivered ==
    /\ \A b \in owned : Good(b) /\ b # NoBuffer
    /\ \A t \in Thread : \A i \in DOMAIN out[t] : Good(out[t][i])

\* Outputs belong to a call that is writing or returning.
OutputsOfCalls ==
    \A t \in Thread :
        /\ call[t].pc \in {"idle", "remove", "zero", "dealloc"} => out[t] = <<>>
        /\ call[t].pc \in {"alloc", "insert", "copy"} =>
             call[t].todo # <<>> /\ Len(call[t].todo) <= Len(out[t])
        /\ call[t].pc # "return" => call[t].rc = CITADEL_OK
        /\ call[t].rc = CITADEL_ERR_NULL => out[t] = <<>>

InProgressOf(t) ==
    LET b == call[t].buf IN
    /\ call[t].pc = "insert" =>
         b.ptr \in Address /\ b.len # 0 /\ heap[b.ptr] = b.len /\ registry[b.ptr] = 0
    /\ call[t].pc = "copy" =>
         \/ b = Buffer(Dangling, 0)
         \/ b.ptr \in Address /\ b.len # 0 /\ heap[b.ptr] = b.len /\ registry[b.ptr] = b.len
    /\ call[t].pc = "remove" /\ b.ptr \in Address =>
         heap[b.ptr] # 0 /\ registry[b.ptr] = heap[b.ptr]
    /\ call[t].pc \in {"zero", "dealloc"} =>
         b.ptr \in Address /\ b.len # 0 /\ heap[b.ptr] = b.len /\ registry[b.ptr] = 0
    /\ call[t].pc = "dealloc" => data[b.ptr] = 0

InProgress == \A t \in Thread : InProgressOf(t)

\* An address belongs to the host, to the outputs of one call or to the work of
\* one call.
HostApart ==
    \A b \in owned, t \in Thread :
        b.ptr \in Address =>
            /\ \A i \in DOMAIN out[t] : b.ptr # out[t][i].ptr
            /\ Working(t) => b.ptr # call[t].buf.ptr

OutputsApart ==
    \A t, u \in Thread : \A i \in DOMAIN out[t] :
        out[t][i].ptr \in Address =>
            /\ t # u => \A j \in DOMAIN out[u] : out[t][i].ptr # out[u][j].ptr
            /\ Working(u) => out[t][i].ptr # call[u].buf.ptr

WorkApart ==
    \A t, u \in Thread :
        t # u /\ Working(t) /\ Working(u) /\ call[t].buf.ptr \in Address =>
            call[t].buf.ptr # call[u].buf.ptr

\* Memory holds no more than the allocator gave out there, and the registry
\* knows no address the allocator has back.
Within == \A a \in Address : data[a] <= heap[a] /\ (heap[a] = 0 => registry[a] = 0)

FfiInv == FfiTypeOK /\ Delivered /\ OutputsOfCalls /\ InProgress /\ Within
          /\ HostApart /\ OutputsApart /\ WorkApart

-----------------------------------------------------------------------------
LEMMA FfiStart == FfiInit => FfiInv
<1> SUFFICES ASSUME FfiInit PROVE FfiInv
  OBVIOUS
<1> USE DEF FfiInit, Idle, NoBuffer, Buffer, CITADEL_OK, CITADEL_ERR_NULL
<1>1. FfiTypeOK
  <2>1. Idle \in Calls
    BY DEF Calls, Buffers
  <2>2. <<>> \in Seq(Buffers)
    OBVIOUS
  <2> HIDE DEF Idle
  <2> QED
    BY <2>1, <2>2 DEF FfiTypeOK
<1>2. Delivered /\ OutputsOfCalls /\ Within
  BY FfiAssumption DEF Delivered, OutputsOfCalls, Within
<1>3. InProgress /\ HostApart /\ OutputsApart /\ WorkApart
  BY DEF InProgress, InProgressOf, HostApart, OutputsApart, WorkApart, Working
<1> QED
  BY <1>1, <1>2, <1>3 DEF FfiInv

\* A call that a step leaves alone stays as it was if its own memory does.
LEMMA StillInProgress ==
    ASSUME FfiInv, NEW u \in Thread, call'[u] = call[u],
           Working(u) /\ call[u].buf.ptr \in Address =>
               /\ heap'[call[u].buf.ptr] = heap[call[u].buf.ptr]
               /\ registry'[call[u].buf.ptr] = registry[call[u].buf.ptr],
           call[u].pc = "dealloc" /\ call[u].buf.ptr \in Address =>
               data'[call[u].buf.ptr] = data[call[u].buf.ptr]
    PROVE  InProgressOf(u)'
<1>1. InProgressOf(u)
  BY DEF FfiInv, InProgress
<1> QED
  BY <1>1 DEF InProgressOf, Working

LEMMA ReturnsTyped ==
    ASSUME NEW rc \in 0..6
    PROVE  Leaving(rc) \in Calls /\ Leaving(rc).pc = "return" /\ Leaving(rc).rc = rc
<1>1. NoBuffer \in Buffers
  BY DEF Buffers, NoBuffer, Buffer
<1> QED
  BY <1>1 DEF Leaving, Calls

LEMMA WritesTyped ==
    ASSUME NEW lens \in Seq(Nat)
    PROVE  /\ Writing(lens) \in Calls /\ Writing(lens).pc = "alloc"
           /\ Writing(lens).todo = lens /\ Writing(lens).rc = CITADEL_OK
<1>1. NoBuffer \in Buffers
  BY DEF Buffers, NoBuffer, Buffer
<1> QED
  BY <1>1 DEF Writing, Calls, CITADEL_OK

\* Who may touch an address changes only with the outputs, the buffers the host
\* owns and the buffers calls work on.
LEMMA ApartKeeps ==
    ASSUME HostApart, OutputsApart, WorkApart, UNCHANGED <<out, owned>>,
           \A u \in Thread : Working(u)' =>
               \/ call'[u].buf.ptr \notin Address
               \/ Working(u) /\ call'[u].buf.ptr = call[u].buf.ptr
    PROVE  HostApart' /\ OutputsApart' /\ WorkApart'
<1>1. HostApart'
  BY DEF HostApart
<1>2. OutputsApart'
  BY DEF OutputsApart
<1>3. WorkApart'
  BY DEF WorkApart
<1> QED
  BY <1>1, <1>2, <1>3

\* A call begins: its outputs are null, and no buffer is touched.
LEMMA EnterKeeps ==
    ASSUME FfiInv, NEW t \in Thread, NEW outputs \in Nat, NEW rc \in 0..6,
           NEW lens \in Seq(Nat), Len(lens) = outputs, outputs # 0, rc # CITADEL_ERR_NULL,
           Enter(t, outputs, rc, lens)
    PROVE  FfiInv'
<1> DEFINE none == [i \in 1..outputs |-> NoBuffer]
<1>1. none \in Seq(Buffers) /\ Len(none) = outputs /\ \A i \in DOMAIN none : none[i] = NoBuffer
  BY DEF Buffers, NoBuffer, Buffer
<1>2. /\ call' = [call EXCEPT ![t] = call'[t]]
      /\ call'[t] \in Calls
      /\ \/ call'[t].pc = "alloc" /\ call'[t].todo = lens /\ call'[t].rc = CITADEL_OK
         \/ call'[t].pc = "return" /\ call'[t].rc = rc
  BY ReturnsTyped, WritesTyped DEF FfiInv, FfiTypeOK, Enter
<1>3. /\ out' = [out EXCEPT ![t] = none]
      /\ UNCHANGED <<heap, data, registry, poisoned, owned>>
  BY DEF Enter
<1>4. lens # <<>>
  OBVIOUS
<1> HIDE DEF none
<1>5. \A u \in Thread : u # t => call'[u] = call[u] /\ out'[u] = out[u]
  BY <1>2, <1>3 DEF FfiInv, FfiTypeOK
<1>6. \A u \in Thread : Working(u)' => u # t /\ Working(u)
  BY <1>2, <1>5 DEF Working
<1>7. InProgress'
  <2>1. \A u \in Thread : u # t => InProgressOf(u)'
    BY <1>3, <1>5, StillInProgress
  <2>2. InProgressOf(t)'
    BY <1>2, <1>3 DEF InProgressOf
  <2> QED
    BY <2>1, <2>2 DEF InProgress
<1>8. WorkApart'
  BY <1>5, <1>6 DEF FfiInv, WorkApart
<1> USE <1>1, <1>2, <1>3 DEF FfiInv, FfiTypeOK
<1>9. FfiTypeOK'
  OBVIOUS
<1>10. Delivered'
  BY DEF Delivered, Good
<1>11. OutputsOfCalls'
  BY <1>4 DEF OutputsOfCalls, CITADEL_OK, CITADEL_ERR_NULL
<1>12. HostApart'
  BY FfiAssumption DEF HostApart, Working, NoBuffer, Buffer
<1>13. OutputsApart'
  BY FfiAssumption DEF OutputsApart, Working, NoBuffer, Buffer
<1>14. Within'
  BY DEF Within
<1> QED
  BY <1>9, <1>10, <1>11, <1>7, <1>12, <1>13, <1>8, <1>14

\* A call goes on to return, or a free ends: no buffer is touched.
LEMMA LeavesKeeps ==
    ASSUME FfiInv, NEW t \in Thread, NEW c \in Calls, call' = [call EXCEPT ![t] = c],
           c.pc = "return" \/ (c.pc = "idle" /\ out[t] = <<>> /\ c.rc = CITADEL_OK),
           c.rc = CITADEL_ERR_NULL => out[t] = <<>>,
           UNCHANGED <<heap, data, registry, out, owned>>, poisoned' \in BOOLEAN
    PROVE  FfiInv'
<1> USE DEF FfiInv, FfiTypeOK
<1>1. FfiTypeOK'
  OBVIOUS
<1>2. Delivered' /\ Within'
  BY DEF Delivered, Good, Within
<1>3. OutputsOfCalls'
  BY DEF OutputsOfCalls, CITADEL_OK, CITADEL_ERR_NULL
<1>4. InProgress'
  BY DEF InProgress, InProgressOf
<1>5. HostApart' /\ OutputsApart' /\ WorkApart'
  BY ApartKeeps DEF Working
<1> QED
  BY <1>1, <1>2, <1>3, <1>4, <1>5

\* A fresh address belongs to nobody: everything in somebody's hands is allocated.
LEMMA FreshIsFree ==
    ASSUME FfiInv, NEW a \in Address, heap[a] = 0
    PROVE  /\ \A b \in owned : b.ptr # a
           /\ \A t \in Thread : \A i \in DOMAIN out[t] : out[t][i].ptr # a
           /\ \A t \in Thread : Working(t) => call[t].buf.ptr # a
           /\ registry[a] = 0 /\ data[a] = 0
<1> USE DEF FfiInv, FfiTypeOK
<1>1. \A b : Good(b) => b.ptr # a
  BY FfiAssumption DEF Good, NoBuffer, Buffer
<1>2. /\ \A b \in owned : b.ptr # a
      /\ \A t \in Thread : \A i \in DOMAIN out[t] : out[t][i].ptr # a
  BY <1>1 DEF Delivered
<1>3. \A t \in Thread : Working(t) => call[t].buf.ptr # a
  <2> SUFFICES ASSUME NEW t \in Thread, Working(t), call[t].buf.ptr = a PROVE FALSE
    OBVIOUS
  <2>1. call[t].pc = "copy" => call[t].buf # Buffer(Dangling, 0)
    BY FfiAssumption DEF Buffer
  <2> QED
    BY <2>1 DEF InProgress, InProgressOf, Working
<1>4. registry[a] = 0 /\ data[a] = 0
  BY DEF Within
<1> QED
  BY <1>2, <1>3, <1>4

LEMMA AllocKeeps ==
    ASSUME FfiInv, NEW t \in Thread, alloc_buf(t)
    PROVE  FfiInv'
<1> DEFINE n == Head(call[t].todo)
<1>1. /\ call[t] \in Calls /\ call[t].pc = "alloc" /\ n \in Nat
      /\ call[t].todo # <<>> /\ Len(call[t].todo) <= Len(out[t]) /\ call[t].rc = CITADEL_OK
  <2>1. call[t] \in Calls /\ call[t].pc = "alloc" /\ call[t].todo \in Seq(Nat)
    BY DEF FfiInv, FfiTypeOK, alloc_buf, Calls
  <2>2. call[t].todo # <<>> /\ Len(call[t].todo) <= Len(out[t]) /\ call[t].rc = CITADEL_OK
    BY <2>1 DEF FfiInv, OutputsOfCalls
  <2> QED
    BY <2>1, <2>2
<1> HIDE DEF n
<1>2. CASE Fail(t, CITADEL_ERR_ALLOC) /\ UNCHANGED heap
  <2> DEFINE c == Leaving(CITADEL_ERR_ALLOC)
  <2>1. c \in Calls /\ c.pc = "return" /\ c.rc # CITADEL_ERR_NULL
    BY ReturnsTyped DEF CITADEL_ERR_ALLOC, CITADEL_ERR_NULL
  <2>2. call' = [call EXCEPT ![t] = c] /\ UNCHANGED <<heap, data, registry, poisoned, out, owned>>
    BY <1>2 DEF alloc_buf, Fail
  <2> HIDE DEF c
  <2>3. poisoned' \in BOOLEAN
    BY <2>2 DEF FfiInv, FfiTypeOK
  <2> QED
    BY <2>1, <2>2, <2>3, LeavesKeeps
<1>3. CASE /\ call' = [call EXCEPT ![t].pc = "copy", ![t].buf = Buffer(Dangling, 0)]
           /\ UNCHANGED heap
  <2>1. UNCHANGED <<heap, data, registry, poisoned, out, owned>>
    BY <1>3 DEF alloc_buf
  <2>2. /\ call' = [call EXCEPT ![t] = call'[t]] /\ call'[t] \in Calls
        /\ call'[t].pc = "copy" /\ call'[t].buf = Buffer(Dangling, 0)
        /\ call'[t].buf.ptr \notin Address
        /\ call'[t].todo = call[t].todo /\ call'[t].rc = call[t].rc
    BY <1>1, <1>3, FfiAssumption DEF FfiInv, FfiTypeOK, Calls, Buffers, Buffer
  <2>3. \A u \in Thread : u # t => call'[u] = call[u]
    BY <2>2 DEF FfiInv, FfiTypeOK
  <2>4. FfiTypeOK'
    BY <2>1, <2>2 DEF FfiInv, FfiTypeOK
  <2>5. Delivered' /\ Within'
    BY <2>1 DEF FfiInv, Delivered, Good, Within
  <2>6. OutputsOfCalls'
    BY <1>1, <2>1, <2>2, <2>3 DEF FfiInv, OutputsOfCalls, CITADEL_OK, CITADEL_ERR_NULL
  <2>7. InProgress'
    <3>1. \A u \in Thread : u # t => InProgressOf(u)'
      BY <2>1, <2>3, StillInProgress
    <3>2. InProgressOf(t)'
      BY <2>1, <2>2 DEF InProgressOf
    <3> QED
      BY <3>1, <3>2 DEF InProgress
  <2>8. HostApart' /\ OutputsApart' /\ WorkApart'
    <3>1. \A u \in Thread : u # t => (Working(u)' <=> Working(u))
      BY <2>3 DEF Working
    <3> QED
      BY <2>1, <2>2, <2>3, <3>1, ApartKeeps DEF FfiInv
  <2> QED
    BY <2>4, <2>5, <2>6, <2>7, <2>8 DEF FfiInv
<1>4. ASSUME NEW a \in Address, n # 0, heap[a] = 0, heap' = [heap EXCEPT ![a] = n],
             call' = [call EXCEPT ![t].pc = "insert", ![t].buf = Buffer(a, n)]
      PROVE  FfiInv'
  <2>1. UNCHANGED <<data, registry, poisoned, out, owned>>
    BY DEF alloc_buf
  <2>2. /\ call' = [call EXCEPT ![t] = call'[t]] /\ call'[t] \in Calls
        /\ call'[t].pc = "insert" /\ call'[t].buf = Buffer(a, n)
        /\ call'[t].todo = call[t].todo /\ call'[t].rc = call[t].rc
    BY <1>1, <1>4 DEF FfiInv, FfiTypeOK, Calls, Buffers, Buffer
  <2>3. Buffer(a, n).ptr = a /\ Buffer(a, n).len = n
    BY DEF Buffer
  <2>4. /\ \A u \in Thread : u # t => call'[u] = call[u] /\ (Working(u)' <=> Working(u))
        /\ \A x \in Address : x # a => heap'[x] = heap[x]
        /\ heap'[a] = n
    BY <1>4, <2>2 DEF FfiInv, FfiTypeOK, Working
  <2>5. /\ \A b \in owned : b.ptr # a
        /\ \A u \in Thread : \A i \in DOMAIN out[u] : out[u][i].ptr # a
        /\ \A u \in Thread : Working(u) => call[u].buf.ptr # a
        /\ registry[a] = 0 /\ data[a] = 0
    BY <1>4, FreshIsFree
  <2>6. FfiTypeOK'
    BY <1>1, <1>4, <2>1, <2>2 DEF FfiInv, FfiTypeOK
  <2>7. Delivered'
    BY <2>1, <2>4, <2>5 DEF FfiInv, Delivered, Good
  <2>8. Within'
    BY <1>1, <2>1, <2>4, <2>5 DEF FfiInv, Within
  <2>9. OutputsOfCalls'
    BY <1>1, <2>1, <2>2, <2>4 DEF FfiInv, OutputsOfCalls, CITADEL_OK, CITADEL_ERR_NULL
  <2>10. InProgress'
    <3>1. ASSUME NEW u \in Thread, u # t PROVE InProgressOf(u)'
      <4>1. /\ call'[u] = call[u]
            /\ Working(u) /\ call[u].buf.ptr \in Address =>
                 heap'[call[u].buf.ptr] = heap[call[u].buf.ptr]
        BY <2>4, <2>5, <3>1
      <4> QED
        BY <2>1, <4>1, StillInProgress
    <3>2. InProgressOf(t)'
      BY <1>4, <2>1, <2>2, <2>3, <2>4, <2>5 DEF InProgressOf
    <3> QED
      BY <3>1, <3>2 DEF InProgress
  <2>11. HostApart'
    BY <2>1, <2>2, <2>3, <2>4, <2>5 DEF FfiInv, HostApart
  <2>12. OutputsApart'
    BY <2>1, <2>2, <2>3, <2>4, <2>5 DEF FfiInv, OutputsApart
  <2>13. WorkApart'
    BY <2>2, <2>3, <2>4, <2>5 DEF FfiInv, WorkApart
  <2> QED
    BY <2>6, <2>7, <2>8, <2>9, <2>10, <2>11, <2>12, <2>13 DEF FfiInv
<1> QED
  BY <1>2, <1>3, <1>4 DEF alloc_buf, n

\* A buffer that its call has not registered yet becomes known.
LEMMA InsertKeeps ==
    ASSUME FfiInv, NEW t \in Thread, Insert(t)
    PROVE  FfiInv'
<1>1. call[t] \in Calls /\ call[t].pc = "insert" /\ call[t].rc = CITADEL_OK
  BY DEF FfiInv, FfiTypeOK, OutputsOfCalls, Insert
<1>2. CASE Fail(t, CITADEL_ERR_PANIC) /\ poisoned' = TRUE /\ UNCHANGED registry
  <2>1. /\ Leaving(CITADEL_ERR_PANIC) \in Calls /\ Leaving(CITADEL_ERR_PANIC).pc = "return"
        /\ Leaving(CITADEL_ERR_PANIC).rc # CITADEL_ERR_NULL
    BY ReturnsTyped DEF CITADEL_ERR_PANIC, CITADEL_ERR_NULL
  <2>2. /\ call' = [call EXCEPT ![t] = Leaving(CITADEL_ERR_PANIC)] /\ poisoned' \in BOOLEAN
        /\ UNCHANGED <<heap, data, registry, out, owned>>
    BY <1>2 DEF Insert, Fail
  <2> QED
    BY <2>1, <2>2, LeavesKeeps
<1>3. CASE /\ registry' = [registry EXCEPT ![call[t].buf.ptr] = call[t].buf.len]
           /\ call' = [call EXCEPT ![t].pc = "copy"]
           /\ UNCHANGED poisoned
  <2> DEFINE a == call[t].buf.ptr
             n == call[t].buf.len
  <2>1. UNCHANGED <<heap, data, poisoned, out, owned>>
    BY <1>3 DEF Insert
  <2>2. /\ call' = [call EXCEPT ![t] = call'[t]] /\ call'[t] \in Calls
        /\ call'[t].pc = "copy" /\ call'[t].buf = call[t].buf
        /\ call'[t].todo = call[t].todo /\ call'[t].rc = call[t].rc
    BY <1>1, <1>3 DEF FfiInv, FfiTypeOK, Calls
  <2>3. /\ a \in Address /\ n # 0 /\ heap[a] = n /\ n \in Nat
    BY <1>1 DEF FfiInv, FfiTypeOK, InProgress, InProgressOf, Calls, Buffers
  <2>4. registry' = [registry EXCEPT ![a] = n] /\ registry'[a] = n
    BY <1>3, <2>3 DEF FfiInv, FfiTypeOK
  <2>5. Working(t)
    BY <1>1 DEF Working
  <2>6. /\ \A b \in owned : b.ptr # a
        /\ \A u \in Thread : \A i \in DOMAIN out[u] : out[u][i].ptr # a
        /\ \A u \in Thread : u # t /\ Working(u) => call[u].buf.ptr # a
    BY <2>3, <2>5 DEF FfiInv, HostApart, OutputsApart, WorkApart
  <2>10. OutputsOfCalls'
    <3>1. \A u \in Thread : u # t => call'[u] = call[u]
      BY <2>2 DEF FfiInv, FfiTypeOK
    <3> QED
      BY <1>1, <2>1, <2>2, <3>1 DEF FfiInv, OutputsOfCalls
  <2> HIDE DEF a, n
  <2> USE <1>1, <2>1, <2>2, <2>3, <2>4, <2>5, <2>6 DEF FfiInv, FfiTypeOK
  <2>7. FfiTypeOK'
    OBVIOUS
  <2>8. Delivered'
    BY DEF Delivered, Good
  <2>9. Within'
    BY DEF Within
  <2>11. InProgress'
    <3>1. ASSUME NEW u \in Thread, u # t PROVE InProgressOf(u)'
      <4>1. /\ call'[u] = call[u] /\ heap' = heap /\ data' = data
            /\ Working(u) => registry'[call[u].buf.ptr] = registry[call[u].buf.ptr]
        BY <3>1
      <4> QED
        BY <4>1, StillInProgress
    <3>2. InProgressOf(t)'
      BY DEF InProgressOf, a, n
    <3> QED
      BY <3>1, <3>2 DEF InProgress
  <2>12. HostApart' /\ OutputsApart' /\ WorkApart'
    BY ApartKeeps DEF Working
  <2> QED
    BY <2>7, <2>8, <2>9, <2>10, <2>11, <2>12
<1> QED
  BY <1>2, <1>3 DEF Insert

\* The buffer moves from the call's work to its outputs.
LEMMA WriteKeeps ==
    ASSUME FfiInv, NEW t \in Thread, write_output(t)
    PROVE  FfiInv'
<1> DEFINE b == call[t].buf
           slot == Len(out[t]) - Len(call[t].todo) + 1
           rest == Tail(call[t].todo)
<1>1. /\ call[t] \in Calls /\ call[t].pc = "copy" /\ b \in Buffers
      /\ call[t].todo \in Seq(Nat) /\ out[t] \in Seq(Buffers)
  BY DEF FfiInv, FfiTypeOK, write_output, Calls
<1>2. call[t].todo # <<>> /\ Len(call[t].todo) <= Len(out[t])
  BY <1>1 DEF FfiInv, OutputsOfCalls
<1>3. rest \in Seq(Nat) /\ Len(rest) = Len(call[t].todo) - 1 /\ Len(call[t].todo) \in Nat \ {0}
  BY <1>1, <1>2, HeadTailProperties, EmptySeq
<1>4. slot \in 1..Len(out[t])
  <2>1. Len(out[t]) \in Nat
    BY <1>1, LenProperties
  <2>2. \A m \in Nat \ {0}, n \in Nat : m <= n => n - m + 1 \in 1..n
    OBVIOUS
  <2> QED
    BY <1>2, <1>3, <2>1, <2>2
<1>5. Good(b)
  <2>1. \/ b = Buffer(Dangling, 0)
        \/ b.ptr \in Address /\ b.len # 0 /\ heap[b.ptr] = b.len /\ registry[b.ptr] = b.len
    BY <1>1 DEF FfiInv, InProgress, InProgressOf
  <2> QED
    BY <2>1 DEF Good
<1>6. /\ out' = [out EXCEPT ![t] = [out[t] EXCEPT ![slot] = b]]
      /\ data' = IF b.ptr = Dangling THEN data ELSE [data EXCEPT ![b.ptr] = b.len]
      /\ UNCHANGED <<heap, registry, poisoned, owned>>
  BY DEF write_output
<1>7. /\ call' = [call EXCEPT ![t] = call'[t]] /\ call'[t] \in Calls
      /\ \/ call'[t].pc = "return" /\ call'[t].rc # CITADEL_ERR_NULL
         \/ call'[t].pc = "alloc" /\ call'[t].todo = rest /\ rest # <<>> /\ call'[t].rc = CITADEL_OK
  <2>1. /\ 0 \in 0..6 /\ 6 \in 0..6 /\ call \in [Thread -> Calls]
        /\ CITADEL_OK = 0 /\ CITADEL_ERR_PANIC = 6 /\ CITADEL_ERR_NULL = 1
    BY DEF FfiInv, FfiTypeOK, CITADEL_OK, CITADEL_ERR_PANIC, CITADEL_ERR_NULL
  <2>2. \/ call' = [call EXCEPT ![t] = Leaving(CITADEL_OK)]
        \/ rest # <<>> /\ call' = [call EXCEPT ![t] = Writing(rest)]
        \/ call' = [call EXCEPT ![t] = Leaving(CITADEL_ERR_PANIC)]
    BY DEF write_output, Fail
  <2> HIDE DEF rest
  <2> QED
    BY <1>3, <2>1, <2>2, ReturnsTyped, WritesTyped
<1>8. /\ out' \in [Thread -> Seq(Buffers)] /\ Len(out'[t]) = Len(out[t])
      /\ \A i \in 1..Len(out[t]) : out'[t][i] = IF i = slot THEN b ELSE out[t][i]
      /\ \A u \in Thread : u # t => out'[u] = out[u]
      /\ DOMAIN out[t] = 1..Len(out[t]) /\ DOMAIN out'[t] = 1..Len(out[t])
  BY <1>1, <1>4, <1>6, ExceptSeq, LenProperties DEF FfiInv, FfiTypeOK
<1>9. Working(t) /\ ~Working(t)'
  BY <1>1, <1>7 DEF Working
<1> HIDE DEF b, slot, rest
<1>10. FfiTypeOK'
  <2>1. data' \in [Address -> Nat]
    BY <1>1, <1>6 DEF Buffers, FfiInv, FfiTypeOK
  <2> QED
    BY <1>6, <1>7, <1>8, <2>1 DEF FfiInv, FfiTypeOK
<1>11. Delivered'
  BY <1>5, <1>6, <1>8 DEF FfiInv, Delivered, Good
<1>12. \A u \in Thread : u # t => call'[u] = call[u] /\ (Working(u)' <=> Working(u))
  BY <1>7 DEF FfiInv, FfiTypeOK, Working
<1>13. OutputsOfCalls'
  <2>1. Len(rest) <= Len(out'[t])
    BY <1>1, <1>2, <1>3, <1>8, LenProperties
  <2> QED
    BY <1>7, <1>8, <1>12, <2>1 DEF FfiInv, OutputsOfCalls, CITADEL_OK, CITADEL_ERR_NULL
<1>14. HostApart /\ OutputsApart /\ WorkApart
  BY DEF FfiInv
<1>15. InProgress'
  <2>1. ASSUME NEW u \in Thread, u # t PROVE InProgressOf(u)'
    <3>1. ASSUME call[u].pc = "dealloc", call[u].buf.ptr \in Address
          PROVE  data'[call[u].buf.ptr] = data[call[u].buf.ptr]
      <4>1. Working(u)
        BY <3>1 DEF Working
      <4>2. call[u].buf.ptr # b.ptr
        BY <1>9, <1>14, <2>1, <3>1, <4>1 DEF WorkApart, b
      <4> QED
        BY <1>1, <1>6, <3>1, <4>2 DEF FfiInv, FfiTypeOK
    <3> QED
      BY <1>6, <1>12, <2>1, <3>1, StillInProgress
  <2>2. InProgressOf(t)'
    BY <1>7 DEF InProgressOf
  <2> QED
    BY <2>1, <2>2 DEF InProgress
<1>16. Within'
  BY <1>5, <1>6, FfiAssumption DEF FfiInv, FfiTypeOK, Within, Good, NoBuffer, Buffer
<1>17. \A i \in DOMAIN out'[t] : out'[t][i] = b \/ \E j \in DOMAIN out[t] : out'[t][i] = out[t][j]
  BY <1>8
<1>18. HostApart'
  <2> SUFFICES ASSUME NEW o \in owned, NEW u \in Thread, o.ptr \in Address
               PROVE  /\ \A i \in DOMAIN out'[u] : o.ptr # out'[u][i].ptr
                      /\ Working(u)' => o.ptr # call'[u].buf.ptr
    BY <1>6 DEF HostApart
  <2>1. o.ptr # b.ptr
    BY <1>9, <1>14 DEF HostApart, b
  <2>2. CASE u = t
    BY <1>9, <1>14, <1>17, <2>1, <2>2 DEF HostApart
  <2>3. CASE u # t
    BY <1>8, <1>12, <1>14, <2>3 DEF HostApart
  <2> QED
    BY <2>2, <2>3
<1>19. OutputsApart'
  <2> SUFFICES ASSUME NEW u \in Thread, NEW v \in Thread, NEW i \in DOMAIN out'[u],
                      out'[u][i].ptr \in Address
               PROVE  /\ u # v => \A j \in DOMAIN out'[v] : out'[u][i].ptr # out'[v][j].ptr
                      /\ Working(v)' => out'[u][i].ptr # call'[v].buf.ptr
    BY DEF OutputsApart
  <2>1. CASE u = t
    <3>1. /\ b.ptr \in Address => \A w \in Thread : w # t =>
                /\ \A j \in DOMAIN out[w] : b.ptr # out[w][j].ptr
                /\ Working(w) => b.ptr # call[w].buf.ptr
      BY <1>9, <1>14 DEF OutputsApart, WorkApart, b
    <3> QED
      BY <1>8, <1>9, <1>12, <1>14, <1>17, <2>1, <3>1 DEF OutputsApart
  <2>2. CASE u # t
    <3>1. out'[u][i].ptr # b.ptr /\ out'[u] = out[u]
      BY <1>8, <1>9, <1>14, <2>2 DEF OutputsApart, b
    <3>2. CASE v = t
      BY <1>9, <1>14, <1>17, <2>2, <3>1, <3>2 DEF OutputsApart
    <3>3. CASE v # t
      <4>1. out'[v] = out[v] /\ (Working(v)' => Working(v)) /\ call'[v].buf = call[v].buf
        BY <1>8, <1>12, <3>3
      <4> QED
        BY <1>14, <2>2, <3>1, <4>1 DEF OutputsApart
    <3> QED
      BY <3>2, <3>3
  <2> QED
    BY <2>1, <2>2
<1>20. WorkApart'
  BY <1>9, <1>12, <1>14 DEF WorkApart
<1> QED
  BY <1>10, <1>11, <1>13, <1>15, <1>16, <1>18, <1>19, <1>20 DEF FfiInv

\* The outputs of a call become the host's.
LEMMA ReturnKeeps ==
    ASSUME FfiInv, NEW t \in Thread, Return(t)
    PROVE  FfiInv'
<1>1. Idle \in Calls /\ Idle.pc = "idle" /\ Idle.rc = CITADEL_OK
  BY DEF Idle, Calls, Buffers, NoBuffer, Buffer, CITADEL_OK
<1>2. /\ call' = [call EXCEPT ![t] = Idle] /\ out' = [out EXCEPT ![t] = <<>>]
      /\ UNCHANGED <<heap, data, registry, poisoned>>
  BY DEF Return
<1>3. /\ owned \subseteq owned'
      /\ \A o \in owned' : o \in owned \/ (o # NoBuffer /\ \E i \in DOMAIN out[t] : o = out[t][i])
  BY DEF Return
<1>4. /\ call'[t] = Idle /\ ~Working(t)' /\ out'[t] = <<>> /\ DOMAIN out'[t] = {}
      /\ \A u \in Thread : u # t =>
            out'[u] = out[u] /\ call'[u] = call[u] /\ (Working(u)' <=> Working(u))
  BY <1>1, <1>2 DEF FfiInv, FfiTypeOK, Working
<1>5. \A i \in DOMAIN out[t] : out[t][i] \in Buffers
  BY DEF FfiInv, FfiTypeOK
<1>6. FfiTypeOK'
  <2>1. <<>> \in Seq(Buffers)
    OBVIOUS
  <2> QED
    BY <1>1, <1>2, <1>3, <1>5, <2>1 DEF FfiInv, FfiTypeOK
<1>7. Delivered'
  BY <1>2, <1>3, <1>4 DEF FfiInv, Delivered, Good
<1>8. OutputsOfCalls'
  BY <1>1, <1>4 DEF FfiInv, OutputsOfCalls
<1>9. InProgress'
  <2>1. \A u \in Thread : u # t => InProgressOf(u)'
    BY <1>2, <1>4, StillInProgress
  <2>2. InProgressOf(t)'
    BY <1>1, <1>4 DEF InProgressOf
  <2> QED
    BY <2>1, <2>2 DEF InProgress
<1>10. Within'
  BY <1>2 DEF FfiInv, Within
<1>11. HostApart /\ OutputsApart /\ WorkApart
  BY DEF FfiInv
<1>12. HostApart'
  <2> SUFFICES ASSUME NEW o \in owned', NEW u \in Thread, o.ptr \in Address, u # t
               PROVE  /\ \A i \in DOMAIN out[u] : o.ptr # out[u][i].ptr
                      /\ Working(u) => o.ptr # call[u].buf.ptr
    BY <1>4 DEF HostApart
  <2> QED
    BY <1>3, <1>11 DEF HostApart, OutputsApart
<1>13. OutputsApart'
  <2> SUFFICES ASSUME NEW u \in Thread, NEW v \in Thread, NEW i \in DOMAIN out'[u],
                      out'[u][i].ptr \in Address
               PROVE  /\ u # v => \A j \in DOMAIN out'[v] : out'[u][i].ptr # out'[v][j].ptr
                      /\ Working(v)' => out'[u][i].ptr # call'[v].buf.ptr
    BY DEF OutputsApart
  <2>1. u # t
    BY <1>4
  <2> QED
    BY <1>4, <1>11, <2>1 DEF OutputsApart
<1>14. WorkApart'
  BY <1>4, <1>11 DEF WorkApart
<1> QED
  BY <1>6, <1>7, <1>8, <1>9, <1>10, <1>12, <1>13, <1>14 DEF FfiInv

\* A buffer the host gives back is no longer anybody's but the freeing call's.
LEMMA FreeKeeps ==
    ASSUME FfiInv, NEW t \in Thread, NEW b \in owned, citadel_free(t, b)
    PROVE  FfiInv'
<1>1. /\ call[t] = Idle /\ Idle.pc = "idle" /\ Idle.rc = CITADEL_OK /\ b \in Buffers
      /\ call[t] \in Calls /\ out[t] = <<>> /\ Good(b) /\ ~Working(t)
  <2>1. call[t] = Idle /\ Idle.pc = "idle" /\ Idle.rc = CITADEL_OK /\ b \in Buffers /\ call[t] \in Calls
    BY DEF citadel_free, Idle, FfiInv, FfiTypeOK
  <2> QED
    BY <2>1 DEF Working, FfiInv, OutputsOfCalls, Delivered
<1>2. owned' = owned \ {b} /\ UNCHANGED <<heap, data, registry, poisoned, out>>
  BY DEF citadel_free
<1>3. /\ call' = [call EXCEPT ![t] = call'[t]] /\ call'[t] \in Calls
      /\ call'[t].pc = "remove" /\ call'[t].buf.ptr = b.ptr /\ call'[t].rc = CITADEL_OK
  BY <1>1 DEF citadel_free, FfiInv, FfiTypeOK, Calls, Buffers, Buffer
<1>4. Working(t)' /\ \A u \in Thread : u # t => call'[u] = call[u] /\ (Working(u)' <=> Working(u))
  BY <1>3 DEF FfiInv, FfiTypeOK, Working
<1>5. FfiTypeOK'
  BY <1>2, <1>3 DEF FfiInv, FfiTypeOK
<1>6. Delivered' /\ Within'
  BY <1>2 DEF FfiInv, Delivered, Good, Within
<1>7. OutputsOfCalls'
  BY <1>1, <1>2, <1>3, <1>4 DEF FfiInv, OutputsOfCalls, CITADEL_OK, CITADEL_ERR_NULL
<1>8. b.ptr \in Address => heap[b.ptr] # 0 /\ registry[b.ptr] = heap[b.ptr]
  BY <1>1, FfiAssumption DEF Good, NoBuffer, Buffer
<1>9. InProgress'
  <2>1. \A u \in Thread : u # t => InProgressOf(u)'
    BY <1>2, <1>4, StillInProgress
  <2>2. InProgressOf(t)'
    BY <1>2, <1>3, <1>8 DEF InProgressOf
  <2> QED
    BY <2>1, <2>2 DEF InProgress
<1>10. HostApart /\ OutputsApart /\ WorkApart
  BY DEF FfiInv
<1>11. \A o \in owned \ {b} : o.ptr \in Address => o.ptr # b.ptr
  BY <1>1, FfiAssumption DEF FfiInv, FfiTypeOK, Delivered, Good, Buffers, NoBuffer, Buffer
<1>12. HostApart'
  <2> SUFFICES ASSUME NEW o \in owned \ {b}, NEW u \in Thread, o.ptr \in Address
               PROVE  /\ \A i \in DOMAIN out[u] : o.ptr # out[u][i].ptr
                      /\ Working(u)' => o.ptr # call'[u].buf.ptr
    BY <1>2 DEF HostApart
  <2> QED
    BY <1>3, <1>4, <1>10, <1>11 DEF HostApart
<1>13. OutputsApart'
  <2> SUFFICES ASSUME NEW u \in Thread, NEW v \in Thread, NEW i \in DOMAIN out[u],
                      out[u][i].ptr \in Address
               PROVE  /\ u # v => \A j \in DOMAIN out[v] : out[u][i].ptr # out[v][j].ptr
                      /\ Working(v)' => out[u][i].ptr # call'[v].buf.ptr
    BY <1>2 DEF OutputsApart
  <2> QED
    BY <1>3, <1>4, <1>10 DEF OutputsApart, HostApart
<1>14. WorkApart'
  BY <1>3, <1>4, <1>10 DEF WorkApart, HostApart
<1> QED
  BY <1>5, <1>6, <1>7, <1>9, <1>12, <1>13, <1>14 DEF FfiInv

\* What a call works on is its own: nobody else holds the address.
LEMMA OwnWork ==
    ASSUME FfiInv, NEW t \in Thread, Working(t), call[t].buf.ptr \in Address
    PROVE  LET a == call[t].buf.ptr IN
           /\ \A b \in owned : b.ptr # a
           /\ \A u \in Thread : \A i \in DOMAIN out[u] : out[u][i].ptr # a
           /\ \A u \in Thread : u # t /\ Working(u) => call[u].buf.ptr # a
  BY DEF FfiInv, HostApart, OutputsApart, WorkApart

LEMMA RemoveKeeps ==
    ASSUME FfiInv, NEW t \in Thread, Remove(t)
    PROVE  FfiInv'
<1> DEFINE a == call[t].buf.ptr
<1>1. /\ call[t] \in Calls /\ call[t].pc = "remove" /\ call[t].rc = CITADEL_OK
      /\ out[t] = <<>> /\ Working(t)
  BY DEF FfiInv, FfiTypeOK, OutputsOfCalls, Remove, Working
<1>2. UNCHANGED <<heap, data, poisoned, out, owned>>
  BY DEF Remove
<1>3. CASE call' = [call EXCEPT ![t] = Idle] /\ UNCHANGED registry
  <2>1. Idle \in Calls /\ Idle.pc = "idle" /\ Idle.rc = CITADEL_OK /\ Idle.rc # CITADEL_ERR_NULL
    BY DEF Idle, Calls, Buffers, NoBuffer, Buffer, CITADEL_OK, CITADEL_ERR_NULL
  <2>2. poisoned' \in BOOLEAN
    BY <1>2 DEF FfiInv, FfiTypeOK
  <2> QED
    BY <1>1, <1>2, <1>3, <2>1, <2>2, LeavesKeeps
<1>4. CASE /\ a \in Address /\ registry[a] # 0
           /\ call' = [call EXCEPT ![t].pc = "zero", ![t].buf = Buffer(a, registry[a])]
           /\ registry' = [registry EXCEPT ![a] = 0]
  <2>1. registry[a] \in Nat /\ heap[a] = registry[a]
    BY <1>1, <1>4 DEF FfiInv, FfiTypeOK, InProgress, InProgressOf
  <2>2. /\ call' = [call EXCEPT ![t] = call'[t]] /\ call'[t] \in Calls
        /\ call'[t].pc = "zero" /\ call'[t].buf.ptr = a /\ call'[t].buf.len = registry[a]
        /\ call'[t].rc = CITADEL_OK
    BY <1>1, <1>4, <2>1 DEF FfiInv, FfiTypeOK, Calls, Buffers, Buffer
  <2>3. /\ \A b \in owned : b.ptr # a
        /\ \A u \in Thread : \A i \in DOMAIN out[u] : out[u][i].ptr # a
        /\ \A u \in Thread : u # t /\ Working(u) => call[u].buf.ptr # a
    BY <1>1, <1>4, OwnWork
  <2>4. Working(t)' /\ \A u \in Thread : u # t => call'[u] = call[u] /\ (Working(u)' <=> Working(u))
    BY <2>2 DEF FfiInv, FfiTypeOK, Working
  <2>5. registry' \in [Address -> Nat] /\ registry'[a] = 0 /\ \A x \in Address \ {a} : registry'[x] = registry[x]
    BY <1>4 DEF FfiInv, FfiTypeOK
  <2>6. FfiTypeOK'
    BY <1>2, <2>2, <2>5 DEF FfiInv, FfiTypeOK
  <2>7. Delivered' /\ Within'
    BY <1>2, <2>3, <2>5 DEF FfiInv, Delivered, Good, Within
  <2>8. OutputsOfCalls'
    BY <1>1, <1>2, <2>2, <2>4 DEF FfiInv, OutputsOfCalls, CITADEL_OK, CITADEL_ERR_NULL
  <2>9. InProgress'
    <3>1. ASSUME NEW u \in Thread, u # t, Working(u), call[u].buf.ptr \in Address
          PROVE  registry'[call[u].buf.ptr] = registry[call[u].buf.ptr]
      BY <2>3, <2>5, <3>1
    <3>2. a \in Address /\ registry[a] # 0 /\ heap'[a] = registry[a] /\ registry'[a] = 0
      BY <1>2, <1>4, <2>1, <2>5
    <3> HIDE DEF a
    <3>3. \A u \in Thread : u # t => InProgressOf(u)'
      BY <1>2, <2>4, <3>1, StillInProgress
    <3>4. InProgressOf(t)'
      BY <2>2, <3>2, FfiAssumption DEF InProgressOf, Buffer
    <3> QED
      BY <3>3, <3>4 DEF InProgress
  <2>10. HostApart' /\ OutputsApart' /\ WorkApart'
    BY <1>1, <1>2, <2>2, <2>4, ApartKeeps DEF FfiInv
  <2> QED
    BY <2>6, <2>7, <2>8, <2>9, <2>10 DEF FfiInv
<1> QED
  BY <1>3, <1>4 DEF Remove

\* The whole buffer is wiped: the registry's length is the allocator's.
LEMMA WipeKeeps ==
    ASSUME FfiInv, NEW t \in Thread, WriteBytes(t)
    PROVE  FfiInv'
<1> DEFINE a == call[t].buf.ptr
           n == call[t].buf.len
<1>1. /\ call[t] \in Calls /\ call[t].pc = "zero" /\ call[t].rc = CITADEL_OK
      /\ out[t] = <<>> /\ Working(t)
  BY DEF FfiInv, FfiTypeOK, OutputsOfCalls, WriteBytes, Working
<1>2. a \in Address /\ n # 0 /\ heap[a] = n /\ registry[a] = 0 /\ data[a] <= n /\ n \in Nat /\ data[a] \in Nat
  BY <1>1 DEF FfiInv, FfiTypeOK, InProgress, InProgressOf, Within, Calls, Buffers
<1>3. UNCHANGED <<heap, registry, poisoned, out, owned>>
  BY DEF WriteBytes
<1>4. /\ call' = [call EXCEPT ![t] = call'[t]] /\ call'[t] \in Calls
      /\ call'[t].pc = "dealloc" /\ call'[t].buf = call[t].buf /\ call'[t].rc = CITADEL_OK
  BY <1>1 DEF WriteBytes, FfiInv, FfiTypeOK, Calls
<1>5. Working(t)' /\ \A u \in Thread : u # t => call'[u] = call[u] /\ (Working(u)' <=> Working(u))
  BY <1>4 DEF FfiInv, FfiTypeOK, Working
<1>6. data' \in [Address -> Nat] /\ data'[a] = 0 /\ \A x \in Address \ {a} : data'[x] = data[x]
  <2>1. ~(data[a] > n)
    BY <1>2
  <2>2. data' = [data EXCEPT ![a] = 0]
    BY <2>1 DEF WriteBytes
  <2> QED
    BY <1>2, <2>2 DEF FfiInv, FfiTypeOK
<1>7. \A u \in Thread : u # t /\ Working(u) => call[u].buf.ptr # a
  BY <1>1, <1>2, OwnWork
<1> HIDE DEF a
<1>8. FfiTypeOK'
  BY <1>3, <1>4, <1>6 DEF FfiInv, FfiTypeOK
<1>9. Delivered'
  BY <1>3 DEF FfiInv, Delivered, Good
<1>10. Within'
  <2> SUFFICES ASSUME NEW x \in Address PROVE data'[x] <= heap[x]
    BY <1>3 DEF FfiInv, Within
  <2>1. heap[x] \in Nat /\ data[x] <= heap[x]
    BY DEF FfiInv, FfiTypeOK, Within
  <2>2. data'[x] = 0 \/ data'[x] = data[x]
    BY <1>6
  <2> QED
    BY <2>1, <2>2
<1>11. OutputsOfCalls'
  BY <1>1, <1>3, <1>4, <1>5 DEF FfiInv, OutputsOfCalls, CITADEL_OK, CITADEL_ERR_NULL
<1>12. InProgress'
  <2>1. ASSUME NEW u \in Thread, u # t PROVE InProgressOf(u)'
    <3>1. call[u].pc = "dealloc" /\ call[u].buf.ptr \in Address =>
            data'[call[u].buf.ptr] = data[call[u].buf.ptr]
      BY <1>6, <1>7, <2>1 DEF Working
    <3> QED
      BY <1>3, <1>5, <2>1, <3>1, StillInProgress
  <2>2. InProgressOf(t)'
    BY <1>2, <1>3, <1>4, <1>6 DEF InProgressOf, a
  <2> QED
    BY <2>1, <2>2 DEF InProgress
<1>13. HostApart' /\ OutputsApart' /\ WorkApart'
  BY <1>1, <1>3, <1>4, <1>5, ApartKeeps DEF FfiInv
<1> QED
  BY <1>8, <1>9, <1>10, <1>11, <1>12, <1>13 DEF FfiInv

\* A wiped buffer goes back to the allocator: nobody holds it any more.
LEMMA DeallocKeeps ==
    ASSUME FfiInv, NEW t \in Thread, Dealloc(t)
    PROVE  FfiInv'
<1> DEFINE a == call[t].buf.ptr
<1>1. call[t].pc = "dealloc" /\ out[t] = <<>> /\ Working(t)
  BY DEF FfiInv, OutputsOfCalls, Dealloc, Working
<1>2. a \in Address /\ data[a] = 0 /\ registry[a] = 0
  BY <1>1 DEF FfiInv, InProgress, InProgressOf
<1>3. Idle \in Calls /\ Idle.pc = "idle" /\ Idle.rc = CITADEL_OK
  BY DEF Idle, Calls, Buffers, NoBuffer, Buffer, CITADEL_OK
<1>4. /\ call' = [call EXCEPT ![t] = Idle] /\ heap' = [heap EXCEPT ![a] = 0]
      /\ UNCHANGED <<data, registry, poisoned, out, owned>>
  BY DEF Dealloc
<1>5. /\ call'[t] = Idle /\ ~Working(t)'
      /\ \A u \in Thread : u # t => call'[u] = call[u] /\ (Working(u)' <=> Working(u))
  BY <1>3, <1>4 DEF FfiInv, FfiTypeOK, Working
<1>6. heap' \in [Address -> Nat] /\ heap'[a] = 0 /\ \A x \in Address \ {a} : heap'[x] = heap[x]
  BY <1>2, <1>4 DEF FfiInv, FfiTypeOK
<1>7. /\ \A b \in owned : b.ptr # a
      /\ \A u \in Thread : \A i \in DOMAIN out[u] : out[u][i].ptr # a
      /\ \A u \in Thread : u # t /\ Working(u) => call[u].buf.ptr # a
  BY <1>1, <1>2, OwnWork
<1> HIDE DEF a
<1>8. FfiTypeOK'
  BY <1>3, <1>4, <1>6 DEF FfiInv, FfiTypeOK
<1>9. Delivered'
  BY <1>4, <1>6, <1>7 DEF FfiInv, Delivered, Good
<1>10. Within'
  BY <1>2, <1>4, <1>6 DEF FfiInv, FfiTypeOK, Within
<1>11. OutputsOfCalls'
  BY <1>1, <1>3, <1>4, <1>5 DEF FfiInv, OutputsOfCalls, CITADEL_OK, CITADEL_ERR_NULL
<1>12. InProgress'
  <2>1. ASSUME NEW u \in Thread, u # t PROVE InProgressOf(u)'
    <3>1. Working(u) /\ call[u].buf.ptr \in Address =>
            heap'[call[u].buf.ptr] = heap[call[u].buf.ptr]
      BY <1>6, <1>7, <2>1
    <3> QED
      BY <1>4, <1>5, <2>1, <3>1, StillInProgress
  <2>2. InProgressOf(t)'
    BY <1>3, <1>5 DEF InProgressOf
  <2> QED
    BY <2>1, <2>2 DEF InProgress
<1>13. HostApart' /\ OutputsApart' /\ WorkApart'
  BY <1>4, <1>5, ApartKeeps DEF FfiInv
<1> QED
  BY <1>8, <1>9, <1>10, <1>11, <1>12, <1>13 DEF FfiInv

LEMMA BeginKeeps ==
    ASSUME FfiInv, NEW t \in Thread, Begin(t)
    PROVE  FfiInv'
<1> USE DEF CITADEL_OK, CITADEL_ERR_NULL, CITADEL_ERR_SEAL, CITADEL_ERR_OPEN, CITADEL_ERR_KEY,
            CITADEL_ERR_PANIC
<1>1. CASE NullArgument(t)
  <2>1. Leaving(CITADEL_ERR_NULL) \in Calls /\ Leaving(CITADEL_ERR_NULL).pc = "return"
    BY ReturnsTyped
  <2>2. out[t] = <<>> /\ poisoned \in BOOLEAN
    BY <1>1 DEF NullArgument, Idle, FfiInv, FfiTypeOK, OutputsOfCalls
  <2> QED
    BY <1>1, <2>1, <2>2, LeavesKeeps DEF NullArgument
<1>2. ASSUME NEW suite, Keygen(t, suite)
      PROVE  FfiInv'
  <2>1. PICK rc \in {CITADEL_OK, CITADEL_ERR_PANIC} :
          Enter(t, 2, rc, <<PublicKeyBytes(suite), SecretKeyBytes(suite)>>)
    BY <1>2 DEF Keygen
  <2>2. PublicKeyBytes(suite) \in Nat /\ SecretKeyBytes(suite) \in Nat
    BY DEF PublicKeyBytes, SecretKeyBytes
  <2>3. /\ <<PublicKeyBytes(suite), SecretKeyBytes(suite)>> \in Seq(Nat)
        /\ Len(<<PublicKeyBytes(suite), SecretKeyBytes(suite)>>) = 2
    BY <2>2
  <2>4. rc \in 0..6 /\ rc # 1 /\ 2 \in Nat /\ 2 # 0
    OBVIOUS
  <2> QED
    BY <2>1, <2>3, <2>4, EnterKeeps
<1>3. ASSUME NEW rc \in 0..6, rc # 1, NEW n \in Nat, Enter(t, 1, rc, <<n>>)
      PROVE  FfiInv'
  <2>1. <<n>> \in Seq(Nat) /\ Len(<<n>>) = 1 /\ 1 \in Nat /\ 1 # 0
    OBVIOUS
  <2> QED
    BY <1>3, <2>1, EnterKeeps
<1>4. ASSUME NEW suite, NEW keylen, NEW n \in TextLens, SealCall(t, suite, keylen, n)
      PROVE  FfiInv'
  BY <1>3, <1>4, FfiAssumption DEF SealCall
<1>5. ASSUME NEW suite, NEW keylen, NEW n \in TextLens \union {0}, OpenCall(t, suite, keylen, n)
      PROVE  FfiInv'
  BY <1>3, <1>5, FfiAssumption DEF OpenCall
<1> QED
  BY <1>1, <1>2, <1>4, <1>5
     DEF Begin, citadel_keygen, citadel_p384_keygen, citadel_seal, citadel_p384_seal,
         citadel_open, citadel_p384_open

-----------------------------------------------------------------------------
\* Every step of every call keeps FfiInv, for any number of host threads.
THEOREM FfiInvariant == FfiSpec => []FfiInv
<1>1. FfiInv /\ [FfiNext]_ffiVars => FfiInv'
  <2> SUFFICES ASSUME FfiInv, [FfiNext]_ffiVars PROVE FfiInv'
    OBVIOUS
  <2>1. ASSUME NEW t \in Thread, Begin(t) \/ Step(t) PROVE FfiInv'
    BY <2>1, BeginKeeps, AllocKeeps, InsertKeeps, WriteKeeps, ReturnKeeps, RemoveKeeps, WipeKeeps,
       DeallocKeeps DEF Step
  <2>2. ASSUME NEW b \in owned, FreeBuffer(b) PROVE FfiInv'
    BY <2>2, FreeKeeps DEF FreeBuffer
  <2>3. CASE UNCHANGED ffiVars
    <3> USE <2>3 DEF ffiVars, FfiInv
    <3>1. FfiTypeOK' /\ OutputsOfCalls' /\ Within'
      BY DEF FfiTypeOK, OutputsOfCalls, Within
    <3>2. Delivered'
      BY DEF Delivered, Good
    <3>3. InProgress'
      BY StillInProgress DEF InProgress
    <3>4. HostApart' /\ OutputsApart' /\ WorkApart'
      BY DEF HostApart, OutputsApart, WorkApart, Working
    <3> QED
      BY <3>1, <3>2, <3>3, <3>4
  <2> QED
    BY <2>1, <2>2, <2>3 DEF FfiNext
<1> QED
  BY <1>1, FfiStart, PTL DEF FfiSpec

(***************************************************************************)
(* Every buffer the host holds or is about to be handed is allocated and   *)
(* registered with the length it was told (BuffersRegistered): the free it *)
(* owes finds the buffer, whatever the other threads do between the steps  *)
(* of alloc_buf, write_output and citadel_free.                            *)
(***************************************************************************)
THEOREM FfiBuffersRegistered == FfiSpec => []BuffersRegistered
<1>1. FfiInv => BuffersRegistered
  <2> SUFFICES ASSUME FfiInv PROVE BuffersRegistered
    OBVIOUS
  <2> DEFINE live == owned \union UNION {Published(t) : t \in Thread}
  <2>1. \A b \in live : Good(b) /\ b # NoBuffer /\ b \in Buffers
    <3>1. \A b \in owned : Good(b) /\ b # NoBuffer /\ b \in Buffers
      BY DEF FfiInv, FfiTypeOK, Delivered
    <3>2. ASSUME NEW t \in Thread, NEW b \in Published(t)
          PROVE  Good(b) /\ b # NoBuffer /\ b \in Buffers
      <4>1. PICK i \in DOMAIN out[t] : b = out[t][i] /\ b # NoBuffer
        BY DEF Published
      <4> QED
        BY <4>1 DEF FfiInv, FfiTypeOK, Delivered
    <3> QED
      BY <3>1, <3>2
  <2>2. ASSUME NEW b \in live, NEW c \in live, b.ptr # Dangling
        PROVE  heap[b.ptr] = b.len /\ registry[b.ptr] = b.len /\ (c.ptr = b.ptr => c = b)
    BY <2>1, <2>2, FfiAssumption DEF Good, Buffers, Buffer
  <2> HIDE DEF live
  <2>3. \A b \in live : b.ptr # Dangling =>
            /\ heap[b.ptr] = b.len
            /\ registry[b.ptr] = b.len
            /\ \A c \in live : c.ptr = b.ptr => c = b
    BY <2>2
  <2> QED
    BY <2>3 DEF BuffersRegistered, live
<1> QED
  BY <1>1, FfiInvariant, PTL

(***************************************************************************)
(* What the allocator has back holds nothing that a call wrote             *)
(* (FreedIsWiped): citadel_free wipes the length the registry kept, and    *)
(* that is the whole of what was allocated.                                *)
(***************************************************************************)
THEOREM FfiFreedIsWiped == FfiSpec => []FreedIsWiped
<1>1. FfiInv => FreedIsWiped
  BY DEF FfiInv, FfiTypeOK, Within, FreedIsWiped
<1> QED
  BY <1>1, FfiInvariant, PTL
=============================================================================
