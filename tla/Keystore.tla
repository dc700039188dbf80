------------------------------ MODULE Keystore ------------------------------
(***************************************************************************)
(* The key lifecycle engine (citadel-keystore/src/keystore.rs) over a      *)
(* storage backend (storage.rs).  Every public operation of the engine is  *)
(* a read-modify-write of one KeyMetadata record: it gets the record,      *)
(* changes its own copy, and puts the copy back.  The engine takes no lock *)
(* around that sequence and the HTTP handlers share one engine, so each    *)
(* storage call is a step of its own here and the calls of different       *)
(* processes interleave.  Requests that the code refuses without touching  *)
(* the store are not steps.                                                *)
(***************************************************************************)
EXTENDS Naturals, Sequences, FiniteSets

CONSTANTS
  KeyId,        \* identifiers a KeyId::generate() call may yield
  NoKey,        \* the None of an Option<KeyId>
  Proc,         \* concurrent callers of the engine
  Requests,     \* the calls the environment may make
  Provisioned,  \* generate requests already carried out and activated at start
  Lifetimed,    \* keys whose policy sets a max_lifetime
  UsageLimit,   \* max_usage_count of each key's policy
  MaxMint,      \* bound: keypairs generated per key
  MaxSealed     \* bound: ciphertexts returned per key

KeyType  == {"Root", "Domain", "KeyEncrypting", "DataEncrypting",
             "HybridIdentity", "Signing"}
KeyState == {"Pending", "Active", "Rotated", "Expired", "Revoked",
             "Suspended", "Destroyed"}
Op       == {"generate", "activate", "rotate", "rewrap", "revoke",
             "revoke_cascade", "expire", "destroy", "encrypt"}
Request  == [op : Op, key : KeyId, type : KeyType, parent : KeyId \cup {NoKey}]

\* The request forms: only generate reads a type, only generate and rewrap a parent.
Generation(k, t, p) == [op |-> "generate", key |-> k, type |-> t, parent |-> p]
Rewrapping(k, p) == [op |-> "rewrap", key |-> k, type |-> "Root", parent |-> p]
Call(op, k) == [op |-> op, key |-> k, type |-> "Root", parent |-> NoKey]

\* KeyState::valid_transitions, as a relation.
ValidTransitions ==
  { <<"Pending", "Active">>,    <<"Pending", "Destroyed">>,
    <<"Active", "Rotated">>,    <<"Active", "Revoked">>,
    <<"Active", "Expired">>,    <<"Active", "Suspended">>,
    <<"Rotated", "Expired">>,   <<"Rotated", "Suspended">>,
    <<"Suspended", "Active">>,  <<"Suspended", "Destroyed">>,
    <<"Expired", "Destroyed">>, <<"Revoked", "Destroyed">> }

CanTransition(from, to) == <<from, to>> \in ValidTransitions
CanDecrypt == {"Active", "Rotated"}
CanEncrypt == {"Active"}

\* KeyRole::can_wrap, as a relation from parent type to child type.
CanWrap ==
  { <<"Root", "Domain">>, <<"Domain", "KeyEncrypting">>,
    <<"KeyEncrypting", "DataEncrypting">>, <<"KeyEncrypting", "HybridIdentity">>,
    <<"KeyEncrypting", "Signing">> }

\* Mutant: one level short of DEK -> KEK -> Domain.
ShallowDepth == 1
MAX_UNWRAP_DEPTH == 4

\* A key version: pk names the keypair (0 once public_key_hex is "DESTROYED"),
\* kind the algorithm its bytes are for, sk the SecretKeyMaterial variant, and
\* by/byVer/byPk the wrapping key, its version number and the keypair used.
Version == [pk : Nat, kind : {"kem", "dsa"},
            sk : {"Encrypted", "CitadelWrapped", "Destroyed"},
            by : KeyId \cup {NoKey}, byVer : Nat, byPk : Nat]

Meta == [type : KeyType, state : KeyState, parent : KeyId \cup {NoKey},
         versions : Seq(Version), current : Nat, usage : Nat]

\* A record as list() returns it, with the id it is filed under.
Listed == [key : KeyId, meta : Meta]

Keypair(n, t) == [pk |-> n, kind |-> IF t = "Signing" THEN "dsa" ELSE "kem",
                  sk |-> "Destroyed", by |-> NoKey, byVer |-> 0, byPk |-> 0]

Blank(t, p) == [type |-> t, state |-> "Pending", parent |-> p,
                versions |-> <<>>, current |-> 0, usage |-> 0]

NoMeta == Blank("Root", NoKey)
NoVersion == Keypair(0, "Root")
NoRequest == Call("activate", NoKey)

\* One provisioned request per key, its parent provisioned and of the right type.
ProvisionedWellFounded ==
  \A r \in Provisioned :
    /\ r.op = "generate"
    /\ \A s \in Provisioned : s.key = r.key => s = r
    /\ IF r.type = "Root" THEN r.parent = NoKey
       ELSE \E s \in Provisioned : s.key = r.parent /\ <<s.type, r.type>> \in CanWrap

ASSUME KeystoreConstants ==
  /\ NoKey \notin KeyId
  /\ Requests \subseteq Request
  /\ Provisioned \subseteq Request
  /\ ProvisionedWellFounded
  /\ Lifetimed \subseteq KeyId
  /\ UsageLimit \in [KeyId -> Nat]
  /\ MaxMint \in Nat
  /\ MaxSealed \in Nat

VARIABLES
  file,    \* the key file: "absent", "json", or overwritten with zeros
  store,   \* the last record written to the file
  minted,  \* history: how many keypairs were generated for the key
  blobs,   \* history: the ciphertexts returned, as [key, ver, pk]
  sealed,  \* history: how many ciphertexts were returned under the key
  pc,      \* per process: the storage call it makes next
  req,     \* per process: the call it is serving
  meta,    \* per process: its own copy of the record (let mut meta)
  fresh,   \* per process: the keypair it is about to wrap
  queue,   \* per process: revoke_cascade's queue of parents
  snap,    \* per process: the children list_by_parent returned, yet to be visited
  errors   \* per process: the children the cascade could not suspend

disk    == <<file, store>>
history == <<minted, blobs, sealed>>
local   == <<pc, req, meta, fresh>>
walk    == <<queue, snap, errors>>
vars    == <<disk, history, local, walk>>

Readable(k) == file[k] = "json"
Current(m) == m.versions[m.current]

-----------------------------------------------------------------------------
(* Wrapping and unwrapping.                                                 *)

\* The parents whose public key wraps their children; any other parent, and
\* no parent, means CITADEL_MASTER_KEY.
WrapsChildren(k) == store[k].type \in {"KeyEncrypting", "Domain"}

\* Whether wrap_secret_key_for succeeds: the parent is read again, and a
\* destroyed parent has no public key left to decode.
WrapPossible(pid) ==
  pid # NoKey =>
    /\ Readable(pid)
    /\ WrapsChildren(pid) => store[pid].current \in DOMAIN store[pid].versions
                             /\ Current(store[pid]).pk # 0

WrapUnder(v, pid) ==
  IF pid # NoKey /\ WrapsChildren(pid)
  THEN [v EXCEPT !.sk = "CitadelWrapped", !.by = pid,
                 !.byVer = store[pid].current, !.byPk = Current(store[pid]).pk]
  ELSE [v EXCEPT !.sk = "Encrypted", !.by = NoKey, !.byVer = 0, !.byPk = 0]

\* The wrapping key of version v is named, there, in use, and has the version and the
\* keypair v was wrapped to.  rewrap passes skip_parent_state_check = TRUE.
ParentServes(v, skip) ==
  /\ v.by # NoKey
  /\ Readable(v.by)
  /\ skip \/ store[v.by].state \in CanDecrypt
  /\ v.byVer \in DOMAIN store[v.by].versions
  /\ store[v.by].versions[v.byVer].pk = v.byPk

\* Whether unwrap_key_version_inner recovers the secret of version i of key k:
\* d is the recursion depth left.
Opens(key, ver, skip) ==
  LET opens[d \in 0 .. MAX_UNWRAP_DEPTH] == [k \in KeyId |-> [i \in Nat |->
        /\ i \in DOMAIN store[k].versions
        /\ LET v == store[k].versions[i]
           IN  \/ v.sk = "Encrypted"
               \/ /\ v.sk = "CitadelWrapped"
                  /\ d > 0
                  /\ ParentServes(v, skip)
                  /\ opens[d - 1][v.by][v.byVer]]]
  IN  opens[MAX_UNWRAP_DEPTH][key][ver]

MAX_DEPTH == 10

\* resolve_domain_for_key: the parent chain reaches a Domain key.
HasDomain(key) ==
  LET reaches[d \in 0 .. MAX_DEPTH, k \in KeyId \cup {NoKey}] ==
        /\ d > 0
        /\ k # NoKey
        /\ Readable(k)
        /\ \/ store[k].type = "Domain"
           \/ store[k].type # "Root" /\ reaches[d - 1, store[k].parent]
  IN  reaches[MAX_DEPTH, key]

-----------------------------------------------------------------------------
(* Initial state: the provisioned hierarchy, activated, nothing in flight.  *)

ProvisionedRequest(k) == CHOOSE r \in Provisioned : r.key = k
IsProvisioned(k) == \E r \in Provisioned : r.key = k

ProvisionedVersion(r) ==
  IF r.type \in {"Root", "Domain"}
  THEN [Keypair(1, r.type) EXCEPT !.sk = "Encrypted"]
  ELSE [Keypair(1, r.type) EXCEPT !.sk = "CitadelWrapped", !.by = r.parent,
                                  !.byVer = 1, !.byPk = 1]

ProvisionedMeta(r) ==
  [type |-> r.type, state |-> "Active", parent |-> r.parent,
   versions |-> <<ProvisionedVersion(r)>>, current |-> 1, usage |-> 0]

Init ==
  /\ file = [k \in KeyId |-> IF IsProvisioned(k) THEN "json" ELSE "absent"]
  /\ store = [k \in KeyId |-> IF IsProvisioned(k)
                              THEN ProvisionedMeta(ProvisionedRequest(k)) ELSE NoMeta]
  /\ minted = [k \in KeyId |-> IF IsProvisioned(k) THEN 1 ELSE 0]
  /\ blobs = {}
  /\ sealed = [k \in KeyId |-> 0]
  /\ pc = [p \in Proc |-> "idle"]
  /\ req = [p \in Proc |-> NoRequest]
  /\ meta = [p \in Proc |-> NoMeta]
  /\ fresh = [p \in Proc |-> NoVersion]
  /\ queue = [p \in Proc |-> <<>>]
  /\ snap = [p \in Proc |-> {}]
  /\ errors = [p \in Proc |-> {}]

-----------------------------------------------------------------------------
(* Starting an operation: get the record, check it, change the local copy. *)

Start(p, r, op, stage, m) ==
  /\ pc[p] = "idle"
  /\ r \in Requests
  /\ r.op = op
  /\ pc' = [pc EXCEPT ![p] = stage]
  /\ req' = [req EXCEPT ![p] = r]
  /\ meta' = [meta EXCEPT ![p] = m]
  /\ UNCHANGED <<disk, blobs, sealed, walk>>

\* A lifecycle operation that mints no keypair: its first get, and its checks.
StartOn(p, r, op, stage, m) ==
  /\ Readable(r.key)
  /\ Start(p, r, op, stage, m)
  /\ UNCHANGED <<minted, fresh>>

\* generate() generates its keypair after the checks, as rotate() does.
Mint(p, k, type) ==
  /\ minted[k] < MaxMint
  /\ minted' = [minted EXCEPT ![k] = @ + 1]
  /\ fresh' = [fresh EXCEPT ![p] = Keypair(minted[k] + 1, type)]

IsFreshId(k) ==
  /\ file[k] = "absent"
  /\ \A q \in Proc : req[q].op = "generate" => req[q].key # k

\* Mutant: the parent need only exist.
AnyStoredParent(r) ==
  IF r.parent = NoKey THEN r.type = "Root" ELSE Readable(r.parent)

\* Without the development override of CITADEL_ALLOW_FLAT_DEKS.
ParentAccepts(r) ==
  IF r.parent = NoKey
  THEN r.type = "Root"
  ELSE Readable(r.parent) /\ <<store[r.parent].type, r.type>> \in CanWrap

\* A new id, a new keypair, and a record that is Pending.
Create(p, r) ==
  /\ IsFreshId(r.key)
  /\ Start(p, r, "generate", "wrap", Blank(r.type, r.parent))
  /\ Mint(p, r.key, r.type)

\* generate: no parent is right for Root only; any other key needs a stored
\* parent that can_wrap it, whatever the parent's state.
Generate(p, r) ==
  /\ r.type # "Signing"
  /\ ParentAccepts(r)
  /\ Create(p, r)

\* generate_signing_key: always under a parent, which must be a KEK.
GenerateSigningKey(p, r) ==
  /\ r.type = "Signing"
  /\ r.parent # NoKey
  /\ Readable(r.parent)
  /\ <<store[r.parent].type, "Signing">> \in CanWrap
  /\ Create(p, r)

\* activate: transition() to Active.
Activate(p, r) ==
  /\ CanTransition(store[r.key].state, "Active")
  /\ StartOn(p, r, "activate", "put", [store[r.key] EXCEPT !.state = "Active"])

\* Mutant: the new keypair is of the key's own algorithm.
RotateInKind(p, r) ==
  /\ Readable(r.key)
  /\ store[r.key].state = "Active"
  /\ Start(p, r, "rotate", "wrap", store[r.key])
  /\ Mint(p, r.key, store[r.key].type)

\* rotate: an Active key of any type gets a new KEM keypair.
Rotate(p, r) ==
  /\ Readable(r.key)
  /\ store[r.key].state = "Active"
  /\ Start(p, r, "rotate", "wrap", store[r.key])
  /\ Mint(p, r.key, "Root")

\* rewrap: unwrap the current version, ignoring its parent's state; destroyed
\* material is refused outright.
Rewrap(p, r) ==
  /\ Readable(r.key)
  /\ store[r.key].current \in DOMAIN store[r.key].versions
  /\ Current(store[r.key]).sk # "Destroyed"
  /\ Opens(r.key, store[r.key].current, TRUE)
  /\ Start(p, r, "rewrap", "wrap", store[r.key])
  /\ fresh' = [fresh EXCEPT ![p] = Current(store[r.key])]
  /\ UNCHANGED minted

Revoked(m) == [m EXCEPT !.state = "Revoked"]

\* revoke: only an Active key.
Revoke(p, r) ==
  /\ store[r.key].state = "Active"
  /\ StartOn(p, r, "revoke", "put", Revoked(store[r.key]))

\* revoke_cascade begins with revoke.
RevokeCascade(p, r) ==
  /\ store[r.key].state = "Active"
  /\ StartOn(p, r, "revoke_cascade", "put", Revoked(store[r.key]))

\* The states check_expiration may find due: an Active key past its policy's
\* max_lifetime, a Rotated key past its grace period.  The clock is free.
Expirable(k) == {"Rotated"} \cup (IF k \in Lifetimed THEN {"Active"} ELSE {})

\* expire, called directly or for each due key by expire_due_keys.
Expire(p, r) ==
  /\ store[r.key].state \in Expirable(r.key)
  /\ StartOn(p, r, "expire", "put", [store[r.key] EXCEPT !.state = "Expired"])

Purged(v) == [v EXCEPT !.sk = "Destroyed", !.pk = 0]

\* destroy: every version's material is purged from the copy first.
Destroy(p, r) ==
  /\ CanTransition(store[r.key].state, "Destroyed")
  /\ StartOn(p, r, "destroy", "zero",
       [store[r.key] EXCEPT
          !.state = "Destroyed",
          !.versions = [i \in DOMAIN store[r.key].versions |->
                          Purged(store[r.key].versions[i])]])

AtLimit(k) == store[k].usage <= UsageLimit[k] \* Mutant: one use too many.
UnderLimit(k) == store[k].usage < UsageLimit[k]

\* encrypt: state, type and usage limit are checked and the domain resolved on
\* what the gets return; the seal uses that copy's current public key.
Encrypt(p, r) ==
  /\ sealed[r.key] < MaxSealed
  /\ store[r.key].state \in CanEncrypt
  /\ store[r.key].type \in {"DataEncrypting", "HybridIdentity"}
  /\ UnderLimit(r.key)
  /\ HasDomain(r.key)
  /\ StartOn(p, r, "encrypt", "put", [store[r.key] EXCEPT !.usage = @ + 1])

-----------------------------------------------------------------------------
(* Carrying it on: the second get, the overwrite, the put.                 *)

\* The process returns to its caller: its locals go out of scope.
Return(p) ==
  /\ pc' = [pc EXCEPT ![p] = "idle"]
  /\ req' = [req EXCEPT ![p] = NoRequest]
  /\ meta' = [meta EXCEPT ![p] = NoMeta]
  /\ fresh' = [fresh EXCEPT ![p] = NoVersion]

NewParent(p) == IF req[p].op = "rewrap" THEN req[p].parent ELSE meta[p].parent

\* Mutant: only wrapping keys keep the version a rotation supersedes.
InstallOver(m, op, v) ==
  IF op = "rewrap" \/ m.type = "DataEncrypting"
  THEN [m EXCEPT !.versions[m.current] = v]
  ELSE [m EXCEPT !.versions = Append(@, v), !.current = @ + 1]

\* The wrapped version replaces the current one (rewrap) or is pushed.
Install(m, op, v) ==
  IF op = "rewrap"
  THEN [m EXCEPT !.versions[m.current] = v]
  ELSE [m EXCEPT !.versions = Append(@, v), !.current = @ + 1]

\* wrap_secret_key_for: a get of the parent of its own.
Wrap(p) ==
  /\ pc[p] = "wrap"
  /\ WrapPossible(NewParent(p))
  /\ meta' = [meta EXCEPT ![p] =
                Install(@, req[p].op, WrapUnder(fresh[p], NewParent(p)))]
  /\ pc' = [pc EXCEPT ![p] = "put"]
  /\ UNCHANGED <<disk, history, req, fresh, walk>>

WrapFails(p) ==
  /\ pc[p] = "wrap"
  /\ ~WrapPossible(NewParent(p))
  /\ Return(p)
  /\ UNCHANGED <<disk, history, walk>>

\* overwrite_key_file: zeros in place of the JSON, before the put.
ZeroFile(p) ==
  /\ pc[p] = "zero"
  /\ file' = [file EXCEPT ![req[p].key] = "zeroed"]
  /\ pc' = [pc EXCEPT ![p] = "put"]
  /\ UNCHANGED <<store, history, req, meta, fresh, walk>>

Write(k, m) ==
  /\ file' = [file EXCEPT ![k] = "json"]
  /\ store' = [store EXCEPT ![k] = m]

\* What encrypt returns once its put succeeded.
BlobOf(p) == [key |-> req[p].key, ver |-> meta[p].current, pk |-> Current(meta[p]).pk]

\* put succeeds and the operation returns Ok; revoke_cascade goes on.
Put(p) ==
  /\ pc[p] = "put"
  /\ Write(req[p].key, meta[p])
  /\ IF req[p].op = "encrypt"
     THEN /\ blobs' = blobs \cup {BlobOf(p)}
          /\ sealed' = [sealed EXCEPT ![req[p].key] = @ + 1]
     ELSE UNCHANGED <<blobs, sealed>>
  /\ IF req[p].op = "revoke_cascade"
     THEN /\ pc' = [pc EXCEPT ![p] = "cascade"]
          /\ queue' = [queue EXCEPT ![p] = <<req[p].key>>]
          /\ UNCHANGED <<req, meta, fresh>>
     ELSE Return(p) /\ UNCHANGED queue
  /\ UNCHANGED <<minted, snap, errors>>

\* put fails before its rename, or the overwrite before its first write: the
\* call returns an error and the file is as it was.
PutFails(p) ==
  /\ pc[p] \in {"zero", "put"}
  /\ Return(p)
  /\ UNCHANGED <<disk, history, walk>>

\* put fails after its rename (the directory fsync): written, reported as an error.
PutUnacknowledged(p) ==
  /\ pc[p] = "put"
  /\ Write(req[p].key, meta[p])
  /\ Return(p)
  /\ UNCHANGED <<history, walk>>

-----------------------------------------------------------------------------
(* The cascade of revoke_cascade.                                           *)

InCascade(p) == pc[p] = "cascade"
Visited(p, c) == [snap EXCEPT ![p] = @ \ {c}]

EndCascade(p) ==
  /\ Return(p)
  /\ queue' = [queue EXCEPT ![p] = <<>>]
  /\ snap' = [snap EXCEPT ![p] = {}]
  /\ errors' = [errors EXCEPT ![p] = {}]

\* list() reads every key file and fails if one does not parse.
ListFails == \E k \in KeyId : file[k] = "zeroed"

\* Mutant: the children are the keys this one wraps.
WrappedBy(k) == { j \in KeyId : Readable(j) /\ Current(store[j]).by = k }
ChildrenOf(k) == { j \in KeyId : Readable(j) /\ store[j].parent = k }

Unpopped(q) == q \* Mutant: the parent stays in the queue.
Popped(q) == SubSeq(q, 1, Len(q) - 1)

\* queue.pop() and list_by_parent().
CascadeList(p) ==
  /\ InCascade(p)
  /\ snap[p] = {}
  /\ queue[p] # <<>>
  /\ ~ListFails
  /\ LET parent == queue[p][Len(queue[p])]
     IN  snap' = [snap EXCEPT ![p] = {[key |-> j, meta |-> store[j]] : j \in ChildrenOf(parent)}]
  /\ queue' = [queue EXCEPT ![p] = Popped(@)]
  /\ UNCHANGED <<disk, history, local, errors>>

CascadeAborts(p) ==
  /\ InCascade(p)
  /\ snap[p] = {}
  /\ queue[p] # <<>>
  /\ ListFails
  /\ EndCascade(p)
  /\ UNCHANGED <<disk, history>>

OutOfUse == {"Destroyed", "Revoked", "Suspended"}

\* A child that is already out of use is passed over, with all below it.
CascadeSkips(p, c) ==
  /\ InCascade(p)
  /\ c \in snap[p]
  /\ c.meta.state \in OutOfUse
  /\ snap' = Visited(p, c)
  /\ UNCHANGED <<disk, history, local, queue, errors>>

Suspendable(m) == CanTransition(m.state, "Suspended")

\* A child that cannot be suspended, or whose put failed, is reported.
CascadeReports(p, c) ==
  /\ InCascade(p)
  /\ c \in snap[p]
  /\ c.meta.state \notin OutOfUse
  /\ snap' = Visited(p, c)
  /\ errors' = [errors EXCEPT ![p] = @ \cup {c.key}]
  /\ UNCHANGED <<disk, history, local, queue>>

\* The listed copy of the child is put back as Suspended; its children are next.
CascadeSuspends(p, c) ==
  /\ InCascade(p)
  /\ c \in snap[p]
  /\ Suspendable(c.meta)
  /\ Write(c.key, [c.meta EXCEPT !.state = "Suspended"])
  /\ queue' = [queue EXCEPT ![p] = Append(@, c.key)]
  /\ snap' = Visited(p, c)
  /\ UNCHANGED <<history, local, errors>>

\* The child's put reported an error although its rename took place.
CascadeUnacknowledged(p, c) ==
  /\ InCascade(p)
  /\ c \in snap[p]
  /\ Suspendable(c.meta)
  /\ Write(c.key, [c.meta EXCEPT !.state = "Suspended"])
  /\ snap' = Visited(p, c)
  /\ errors' = [errors EXCEPT ![p] = @ \cup {c.key}]
  /\ UNCHANGED <<history, local, queue>>

CascadeEnded(p) == InCascade(p) /\ snap[p] = {} /\ queue[p] = <<>>

CascadeDone(p) ==
  /\ CascadeEnded(p)
  /\ EndCascade(p)
  /\ UNCHANGED <<disk, history>>

-----------------------------------------------------------------------------
\* The process dies; the key files stay as they are.
Crash ==
  /\ \E p \in Proc : pc[p] # "idle"
  /\ pc' = [p \in Proc |-> "idle"]
  /\ req' = [p \in Proc |-> NoRequest]
  /\ meta' = [p \in Proc |-> NoMeta]
  /\ fresh' = [p \in Proc |-> NoVersion]
  /\ queue' = [p \in Proc |-> <<>>]
  /\ snap' = [p \in Proc |-> {}]
  /\ errors' = [p \in Proc |-> {}]
  /\ UNCHANGED <<disk, history>>

Begin(p, r) ==
  \/ Generate(p, r)
  \/ GenerateSigningKey(p, r)
  \/ Activate(p, r)
  \/ Rotate(p, r)
  \/ Rewrap(p, r)
  \/ Revoke(p, r)
  \/ RevokeCascade(p, r)
  \/ Expire(p, r)
  \/ Destroy(p, r)
  \/ Encrypt(p, r)

\* What a process does next of its own accord once it has begun.
Continue(p) ==
  \/ Wrap(p)
  \/ WrapFails(p)
  \/ ZeroFile(p)
  \/ Put(p)
  \/ CascadeList(p)
  \/ CascadeAborts(p)
  \/ \E c \in snap[p] : CascadeSkips(p, c) \/ CascadeReports(p, c) \/ CascadeSuspends(p, c)
  \/ CascadeDone(p)

Fault(p) ==
  \/ PutFails(p)
  \/ PutUnacknowledged(p)
  \/ \E c \in snap[p] : CascadeUnacknowledged(p, c)

Next ==
  \/ \E p \in Proc : \/ \E r \in Requests : Begin(p, r)
                     \/ Continue(p)
                     \/ Fault(p)
  \/ Crash

Spec == Init /\ [][Next]_vars

\* The executor keeps polling a future that can make progress.
FairSpec == Spec /\ \A p \in Proc : WF_vars(Continue(p))
-----------------------------------------------------------------------------
(* Properties that hold whatever the interleaving.                          *)

\* Type correctness of the stored records and of every process's locals.
TypeOK ==
  /\ file \in [KeyId -> {"absent", "json", "zeroed"}]
  /\ store \in [KeyId -> Meta]
  /\ minted \in [KeyId -> Nat]
  /\ blobs \subseteq [key : KeyId, ver : Nat, pk : Nat]
  /\ sealed \in [KeyId -> Nat]
  /\ pc \in [Proc -> {"idle", "wrap", "zero", "put", "cascade"}]
  /\ req \in [Proc -> Request \cup {NoRequest}]
  /\ meta \in [Proc -> Meta]
  /\ fresh \in [Proc -> Version]
  /\ queue \in [Proc -> Seq(KeyId)]
  /\ snap \in [Proc -> SUBSET Listed]
  /\ errors \in [Proc -> SUBSET KeyId]

\* A record's parent is stored and can_wrap it; only Root has none.
ParentFits(m) ==
  IF m.parent = NoKey THEN m.type = "Root"
  ELSE m.parent \in KeyId /\ file[m.parent] # "absent"
       /\ <<store[m.parent].type, m.type>> \in CanWrap

\* The hierarchy is the one can_wrap declares for every stored key, although
\* generate checks the parent in one step and writes the child two steps later
\* and no lock covers the three.
HierarchySound == \A k \in KeyId : file[k] # "absent" => ParentFits(store[k])

\* Versions are numbered without gaps, current is the last, and a record is
\* Destroyed exactly when all its material is purged: a stale put may bring an
\* old record back but never one that mixes live and purged material.
WellFormed(m) ==
  /\ m.current = Len(m.versions)
  /\ m.current > 0
  /\ \A i \in DOMAIN m.versions :
       /\ m.versions[i].sk = "Destroyed" <=> m.state = "Destroyed"
       /\ m.versions[i].pk = 0 <=> m.state = "Destroyed"

\* Every stored record is well formed.
RecordsWellFormed == \A k \in KeyId : file[k] # "absent" => WellFormed(store[k])

\* A stored key never changes type or parent, so neither does its domain (the
\* AAD a ciphertext is bound to), whichever process writes it last.
KeepsIdentity ==
  \A k \in KeyId : file[k] # "absent" =>
    /\ file'[k] # "absent"
    /\ store'[k].type = store[k].type
    /\ store'[k].parent = store[k].parent
IdentityFixed == [][KeepsIdentity]_vars

\* Every started operation returns, revoke_cascade's walk of the descendants
\* included, even while other processes re-activate or create keys below it.
OperationsReturn == \A p \in Proc : pc[p] # "idle" ~> pc[p] = "idle"

-----------------------------------------------------------------------------
(* Properties of the engine when calls do not overlap.                      *)

\* The lifecycle: what a single step may do to the state of a stored key.
LifecycleEdge(from, to) == from = to \/ CanTransition(from, to)

\* Every step moves a stored key along an edge valid_transitions declares.
FollowsLifecycle ==
  \A k \in KeyId : file[k] # "absent" => LifecycleEdge(store[k].state, store'[k].state)
LifecycleEdges == [][FollowsLifecycle]_vars

\* "never resurrects a terminal key, and never reactivates a revoked one".
KeepsRevoked ==
  \A k \in KeyId : file[k] # "absent" =>
    /\ store[k].state = "Revoked" => store'[k].state \in {"Revoked", "Destroyed"}
    /\ store[k].state = "Destroyed" => store'[k].state = "Destroyed"
RevokedIsFinal == [][KeepsRevoked]_vars

\* The keypair a ciphertext was sealed to stays in the key's record, under the
\* version number the ciphertext carries, until the key is destroyed.
Retains(b) ==
  store[b.key].state # "Destroyed" =>
    /\ b.ver \in DOMAIN store[b.key].versions
    /\ store[b.key].versions[b.ver].pk = b.pk

\* Every ciphertext ever returned keeps its keypair.
CiphertextKeyRetained == \A b \in blobs : Retains(b)

\* A wrapped version names a version of its wrapping key that is there and
\* holds the keypair it was wrapped to, until the wrapping key is destroyed.
WrapIntactIn(v) ==
  v.sk = "CitadelWrapped" =>
    /\ v.by \in KeyId
    /\ file[v.by] # "absent"
    /\ store[v.by].state # "Destroyed" =>
         /\ v.byVer \in DOMAIN store[v.by].versions
         /\ store[v.by].versions[v.byVer].pk = v.byPk

\* No stored version is wrapped to a keypair its wrapping key no longer has.
WrapIntact ==
  \A k \in KeyId : \A i \in DOMAIN store[k].versions :
    WrapIntactIn(store[k].versions[i])

\* Whether decrypt recovers a ciphertext in the present store; that it may be
\* refused for its key's age is in AdaptivePolicy (CryptoperiodStops).
Decryptable(b) ==
  /\ Readable(b.key)
  /\ store[b.key].state \in CanDecrypt
  /\ Opens(b.key, b.ver, FALSE)
  /\ store[b.key].versions[b.ver].pk = b.pk

\* While no KEK or Domain key is out of use, every ciphertext of a key in use
\* decrypts, whatever was rotated or rewrapped since it was sealed.
HierarchyInUse ==
  \A k \in KeyId :
    /\ file[k] # "zeroed"
    /\ file[k] = "json" /\ WrapsChildren(k) => store[k].state \in CanDecrypt
CiphertextsDecrypt ==
  HierarchyInUse =>
    \A b \in blobs : store[b.key].state \in CanDecrypt => Decryptable(b)

\* usage_count accounts for every ciphertext returned and respects the limit.
UsageAccounted ==
  \A k \in KeyId : sealed[k] <= store[k].usage /\ store[k].usage <= UsageLimit[k]

\* A cascade that ends without a reported error leaves no direct child in use.
CascadeStopsChildren ==
  \A p \in Proc : CascadeEnded(p) /\ errors[p] = {} =>
    \A k \in KeyId : Readable(k) /\ store[k].parent = req[p].key =>
      store[k].state \notin CanDecrypt
=============================================================================
