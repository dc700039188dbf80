--------------------------- MODULE KeystoreProofs ---------------------------
(* Theorems about Keystore, for every set of keys, callers and requests.     *)
EXTENDS Keystore, TLAPS

(***************************************************************************)
(* Type correctness.                                                       *)
(***************************************************************************)

LEMMA BlankType ==
  ASSUME NEW t \in KeyType, NEW q \in KeyId \cup {NoKey}
  PROVE  Blank(t, q) \in Meta
BY DEF Blank, Meta, KeyState

LEMMA KeypairType ==
  ASSUME NEW n \in Nat, NEW t
  PROVE  Keypair(n, t) \in Version
BY DEF Keypair, Version

LEMMA NothingTypes ==
  /\ NoMeta \in Meta
  /\ NoVersion \in Version
<1>1. "Root" \in KeyType
  BY DEF KeyType
<1> QED BY <1>1, BlankType, KeypairType DEF NoMeta, NoVersion

\* wrap_secret_key_for keeps a version a version.
LEMMA WrapUnderType ==
  ASSUME TypeOK, NEW v \in Version, NEW q \in KeyId \cup {NoKey}, WrapPossible(q)
  PROVE  WrapUnder(v, q) \in Version
<1>1. CASE q # NoKey /\ WrapsChildren(q)
  <2>1. q \in KeyId /\ store[q] \in Meta
    BY <1>1 DEF TypeOK
  <2>2. store[q].versions \in Seq(Version) /\ store[q].current \in Nat
    BY <2>1 DEF Meta
  <2>3. Current(store[q]) \in Version
    BY <1>1, <2>2 DEF WrapPossible, Current
  <2> QED BY <1>1, <2>1, <2>2, <2>3 DEF WrapUnder, Version
<1>2. CASE ~(q # NoKey /\ WrapsChildren(q))
  BY <1>2 DEF WrapUnder, Version
<1> QED BY <1>1, <1>2

LEMMA SeqExcept ==
  ASSUME NEW S, NEW s \in Seq(S), NEW i, NEW e \in S
  PROVE  /\ [s EXCEPT ![i] = e] \in Seq(S)
         /\ Len([s EXCEPT ![i] = e]) = Len(s)
<1> DEFINE t == [s EXCEPT ![i] = e]
<1>1. Len(s) \in Nat /\ s \in [1 .. Len(s) -> S]
  OBVIOUS
<1>2. t \in [1 .. Len(s) -> S]
  BY <1>1
<1>3. t \in Seq(S)
  BY <1>1, <1>2
<1>4. DOMAIN t = 1 .. Len(s) /\ DOMAIN t = 1 .. Len(t) /\ Len(t) \in Nat
  BY <1>2, <1>3
<1>5. Len(t) = Len(s)
  BY <1>1, <1>4
<1> QED BY <1>3, <1>5

LEMMA InstallType ==
  ASSUME NEW m \in Meta, NEW op, NEW v \in Version
  PROVE  Install(m, op, v) \in Meta
<1>1. m.versions \in Seq(Version) /\ m.current \in Nat
  BY DEF Meta
<1>2. [m.versions EXCEPT ![m.current] = v] \in Seq(Version)
  BY <1>1, SeqExcept
<1>3. Append(m.versions, v) \in Seq(Version)
  BY <1>1
<1>4. CASE op = "rewrap"
  BY <1>2, <1>4 DEF Install, Meta
<1>5. CASE op # "rewrap"
  <2>1. Install(m, op, v) = [m EXCEPT !.versions = Append(m.versions, v),
                                      !.current = m.current + 1]
    BY <1>5 DEF Install
  <2>2. m.current + 1 \in Nat
    BY <1>1
  <2> QED BY <1>3, <2>1, <2>2 DEF Meta
<1> QED BY <1>4, <1>5

LEMMA PurgedType ==
  ASSUME NEW m \in Meta
  PROVE  [m EXCEPT !.state = "Destroyed",
                   !.versions = [i \in DOMAIN m.versions |-> Purged(m.versions[i])]] \in Meta
<1>1. m.versions \in Seq(Version)
  BY DEF Meta
<1>2. ASSUME NEW v \in Version PROVE Purged(v) \in Version
  BY DEF Purged, Version
<1>3. [i \in DOMAIN m.versions |-> Purged(m.versions[i])] \in Seq(Version)
  BY <1>1, <1>2
<1> QED BY <1>3 DEF Meta, KeyState

LEMMA InitType == Init => TypeOK
<1> SUFFICES ASSUME Init PROVE TypeOK
  OBVIOUS
<1>1. ASSUME NEW r \in Provisioned PROVE ProvisionedMeta(r) \in Meta
  <2>1. r \in Request
    BY KeystoreConstants
  <2>2. ProvisionedVersion(r) \in Version
    BY <2>1 DEF ProvisionedVersion, Keypair, Request, Version
  <2> QED BY <2>1, <2>2 DEF ProvisionedMeta, Meta, Request, KeyState
<1>2. ASSUME NEW k, IsProvisioned(k) PROVE ProvisionedRequest(k) \in Provisioned
  BY <1>2 DEF IsProvisioned, ProvisionedRequest
<1>3. store \in [KeyId -> Meta]
  BY <1>1, <1>2, NothingTypes DEF Init
<1> QED BY <1>3, NothingTypes DEF Init, TypeOK

\* A call that starts leaves well-typed locals behind.
LEMMA StartType ==
  ASSUME TypeOK, NEW p \in Proc, NEW r \in Requests, NEW op,
         NEW stage \in {"wrap", "zero", "put"}, NEW m \in Meta, Start(p, r, op, stage, m)
  PROVE  /\ r \in Request
         /\ minted' \in [KeyId -> Nat] /\ fresh' \in [Proc -> Version] => TypeOK'
<1>1. r \in Request
  BY KeystoreConstants
<1> QED BY <1>1 DEF TypeOK, Start, disk, walk

LEMMA MintType ==
  ASSUME TypeOK, NEW p \in Proc, NEW k \in KeyId, NEW t, Mint(p, k, t)
  PROVE  minted' \in [KeyId -> Nat] /\ fresh' \in [Proc -> Version]
<1>1. minted[k] + 1 \in Nat
  BY DEF TypeOK
<1> QED BY <1>1, KeypairType DEF TypeOK, Mint

LEMMA BeginType ==
  ASSUME TypeOK, NEW p \in Proc, NEW r \in Requests, Begin(p, r)
  PROVE  TypeOK'
<1>1. r \in Request /\ r.key \in KeyId
  BY KeystoreConstants DEF Request
<1>2. store[r.key] \in Meta
  BY <1>1 DEF TypeOK
<1>3. ASSUME NEW m \in Meta, NEW op, NEW stage \in {"wrap", "zero", "put"},
             StartOn(p, r, op, stage, m)
      PROVE  TypeOK'
  <2>1. minted' \in [KeyId -> Nat] /\ fresh' \in [Proc -> Version]
    BY <1>3 DEF StartOn, TypeOK
  <2>2. Start(p, r, op, stage, m)
    BY <1>3 DEF StartOn
  <2> QED BY <2>1, <2>2, StartType
<1>4. ASSUME NEW s \in KeyState PROVE [store[r.key] EXCEPT !.state = s] \in Meta
  BY <1>2 DEF Meta
<1>5. CASE Generate(p, r) \/ GenerateSigningKey(p, r)
  <2>1. Blank(r.type, r.parent) \in Meta
    BY <1>1, BlankType DEF Request
  <2> QED BY <1>1, <1>5, <2>1, StartType, MintType
          DEF Generate, GenerateSigningKey, Create
<1>6. CASE Activate(p, r)
  BY <1>3, <1>4, <1>6 DEF Activate, KeyState
<1>7. CASE Rotate(p, r)
  BY <1>1, <1>2, <1>7, StartType, MintType DEF Rotate
<1>8. CASE Rewrap(p, r)
  <2>1. Current(store[r.key]) \in Version
    BY <1>2, <1>8 DEF Rewrap, Current, Meta
  <2>2. minted' \in [KeyId -> Nat] /\ fresh' \in [Proc -> Version]
    BY <1>8, <2>1 DEF Rewrap, TypeOK
  <2> QED BY <1>2, <1>8, <2>2, StartType DEF Rewrap
<1>9. CASE Revoke(p, r)
  BY <1>3, <1>4, <1>9 DEF Revoke, Revoked, KeyState
<1>10. CASE RevokeCascade(p, r)
  BY <1>3, <1>4, <1>10 DEF RevokeCascade, Revoked, KeyState
<1>11. CASE Expire(p, r)
  BY <1>3, <1>4, <1>11 DEF Expire, KeyState
<1>12. CASE Destroy(p, r)
  BY <1>2, <1>3, <1>12, PurgedType DEF Destroy
<1>13. CASE Encrypt(p, r)
  <2>1. [store[r.key] EXCEPT !.usage = @ + 1] \in Meta
    BY <1>2 DEF Meta
  <2> QED BY <1>3, <1>13, <2>1 DEF Encrypt
<1> QED BY <1>5, <1>6, <1>7, <1>8, <1>9, <1>10, <1>11, <1>12, <1>13 DEF Begin

LEMMA ReturnType ==
  ASSUME TypeOK, NEW p \in Proc, Return(p)
  PROVE  /\ pc' \in [Proc -> {"idle", "wrap", "zero", "put", "cascade"}]
         /\ req' \in [Proc -> Request \cup {NoRequest}]
         /\ meta' \in [Proc -> Meta]
         /\ fresh' \in [Proc -> Version]
BY NothingTypes DEF TypeOK, Return

LEMMA WriteType ==
  ASSUME TypeOK, NEW k \in KeyId, NEW m \in Meta, Write(k, m)
  PROVE  /\ file' \in [KeyId -> {"absent", "json", "zeroed"}]
         /\ store' \in [KeyId -> Meta]
BY DEF TypeOK, Write

(***************************************************************************)
(* The inductive invariant behind TypeOK, HierarchySound and               *)
(* RecordsWellFormed.  What a process will write is a well-formed copy of  *)
(* a stored record with that record's type and parent, or a new record     *)
(* under an id nobody else holds, whose parent fits.                       *)
(***************************************************************************)
SameIdentity(m, n) == m.type = n.type /\ m.parent = n.parent

\* What a process may write under key k, in the present store.
MayWrite(k, m) ==
  IF file[k] = "absent" THEN ParentFits(m) ELSE SameIdentity(m, store[k])

Generating(p) == req[p].op = "generate"

LocalSound(p) ==
  /\ pc[p] # "idle" => req[p] \in Request
  /\ pc[p] \in {"wrap", "zero", "put"} =>
       /\ MayWrite(req[p].key, meta[p])
       /\ file[req[p].key] = "absent" <=> Generating(p)
  /\ pc[p] \in {"zero", "put"} => WellFormed(meta[p])
  /\ pc[p] = "wrap" =>
       /\ meta[p].state # "Destroyed"
       /\ fresh[p].pk # 0
       /\ IF Generating(p) THEN meta[p].versions = <<>> /\ meta[p].current = 0
          ELSE WellFormed(meta[p])
  /\ \A c \in snap[p] :
       /\ file[c.key] # "absent"
       /\ SameIdentity(c.meta, store[c.key])
       /\ WellFormed(c.meta)

GenerationsApart ==
  \A p, q \in Proc : Generating(p) /\ Generating(q) /\ req[p].key = req[q].key => p = q

IdleNotGenerating == \A p \in Proc : pc[p] \in {"idle", "zero", "cascade"} => ~Generating(p)

StructInv ==
  /\ TypeOK
  /\ HierarchySound
  /\ RecordsWellFormed
  /\ GenerationsApart
  /\ IdleNotGenerating
  /\ \A p \in Proc : LocalSound(p)

LEMMA InitStruct == Init => StructInv
<1> SUFFICES ASSUME Init PROVE StructInv
  OBVIOUS
<1>1. TypeOK
  BY InitType
<1>2. ASSUME NEW k \in KeyId, IsProvisioned(k)
      PROVE  /\ ProvisionedRequest(k) \in Provisioned
             /\ ProvisionedRequest(k).key = k
             /\ store[k] = ProvisionedMeta(ProvisionedRequest(k))
  BY <1>2 DEF IsProvisioned, ProvisionedRequest, Init
<1>3. \A k \in KeyId : file[k] # "absent" <=> IsProvisioned(k)
  BY DEF Init
<1>4. HierarchySound
  <2> SUFFICES ASSUME NEW k \in KeyId, IsProvisioned(k) PROVE ParentFits(store[k])
    BY <1>3 DEF HierarchySound
  <2>1. PICK r \in Provisioned : r.key = k /\ store[k] = ProvisionedMeta(r)
    BY <1>2
  <2>2. store[k].type = r.type /\ store[k].parent = r.parent
    BY <2>1 DEF ProvisionedMeta
  <2>3. CASE r.type = "Root"
    BY <2>2, <2>3, KeystoreConstants DEF ProvisionedWellFounded, ParentFits
  <2>4. CASE r.type # "Root"
    <3>1. PICK s \in Provisioned : s.key = r.parent /\ <<s.type, r.type>> \in CanWrap
      BY <2>4, KeystoreConstants DEF ProvisionedWellFounded
    <3>2. s.key \in KeyId /\ s.key # NoKey
      BY KeystoreConstants DEF Request
    <3>3. IsProvisioned(s.key)
      BY DEF IsProvisioned
    <3>4. ProvisionedRequest(s.key) = s
      <4>1. /\ ProvisionedRequest(s.key) \in Provisioned
            /\ ProvisionedRequest(s.key).key = s.key
        BY <1>2, <3>2, <3>3
      <4> QED BY <4>1, KeystoreConstants DEF ProvisionedWellFounded
    <3>5. store[s.key] = ProvisionedMeta(s) /\ file[s.key] # "absent"
      BY <1>2, <1>3, <3>2, <3>3, <3>4
    <3>6. store[s.key].type = s.type
      BY <3>5 DEF ProvisionedMeta
    <3> QED BY <2>2, <3>1, <3>2, <3>5, <3>6 DEF ParentFits
  <2> QED BY <2>3, <2>4
<1>5. RecordsWellFormed
  <2> SUFFICES ASSUME NEW k \in KeyId, IsProvisioned(k) PROVE WellFormed(store[k])
    BY <1>3 DEF RecordsWellFormed
  <2>1. PICK r \in Provisioned : store[k] = ProvisionedMeta(r)
    BY <1>2
  <2>2. ProvisionedVersion(r).sk # "Destroyed" /\ ProvisionedVersion(r).pk = 1
    BY DEF ProvisionedVersion, Keypair
  <2> QED BY <2>1, <2>2 DEF ProvisionedMeta, WellFormed
<1>6. GenerationsApart /\ IdleNotGenerating
  BY DEF Init, GenerationsApart, IdleNotGenerating, Generating, NoRequest, Call
<1>7. ASSUME NEW p \in Proc PROVE LocalSound(p)
  BY DEF Init, LocalSound
<1> QED BY <1>1, <1>4, <1>5, <1>6, <1>7 DEF StructInv

\* A record whose parent fits goes on fitting while identities are kept.
LEMMA FitsStays ==
  ASSUME NEW m, KeepsIdentity, ParentFits(m)
  PROVE  ParentFits(m)'
BY DEF KeepsIdentity, ParentFits

\* The effect of a write on the shared store.
LEMMA WriteStruct ==
  ASSUME TypeOK, HierarchySound, RecordsWellFormed,
         NEW k \in KeyId, NEW m \in Meta, Write(k, m), MayWrite(k, m), WellFormed(m)
  PROVE  KeepsIdentity /\ HierarchySound' /\ RecordsWellFormed'
<1>1. /\ \A j \in KeyId : j # k => store'[j] = store[j] /\ file'[j] = file[j]
      /\ store'[k] = m /\ file'[k] = "json"
  BY DEF TypeOK, Write
<1>2. KeepsIdentity
  BY <1>1 DEF KeepsIdentity, MayWrite, SameIdentity
<1>3. RecordsWellFormed'
  <2> SUFFICES ASSUME NEW j \in KeyId, file'[j] # "absent" PROVE WellFormed(store'[j])
    BY DEF RecordsWellFormed, WellFormed
  <2> QED BY <1>1 DEF RecordsWellFormed
<1>4. HierarchySound'
  <2> SUFFICES ASSUME NEW j \in KeyId, file'[j] # "absent" PROVE ParentFits(store[j])'
    BY DEF HierarchySound
  <2>1. CASE j # k
    <3>1. ParentFits(store[j])
      BY <1>1, <2>1 DEF HierarchySound
    <3> QED BY <1>1, <1>2, <2>1, <3>1 DEF KeepsIdentity, ParentFits
  <2>2. CASE j = k
    <3>1. ParentFits(m)
      <4>1. CASE file[k] = "absent"
        BY <4>1 DEF MayWrite
      <4>2. CASE file[k] # "absent"
        BY <4>2 DEF MayWrite, SameIdentity, HierarchySound, ParentFits
      <4> QED BY <4>1, <4>2
    <3> QED BY <1>1, <1>2, <2>2, <3>1 DEF KeepsIdentity, ParentFits
  <2> QED BY <2>1, <2>2
<1> QED BY <1>2, <1>3, <1>4

\* A process whose locals a step leaves alone stays sound, as long as identities
\* are kept and nobody writes the key it is generating.
LEMMA OthersStruct ==
  ASSUME TypeOK, NEW q \in Proc, LocalSound(q), KeepsIdentity,
         pc'[q] = pc[q], req'[q] = req[q], meta'[q] = meta[q],
         fresh'[q] = fresh[q], snap'[q] \subseteq snap[q],
         pc[q] \in {"wrap", "put"} /\ Generating(q) => file'[req[q].key] = "absent",
         IdleNotGenerating
  PROVE  LocalSound(q)'
<1>1. /\ pc'[q] # "idle" => req'[q] \in Request
      /\ pc'[q] \in {"zero", "put"} => WellFormed(meta'[q])
  BY DEF LocalSound
<1>2. ASSUME pc'[q] \in {"wrap", "zero", "put"}
      PROVE  /\ MayWrite(req[q].key, meta[q])'
             /\ file'[req'[q].key] = "absent" <=> Generating(q)'
  <2>1. req[q].key \in KeyId
    BY <1>1, <1>2 DEF Request
  <2>2. CASE Generating(q)
    <3>1. file'[req[q].key] = "absent" /\ file[req[q].key] = "absent"
      BY <1>2, <2>2 DEF LocalSound, IdleNotGenerating
    <3>2. ParentFits(meta[q])
      BY <1>2, <3>1 DEF LocalSound, MayWrite
    <3>3. ParentFits(meta[q])'
      BY <3>2 DEF KeepsIdentity, ParentFits
    <3> QED BY <2>2, <3>1, <3>3 DEF MayWrite, Generating
  <2>3. CASE ~Generating(q)
    BY <1>2, <2>1, <2>3 DEF LocalSound, MayWrite, KeepsIdentity, SameIdentity, Generating
  <2> QED BY <2>2, <2>3
<1>3. pc'[q] = "wrap" =>
        /\ meta'[q].state # "Destroyed"
        /\ fresh'[q].pk # 0
        /\ IF Generating(q)' THEN meta'[q].versions = <<>> /\ meta'[q].current = 0
           ELSE WellFormed(meta'[q])
  BY DEF LocalSound, Generating
<1>4. ASSUME NEW c \in snap'[q]
      PROVE  /\ file'[c.key] # "absent"
             /\ SameIdentity(c.meta, store'[c.key])
             /\ WellFormed(c.meta)
  BY <1>4 DEF LocalSound, KeepsIdentity, SameIdentity, TypeOK, Listed
<1> QED BY <1>1, <1>2, <1>3, <1>4 DEF LocalSound, WellFormed

\* Calls that start.
LEMMA BeginStruct ==
  ASSUME StructInv, NEW p \in Proc, NEW r \in Requests, Begin(p, r)
  PROVE  StructInv'
<1>1. TypeOK'
  BY BeginType DEF StructInv
<1>2. r \in Request /\ r.key \in KeyId /\ r.key # NoKey
  BY KeystoreConstants DEF Request
<1>a. PICK op \in Op, stage \in {"wrap", "zero", "put"} : \E m : Start(p, r, op, stage, m)
  BY DEF Begin, Generate, GenerateSigningKey, Create, Activate, Rotate, Rewrap, Revoke,
         RevokeCascade, Expire, Destroy, Encrypt, StartOn, Op
<1>3. PICK m : Start(p, r, op, stage, m)
  BY <1>a
<1>4. /\ UNCHANGED <<file, store, blobs, sealed, queue, snap, errors>>
      /\ pc[p] = "idle"
      /\ req' = [req EXCEPT ![p] = r]
      /\ \A q \in Proc : q # p => /\ pc'[q] = pc[q]
                                  /\ req'[q] = req[q]
                                  /\ meta'[q] = meta[q]
  BY <1>3 DEF Start, StructInv, TypeOK, disk, walk
<1>5. \A q \in Proc : q # p => fresh'[q] = fresh[q]
  BY DEF Begin, Generate, GenerateSigningKey, Create, Activate, Rotate, Rewrap, Revoke,
         RevokeCascade, Expire, Destroy, Encrypt, StartOn, Mint, StructInv, TypeOK
<1>6. KeepsIdentity /\ HierarchySound' /\ RecordsWellFormed'
  BY <1>4 DEF StructInv, KeepsIdentity, HierarchySound, RecordsWellFormed, ParentFits
<1>7. ASSUME NEW q \in Proc, q # p PROVE LocalSound(q)'
  BY <1>4, <1>5, <1>6, <1>7, OthersStruct DEF StructInv, LocalSound
<1>8. WellFormed(store[r.key]) \/ file[r.key] = "absent"
  BY <1>2 DEF StructInv, RecordsWellFormed
<1>9. ASSUME NEW o \in Op \ {"generate"}, NEW s \in {"wrap", "zero", "put"}, NEW n \in Meta,
             Start(p, r, o, s, n), Readable(r.key), SameIdentity(n, store[r.key]),
             WellFormed(n), s = "wrap" => n.state # "Destroyed" /\ fresh'[p].pk # 0
      PROVE  LocalSound(p)' /\ ~Generating(p)'
  <2>1. /\ pc'[p] = s /\ req'[p] = r /\ meta'[p] = n /\ r.op # "generate"
        /\ file'[r.key] # "absent" /\ store' = store /\ file' = file /\ snap' = snap
    BY <1>4, <1>9 DEF Start, Readable, StructInv, TypeOK
  <2>2. \A c \in snap[p] : /\ file[c.key] # "absent"
                            /\ SameIdentity(c.meta, store[c.key])
                            /\ WellFormed(c.meta)
    BY DEF StructInv, LocalSound
  <2>3. ~Generating(p)'
    BY <2>1 DEF Generating
  <2>4. MayWrite(req[p].key, meta[p])'
    BY <1>9, <2>1 DEF MayWrite, SameIdentity, Readable
  <2> QED BY <1>2, <1>9, <2>1, <2>2, <2>3, <2>4 DEF LocalSound, WellFormed, SameIdentity
<1>10. store[r.key] \in Meta
  BY <1>2 DEF StructInv, TypeOK
<1>11. ASSUME NEW s \in KeyState \ {"Destroyed"}, store[r.key].state # "Destroyed",
              Readable(r.key)
       PROVE  LET n == [store[r.key] EXCEPT !.state = s]
              IN  n \in Meta /\ WellFormed(n) /\ SameIdentity(n, store[r.key])
  BY <1>8, <1>10, <1>11 DEF Readable, WellFormed, SameIdentity, Meta
<1>12. CASE Generate(p, r) \/ GenerateSigningKey(p, r)
  <2>1. /\ Start(p, r, "generate", "wrap", Blank(r.type, r.parent)) /\ IsFreshId(r.key)
        /\ ParentAccepts(r) /\ Mint(p, r.key, r.type)
    BY <1>12 DEF Generate, GenerateSigningKey, Create, ParentAccepts
  <2>2. /\ pc'[p] = "wrap" /\ req'[p] = r /\ meta'[p] = Blank(r.type, r.parent)
        /\ r.op = "generate" /\ fresh'[p].pk # 0 /\ file[r.key] = "absent"
    BY <1>2, <2>1 DEF Start, IsFreshId, Mint, Keypair, StructInv, TypeOK
  <2>3. ParentFits(Blank(r.type, r.parent))
    BY <1>2, <2>1 DEF ParentAccepts, ParentFits, Blank, Readable, Request
  <2>4. MayWrite(req[p].key, meta[p])'
    BY <1>4, <2>2, <2>3 DEF MayWrite, ParentFits
  <2>5. LocalSound(p)'
    <3>1. \A c \in snap[p] : /\ file[c.key] # "absent"
                              /\ SameIdentity(c.meta, store[c.key])
                              /\ WellFormed(c.meta)
      BY DEF StructInv, LocalSound
    <3> QED BY <1>2, <1>4, <2>2, <2>4, <3>1
            DEF LocalSound, Generating, Blank, SameIdentity, WellFormed
  <2>6. GenerationsApart'
    BY <1>4, <2>1, <2>2 DEF IsFreshId, StructInv, GenerationsApart, Generating, TypeOK
  <2>7. IdleNotGenerating'
    BY <1>4, <2>2 DEF StructInv, IdleNotGenerating, Generating
  <2> QED BY <1>1, <1>6, <1>7, <2>5, <2>6, <2>7 DEF StructInv
<1>13. ASSUME LocalSound(p)', ~Generating(p)' PROVE StructInv'
  <2>1. GenerationsApart'
    BY <1>4, <1>13 DEF StructInv, GenerationsApart, Generating
  <2>2. IdleNotGenerating'
    BY <1>4, <1>13 DEF StructInv, IdleNotGenerating, Generating
  <2> QED BY <1>1, <1>6, <1>7, <1>13, <2>1, <2>2 DEF StructInv
<1>14. CASE Activate(p, r)
  <2>1. store[r.key].state # "Destroyed" /\ Readable(r.key)
    BY <1>14 DEF Activate, StartOn, CanTransition, ValidTransitions
  <2> QED BY <1>9, <1>11, <1>13, <1>14, <2>1 DEF Activate, StartOn, Op, KeyState
<1>15. CASE Rotate(p, r)
  <2>1. fresh'[p].pk # 0
    BY <1>2, <1>15 DEF Rotate, Mint, Keypair, StructInv, TypeOK
  <2> QED BY <1>8, <1>9, <1>10, <1>13, <1>15, <2>1 DEF Rotate, Op, SameIdentity, Readable
<1>16. CASE Rewrap(p, r)
  <2>1. WellFormed(store[r.key])
    BY <1>8, <1>16 DEF Rewrap, Readable
  <2>2. /\ store[r.key].current \in DOMAIN store[r.key].versions
        /\ Current(store[r.key]).sk # "Destroyed"
    BY <1>16 DEF Rewrap
  <2>3. store[r.key].state # "Destroyed" /\ Current(store[r.key]).pk # 0
    BY <2>1, <2>2 DEF WellFormed, Current
  <2>4. fresh'[p].pk # 0
    BY <1>16, <2>3 DEF Rewrap, StructInv, TypeOK
  <2> QED BY <1>9, <1>10, <1>13, <1>16, <2>1, <2>3, <2>4 DEF Rewrap, Op, SameIdentity
<1>17. CASE Revoke(p, r)
  BY <1>9, <1>11, <1>13, <1>17 DEF Revoke, Revoked, StartOn, Op, KeyState
<1>18. CASE RevokeCascade(p, r)
  BY <1>9, <1>11, <1>13, <1>18 DEF RevokeCascade, Revoked, StartOn, Op, KeyState
<1>19. CASE Expire(p, r)
  <2>1. store[r.key].state # "Destroyed" /\ Readable(r.key)
    BY <1>19 DEF Expire, StartOn, Expirable
  <2> QED BY <1>9, <1>11, <1>13, <1>19, <2>1 DEF Expire, StartOn, Op, KeyState
<1>20. CASE Destroy(p, r)
  <2> DEFINE n == [store[r.key] EXCEPT
                     !.state = "Destroyed",
                     !.versions = [i \in DOMAIN store[r.key].versions |->
                                     Purged(store[r.key].versions[i])]]
  <2>1. Start(p, r, "destroy", "zero", n) /\ Readable(r.key)
    BY <1>20 DEF Destroy, StartOn
  <2>2. n \in Meta
    BY <1>10, PurgedType
  <2>3. WellFormed(store[r.key])
    BY <1>8, <2>1 DEF Readable
  <2>4. /\ n.state = "Destroyed" /\ n.current = store[r.key].current
        /\ n.type = store[r.key].type /\ n.parent = store[r.key].parent
        /\ n.versions = [i \in DOMAIN store[r.key].versions |->
                           Purged(store[r.key].versions[i])]
    BY <1>10 DEF Meta
  <2>5. \A i \in DOMAIN n.versions : n.versions[i].sk = "Destroyed" /\ n.versions[i].pk = 0
    <3>1. ASSUME NEW v \in Version PROVE Purged(v).sk = "Destroyed" /\ Purged(v).pk = 0
      BY DEF Purged, Version
    <3>2. \A i \in DOMAIN store[r.key].versions : store[r.key].versions[i] \in Version
      BY <1>10 DEF Meta
    <3> HIDE DEF n
    <3> QED BY <2>4, <3>1, <3>2
  <2>6. Len(n.versions) = Len(store[r.key].versions)
    <3>1. store[r.key].versions \in Seq(Version) /\ n.versions \in Seq(Version)
      BY <1>10, <2>2 DEF Meta
    <3>2. DOMAIN n.versions = DOMAIN store[r.key].versions
      BY <2>4
    <3> HIDE DEF n
    <3>3. 1 .. Len(n.versions) = 1 .. Len(store[r.key].versions)
      BY <3>1, <3>2
    <3> QED BY <3>1, <3>3
  <2>7. WellFormed(n)
    BY <2>3, <2>4, <2>5, <2>6 DEF WellFormed
  <2>8. SameIdentity(n, store[r.key])
    BY <2>4 DEF SameIdentity
  <2> HIDE DEF n
  <2> QED BY <1>9, <1>13, <2>1, <2>2, <2>7, <2>8 DEF Op
<1>21. CASE Encrypt(p, r)
  <2> DEFINE n == [store[r.key] EXCEPT !.usage = @ + 1]
  <2>1. Start(p, r, "encrypt", "put", n) /\ Readable(r.key)
    BY <1>21 DEF Encrypt, StartOn
  <2>2. n \in Meta /\ SameIdentity(n, store[r.key])
    BY <1>10 DEF Meta, SameIdentity
  <2>3. WellFormed(n)
    BY <1>8, <1>10, <2>1 DEF WellFormed, Meta, Readable
  <2> HIDE DEF n
  <2> QED BY <1>9, <1>13, <2>1, <2>2, <2>3 DEF Op
<1> QED BY <1>12, <1>14, <1>15, <1>16, <1>17, <1>18, <1>19, <1>20, <1>21 DEF Begin

\* The steps of a process that has begun.
LEMMA ContinueStruct ==
  ASSUME StructInv, NEW p \in Proc, Continue(p) \/ Fault(p)
  PROVE  StructInv' /\ KeepsIdentity
<1> USE DEF disk, history, local, walk
<1>1. TypeOK /\ HierarchySound /\ RecordsWellFormed /\ LocalSound(p)
  BY DEF StructInv
<1>2. /\ pc[p] # "idle" => req[p] \in Request /\ req[p].key \in KeyId
      /\ meta[p] \in Meta /\ fresh[p] \in Version
  BY <1>1 DEF TypeOK, LocalSound, Request
\* A step that writes nothing keeps the store's invariants.
<1>3. ASSUME UNCHANGED <<file, store>>
      PROVE  KeepsIdentity /\ HierarchySound' /\ RecordsWellFormed'
  BY <1>1, <1>3 DEF KeepsIdentity, HierarchySound, RecordsWellFormed, ParentFits
\* A step that writes a stored key or the one p generates spares other generations.
<1>4. ASSUME NEW k \in KeyId, file[k] # "absent" \/ (pc[p] = "put" /\ k = req[p].key),
             \A j \in KeyId : j # k => file'[j] = file[j],
             NEW q \in Proc, q # p, pc[q] \in {"wrap", "put"}, Generating(q)
      PROVE  file'[req[q].key] = "absent"
  <2>1. file[req[q].key] = "absent" /\ req[q].key \in KeyId
    BY <1>4 DEF StructInv, LocalSound, Request
  <2>2. pc[p] = "put" /\ ~Generating(p) => file[req[p].key] # "absent"
    BY <1>1 DEF LocalSound
  <2> QED BY <1>4, <2>1, <2>2 DEF StructInv, GenerationsApart
\* Whoever returns holds nothing.
<1>5. ASSUME Return(p), snap'[p] \subseteq snap[p], KeepsIdentity
      PROVE  LocalSound(p)' /\ ~Generating(p)'
  <2>1. pc'[p] = "idle" /\ req'[p] = NoRequest
    BY <1>1, <1>5 DEF Return, TypeOK
  <2>2. \A c \in snap[p] : /\ file[c.key] # "absent" /\ c.key \in KeyId
                            /\ SameIdentity(c.meta, store[c.key])
                            /\ WellFormed(c.meta)
    BY <1>1 DEF LocalSound, TypeOK, Listed
  <2>3. ~Generating(p)'
    BY <2>1 DEF Generating, NoRequest, Call
  <2>4. \A c \in snap'[p] : /\ file'[c.key] # "absent"
                             /\ SameIdentity(c.meta, store'[c.key])
                             /\ WellFormed(c.meta)
    BY <1>5, <2>2 DEF KeepsIdentity, SameIdentity
  <2> QED BY <2>1, <2>3, <2>4 DEF LocalSound, WellFormed
\* Every step leaves the other processes' locals alone.
<1>6. /\ \A q \in Proc : q # p => /\ pc'[q] = pc[q] /\ req'[q] = req[q]
                                  /\ meta'[q] = meta[q] /\ fresh'[q] = fresh[q]
                                  /\ snap'[q] = snap[q]
      /\ req'[p] \in {req[p], NoRequest}
  BY <1>1 DEF Continue, Fault, Wrap, WrapFails, ZeroFile, Put, CascadeList, CascadeAborts,
         CascadeSkips, CascadeReports, CascadeSuspends, CascadeUnacknowledged, CascadeDone,
         PutFails, PutUnacknowledged, Return, EndCascade, Visited, TypeOK
\* So only the store, the types and p's own locals are left to each action.
<1>7. ASSUME TypeOK', KeepsIdentity, HierarchySound', RecordsWellFormed', LocalSound(p)',
             pc'[p] \in {"idle", "zero", "cascade"} => ~Generating(p)',
             \A q \in Proc : q # p /\ pc[q] \in {"wrap", "put"} /\ Generating(q) =>
               file'[req[q].key] = "absent"
      PROVE  StructInv'
  <2>1. ASSUME NEW q \in Proc, q # p PROVE LocalSound(q)'
    BY <1>1, <1>6, <1>7, <2>1, OthersStruct DEF StructInv
  <2>2. GenerationsApart'
    BY <1>6 DEF StructInv, GenerationsApart, Generating, NoRequest, Call
  <2>3. IdleNotGenerating'
    BY <1>6, <1>7 DEF StructInv, IdleNotGenerating, Generating
  <2> QED BY <1>7, <2>1, <2>2, <2>3 DEF StructInv
<1>8. \A q \in Proc : pc[q] \in {"wrap", "put"} /\ Generating(q) => file[req[q].key] = "absent"
  BY DEF StructInv, LocalSound
<1>9. CASE Wrap(p)
  <2>1. NewParent(p) \in KeyId \cup {NoKey}
    BY <1>2, <1>9 DEF Wrap, NewParent, Request, Meta
  <2> DEFINE v == WrapUnder(fresh[p], NewParent(p))
             m == Install(meta[p], req[p].op, v)
  <2>2. v \in Version /\ m \in Meta
    BY <1>1, <1>2, <1>9, <2>1, WrapUnderType, InstallType DEF Wrap
  <2>3. v.sk # "Destroyed" /\ v.pk # 0
    BY <1>1, <1>2, <1>9 DEF WrapUnder, Wrap, LocalSound, Version
  <2>4. /\ meta' = [meta EXCEPT ![p] = m] /\ pc' = [pc EXCEPT ![p] = "put"]
        /\ UNCHANGED <<file, store, minted, blobs, sealed, req, fresh, queue, snap, errors>>
    BY <1>9 DEF Wrap
  <2> HIDE DEF v
  <2>5. WellFormed(m) /\ SameIdentity(m, meta[p])
    <3>1. meta[p].versions \in Seq(Version) /\ meta[p].current \in Nat
      BY <1>2 DEF Meta
    <3>2. meta[p].state # "Destroyed"
      BY <1>1, <1>9 DEF Wrap, LocalSound
    <3>3. CASE Generating(p)
      <4>1. meta[p].versions = <<>> /\ meta[p].current = 0
        BY <1>1, <1>9, <3>3 DEF Wrap, LocalSound
      <4>2. m = [meta[p] EXCEPT !.versions = <<v>>, !.current = 1]
        BY <3>3, <4>1 DEF Install, Generating
      <4>3. m.versions = <<v>> /\ m.current = 1 /\ m.state = meta[p].state
        BY <1>2, <4>2 DEF Meta
      <4> QED BY <1>2, <2>3, <3>2, <4>2, <4>3 DEF WellFormed, SameIdentity, Meta
    <3>4. CASE req[p].op = "rewrap"
      <4>1. WellFormed(meta[p])
        BY <1>1, <1>9, <3>4 DEF Wrap, LocalSound, Generating
      <4>2. m = [meta[p] EXCEPT !.versions = [meta[p].versions EXCEPT ![meta[p].current] = v]]
        BY <3>4 DEF Install
      <4>3. /\ m.versions = [meta[p].versions EXCEPT ![meta[p].current] = v]
            /\ m.current = meta[p].current /\ m.state = meta[p].state
            /\ SameIdentity(m, meta[p])
        BY <1>2, <4>2 DEF Meta, SameIdentity
      <4>4. Len(m.versions) = Len(meta[p].versions)
        BY <2>2, <3>1, <4>3, SeqExcept
      <4>5. ASSUME NEW i \in DOMAIN m.versions
            PROVE  m.versions[i].sk # "Destroyed" /\ m.versions[i].pk # 0
        BY <2>3, <3>1, <3>2, <4>1, <4>3, <4>5 DEF WellFormed
      <4> QED BY <3>2, <4>1, <4>3, <4>4, <4>5 DEF WellFormed
    <3>5. CASE ~Generating(p) /\ req[p].op # "rewrap"
      <4>1. WellFormed(meta[p])
        BY <1>1, <1>9, <3>5 DEF Wrap, LocalSound
      <4>2. m = [meta[p] EXCEPT !.versions = Append(meta[p].versions, v),
                                !.current = meta[p].current + 1]
        BY <3>5 DEF Install
      <4>3. /\ m.versions = Append(meta[p].versions, v)
            /\ m.current = meta[p].current + 1 /\ m.state = meta[p].state
            /\ SameIdentity(m, meta[p])
        BY <1>2, <4>2 DEF Meta, SameIdentity
      <4>4. ASSUME NEW i \in DOMAIN m.versions
            PROVE  m.versions[i].sk # "Destroyed" /\ m.versions[i].pk # 0
        BY <2>2, <2>3, <3>1, <3>2, <4>1, <4>3, <4>4 DEF WellFormed
      <4>5. Len(m.versions) = m.current /\ m.current > 0
        BY <2>2, <3>1, <4>1, <4>3 DEF WellFormed
      <4> QED BY <3>2, <4>3, <4>4, <4>5 DEF WellFormed
    <3> QED BY <3>3, <3>4, <3>5
  <2> HIDE DEF m
  <2>6. TypeOK'
    BY <1>1, <2>2, <2>4 DEF TypeOK
  <2>7. LocalSound(p)'
    <3>1. pc[p] = "wrap" /\ pc'[p] = "put" /\ req'[p] = req[p] /\ meta'[p] = m
      BY <1>1, <1>9, <2>4 DEF TypeOK, Wrap
    <3>2. MayWrite(req[p].key, meta[p]) /\ (file[req[p].key] = "absent" <=> Generating(p))
      BY <1>1, <3>1 DEF LocalSound
    <3>3. MayWrite(req[p].key, meta[p])' /\ (Generating(p)' <=> Generating(p))
      BY <2>4, <2>5, <3>1, <3>2 DEF MayWrite, SameIdentity, ParentFits, Generating
    <3> QED BY <1>1, <1>2, <2>4, <2>5, <3>1, <3>2, <3>3
            DEF LocalSound, SameIdentity, WellFormed
  <2> QED BY <1>1, <1>3, <1>7, <1>8, <2>4, <2>6, <2>7 DEF TypeOK
<1>10. CASE WrapFails(p) \/ PutFails(p)
  <2>1. Return(p) /\ UNCHANGED <<file, store, minted, blobs, sealed, queue, snap, errors>>
    BY <1>10 DEF WrapFails, PutFails
  <2>2. TypeOK'
    BY <1>1, <2>1, ReturnType DEF TypeOK
  <2> QED BY <1>3, <1>5, <1>7, <1>8, <2>1, <2>2
<1>11. CASE ZeroFile(p)
  <2>1. /\ pc[p] = "zero" /\ file' = [file EXCEPT ![req[p].key] = "zeroed"]
        /\ pc' = [pc EXCEPT ![p] = "put"] /\ req[p].key \in KeyId
        /\ UNCHANGED <<store, minted, blobs, sealed, req, meta, fresh, queue, snap, errors>>
    BY <1>2, <1>11 DEF ZeroFile
  <2>2. file[req[p].key] # "absent" /\ ~Generating(p)
    BY <1>1, <2>1 DEF LocalSound, StructInv, IdleNotGenerating
  <2>3. /\ \A j \in KeyId : j # req[p].key => file'[j] = file[j]
        /\ file'[req[p].key] = "zeroed"
    BY <1>1, <2>1 DEF TypeOK
  <2>4. TypeOK'
    BY <1>1, <2>1 DEF TypeOK
  <2>5. KeepsIdentity /\ HierarchySound' /\ RecordsWellFormed'
    BY <1>1, <2>1, <2>2, <2>3
    DEF KeepsIdentity, HierarchySound, RecordsWellFormed, ParentFits, TypeOK
  <2>6. LocalSound(p)'
    <3>1. pc'[p] = "put" /\ WellFormed(meta[p]) /\ SameIdentity(meta[p], store[req[p].key])
      BY <1>1, <2>1, <2>2 DEF LocalSound, MayWrite, TypeOK
    <3>2. MayWrite(req[p].key, meta[p])' /\ ~Generating(p)'
      BY <2>1, <2>2, <2>3, <3>1 DEF MayWrite, SameIdentity, Generating
    <3>3. \A c \in snap[p] : /\ file'[c.key] # "absent"
                              /\ SameIdentity(c.meta, store[c.key])
                              /\ WellFormed(c.meta)
      BY <1>1, <2>5 DEF LocalSound, KeepsIdentity, TypeOK, Listed
    <3> QED BY <1>2, <2>1, <2>3, <3>1, <3>2, <3>3 DEF LocalSound, SameIdentity, WellFormed
  <2> QED BY <1>1, <1>4, <1>7, <2>1, <2>2, <2>3, <2>4, <2>5, <2>6 DEF TypeOK
\* Both outcomes of a put that takes effect.
<1>12. ASSUME pc[p] = "put", Write(req[p].key, meta[p])
       PROVE  /\ KeepsIdentity /\ HierarchySound' /\ RecordsWellFormed'
              /\ file' \in [KeyId -> {"absent", "json", "zeroed"}]
              /\ store' \in [KeyId -> Meta]
              /\ \A q \in Proc : q # p /\ pc[q] \in {"wrap", "put"} /\ Generating(q) =>
                   file'[req[q].key] = "absent"
  <2>1. MayWrite(req[p].key, meta[p]) /\ WellFormed(meta[p]) /\ req[p].key \in KeyId
    BY <1>1, <1>2, <1>12 DEF LocalSound
  <2>2. \A j \in KeyId : j # req[p].key => file'[j] = file[j]
    BY <1>1, <1>12 DEF Write, TypeOK
  <2> QED BY <1>1, <1>2, <1>4, <1>12, <2>1, <2>2, WriteStruct, WriteType
<1>13. CASE PutUnacknowledged(p)
  <2>1. /\ pc[p] = "put" /\ Write(req[p].key, meta[p]) /\ Return(p)
        /\ UNCHANGED <<minted, blobs, sealed, queue, snap, errors>>
    BY <1>13 DEF PutUnacknowledged
  <2>2. TypeOK'
    BY <1>1, <1>12, <2>1, ReturnType DEF TypeOK
  <2> QED BY <1>5, <1>7, <1>12, <2>1, <2>2
<1>14. CASE Put(p)
  <2>1. /\ pc[p] = "put" /\ Write(req[p].key, meta[p]) /\ req[p].key \in KeyId
        /\ UNCHANGED <<minted, snap, errors>>
    BY <1>2, <1>14 DEF Put
  <2>2. BlobOf(p) \in [key : KeyId, ver : Nat, pk : Nat]
    <3>1. WellFormed(meta[p]) /\ meta[p].versions \in Seq(Version) /\ meta[p].current \in Nat
      BY <1>1, <1>2, <2>1 DEF LocalSound, Meta
    <3>2. Current(meta[p]) \in Version
      BY <3>1 DEF WellFormed, Current
    <3> QED BY <2>1, <3>1, <3>2 DEF BlobOf, Version
  <2>3. /\ blobs' \subseteq [key : KeyId, ver : Nat, pk : Nat]
        /\ sealed' \in [KeyId -> Nat]
    <3>1. blobs' = blobs \cup {BlobOf(p)} \/ blobs' = blobs
      BY <1>14 DEF Put
    <3>2. sealed' = [sealed EXCEPT ![req[p].key] = @ + 1] \/ sealed' = sealed
      BY <1>14 DEF Put
    <3>3. blobs' \subseteq [key : KeyId, ver : Nat, pk : Nat]
      BY <1>1, <2>2, <3>1 DEF TypeOK
    <3>4. sealed' \in [KeyId -> Nat]
      <4>1. [sealed EXCEPT ![req[p].key] = @ + 1] \in [KeyId -> Nat]
        BY <1>1, <2>1 DEF TypeOK
      <4> QED BY <1>1, <3>2, <4>1 DEF TypeOK
    <3> QED BY <3>3, <3>4
  <2>4. CASE req[p].op = "revoke_cascade"
    <3>1. /\ pc' = [pc EXCEPT ![p] = "cascade"] /\ queue' = [queue EXCEPT ![p] = <<req[p].key>>]
          /\ UNCHANGED <<req, meta, fresh>>
      BY <1>14, <2>4 DEF Put
    <3>2. <<req[p].key>> \in Seq(KeyId)
      BY <2>1
    <3>3. TypeOK'
      BY <1>1, <1>12, <2>1, <2>3, <3>1, <3>2 DEF TypeOK
    <3>4. pc'[p] = "cascade" /\ req'[p] = req[p] /\ ~Generating(p)'
      BY <1>1, <2>4, <3>1 DEF TypeOK, Generating
    <3>5. \A c \in snap[p] : /\ file'[c.key] # "absent"
                              /\ SameIdentity(c.meta, store'[c.key])
                              /\ WellFormed(c.meta)
      BY <1>1, <1>12, <2>1 DEF LocalSound, KeepsIdentity, SameIdentity, TypeOK, Listed
    <3>6. LocalSound(p)'
      BY <1>2, <2>1, <3>4, <3>5 DEF LocalSound, SameIdentity, WellFormed
    <3> QED BY <1>7, <1>12, <2>1, <3>3, <3>4, <3>6
  <2>5. CASE req[p].op # "revoke_cascade"
    <3>1. Return(p) /\ UNCHANGED queue
      BY <1>14, <2>5 DEF Put
    <3>2. TypeOK'
      BY <1>1, <1>12, <2>1, <2>3, <3>1, ReturnType DEF TypeOK
    <3> QED BY <1>5, <1>7, <1>12, <2>1, <3>1, <3>2
  <2> QED BY <2>4, <2>5
<1>15. CASE CascadeAborts(p) \/ CascadeDone(p)
  <2>1. /\ Return(p) /\ queue' = [queue EXCEPT ![p] = <<>>]
        /\ snap' = [snap EXCEPT ![p] = {}] /\ errors' = [errors EXCEPT ![p] = {}]
        /\ UNCHANGED <<file, store, minted, blobs, sealed>>
    BY <1>15 DEF CascadeAborts, CascadeDone, EndCascade
  <2>2. TypeOK'
    BY <1>1, <2>1, ReturnType DEF TypeOK
  <2>3. snap'[p] \subseteq snap[p]
    BY <1>1, <2>1 DEF TypeOK
  <2> QED BY <1>3, <1>5, <1>7, <1>8, <2>1, <2>2, <2>3
\* In the cascade p's only obligation is what it has listed.
<1>16. ASSUME pc[p] = "cascade", UNCHANGED <<pc, req, meta, fresh>>,
              \A c \in snap'[p] : /\ file'[c.key] # "absent"
                                  /\ SameIdentity(c.meta, store'[c.key])
                                  /\ WellFormed(c.meta)
       PROVE  LocalSound(p)' /\ ~Generating(p)'
  <2>1. ~Generating(p)'
    BY <1>16 DEF StructInv, IdleNotGenerating, Generating
  <2> QED BY <1>2, <1>16, <2>1 DEF LocalSound, SameIdentity, WellFormed
<1>17. \A c \in snap[p] : /\ c.key \in KeyId /\ c.meta \in Meta /\ file[c.key] # "absent"
                           /\ SameIdentity(c.meta, store[c.key])
                           /\ WellFormed(c.meta)
  BY <1>1 DEF LocalSound, TypeOK, Listed
<1>18. CASE CascadeList(p)
  <2>1. /\ pc[p] = "cascade" /\ queue' = [queue EXCEPT ![p] = Popped(queue[p])]
        /\ queue[p] # <<>>
        /\ UNCHANGED <<file, store, minted, blobs, sealed, pc, req, meta, fresh, errors>>
    BY <1>18 DEF CascadeList, InCascade
  <2>2. PICK k : snap' = [snap EXCEPT ![p] = {[key |-> j, meta |-> store[j]] : j \in ChildrenOf(k)}]
    BY <1>18 DEF CascadeList
  <2>3. snap'[p] = {[key |-> j, meta |-> store[j]] : j \in ChildrenOf(k)}
    BY <1>1, <2>2 DEF TypeOK
  <2>4. \A j \in ChildrenOf(k) : j \in KeyId /\ file[j] # "absent" /\ store[j] \in Meta
                                /\ WellFormed(store[j])
    BY <1>1 DEF ChildrenOf, Readable, TypeOK, RecordsWellFormed
  <2>5. \A c \in snap'[p] : /\ c \in Listed /\ file'[c.key] # "absent"
                             /\ SameIdentity(c.meta, store'[c.key])
                             /\ WellFormed(c.meta)
    BY <2>1, <2>3, <2>4 DEF Listed, SameIdentity
  <2>6. Popped(queue[p]) \in Seq(KeyId)
    BY <1>1, <2>1 DEF Popped, TypeOK
  <2>7. snap' \in [Proc -> SUBSET Listed]
    BY <1>1, <2>2, <2>3, <2>5 DEF TypeOK
  <2>8. TypeOK'
    BY <1>1, <2>1, <2>6, <2>7 DEF TypeOK
  <2> QED BY <1>3, <1>7, <1>8, <1>16, <2>1, <2>5, <2>8
<1>19. CASE \E c \in snap[p] : CascadeSkips(p, c) \/ CascadeReports(p, c)
  <2>1. PICK c \in snap[p] : CascadeSkips(p, c) \/ CascadeReports(p, c)
    BY <1>19
  <2>2. /\ pc[p] = "cascade" /\ snap' = [snap EXCEPT ![p] = @ \ {c}]
        /\ UNCHANGED <<file, store, minted, blobs, sealed, pc, req, meta, fresh, queue>>
        /\ errors' = errors \/ errors' = [errors EXCEPT ![p] = @ \cup {c.key}]
    BY <2>1 DEF CascadeSkips, CascadeReports, InCascade, Visited
  <2>3. snap'[p] \subseteq snap[p] /\ snap' \in [Proc -> SUBSET Listed]
    BY <1>1, <2>2 DEF TypeOK
  <2>4. TypeOK'
    <3>1. errors' \in [Proc -> SUBSET KeyId]
      <4>1. [errors EXCEPT ![p] = @ \cup {c.key}] \in [Proc -> SUBSET KeyId]
        BY <1>1, <1>17 DEF TypeOK
      <4> QED BY <1>1, <2>2, <4>1 DEF TypeOK
    <3> QED BY <1>1, <2>2, <2>3, <3>1 DEF TypeOK
  <2> QED BY <1>3, <1>7, <1>8, <1>16, <1>17, <2>2, <2>3, <2>4
<1>20. CASE \E c \in snap[p] : CascadeSuspends(p, c) \/ CascadeUnacknowledged(p, c)
  <2>1. PICK c \in snap[p] : CascadeSuspends(p, c) \/ CascadeUnacknowledged(p, c)
    BY <1>20
  <2> DEFINE m == [c.meta EXCEPT !.state = "Suspended"]
  <2>2. /\ pc[p] = "cascade" /\ snap' = [snap EXCEPT ![p] = @ \ {c}]
        /\ UNCHANGED <<minted, blobs, sealed, pc, req, meta, fresh>>
        /\ errors' = errors \/ errors' = [errors EXCEPT ![p] = @ \cup {c.key}]
        /\ queue' = queue \/ queue' = [queue EXCEPT ![p] = Append(@, c.key)]
        /\ Write(c.key, m) /\ Suspendable(c.meta)
    BY <2>1 DEF CascadeSuspends, CascadeUnacknowledged, InCascade, Visited
  <2>3. m \in Meta /\ WellFormed(m) /\ SameIdentity(m, store[c.key])
    <3>1. c.meta.state # "Destroyed"
      BY <2>2 DEF Suspendable, CanTransition, ValidTransitions
    <3> QED BY <1>17, <3>1 DEF Meta, WellFormed, SameIdentity, KeyState
  <2> HIDE DEF m
  <2>4. MayWrite(c.key, m) /\ c.key \in KeyId /\ file[c.key] # "absent"
    BY <1>17, <2>3 DEF MayWrite
  <2>5. KeepsIdentity /\ HierarchySound' /\ RecordsWellFormed'
    BY <1>1, <2>2, <2>3, <2>4, WriteStruct
  <2>6. snap'[p] \subseteq snap[p] /\ snap' \in [Proc -> SUBSET Listed]
    BY <1>1, <2>2 DEF TypeOK
  <2>7. TypeOK'
    <3>1. errors' \in [Proc -> SUBSET KeyId]
      <4>1. [errors EXCEPT ![p] = @ \cup {c.key}] \in [Proc -> SUBSET KeyId]
        BY <1>1, <2>4 DEF TypeOK
      <4> QED BY <1>1, <2>2, <4>1 DEF TypeOK
    <3>2. queue' \in [Proc -> Seq(KeyId)]
      <4>1. [queue EXCEPT ![p] = Append(@, c.key)] \in [Proc -> Seq(KeyId)]
        BY <1>1, <2>4 DEF TypeOK
      <4> QED BY <1>1, <2>2, <4>1 DEF TypeOK
    <3>3. file' \in [KeyId -> {"absent", "json", "zeroed"}] /\ store' \in [KeyId -> Meta]
      BY <1>1, <2>2, <2>3, <2>4, WriteType
    <3> QED BY <1>1, <2>2, <2>6, <3>1, <3>2, <3>3 DEF TypeOK
  <2>8. \A d \in snap'[p] : /\ file'[d.key] # "absent"
                             /\ SameIdentity(d.meta, store'[d.key])
                             /\ WellFormed(d.meta)
    BY <1>17, <2>5, <2>6 DEF KeepsIdentity, SameIdentity
  <2>9. \A j \in KeyId : j # c.key => file'[j] = file[j]
    BY <1>1, <2>2 DEF Write, TypeOK
  <2> QED BY <1>4, <1>7, <1>16, <2>2, <2>4, <2>5, <2>7, <2>8, <2>9
<1> QED BY <1>9, <1>10, <1>11, <1>13, <1>14, <1>15, <1>18, <1>19, <1>20, <1>3
        DEF Continue, Fault

LEMMA NextStruct == StructInv /\ [Next]_vars => StructInv' /\ KeepsIdentity
<1> SUFFICES ASSUME StructInv, [Next]_vars PROVE StructInv' /\ KeepsIdentity
  OBVIOUS
<1> USE DEF disk, history, local, walk
<1>1. ASSUME UNCHANGED <<file, store>> PROVE KeepsIdentity
  BY <1>1 DEF KeepsIdentity
<1>2. ASSUME NEW p \in Proc, NEW r \in Requests, Begin(p, r) PROVE StructInv' /\ KeepsIdentity
  <2>1. UNCHANGED <<file, store>>
    BY <1>2 DEF Begin, Generate, GenerateSigningKey, Create, Activate, Rotate, Rewrap, Revoke,
                RevokeCascade, Expire, Destroy, Encrypt, StartOn, Start
  <2> QED BY <1>1, <1>2, <2>1, BeginStruct
<1>3. CASE Crash
  <2>1. UNCHANGED <<file, store>>
    BY <1>3 DEF Crash
  <2>2. TypeOK'
    BY <1>3, NothingTypes DEF StructInv, TypeOK, Crash
  <2>3. HierarchySound' /\ RecordsWellFormed'
    BY <2>1 DEF StructInv, HierarchySound, RecordsWellFormed, ParentFits
  <2>4. ASSUME NEW p \in Proc PROVE LocalSound(p)'
    BY <1>3 DEF Crash, LocalSound
  <2>5. GenerationsApart' /\ IdleNotGenerating'
    BY <1>3 DEF Crash, GenerationsApart, IdleNotGenerating, Generating, NoRequest, Call
  <2> QED BY <1>1, <2>1, <2>2, <2>3, <2>4, <2>5 DEF StructInv
<1>4. CASE UNCHANGED vars
  <2>1. TypeOK' /\ HierarchySound' /\ RecordsWellFormed' /\ GenerationsApart'
        /\ IdleNotGenerating'
    BY <1>4 DEF StructInv, TypeOK, HierarchySound, RecordsWellFormed, ParentFits,
                GenerationsApart, IdleNotGenerating, Generating, vars
  <2>2. ASSUME NEW p \in Proc PROVE LocalSound(p)'
    BY <1>4 DEF StructInv, LocalSound, MayWrite, ParentFits, SameIdentity, Generating, vars
  <2> QED BY <1>1, <1>4, <2>1, <2>2 DEF StructInv, vars
<1> QED BY <1>2, <1>3, <1>4, ContinueStruct DEF Next

(* The records on disk and every process's copies are well typed, whatever   *)
(* the callers ask and however their storage calls interleave.               *)
THEOREM TypeCorrect == Spec => []TypeOK
<1>1. StructInv => TypeOK
  BY DEF StructInv
<1> QED BY <1>1, InitStruct, NextStruct, PTL DEF Spec

(* The stored hierarchy is the one can_wrap declares, for any interleaving of *)
(* generate with the other operations: check, wrap and put are three steps.  *)
THEOREM HierarchyCorrect == Spec => []HierarchySound
<1>1. StructInv => HierarchySound
  BY DEF StructInv
<1> QED BY <1>1, InitStruct, NextStruct, PTL DEF Spec

(* A stored record is never a mixture of live and purged material, even when *)
(* destroy, rotate, rewrap and encrypt race on it.                           *)
THEOREM RecordsCorrect == Spec => []RecordsWellFormed
<1>1. StructInv => RecordsWellFormed
  BY DEF StructInv
<1> QED BY <1>1, InitStruct, NextStruct, PTL DEF Spec

(* No operation, however stale its copy, changes a stored key's type, parent  *)
(* or (therefore) domain, nor removes the key.                               *)
THEOREM IdentityCorrect == Spec => IdentityFixed
<1>1. StructInv /\ [Next]_vars => [KeepsIdentity]_vars
  BY NextStruct
<1> QED BY <1>1, InitStruct, NextStruct, PTL DEF Spec, IdentityFixed

-----------------------------------------------------------------------------
(* What the engine guarantees when calls do not overlap: the lifecycle is   *)
(* followed, no ciphertext and no wrapped key loses the keypair it needs,   *)
(* and usage is accounted for.  Crashes, failed puts and puts that fail     *)
(* after they took effect are included.  The hypothesis OneCaller cannot be *)
(* dropped: of two overlapping calls the later put writes back a copy that  *)
(* knows nothing of the earlier one.                                        *)

OneCaller == \A p, q \in Proc : p = q

\* What may be written over a stored record.
KeepsKeypairs(old, new) ==
  new.state # "Destroyed" =>
    \A i \in DOMAIN old.versions :
      /\ i \in DOMAIN new.versions
      /\ new.versions[i].pk = old.versions[i].pk
      /\ new.versions[i].kind = old.versions[i].kind

Supersedes(k, new) ==
  file[k] # "absent" =>
    /\ LifecycleEdge(store[k].state, new.state)
    /\ KeepsKeypairs(store[k], new)
    /\ store[k].usage <= new.usage

\* What a step does to the stored records.
KeypairsKept ==
  \A k \in KeyId : file[k] # "absent" => KeepsKeypairs(store[k], store'[k])

Follows == FollowsLifecycle /\ KeypairsKept

\* Only the first version of a key can be for signing: rotate always makes a
\* KEM keypair.
VersionsIntact(m) ==
  \A i \in DOMAIN m.versions :
    /\ WrapIntactIn(m.versions[i])
    /\ m.versions[i].kind = "dsa" => i = 1

StoreIntact == \A k \in KeyId : VersionsIntact(store[k])

SerialLocal(p) ==
  /\ pc[p] # "cascade" => snap[p] = {}
  /\ pc[p] \in {"wrap", "zero", "put"} =>
       /\ Supersedes(req[p].key, meta[p])
       /\ VersionsIntact(meta[p])
       /\ meta[p].usage <= UsageLimit[req[p].key]
  /\ pc[p] = "wrap" /\ req[p].op = "rewrap" =>
       fresh[p].pk = Current(meta[p]).pk /\ fresh[p].kind = Current(meta[p]).kind
  /\ pc[p] = "wrap" /\ req[p].op \notin {"rewrap", "generate"} => fresh[p].kind = "kem"
  /\ pc[p] \in {"wrap", "zero", "put"} /\ req[p].op = "encrypt" =>
       /\ meta[p].state = "Active"
       /\ store[req[p].key].usage < meta[p].usage
  /\ \A c \in snap[p] : c.meta = store[c.key]

AbsentUnused ==
  \A k \in KeyId : file[k] = "absent" =>
    /\ sealed[k] = 0
    /\ store[k].usage = 0
    /\ store[k].versions = <<>>
    /\ \A b \in blobs : b.key # k

SerialInv ==
  /\ CiphertextKeyRetained
  /\ StoreIntact
  /\ UsageAccounted
  /\ AbsentUnused
  /\ \A p \in Proc : SerialLocal(p)

LEMMA InitSerial == Init => SerialInv
<1> SUFFICES ASSUME Init PROVE SerialInv
  OBVIOUS
<1>1. ASSUME NEW k \in KeyId, IsProvisioned(k)
      PROVE  \E r \in Provisioned : r.key = k /\ store[k] = ProvisionedMeta(r)
  BY <1>1 DEF IsProvisioned, ProvisionedRequest, Init
<1>2. ASSUME NEW r \in Provisioned
      PROVE  store[r.key] = ProvisionedMeta(r) /\ file[r.key] = "json" /\ r.key \in KeyId
  <2>1. r.key \in KeyId /\ IsProvisioned(r.key)
    BY KeystoreConstants DEF Request, IsProvisioned
  <2> QED BY <1>1, <2>1, KeystoreConstants DEF Init, ProvisionedWellFounded
<1>3. ASSUME NEW k \in KeyId, ~IsProvisioned(k)
      PROVE  store[k].usage = 0 /\ store[k].versions = <<>>
  BY <1>3 DEF Init, NoMeta, Blank
<1>4. \A k \in KeyId : store[k].usage = 0 /\ sealed[k] = 0 /\ UsageLimit[k] \in Nat
  BY <1>1, <1>3, KeystoreConstants DEF Init, ProvisionedMeta
<1>5. UsageAccounted
  BY <1>4 DEF UsageAccounted
<1>6. StoreIntact
  <2> SUFFICES ASSUME NEW k \in KeyId, NEW i \in DOMAIN store[k].versions
               PROVE  WrapIntactIn(store[k].versions[i]) /\ i = 1
    BY DEF StoreIntact, VersionsIntact
  <2>1. IsProvisioned(k)
    BY <1>3
  <2>2. PICK r \in Provisioned : store[k] = ProvisionedMeta(r)
    BY <1>1, <2>1
  <2>3. store[k].versions[i] = ProvisionedVersion(r) /\ i = 1
    BY <2>2 DEF ProvisionedMeta
  <2>4. CASE r.type \in {"Root", "Domain"}
    BY <2>3, <2>4 DEF ProvisionedVersion, Keypair, WrapIntactIn
  <2>5. CASE r.type \notin {"Root", "Domain"}
    <3>1. PICK s \in Provisioned : s.key = r.parent
      BY <2>5, KeystoreConstants DEF ProvisionedWellFounded
    <3>2. store[s.key] = ProvisionedMeta(s) /\ file[s.key] = "json" /\ s.key \in KeyId
      BY <1>2
    <3>5. store[s.key].versions = <<ProvisionedVersion(s)>>
      BY <3>2 DEF ProvisionedMeta
    <3>3. ProvisionedVersion(s).pk = 1
      BY DEF ProvisionedVersion, Keypair
    <3>4. /\ ProvisionedVersion(r).by = s.key /\ ProvisionedVersion(r).byVer = 1
          /\ ProvisionedVersion(r).byPk = 1
      BY <2>5, <3>1 DEF ProvisionedVersion, Keypair
    <3> QED BY <2>3, <3>2, <3>3, <3>4, <3>5 DEF WrapIntactIn
  <2> QED BY <2>4, <2>5
<1>7. AbsentUnused
  BY <1>3, <1>4 DEF Init, AbsentUnused
<1>8. CiphertextKeyRetained
  BY DEF Init, CiphertextKeyRetained
<1>9. ASSUME NEW p \in Proc PROVE SerialLocal(p)
  BY DEF Init, SerialLocal
<1> QED BY <1>5, <1>6, <1>7, <1>8, <1>9 DEF SerialInv

\* A version whose wrapping is intact stays so across a legal write.
LEMMA IntactStays ==
  ASSUME TypeOK, NEW k \in KeyId, NEW m \in Meta, Write(k, m), Supersedes(k, m),
         NEW v, WrapIntactIn(v)
  PROVE  WrapIntactIn(v)'
<1>1. /\ \A j \in KeyId : j # k => store'[j] = store[j] /\ file'[j] = file[j]
      /\ store'[k] = m /\ file'[k] = "json"
  BY DEF TypeOK, Write
<1>2. CASE v.sk = "CitadelWrapped" /\ v.by = k
  <2>1. file[k] # "absent"
    BY <1>2 DEF WrapIntactIn
  <2>2. ASSUME m.state # "Destroyed" PROVE store[k].state # "Destroyed"
    BY <2>1, <2>2 DEF Supersedes, LifecycleEdge, CanTransition, ValidTransitions
  <2> QED BY <1>1, <1>2, <2>1, <2>2 DEF WrapIntactIn, Supersedes, KeepsKeypairs
<1>3. CASE ~(v.sk = "CitadelWrapped" /\ v.by = k)
  BY <1>1, <1>3 DEF WrapIntactIn
<1> QED BY <1>2, <1>3

\* The effect of a legal write on the shared state.
LEMMA WriteSerial ==
  ASSUME StructInv, SerialInv, NEW k \in KeyId, NEW m \in Meta, Write(k, m),
         Supersedes(k, m), VersionsIntact(m), m.usage <= UsageLimit[k]
  PROVE  /\ Follows
         /\ StoreIntact'
         /\ \A b \in blobs : Retains(b)'
         /\ \A j \in KeyId : sealed[j] <= store'[j].usage /\ store'[j].usage <= UsageLimit[j]
<1>1. /\ \A j \in KeyId : j # k => store'[j] = store[j] /\ file'[j] = file[j]
      /\ store'[k] = m /\ file'[k] = "json"
  BY DEF StructInv, TypeOK, Write
<1>2. Follows
  <2>1. FollowsLifecycle
    BY <1>1 DEF FollowsLifecycle, Supersedes, LifecycleEdge
  <2>2. \A n : KeepsKeypairs(n, n)
    BY DEF KeepsKeypairs
  <2>3. KeypairsKept
    BY <1>1, <2>2 DEF KeypairsKept, Supersedes
  <2> QED BY <2>1, <2>3 DEF Follows
<1>3. StoreIntact'
  <2> SUFFICES ASSUME NEW j \in KeyId, NEW i \in DOMAIN store'[j].versions
               PROVE  (WrapIntactIn(store[j].versions[i])
                         /\ (store[j].versions[i].kind = "dsa" => i = 1))'
    BY DEF StoreIntact, VersionsIntact
  <2>1. PICK v : v = store'[j].versions[i]
    OBVIOUS
  <2>2. WrapIntactIn(v) /\ (v.kind = "dsa" => i = 1)
    BY <1>1, <2>1 DEF SerialInv, StoreIntact, VersionsIntact
  <2>3. WrapIntactIn(v)'
    BY <2>2, IntactStays DEF StructInv
  <2> QED BY <2>1, <2>2, <2>3 DEF WrapIntactIn
<1>4. ASSUME NEW b \in blobs PROVE Retains(b)'
  <2>1. b.key \in KeyId /\ Retains(b)
    BY DEF StructInv, TypeOK, SerialInv, CiphertextKeyRetained
  <2>2. CASE b.key = k
    <3>1. file[k] # "absent"
      BY <2>2 DEF SerialInv, AbsentUnused
    <3>2. ASSUME m.state # "Destroyed" PROVE store[k].state # "Destroyed"
      BY <3>1, <3>2 DEF Supersedes, LifecycleEdge, CanTransition, ValidTransitions
    <3> QED BY <1>1, <2>1, <2>2, <3>1, <3>2 DEF Retains, Supersedes, KeepsKeypairs
  <2>3. CASE b.key # k
    BY <1>1, <2>1, <2>3 DEF Retains
  <2> QED BY <2>2, <2>3
<1>5. ASSUME NEW j \in KeyId
      PROVE  sealed[j] <= store'[j].usage /\ store'[j].usage <= UsageLimit[j]
  <2>1. /\ sealed[j] <= store[j].usage /\ store[j].usage <= UsageLimit[j]
        /\ sealed[j] \in Nat /\ store[j].usage \in Nat /\ m.usage \in Nat
    BY DEF SerialInv, UsageAccounted, StructInv, TypeOK, Meta
  <2>2. file[k] = "absent" => sealed[k] = 0
    BY DEF SerialInv, AbsentUnused
  <2> QED BY <1>1, <2>1, <2>2 DEF Supersedes
<1> QED BY <1>2, <1>3, <1>4, <1>5

\* What the shared part of SerialInv needs when the store is not written.
LEMMA UnwrittenSerial ==
  ASSUME SerialInv, UNCHANGED <<file, store, blobs, sealed>>
  PROVE  CiphertextKeyRetained' /\ StoreIntact' /\ UsageAccounted' /\ AbsentUnused'
<1>2. StoreIntact'
  BY DEF SerialInv, StoreIntact, VersionsIntact, WrapIntactIn
<1>3. CiphertextKeyRetained'
  BY DEF SerialInv, CiphertextKeyRetained, Retains
<1> QED BY <1>2, <1>3 DEF SerialInv, UsageAccounted, AbsentUnused

LEMMA BeginSerial ==
  ASSUME OneCaller, StructInv, SerialInv, NEW p \in Proc, NEW r \in Requests, Begin(p, r)
  PROVE  SerialInv'
<1> USE DEF disk, walk
<1>1. r.key \in KeyId /\ store[r.key] \in Meta /\ UsageLimit[r.key] \in Nat
  BY KeystoreConstants DEF Request, StructInv, TypeOK
<1>2. UNCHANGED <<file, store, blobs, sealed, snap>> /\ pc[p] = "idle"
  BY DEF Begin, Generate, GenerateSigningKey, Create, Activate, Rotate, Rewrap, Revoke,
         RevokeCascade, Expire, Destroy, Encrypt, StartOn, Start
<1>3. CiphertextKeyRetained' /\ StoreIntact' /\ UsageAccounted' /\ AbsentUnused'
  BY <1>2, UnwrittenSerial
<1>4. snap[p] = {}
  BY <1>2 DEF SerialInv, SerialLocal
\* It is enough that the local copy supersedes the record it was read from.
<1>5. ASSUME NEW op, NEW stage \in {"wrap", "zero", "put"}, NEW m, Start(p, r, op, stage, m),
             Supersedes(r.key, m), VersionsIntact(m), m.usage <= UsageLimit[r.key],
             op = "rewrap" => fresh'[p].pk = Current(m).pk /\ fresh'[p].kind = Current(m).kind,
             stage = "wrap" /\ op \notin {"rewrap", "generate"} => fresh'[p].kind = "kem",
             op = "encrypt" => m.state = "Active" /\ store[r.key].usage < m.usage
      PROVE  SerialInv'
  <2>1. pc'[p] = stage /\ req'[p] = r /\ meta'[p] = m /\ r.op = op
    BY <1>5 DEF Start, StructInv, TypeOK
  <2>2. Supersedes(r.key, m)' /\ VersionsIntact(m)'
    BY <1>2, <1>5 DEF Supersedes, VersionsIntact, WrapIntactIn, KeepsKeypairs
  <2>3. SerialLocal(p)'
    BY <1>2, <1>4, <1>5, <2>1, <2>2
    DEF SerialLocal, Current, Supersedes, VersionsIntact, WrapIntactIn, KeepsKeypairs
  <2> QED BY <1>3, <2>3 DEF SerialInv, OneCaller
<1>6. VersionsIntact(store[r.key]) /\ store[r.key].usage <= UsageLimit[r.key]
  BY <1>1 DEF SerialInv, StoreIntact, VersionsIntact, UsageAccounted
<1>7. store[r.key].usage \in Nat
  BY <1>1 DEF Meta
<1>8. ASSUME NEW s, CanTransition(store[r.key].state, s)
      PROVE  LET n == [store[r.key] EXCEPT !.state = s]
             IN  Supersedes(r.key, n) /\ VersionsIntact(n) /\ n.usage <= UsageLimit[r.key]
  BY <1>1, <1>6, <1>7, <1>8
  DEF Supersedes, LifecycleEdge, KeepsKeypairs, VersionsIntact, Meta
<1>9. Supersedes(r.key, store[r.key])
  BY <1>7 DEF Supersedes, LifecycleEdge, KeepsKeypairs
<1>10. CASE Generate(p, r) \/ GenerateSigningKey(p, r)
  <2> DEFINE n == Blank(r.type, r.parent)
  <2>1. Supersedes(r.key, n) /\ VersionsIntact(n) /\ n.usage <= UsageLimit[r.key]
    BY <1>1, <1>10
    DEF Generate, GenerateSigningKey, Create, IsFreshId, Supersedes, Blank, VersionsIntact
  <2> QED BY <1>5, <1>10, <2>1 DEF Generate, GenerateSigningKey, Create
<1>11. CASE Activate(p, r)
  BY <1>5, <1>8, <1>11 DEF Activate, StartOn
<1>12. CASE Rotate(p, r)
  <2>1. fresh'[p].kind = "kem"
    BY <1>12 DEF Rotate, Mint, Keypair, StructInv, TypeOK
  <2> QED BY <1>5, <1>6, <1>9, <1>12, <2>1 DEF Rotate
<1>13. CASE Rewrap(p, r)
  <2>1. fresh'[p] = Current(store[r.key])
    BY <1>13 DEF Rewrap, StructInv, TypeOK
  <2> QED BY <1>5, <1>6, <1>9, <1>13, <2>1 DEF Rewrap
<1>14. CASE Revoke(p, r)
  <2>1. CanTransition(store[r.key].state, "Revoked")
    BY <1>14 DEF Revoke, CanTransition, ValidTransitions
  <2> QED BY <1>5, <1>8, <1>14, <2>1 DEF Revoke, Revoked, StartOn
<1>15. CASE RevokeCascade(p, r)
  <2>1. CanTransition(store[r.key].state, "Revoked")
    BY <1>15 DEF RevokeCascade, CanTransition, ValidTransitions
  <2> QED BY <1>5, <1>8, <1>15, <2>1 DEF RevokeCascade, Revoked, StartOn
<1>16. CASE Expire(p, r)
  <2>1. CanTransition(store[r.key].state, "Expired")
    BY <1>16 DEF Expire, Expirable, CanTransition, ValidTransitions
  <2> QED BY <1>5, <1>8, <1>16, <2>1 DEF Expire, StartOn
<1>17. CASE Destroy(p, r)
  <2> DEFINE n == [store[r.key] EXCEPT
                     !.state = "Destroyed",
                     !.versions = [i \in DOMAIN store[r.key].versions |->
                                     Purged(store[r.key].versions[i])]]
  <2>1. Start(p, r, "destroy", "zero", n) /\ CanTransition(store[r.key].state, "Destroyed")
    BY <1>17 DEF Destroy, StartOn
  <2>2. /\ n.state = "Destroyed" /\ n.usage = store[r.key].usage
        /\ n.versions = [i \in DOMAIN store[r.key].versions |->
                           Purged(store[r.key].versions[i])]
    BY <1>1 DEF Meta
  <2>3. \A i \in DOMAIN n.versions : /\ n.versions[i].sk = "Destroyed"
                                     /\ n.versions[i].kind = "dsa" => i = 1
    <3>1. ASSUME NEW v \in Version PROVE Purged(v).sk = "Destroyed" /\ Purged(v).kind = v.kind
      BY DEF Purged, Version
    <3>2. \A i \in DOMAIN store[r.key].versions : store[r.key].versions[i] \in Version
      BY <1>1 DEF Meta
    <3> HIDE DEF n
    <3> QED BY <1>6, <2>2, <3>1, <3>2 DEF VersionsIntact
  <2> HIDE DEF n
  <2>4. VersionsIntact(n)
    BY <2>3 DEF VersionsIntact, WrapIntactIn
  <2>5. Supersedes(r.key, n) /\ n.usage <= UsageLimit[r.key]
    BY <1>6, <1>7, <2>1, <2>2 DEF Supersedes, LifecycleEdge, KeepsKeypairs
  <2> QED BY <1>5, <2>1, <2>4, <2>5
<1>18. CASE Encrypt(p, r)
  <2> DEFINE n == [store[r.key] EXCEPT !.usage = @ + 1]
  <2>1. Start(p, r, "encrypt", "put", n) /\ UnderLimit(r.key) /\ store[r.key].state = "Active"
    BY <1>18 DEF Encrypt, StartOn, CanEncrypt
  <2>2. n.state = "Active" /\ n.usage = store[r.key].usage + 1
        /\ n.versions = store[r.key].versions
    BY <1>1, <2>1 DEF Meta
  <2> HIDE DEF n
  <2>3. VersionsIntact(n)
    BY <1>6, <2>2 DEF VersionsIntact
  <2>4. Supersedes(r.key, n) /\ n.usage <= UsageLimit[r.key]
    BY <1>1, <1>7, <2>1, <2>2 DEF Supersedes, LifecycleEdge, KeepsKeypairs, UnderLimit
  <2>5. n.state = "Active" /\ store[r.key].usage < n.usage
    BY <1>7, <2>2
  <2> QED BY <1>5, <2>1, <2>3, <2>4, <2>5
<1> QED BY <1>10, <1>11, <1>12, <1>13, <1>14, <1>15, <1>16, <1>17, <1>18 DEF Begin

\* Puts and suspensions: the shared part of SerialInv after a legal write, given
\* what the step adds to the ciphertexts.
LEMMA WrittenSerial ==
  ASSUME StructInv, SerialInv, NEW k \in KeyId, NEW m \in Meta, Write(k, m),
         Supersedes(k, m), VersionsIntact(m), m.usage <= UsageLimit[k],
         UNCHANGED <<blobs, sealed>>
  PROVE  /\ Follows
         /\ CiphertextKeyRetained' /\ StoreIntact' /\ UsageAccounted' /\ AbsentUnused'
<1>1. /\ Follows /\ StoreIntact' /\ \A b \in blobs : Retains(b)'
      /\ \A j \in KeyId : sealed[j] <= store'[j].usage /\ store'[j].usage <= UsageLimit[j]
  BY WriteSerial
<1>2. CiphertextKeyRetained'
  BY <1>1 DEF CiphertextKeyRetained, Retains
<1>3. UsageAccounted'
  BY <1>1 DEF UsageAccounted
<1>4. AbsentUnused'
  <2>1. /\ \A j \in KeyId : j # k => store'[j] = store[j] /\ file'[j] = file[j]
        /\ file'[k] = "json"
    BY DEF StructInv, TypeOK, Write
  <2> QED BY <2>1 DEF SerialInv, AbsentUnused
<1> QED BY <1>1, <1>2, <1>3, <1>4

LEMMA ContinueSerial ==
  ASSUME OneCaller, StructInv, SerialInv, NEW p \in Proc, Continue(p) \/ Fault(p)
  PROVE  SerialInv' /\ Follows
<1> USE DEF disk, history, local, walk
<1>1. TypeOK /\ LocalSound(p) /\ SerialLocal(p)
  BY DEF StructInv, SerialInv
<1>2. /\ pc[p] # "idle" => req[p] \in Request /\ req[p].key \in KeyId
      /\ meta[p] \in Meta /\ fresh[p] \in Version
  BY <1>1 DEF TypeOK, LocalSound, Request
<1>3. ASSUME UNCHANGED <<file, store, blobs, sealed>>, SerialLocal(p)'
      PROVE  SerialInv' /\ Follows
  BY <1>3, UnwrittenSerial 
  DEF OneCaller, SerialInv, Follows, FollowsLifecycle, LifecycleEdge, KeypairsKept, KeepsKeypairs
<1>4. ASSUME Return(p), snap'[p] = {} PROVE SerialLocal(p)'
  BY <1>1, <1>4 DEF Return, SerialLocal, TypeOK
<1>5. pc[p] # "cascade" => snap[p] = {}
  BY <1>1 DEF SerialLocal
<1>6. CASE Wrap(p)
  <2> DEFINE v == WrapUnder(fresh[p], NewParent(p))
             m == Install(meta[p], req[p].op, v)
  <2>1. /\ pc[p] = "wrap" /\ WrapPossible(NewParent(p))
        /\ meta' = [meta EXCEPT ![p] = m] /\ pc' = [pc EXCEPT ![p] = "put"]
        /\ UNCHANGED <<file, store, minted, blobs, sealed, req, fresh, queue, snap, errors>>
    BY <1>6 DEF Wrap
  <2>2. NewParent(p) \in KeyId \cup {NoKey}
    BY <1>2, <2>1 DEF NewParent, Request, Meta
  <2>3. v \in Version /\ v.pk = fresh[p].pk /\ v.kind = fresh[p].kind
    <3>1. v \in Version
      BY <1>1, <1>2, <2>1, <2>2, WrapUnderType
    <3>2. v.pk = fresh[p].pk /\ v.kind = fresh[p].kind
      BY <1>2 DEF WrapUnder, Version
    <3> QED BY <3>1, <3>2
  <2>4. WrapIntactIn(v)
    <3>1. CASE NewParent(p) # NoKey /\ WrapsChildren(NewParent(p))
      <4>1. /\ v.by = NewParent(p) /\ v.byVer = store[NewParent(p)].current
            /\ v.byPk = Current(store[NewParent(p)]).pk
        BY <1>2, <3>1 DEF WrapUnder, Version
      <4> QED BY <2>1, <2>2, <3>1, <4>1 DEF WrapPossible, WrapIntactIn, Current, Readable
    <3>2. CASE ~(NewParent(p) # NoKey /\ WrapsChildren(NewParent(p)))
      BY <1>2, <3>2 DEF WrapUnder, WrapIntactIn, Version
    <3> QED BY <3>1, <3>2
  <2>5. /\ Supersedes(req[p].key, meta[p]) /\ VersionsIntact(meta[p])
        /\ meta[p].usage <= UsageLimit[req[p].key]
        /\ req[p].op = "rewrap" =>
             fresh[p].pk = Current(meta[p]).pk /\ fresh[p].kind = Current(meta[p]).kind
        /\ req[p].op \notin {"rewrap", "generate"} => fresh[p].kind = "kem"
        /\ req[p].op = "encrypt" => /\ meta[p].state = "Active"
                                    /\ store[req[p].key].usage < meta[p].usage
    BY <1>1, <2>1 DEF SerialLocal
  <2> HIDE DEF v
  <2>6. meta[p].versions \in Seq(Version) /\ meta[p].current \in Nat
    BY <1>2 DEF Meta
  <2>7. /\ m.state = meta[p].state /\ m.usage = meta[p].usage
        /\ \A i \in DOMAIN meta[p].versions :
             /\ i \in DOMAIN m.versions /\ m.versions[i].pk = meta[p].versions[i].pk
             /\ m.versions[i].kind = meta[p].versions[i].kind
        /\ \A i \in DOMAIN m.versions :
             \/ i \in DOMAIN meta[p].versions /\ m.versions[i] = meta[p].versions[i]
             \/ m.versions[i] = v /\ (v.kind = "dsa" => i = 1)
    <3>1. CASE req[p].op = "rewrap"
      <4>1. m = [meta[p] EXCEPT !.versions = [meta[p].versions EXCEPT ![meta[p].current] = v]]
        BY <3>1 DEF Install
      <4>2. /\ m.versions = [meta[p].versions EXCEPT ![meta[p].current] = v]
            /\ m.usage = meta[p].usage /\ m.state = meta[p].state
        BY <1>2, <4>1 DEF Meta
      <4>3. /\ v.pk = meta[p].versions[meta[p].current].pk
            /\ v.kind = meta[p].versions[meta[p].current].kind
        BY <2>3, <2>5, <3>1 DEF Current
      <4>4. meta[p].current \in DOMAIN meta[p].versions
        BY <1>1, <2>1, <2>6, <3>1 DEF LocalSound, WellFormed, Generating
      <4>5. v.kind = "dsa" => meta[p].current = 1
        BY <2>5, <4>3, <4>4 DEF VersionsIntact
      <4> QED BY <2>6, <4>2, <4>3, <4>5
    <3>2. CASE req[p].op # "rewrap"
      <4>1. m = [meta[p] EXCEPT !.versions = Append(meta[p].versions, v),
                                !.current = meta[p].current + 1]
        BY <3>2 DEF Install
      <4>2. /\ m.versions = Append(meta[p].versions, v)
            /\ m.usage = meta[p].usage /\ m.state = meta[p].state
        BY <1>2, <4>1 DEF Meta
      <4>3. v.kind = "dsa" => Len(meta[p].versions) = 0
        BY <1>1, <2>1, <2>3, <2>5, <3>2 DEF LocalSound, Generating
      <4> QED BY <2>3, <2>6, <4>2, <4>3
    <3> QED BY <3>1, <3>2
  <2> HIDE DEF m
  <2>8. Supersedes(req[p].key, m) /\ VersionsIntact(m)
    BY <2>4, <2>5, <2>7 DEF Supersedes, KeepsKeypairs, VersionsIntact
  <2>9. PICK n : n = m
    OBVIOUS
  <2>10. pc'[p] = "put" /\ req'[p] = req[p] /\ meta'[p] = n /\ snap'[p] = {}
    BY <1>1, <1>5, <2>1, <2>9 DEF TypeOK
  <2>11. SerialLocal(p)'
    <3>1. Supersedes(req[p].key, meta[p])'
      BY <2>1, <2>8, <2>9, <2>10 DEF Supersedes, KeepsKeypairs
    <3>2. VersionsIntact(meta[p])'
      <4>1. \A v1 : WrapIntactIn(v1)' = WrapIntactIn(v1)
        BY <2>1 DEF WrapIntactIn
      <4> QED BY <2>8, <2>9, <2>10, <4>1 DEF VersionsIntact
    <3> QED BY <2>1, <2>5, <2>7, <2>9, <2>10, <3>1, <3>2 DEF SerialLocal
  <2> QED BY <1>3, <2>1, <2>11
<1>7. CASE WrapFails(p) \/ PutFails(p)
  <2>1. Return(p) /\ UNCHANGED <<file, store, blobs, sealed, snap>> /\ pc[p] # "cascade"
    BY <1>7 DEF WrapFails, PutFails
  <2> QED BY <1>3, <1>4, <1>5, <2>1
<1>8. CASE ZeroFile(p)
  <2>1. /\ pc[p] = "zero" /\ file' = [file EXCEPT ![req[p].key] = "zeroed"]
        /\ pc' = [pc EXCEPT ![p] = "put"] /\ req[p].key \in KeyId
        /\ UNCHANGED <<store, minted, blobs, sealed, req, meta, fresh, queue, snap, errors>>
    BY <1>2, <1>8 DEF ZeroFile
  <2>2. file[req[p].key] # "absent"
    BY <1>1, <2>1 DEF LocalSound, StructInv, IdleNotGenerating
  <2>3. \A k \in KeyId : file'[k] = "absent" <=> file[k] = "absent"
    BY <1>1, <2>1, <2>2 DEF TypeOK
  <2>4. ASSUME NEW v, WrapIntactIn(v) PROVE WrapIntactIn(v)'
    BY <2>1, <2>3, <2>4 DEF WrapIntactIn
  <2>5. StoreIntact'
    <3>1. \A m : VersionsIntact(m) => VersionsIntact(m)'
      BY <2>4 DEF VersionsIntact
    <3> QED BY <2>1, <3>1 DEF SerialInv, StoreIntact
  <2>6. CiphertextKeyRetained' /\ UsageAccounted' /\ AbsentUnused' /\ Follows
    <3>1. CiphertextKeyRetained'
      BY <2>1, <2>3 DEF SerialInv, CiphertextKeyRetained, Retains
    <3>2. UsageAccounted' /\ AbsentUnused'
      BY <2>1, <2>3 DEF SerialInv, UsageAccounted, AbsentUnused
    <3>3. Follows
      BY <2>1, <2>3 DEF Follows, FollowsLifecycle, LifecycleEdge, KeypairsKept, KeepsKeypairs
    <3> QED BY <3>1, <3>2, <3>3
  <2>7. pc'[p] = "put" /\ snap[p] = {}
    BY <1>1, <1>5, <2>1 DEF TypeOK
  <2>8. Supersedes(req[p].key, meta[p])' /\ VersionsIntact(meta[p])'
    <3>1. Supersedes(req[p].key, meta[p])'
      BY <1>1, <2>1, <2>2 DEF SerialLocal, Supersedes, KeepsKeypairs
    <3>2. VersionsIntact(meta[p])'
      BY <1>1, <2>1, <2>4 DEF SerialLocal, VersionsIntact
    <3> QED BY <3>1, <3>2
  <2>9. SerialLocal(p)'
    BY <1>1, <2>1, <2>7, <2>8 DEF SerialLocal
  <2> QED BY <2>5, <2>6, <2>9 DEF SerialInv, OneCaller
<1>9. ASSUME pc[p] = "put"
      PROVE  /\ Supersedes(req[p].key, meta[p]) /\ VersionsIntact(meta[p])
             /\ meta[p].usage <= UsageLimit[req[p].key]
             /\ req[p].key \in KeyId /\ meta[p] \in Meta
  BY <1>1, <1>2, <1>9 DEF SerialLocal
<1>10. CASE PutUnacknowledged(p)
  <2>1. /\ pc[p] = "put" /\ Write(req[p].key, meta[p]) /\ Return(p)
        /\ UNCHANGED <<minted, blobs, sealed, queue, snap, errors>>
    BY <1>10 DEF PutUnacknowledged
  <2> QED BY <1>4, <1>5, <1>9, <2>1, WrittenSerial DEF SerialInv, OneCaller
<1>11. CASE Put(p)
  <2>1. /\ pc[p] = "put" /\ Write(req[p].key, meta[p]) /\ UNCHANGED <<minted, snap, errors>>
    BY <1>11 DEF Put
  <2>2. SerialLocal(p)'
    <3>1. snap'[p] = {}
      BY <1>5, <2>1
    <3>2. CASE req[p].op = "revoke_cascade"
      <4>1. pc'[p] = "cascade"
        BY <1>1, <1>11, <3>2 DEF Put, TypeOK
      <4> QED BY <3>1, <4>1 DEF SerialLocal
    <3>3. CASE req[p].op # "revoke_cascade"
      BY <1>4, <1>11, <3>1, <3>3 DEF Put
    <3> QED BY <3>2, <3>3
  <2>3. CASE req[p].op # "encrypt"
    <3>1. UNCHANGED <<blobs, sealed>>
      BY <1>11, <2>3 DEF Put
    <3> QED BY <1>9, <2>1, <2>2, <3>1, WrittenSerial DEF SerialInv, OneCaller
  <2>4. CASE req[p].op = "encrypt"
    <3>1. blobs' = blobs \cup {BlobOf(p)} /\ sealed' = [sealed EXCEPT ![req[p].key] = @ + 1]
      BY <1>11, <2>4 DEF Put
    <3>2. /\ Follows /\ StoreIntact' /\ \A b \in blobs : Retains(b)'
          /\ \A j \in KeyId : sealed[j] <= store'[j].usage /\ store'[j].usage <= UsageLimit[j]
      BY <1>9, <2>1, WriteSerial
    <3>3. /\ \A j \in KeyId : j # req[p].key => store'[j] = store[j] /\ file'[j] = file[j]
          /\ store'[req[p].key] = meta[p] /\ file'[req[p].key] = "json"
      BY <1>1, <1>9, <2>1 DEF TypeOK, Write
    <3>4. CiphertextKeyRetained'
      <4>1. WellFormed(meta[p]) /\ meta[p].versions \in Seq(Version) /\ meta[p].current \in Nat
        BY <1>1, <1>2, <2>1 DEF LocalSound, Meta
      <4>2. meta[p].current \in DOMAIN meta[p].versions
        BY <4>1 DEF WellFormed
      <4>3. ASSUME NEW b, b = BlobOf(p) PROVE Retains(b)'
        <5>1. /\ b.key = req[p].key /\ b.ver = meta[p].current
              /\ b.pk = meta[p].versions[meta[p].current].pk
          BY <4>3 DEF BlobOf, Current
        <5> QED BY <3>3, <4>2, <5>1 DEF Retains
      <4> QED BY <3>1, <3>2, <4>3 DEF CiphertextKeyRetained
    <3>5. UsageAccounted'
      <4>1. store[req[p].key].usage < meta[p].usage
        BY <1>1, <2>1, <2>4 DEF SerialLocal
      <4>2. sealed[req[p].key] <= store[req[p].key].usage
        BY <1>9, <2>1 DEF SerialInv, UsageAccounted
      <4>3. /\ store[req[p].key].usage \in Nat /\ meta[p].usage \in Nat
            /\ sealed[req[p].key] \in Nat
        BY <1>1, <1>9, <2>1 DEF TypeOK, Meta
      <4>4. /\ sealed'[req[p].key] = sealed[req[p].key] + 1
            /\ \A j \in KeyId : j # req[p].key => sealed'[j] = sealed[j]
        BY <1>1, <1>9, <2>1, <3>1 DEF TypeOK
      <4> QED BY <3>2, <3>3, <4>1, <4>2, <4>3, <4>4 DEF UsageAccounted
    <3>6. AbsentUnused'
      <4>1. \A j \in KeyId : j # req[p].key => sealed'[j] = sealed[j]
        BY <1>1, <1>9, <2>1, <3>1 DEF TypeOK
      <4>2. BlobOf(p).key = req[p].key
        BY DEF BlobOf
      <4> QED BY <3>1, <3>3, <4>1, <4>2 DEF SerialInv, AbsentUnused
    <3> QED BY <2>2, <3>2, <3>4, <3>5, <3>6 DEF SerialInv, OneCaller
  <2> QED BY <2>3, <2>4
<1>12. CASE CascadeAborts(p) \/ CascadeDone(p)
  <2>1. /\ Return(p) /\ snap' = [snap EXCEPT ![p] = {}]
        /\ UNCHANGED <<file, store, minted, blobs, sealed>>
    BY <1>12 DEF CascadeAborts, CascadeDone, EndCascade
  <2>2. snap'[p] = {}
    BY <1>1, <2>1 DEF TypeOK
  <2> QED BY <1>3, <1>4, <2>1, <2>2
\* In the cascade, p's copies are what the store holds.
<1>13. ASSUME pc[p] = "cascade", pc' = pc, \A c \in snap'[p] : c.meta = store'[c.key]
       PROVE  SerialLocal(p)'
  BY <1>13 DEF SerialLocal
<1>14. \A c \in snap[p] : c \in Listed /\ c.key \in KeyId /\ c.meta \in Meta
                          /\ c.meta = store[c.key] /\ file[c.key] # "absent"
  BY <1>1 DEF SerialLocal, LocalSound, TypeOK, Listed
<1>15. CASE CascadeList(p)
  <2>1. pc[p] = "cascade" /\ UNCHANGED <<file, store, minted, blobs, sealed, pc>>
    BY <1>15 DEF CascadeList, InCascade
  <2>2. PICK k : snap' = [snap EXCEPT ![p] = {[key |-> j, meta |-> store[j]] : j \in ChildrenOf(k)}]
    BY <1>15 DEF CascadeList
  <2>3. snap'[p] = {[key |-> j, meta |-> store[j]] : j \in ChildrenOf(k)}
    BY <1>1, <2>2 DEF TypeOK
  <2>4. \A c \in snap'[p] : c.meta = store'[c.key]
    BY <2>1, <2>3
  <2> QED BY <1>3, <1>13, <2>1, <2>4
<1>16. CASE \E c \in snap[p] : CascadeSkips(p, c) \/ CascadeReports(p, c)
  <2>1. PICK c \in snap[p] : CascadeSkips(p, c) \/ CascadeReports(p, c)
    BY <1>16
  <2>2. /\ pc[p] = "cascade" /\ snap' = [snap EXCEPT ![p] = @ \ {c}]
        /\ UNCHANGED <<file, store, blobs, sealed, pc>>
    BY <2>1 DEF CascadeSkips, CascadeReports, InCascade, Visited
  <2>3. snap'[p] \subseteq snap[p]
    BY <1>1, <2>2 DEF TypeOK
  <2> QED BY <1>3, <1>13, <1>14, <2>2, <2>3
<1>17. CASE \E c \in snap[p] : CascadeSuspends(p, c) \/ CascadeUnacknowledged(p, c)
  <2>1. PICK c \in snap[p] : CascadeSuspends(p, c) \/ CascadeUnacknowledged(p, c)
    BY <1>17
  <2> DEFINE m == [c.meta EXCEPT !.state = "Suspended"]
  <2>2. /\ pc[p] = "cascade" /\ snap' = [snap EXCEPT ![p] = @ \ {c}]
        /\ UNCHANGED <<blobs, sealed, pc>>
        /\ Write(c.key, m) /\ Suspendable(c.meta)
    BY <2>1 DEF CascadeSuspends, CascadeUnacknowledged, InCascade, Visited
  <2>3. /\ m \in Meta /\ m.state = "Suspended" /\ m.versions = c.meta.versions
        /\ m.usage = c.meta.usage
    BY <1>14 DEF Meta, KeyState
  <2>4. c.key \in KeyId /\ c.meta = store[c.key] /\ store[c.key].usage \in Nat
    BY <1>14 DEF Meta
  <2> HIDE DEF m
  <2>5. Supersedes(c.key, m)
    BY <2>2, <2>3, <2>4 DEF Supersedes, LifecycleEdge, KeepsKeypairs, Suspendable
  <2>6. VersionsIntact(m) /\ m.usage <= UsageLimit[c.key]
    BY <2>3, <2>4 DEF SerialInv, StoreIntact, VersionsIntact, UsageAccounted
  <2>7. /\ Follows
        /\ CiphertextKeyRetained' /\ StoreIntact' /\ UsageAccounted' /\ AbsentUnused'
    BY <2>2, <2>3, <2>4, <2>5, <2>6, WrittenSerial
  <2>8. \A d \in snap'[p] : d.meta = store'[d.key]
    <3> SUFFICES ASSUME NEW d \in snap'[p] PROVE d.meta = store'[d.key]
      OBVIOUS
    <3>1. d \in snap[p] /\ d # c
      BY <1>1, <2>2 DEF TypeOK
    <3>2. d.key # c.key
      BY <1>14, <3>1 DEF Listed
    <3>3. store'[d.key] = store[d.key]
      BY <1>1, <1>14, <2>2, <3>1, <3>2 DEF Write, TypeOK
    <3> QED BY <1>14, <3>1, <3>3
  <2>9. SerialLocal(p)'
    BY <1>13, <2>2, <2>8
  <2> QED BY <2>7, <2>9 DEF SerialInv, OneCaller
<1> QED BY <1>6, <1>7, <1>8, <1>10, <1>11, <1>12, <1>15, <1>16, <1>17 DEF Continue, Fault

LEMMA NextSerial ==
  ASSUME OneCaller
  PROVE  StructInv /\ SerialInv /\ [Next]_vars => SerialInv' /\ Follows
<1> SUFFICES ASSUME StructInv, SerialInv, [Next]_vars PROVE SerialInv' /\ Follows
  OBVIOUS
<1> USE DEF disk, history, local, walk
<1>1. ASSUME UNCHANGED <<file, store>> PROVE Follows
  BY <1>1 DEF Follows, FollowsLifecycle, LifecycleEdge, KeypairsKept, KeepsKeypairs
<1>2. ASSUME NEW p \in Proc, NEW r \in Requests, Begin(p, r)
      PROVE  SerialInv' /\ Follows
  <2>1. UNCHANGED <<file, store>>
    BY <1>2 DEF Begin, Generate, GenerateSigningKey, Create, Activate, Rotate, Rewrap, Revoke,
                RevokeCascade, Expire, Destroy, Encrypt, StartOn, Start
  <2> QED BY <1>1, <1>2, <2>1, BeginSerial
<1>3. CASE Crash
  <2>1. UNCHANGED <<file, store, blobs, sealed>>
    BY <1>3 DEF Crash
  <2>2. ASSUME NEW p \in Proc PROVE SerialLocal(p)'
    BY <1>3 DEF Crash, SerialLocal
  <2> QED BY <1>1, <2>1, <2>2, UnwrittenSerial DEF SerialInv
<1>4. CASE UNCHANGED vars
  <2>1. UNCHANGED <<file, store, blobs, sealed>>
    BY <1>4 DEF vars
  <2>2. ASSUME NEW p \in Proc PROVE SerialLocal(p)'
    BY <1>4 DEF SerialInv, SerialLocal, Supersedes, KeepsKeypairs, VersionsIntact,
                WrapIntactIn, Current, vars
  <2> QED BY <1>1, <2>1, <2>2, UnwrittenSerial DEF SerialInv
<1> QED BY <1>2, <1>3, <1>4, ContinueSerial DEF Next

(* Without overlapping calls every change of a stored key's state is one that *)
(* valid_transitions declares, whatever fails or crashes in between.          *)
THEOREM SerialLifecycle ==
  ASSUME OneCaller
  PROVE  Spec => LifecycleEdges
<1>1. StructInv /\ SerialInv /\ [Next]_vars => SerialInv' /\ [FollowsLifecycle]_vars
  BY NextSerial DEF Follows
<1> QED BY <1>1, InitStruct, NextStruct, InitSerial, PTL DEF Spec, LifecycleEdges

(* Without overlapping calls a revoked key is never in use again.             *)
THEOREM SerialRevocation ==
  ASSUME OneCaller
  PROVE  Spec => RevokedIsFinal
<1>1. FollowsLifecycle => KeepsRevoked
  BY DEF FollowsLifecycle, KeepsRevoked, LifecycleEdge, CanTransition, ValidTransitions
<1>2. StructInv /\ SerialInv /\ [Next]_vars => SerialInv' /\ [KeepsRevoked]_vars
  BY <1>1, NextSerial DEF Follows
<1> QED BY <1>2, InitStruct, NextStruct, InitSerial, PTL DEF Spec, RevokedIsFinal

(* Without overlapping calls every ciphertext returned keeps the keypair it   *)
(* was sealed to, and every wrapped version the keypair it is wrapped to,     *)
(* until the key concerned is destroyed.                                      *)
THEOREM SerialRetention ==
  ASSUME OneCaller
  PROVE  Spec => [](CiphertextKeyRetained /\ WrapIntact)
<1>1. SerialInv => CiphertextKeyRetained /\ WrapIntact
  BY DEF SerialInv, StoreIntact, VersionsIntact, WrapIntact
<1> QED BY <1>1, InitStruct, NextStruct, InitSerial, NextSerial, PTL DEF Spec

(* Without overlapping calls the usage counter covers every ciphertext and    *)
(* never passes the policy's limit.                                           *)
THEOREM SerialUsage ==
  ASSUME OneCaller
  PROVE  Spec => []UsageAccounted
<1>1. SerialInv => UsageAccounted
  BY DEF SerialInv
<1> QED BY <1>1, InitStruct, NextStruct, InitSerial, NextSerial, PTL DEF Spec

-----------------------------------------------------------------------------
(* What the hierarchy adds: wrapping goes down the levels.  generate sees   *)
(* to that for the keys it makes; rewrap wraps under whatever parent it is  *)
(* given.                                                                    *)

\* A key that is made with this id has this type.
Declared(k, t) ==
  \E g \in Requests \cup Provisioned : g.op = "generate" /\ g.key = k /\ g.type = t

\* Keys are rewrapped where can_wrap would have them.
RewrapsFollowHierarchy ==
  \A r \in Requests : r.op = "rewrap" =>
    \A t \in {"KeyEncrypting", "Domain"}, u \in KeyType :
      Declared(r.parent, t) /\ Declared(r.key, u) => <<t, u>> \in CanWrap

\* Every version a key wraps is one level below that key.
WrapsDown(m) ==
  \A i \in DOMAIN m.versions : m.versions[i].sk = "CitadelWrapped" =>
    /\ m.versions[i].by \in KeyId
    /\ file[m.versions[i].by] # "absent"
    /\ store[m.versions[i].by].type \in {"KeyEncrypting", "Domain"}
    /\ <<store[m.versions[i].by].type, m.type>> \in CanWrap

StoreDescends ==
  \A k \in KeyId : file[k] # "absent" => Declared(k, store[k].type) /\ WrapsDown(store[k])

LocalDescends(p) ==
  /\ pc[p] # "idle" => req[p] \in Requests
  /\ pc[p] \in {"wrap", "zero", "put"} => Declared(req[p].key, meta[p].type) /\ WrapsDown(meta[p])
  /\ \A c \in snap[p] : WrapsDown(c.meta)

DescentInv == StoreDescends /\ \A p \in Proc : LocalDescends(p)

LEMMA DownStays ==
  ASSUME KeepsIdentity, NEW m, WrapsDown(m)
  PROVE  WrapsDown(m)'
BY DEF KeepsIdentity, WrapsDown

LEMMA InitDescent == Init => DescentInv
<1> SUFFICES ASSUME Init PROVE DescentInv
  OBVIOUS
<1>1. ASSUME NEW r \in Provisioned
      PROVE  /\ r \in Request /\ r.op = "generate" /\ store[r.key] = ProvisionedMeta(r)
             /\ file[r.key] = "json"
  <2>1. r \in Request /\ r.key \in KeyId /\ IsProvisioned(r.key) /\ r.op = "generate"
    BY KeystoreConstants DEF Request, IsProvisioned, ProvisionedWellFounded
  <2>2. ProvisionedRequest(r.key) \in Provisioned /\ ProvisionedRequest(r.key).key = r.key
    BY <2>1 DEF IsProvisioned, ProvisionedRequest
  <2>3. ProvisionedRequest(r.key) = r
    BY <2>2, KeystoreConstants DEF ProvisionedWellFounded
  <2> QED BY <2>1, <2>3 DEF Init
<1>2. ASSUME NEW k \in KeyId, file[k] # "absent"
      PROVE  Declared(k, store[k].type) /\ WrapsDown(store[k])
  <2>1. PICK r \in Provisioned : r.key = k
    BY <1>2 DEF Init, IsProvisioned
  <2>2. store[k] = ProvisionedMeta(r) /\ r \in Request /\ r.op = "generate"
    BY <1>1, <2>1
  <2>3. store[k].type = r.type /\ store[k].versions = <<ProvisionedVersion(r)>>
    BY <2>2 DEF ProvisionedMeta
  <2>4. Declared(k, store[k].type)
    BY <2>1, <2>2, <2>3 DEF Declared
  <2>5. CASE r.type \in {"Root", "Domain"}
    <3>1. ProvisionedVersion(r).sk = "Encrypted"
      BY <2>5 DEF ProvisionedVersion, Keypair
    <3> QED BY <2>3, <2>4, <3>1 DEF WrapsDown
  <2>6. CASE r.type \notin {"Root", "Domain"}
    <3>1. ProvisionedVersion(r).by = r.parent
      BY <2>6 DEF ProvisionedVersion, Keypair
    <3>2. PICK s \in Provisioned : s.key = r.parent /\ <<s.type, r.type>> \in CanWrap
      BY <2>6, KeystoreConstants DEF ProvisionedWellFounded
    <3>3. s.type \in {"KeyEncrypting", "Domain"}
      BY <2>6, <3>2 DEF CanWrap
    <3>4. s.key \in KeyId /\ store[s.key].type = s.type /\ file[s.key] = "json"
      <4>1. s \in Request /\ store[s.key] = ProvisionedMeta(s) /\ file[s.key] = "json"
        BY <1>1
      <4>2. ProvisionedMeta(s).type = s.type
        BY DEF ProvisionedMeta
      <4> QED BY <4>1, <4>2 DEF Request
    <3> QED BY <2>3, <2>4, <3>1, <3>2, <3>3, <3>4 DEF WrapsDown
  <2> QED BY <2>5, <2>6
<1>3. ASSUME NEW p \in Proc PROVE LocalDescends(p)
  BY DEF Init, LocalDescends
<1> QED BY <1>2, <1>3 DEF DescentInv, StoreDescends

\* What a write that follows the hierarchy leaves in the store.
LEMMA WriteDescends ==
  ASSUME TypeOK, StoreDescends, KeepsIdentity, NEW k \in KeyId, NEW m, Write(k, m),
         Declared(k, m.type), WrapsDown(m)
  PROVE  StoreDescends'
<1>1. /\ \A j \in KeyId : j # k => store'[j] = store[j] /\ file'[j] = file[j]
      /\ store'[k] = m
  BY DEF TypeOK, Write
<1> SUFFICES ASSUME NEW j \in KeyId, file'[j] # "absent"
             PROVE  Declared(j, store'[j].type) /\ WrapsDown(store[j])'
  BY DEF StoreDescends, Declared
<1>2. PICK n : n = store'[j]
  OBVIOUS
<1>3. Declared(j, n.type) /\ WrapsDown(n)
  BY <1>1, <1>2 DEF StoreDescends
<1>4. WrapsDown(n)'
  BY <1>3, DownStays
<1> QED BY <1>2, <1>3, <1>4 DEF WrapsDown

LEMMA UnwrittenDescends ==
  ASSUME StoreDescends, KeepsIdentity, store' = store,
         \A k \in KeyId : file'[k] # "absent" => file[k] # "absent"
  PROVE  StoreDescends'
<1> SUFFICES ASSUME NEW j \in KeyId, file'[j] # "absent"
             PROVE  Declared(j, store'[j].type) /\ WrapsDown(store[j])'
  BY DEF StoreDescends, Declared
<1>1. PICK n : n = store[j]
  OBVIOUS
<1>2. Declared(j, n.type) /\ WrapsDown(n)
  BY <1>1 DEF StoreDescends
<1>3. WrapsDown(n)'
  BY <1>2, DownStays
<1> QED BY <1>1, <1>2, <1>3 DEF WrapsDown

\* Installing a version leaves the others and the key's type alone.
LEMMA InstallVersions ==
  ASSUME NEW m \in Meta, NEW op, NEW v \in Version
  PROVE  /\ Install(m, op, v).type = m.type
         /\ \A i \in DOMAIN Install(m, op, v).versions :
              \/ i \in DOMAIN m.versions /\ Install(m, op, v).versions[i] = m.versions[i]
              \/ Install(m, op, v).versions[i] = v
<1>1. m.versions \in Seq(Version) /\ m.current \in Nat
  BY DEF Meta
<1>2. CASE op = "rewrap"
  <2>1. Install(m, op, v) = [m EXCEPT !.versions = [m.versions EXCEPT ![m.current] = v]]
    BY <1>2 DEF Install
  <2>2. /\ Install(m, op, v).type = m.type
        /\ Install(m, op, v).versions = [m.versions EXCEPT ![m.current] = v]
    BY <2>1 DEF Meta
  <2> QED BY <1>1, <2>2
<1>3. CASE op # "rewrap"
  <2>1. Install(m, op, v) = [m EXCEPT !.versions = Append(m.versions, v), !.current = m.current + 1]
    BY <1>3 DEF Install
  <2>2. Install(m, op, v).type = m.type /\ Install(m, op, v).versions = Append(m.versions, v)
    BY <2>1 DEF Meta
  <2> QED BY <1>1, <2>2
<1> QED BY <1>2, <1>3

\* wrap_secret_key_for wraps one level down, for generate and rotate because
\* the parent fits, for rewrap because it was asked to.
LEMMA WrapDescends ==
  ASSUME RewrapsFollowHierarchy, StructInv, DescentInv, NEW p \in Proc, pc[p] = "wrap",
         WrapPossible(NewParent(p)), WrapUnder(fresh[p], NewParent(p)).sk = "CitadelWrapped"
  PROVE  LET by == WrapUnder(fresh[p], NewParent(p)).by
         IN  /\ by \in KeyId /\ file[by] # "absent"
             /\ store[by].type \in {"KeyEncrypting", "Domain"}
             /\ <<store[by].type, meta[p].type>> \in CanWrap
<1>1. /\ TypeOK /\ LocalSound(p) /\ LocalDescends(p) /\ req[p] \in Request /\ meta[p] \in Meta
      /\ fresh[p] \in Version /\ req[p] \in Requests /\ Declared(req[p].key, meta[p].type)
  BY DEF StructInv, DescentInv, TypeOK, LocalSound, LocalDescends
<1>2. PICK q : q = NewParent(p)
  OBVIOUS
<1>3. q # NoKey /\ WrapsChildren(q) /\ WrapUnder(fresh[p], q).by = q
  BY <1>1, <1>2 DEF WrapUnder, Version
<1>4. q \in KeyId /\ file[q] = "json" /\ store[q].type \in {"KeyEncrypting", "Domain"}
  <2>1. q \in KeyId \cup {NoKey}
    BY <1>1, <1>2 DEF NewParent, Request, Meta
  <2> QED BY <1>2, <1>3, <2>1 DEF WrapPossible, Readable, WrapsChildren
<1>5. <<store[q].type, meta[p].type>> \in CanWrap
  <2>1. CASE req[p].op = "rewrap"
    <3>1. q = req[p].parent /\ Declared(q, store[q].type) /\ meta[p].type \in KeyType
      BY <1>1, <1>2, <1>4, <2>1 DEF NewParent, DescentInv, StoreDescends, Meta
    <3> QED BY <1>1, <1>4, <2>1, <3>1 DEF RewrapsFollowHierarchy
  <2>2. CASE req[p].op # "rewrap"
    <3>1. q = meta[p].parent /\ MayWrite(req[p].key, meta[p]) /\ req[p].key \in KeyId
      BY <1>1, <1>2, <2>2 DEF NewParent, LocalSound, Request
    <3>2. CASE file[req[p].key] = "absent"
      BY <1>3, <3>1, <3>2 DEF MayWrite, ParentFits
    <3>3. CASE file[req[p].key] # "absent"
      <4>1. ParentFits(store[req[p].key]) /\ SameIdentity(meta[p], store[req[p].key])
        BY <3>1, <3>3 DEF MayWrite, StructInv, HierarchySound
      <4> QED BY <1>3, <3>1, <4>1 DEF ParentFits, SameIdentity
    <3> QED BY <3>2, <3>3
  <2> QED BY <2>1, <2>2
<1> QED BY <1>2, <1>3, <1>4, <1>5

\* A process whose locals a step leaves alone goes on descending.
LEMMA OthersDescend ==
  ASSUME KeepsIdentity, NEW q \in Proc, LocalDescends(q), pc'[q] = pc[q], req'[q] = req[q],
         meta'[q] = meta[q], snap'[q] \subseteq snap[q]
  PROVE  LocalDescends(q)'
<1>1. ASSUME NEW m, WrapsDown(m) PROVE WrapsDown(m)'
  BY <1>1, DownStays
<1>2. ASSUME pc'[q] \in {"wrap", "zero", "put"}
      PROVE  Declared(req'[q].key, meta'[q].type) /\ WrapsDown(meta[q])'
  <2>1. PICK m : m = meta[q]
    OBVIOUS
  <2>2. Declared(req[q].key, m.type) /\ WrapsDown(m)
    BY <1>2, <2>1 DEF LocalDescends
  <2>3. WrapsDown(m)'
    BY <1>1, <2>2
  <2> QED BY <2>1, <2>2, <2>3 DEF WrapsDown
<1>3. \A c \in snap'[q] : WrapsDown(c.meta)'
  BY <1>1 DEF LocalDescends
<1> QED BY <1>2, <1>3 DEF LocalDescends, Declared

LEMMA BeginDescends ==
  ASSUME StructInv, DescentInv, KeepsIdentity, NEW p \in Proc, NEW r \in Requests, Begin(p, r)
  PROVE  DescentInv'
<1> USE DEF disk, walk
<1>1. r \in Request /\ r.key \in KeyId /\ store[r.key] \in Meta /\ TypeOK
  BY KeystoreConstants DEF Request, StructInv, TypeOK
<1>2. UNCHANGED <<file, store, snap>> /\ req' = [req EXCEPT ![p] = r]
  BY DEF Begin, Generate, GenerateSigningKey, Create, Activate, Rotate, Rewrap, Revoke,
         RevokeCascade, Expire, Destroy, Encrypt, StartOn, Start
<1>3. StoreDescends'
  BY <1>2, UnwrittenDescends DEF DescentInv
<1>4. ASSUME NEW q \in Proc, q # p PROVE LocalDescends(q)'
  <2>1. pc'[q] = pc[q] /\ req'[q] = req[q] /\ meta'[q] = meta[q] /\ snap'[q] = snap[q]
    BY <1>1, <1>2, <1>4
    DEF TypeOK, Begin, Generate, GenerateSigningKey, Create, Activate, Rotate, Rewrap, Revoke,
        RevokeCascade, Expire, Destroy, Encrypt, StartOn, Start
  <2> QED BY <2>1, OthersDescend DEF DescentInv
<1>5. ASSUME NEW op, NEW stage, NEW m, Start(p, r, op, stage, m), Declared(r.key, m.type), WrapsDown(m)
      PROVE  DescentInv'
  <2>1. meta'[p] = m /\ req'[p] = r /\ snap'[p] = snap[p]
    BY <1>1, <1>2, <1>5 DEF Start, TypeOK
  <2>2. WrapsDown(m)'
    BY <1>5, DownStays
  <2>3. WrapsDown(meta[p])' /\ Declared(req'[p].key, meta'[p].type)
    BY <1>5, <2>1, <2>2 DEF WrapsDown
  <2>4. \A c \in snap'[p] : WrapsDown(c.meta)'
    BY <2>1, DownStays DEF DescentInv, LocalDescends
  <2>5. LocalDescends(p)'
    BY <2>1, <2>3, <2>4 DEF LocalDescends, Declared
  <2> QED BY <1>3, <1>4, <2>5 DEF DescentInv
\* An operation on a stored key starts from its record.
<1>6. ASSUME file[r.key] = "json", NEW m, m.type = store[r.key].type,
             m.versions = store[r.key].versions
      PROVE  Declared(r.key, m.type) /\ WrapsDown(m)
  BY <1>1, <1>6 DEF DescentInv, StoreDescends, WrapsDown
<1>7. CASE Generate(p, r) \/ GenerateSigningKey(p, r)
  <2>1. PICK m : m = Blank(r.type, r.parent)
    OBVIOUS
  <2>2. Start(p, r, "generate", "wrap", m) /\ r.op = "generate"
    BY <1>7, <2>1 DEF Generate, GenerateSigningKey, Create, Start
  <2>3. m.type = r.type /\ m.versions = <<>>
    BY <2>1 DEF Blank
  <2>4. Declared(r.key, m.type) /\ WrapsDown(m)
    BY <2>2, <2>3 DEF Declared, WrapsDown
  <2> QED BY <1>5, <2>2, <2>4
<1>8. ASSUME NEW s, NEW op, NEW stage,
             StartOn(p, r, op, stage, [store[r.key] EXCEPT !.state = s])
      PROVE  DescentInv'
  <2>1. PICK m : m = [store[r.key] EXCEPT !.state = s]
    OBVIOUS
  <2>2. m.type = store[r.key].type /\ m.versions = store[r.key].versions
    BY <1>1, <2>1 DEF Meta
  <2> QED BY <1>5, <1>6, <1>8, <2>1, <2>2 DEF StartOn, Readable
<1>9. CASE Activate(p, r)
  BY <1>8, <1>9 DEF Activate
<1>10. CASE Revoke(p, r) \/ RevokeCascade(p, r)
  BY <1>8, <1>10 DEF Revoke, RevokeCascade, Revoked
<1>11. CASE Expire(p, r)
  BY <1>8, <1>11 DEF Expire
<1>12. CASE Rotate(p, r) \/ Rewrap(p, r)
  BY <1>5, <1>6, <1>12 DEF Rotate, Rewrap, Readable
<1>13. CASE Encrypt(p, r)
  <2>1. PICK m : m = [store[r.key] EXCEPT !.usage = store[r.key].usage + 1]
    OBVIOUS
  <2>2. m.type = store[r.key].type /\ m.versions = store[r.key].versions
    BY <1>1, <2>1 DEF Meta
  <2>3. Start(p, r, "encrypt", "put", m) /\ Readable(r.key)
    BY <1>13, <2>1 DEF Encrypt, StartOn
  <2> QED BY <1>5, <1>6, <2>2, <2>3 DEF Readable
<1>14. CASE Destroy(p, r)
  <2>1. PICK m : m = [store[r.key] EXCEPT
                        !.state = "Destroyed",
                        !.versions = [i \in DOMAIN store[r.key].versions |->
                                        Purged(store[r.key].versions[i])]]
    OBVIOUS
  <2>2. Start(p, r, "destroy", "zero", m) /\ Readable(r.key)
    BY <1>14, <2>1 DEF Destroy, StartOn
  <2>3. /\ m.type = store[r.key].type
        /\ m.versions = [i \in DOMAIN store[r.key].versions |-> Purged(store[r.key].versions[i])]
    BY <1>1, <2>1 DEF Meta
  <2>4. \A i \in DOMAIN m.versions : m.versions[i].sk = "Destroyed"
    <3>1. ASSUME NEW v \in Version PROVE Purged(v).sk = "Destroyed"
      BY DEF Purged, Version
    <3>2. \A i \in DOMAIN store[r.key].versions : store[r.key].versions[i] \in Version
      BY <1>1 DEF Meta
    <3> QED BY <2>3, <3>1, <3>2
  <2>5. Declared(r.key, m.type)
    BY <1>1, <2>2, <2>3 DEF DescentInv, StoreDescends, Readable
  <2>6. WrapsDown(m)
    BY <2>4 DEF WrapsDown
  <2> QED BY <1>5, <2>2, <2>5, <2>6
<1> QED BY <1>7, <1>9, <1>10, <1>11, <1>12, <1>13, <1>14 DEF Begin

LEMMA ContinueDescends ==
  ASSUME RewrapsFollowHierarchy, StructInv, DescentInv, KeepsIdentity, NEW p \in Proc,
         Continue(p) \/ Fault(p)
  PROVE  DescentInv'
<1> USE DEF disk, history, local, walk
<1>1. TypeOK /\ LocalSound(p) /\ LocalDescends(p) /\ StoreDescends
  BY DEF StructInv, DescentInv
<1>2. /\ pc[p] # "idle" => req[p] \in Request /\ req[p].key \in KeyId
      /\ meta[p] \in Meta /\ fresh[p] \in Version
  BY <1>1 DEF TypeOK, LocalSound, Request
<1>3. ASSUME NEW q \in Proc, q # p
      PROVE  pc'[q] = pc[q] /\ req'[q] = req[q] /\ meta'[q] = meta[q] /\ snap'[q] = snap[q]
  BY <1>1, <1>3
  DEF TypeOK, Continue, Fault, Wrap, WrapFails, ZeroFile, Put, PutFails, PutUnacknowledged,
      CascadeList, CascadeAborts, CascadeSkips, CascadeReports, CascadeSuspends,
      CascadeUnacknowledged, CascadeDone, EndCascade, Return, Visited
<1>4. ASSUME StoreDescends', LocalDescends(p)' PROVE DescentInv'
  <2>1. ASSUME NEW q \in Proc, q # p PROVE LocalDescends(q)'
    BY <1>3, <2>1, OthersDescend DEF DescentInv
  <2> QED BY <1>4, <2>1 DEF DescentInv
<1>5. ASSUME Return(p), snap'[p] \subseteq snap[p] PROVE LocalDescends(p)'
  <2>1. pc'[p] = "idle"
    BY <1>1, <1>5 DEF Return, TypeOK
  <2>2. \A c \in snap'[p] : WrapsDown(c.meta)'
    BY <1>1, <1>5, DownStays DEF LocalDescends
  <2> QED BY <2>1, <2>2 DEF LocalDescends
<1>6. CASE Wrap(p)
  <2>1. PICK v, m : /\ v = WrapUnder(fresh[p], NewParent(p))
                    /\ m = Install(meta[p], req[p].op, v)
    OBVIOUS
  <2>2. /\ pc[p] = "wrap" /\ WrapPossible(NewParent(p)) /\ pc'[p] = "put"
        /\ meta'[p] = m /\ UNCHANGED <<file, store, req, snap>>
    BY <1>1, <1>6, <2>1 DEF Wrap, TypeOK
  <2>3. v \in Version
    <3>1. NewParent(p) \in KeyId \cup {NoKey}
      BY <1>2, <2>2 DEF NewParent, Request, Meta
    <3> QED BY <1>1, <1>2, <2>1, <2>2, <3>1, WrapUnderType
  <2>4. /\ m.type = meta[p].type
        /\ \A i \in DOMAIN m.versions :
             \/ i \in DOMAIN meta[p].versions /\ m.versions[i] = meta[p].versions[i]
             \/ m.versions[i] = v
    BY <1>2, <2>1, <2>3, InstallVersions
  <2>5. Declared(req[p].key, meta[p].type) /\ WrapsDown(meta[p]) /\ req[p] \in Requests
    BY <1>1, <2>2 DEF LocalDescends
  <2>6. v.sk = "CitadelWrapped" =>
          /\ v.by \in KeyId /\ file[v.by] # "absent"
          /\ store[v.by].type \in {"KeyEncrypting", "Domain"}
          /\ <<store[v.by].type, meta[p].type>> \in CanWrap
    BY <2>1, <2>2, WrapDescends
  <2>7. WrapsDown(m)
    BY <2>4, <2>5, <2>6 DEF WrapsDown
  <2>8. WrapsDown(m)'
    BY <2>7, DownStays
  <2>9. LocalDescends(p)'
    <3>1. WrapsDown(meta[p])' /\ Declared(req'[p].key, meta'[p].type)
      BY <2>2, <2>4, <2>5, <2>8 DEF WrapsDown
    <3>2. \A c \in snap'[p] : WrapsDown(c.meta)'
      BY <1>1, <2>2, DownStays DEF LocalDescends
    <3> QED BY <2>2, <2>5, <3>1, <3>2 DEF LocalDescends, Declared
  <2> QED BY <1>1, <1>4, <2>2, <2>9, UnwrittenDescends
<1>7. CASE WrapFails(p) \/ PutFails(p)
  <2>1. Return(p) /\ UNCHANGED <<file, store, snap>>
    BY <1>7 DEF WrapFails, PutFails
  <2> QED BY <1>1, <1>4, <1>5, <2>1, UnwrittenDescends
<1>8. CASE ZeroFile(p)
  <2>1. /\ pc[p] = "zero" /\ file' = [file EXCEPT ![req[p].key] = "zeroed"]
        /\ pc'[p] = "put" /\ UNCHANGED <<store, req, meta, snap>> /\ req[p].key \in KeyId
    BY <1>1, <1>2, <1>8 DEF ZeroFile, TypeOK
  <2>2. \A k \in KeyId : file'[k] # "absent" => file[k] # "absent"
    <3>1. file[req[p].key] # "absent"
      BY <1>1, <2>1 DEF LocalSound, StructInv, IdleNotGenerating
    <3> QED BY <1>1, <2>1, <3>1 DEF TypeOK
  <2>3. LocalDescends(p)'
    <3>1. PICK m : m = meta[p]
      OBVIOUS
    <3>2. Declared(req[p].key, m.type) /\ WrapsDown(m) /\ req[p] \in Requests
      BY <1>1, <2>1, <3>1 DEF LocalDescends
    <3>3. WrapsDown(m)'
      BY <3>2, DownStays
    <3>4. WrapsDown(meta[p])'
      BY <2>1, <3>1, <3>3 DEF WrapsDown
    <3>5. \A c \in snap'[p] : WrapsDown(c.meta)'
      BY <1>1, <2>1, DownStays DEF LocalDescends
    <3> QED BY <2>1, <3>1, <3>2, <3>4, <3>5 DEF LocalDescends, Declared
  <2> QED BY <1>1, <1>4, <2>1, <2>2, <2>3, UnwrittenDescends
<1>9. ASSUME pc[p] = "put", Write(req[p].key, meta[p]) PROVE StoreDescends'
  BY <1>1, <1>2, <1>9, WriteDescends DEF LocalDescends
<1>10. CASE PutUnacknowledged(p)
  BY <1>4, <1>5, <1>9, <1>10 DEF PutUnacknowledged
<1>11. CASE Put(p)
  <2>1. pc[p] = "put" /\ Write(req[p].key, meta[p]) /\ snap' = snap
    BY <1>11 DEF Put
  <2>2. CASE req[p].op = "revoke_cascade"
    <3>1. pc'[p] = "cascade" /\ req' = req
      BY <1>1, <1>11, <2>2 DEF Put, TypeOK
    <3>2. \A c \in snap'[p] : WrapsDown(c.meta)'
      BY <1>1, <2>1, DownStays DEF LocalDescends
    <3>3. LocalDescends(p)'
      BY <1>1, <2>1, <3>1, <3>2 DEF LocalDescends
    <3> QED BY <1>4, <1>9, <2>1, <3>3
  <2>3. CASE req[p].op # "revoke_cascade"
    BY <1>4, <1>5, <1>9, <1>11, <2>1, <2>3 DEF Put
  <2> QED BY <2>2, <2>3
<1>12. CASE CascadeAborts(p) \/ CascadeDone(p)
  <2>1. Return(p) /\ snap' = [snap EXCEPT ![p] = {}] /\ UNCHANGED <<file, store>>
    BY <1>12 DEF CascadeAborts, CascadeDone, EndCascade
  <2>2. snap'[p] = {}
    BY <1>1, <2>1 DEF TypeOK
  <2> QED BY <1>1, <1>4, <1>5, <2>1, <2>2, UnwrittenDescends
<1>13. ASSUME pc[p] = "cascade", UNCHANGED <<pc, req>>, \A c \in snap'[p] : WrapsDown(c.meta)
       PROVE  LocalDescends(p)'
  <2>1. \A c \in snap'[p] : WrapsDown(c.meta)'
    BY <1>13, DownStays
  <2> QED BY <1>1, <1>13, <2>1 DEF LocalDescends
<1>14. CASE CascadeList(p)
  <2>1. pc[p] = "cascade" /\ UNCHANGED <<file, store, pc, req>>
    BY <1>14 DEF CascadeList, InCascade
  <2>2. PICK k : snap' = [snap EXCEPT ![p] = {[key |-> j, meta |-> store[j]] : j \in ChildrenOf(k)}]
    BY <1>14 DEF CascadeList
  <2>3. snap'[p] = {[key |-> j, meta |-> store[j]] : j \in ChildrenOf(k)}
    BY <1>1, <2>2 DEF TypeOK
  <2>4. \A c \in snap'[p] : WrapsDown(c.meta)
    <3> SUFFICES ASSUME NEW c \in snap'[p] PROVE WrapsDown(c.meta)
      OBVIOUS
    <3>1. PICK j \in KeyId : Readable(j) /\ c = [key |-> j, meta |-> store[j]]
      BY <2>3 DEF ChildrenOf
    <3> QED BY <1>1, <3>1 DEF StoreDescends, Readable
  <2> QED BY <1>1, <1>4, <1>13, <2>1, <2>4, UnwrittenDescends
<1>15. CASE \E c \in snap[p] : CascadeSkips(p, c) \/ CascadeReports(p, c)
  <2>1. PICK c \in snap[p] : CascadeSkips(p, c) \/ CascadeReports(p, c)
    BY <1>15
  <2>2. /\ pc[p] = "cascade" /\ snap' = [snap EXCEPT ![p] = @ \ {c}]
        /\ UNCHANGED <<file, store, pc, req>>
    BY <2>1 DEF CascadeSkips, CascadeReports, InCascade, Visited
  <2>3. snap'[p] \subseteq snap[p]
    BY <1>1, <2>2 DEF TypeOK
  <2>4. \A d \in snap'[p] : WrapsDown(d.meta)
    BY <1>1, <2>3 DEF LocalDescends
  <2> QED BY <1>1, <1>4, <1>13, <2>2, <2>4, UnwrittenDescends
<1>16. CASE \E c \in snap[p] : CascadeSuspends(p, c) \/ CascadeUnacknowledged(p, c)
  <2>1. PICK c \in snap[p] : CascadeSuspends(p, c) \/ CascadeUnacknowledged(p, c)
    BY <1>16
  <2>2. PICK m : m = [c.meta EXCEPT !.state = "Suspended"]
    OBVIOUS
  <2>3. /\ pc[p] = "cascade" /\ snap' = [snap EXCEPT ![p] = @ \ {c}]
        /\ UNCHANGED <<pc, req>> /\ Write(c.key, m)
    BY <2>1, <2>2 DEF CascadeSuspends, CascadeUnacknowledged, InCascade, Visited
  <2>4. /\ c.key \in KeyId /\ c.meta \in Meta /\ file[c.key] # "absent"
        /\ SameIdentity(c.meta, store[c.key]) /\ WrapsDown(c.meta)
    BY <1>1 DEF LocalSound, LocalDescends, TypeOK, Listed
  <2>5. m.type = c.meta.type /\ m.versions = c.meta.versions
    BY <2>2, <2>4 DEF Meta
  <2>6. Declared(c.key, m.type) /\ WrapsDown(m)
    BY <1>1, <2>4, <2>5 DEF StoreDescends, SameIdentity, WrapsDown
  <2>7. StoreDescends'
    BY <1>1, <2>3, <2>4, <2>6, WriteDescends
  <2>8. \A d \in snap'[p] : WrapsDown(d.meta)
    BY <1>1, <2>3 DEF LocalDescends, TypeOK
  <2> QED BY <1>4, <1>13, <2>3, <2>7, <2>8
<1> QED BY <1>6, <1>7, <1>8, <1>10, <1>11, <1>12, <1>14, <1>15, <1>16 DEF Continue, Fault

LEMMA NextDescends ==
  ASSUME RewrapsFollowHierarchy
  PROVE  StructInv /\ DescentInv /\ [Next]_vars => DescentInv'
<1> SUFFICES ASSUME StructInv, DescentInv, [Next]_vars PROVE DescentInv'
  OBVIOUS
<1>1. KeepsIdentity
  BY NextStruct
<1> USE DEF disk, history, local, walk
<1>2. CASE Crash
  <2>1. UNCHANGED <<file, store>>
    BY <1>2 DEF Crash
  <2>2. ASSUME NEW p \in Proc PROVE LocalDescends(p)'
    BY <1>2 DEF Crash, LocalDescends
  <2> QED BY <1>1, <2>1, <2>2, UnwrittenDescends DEF DescentInv
<1>3. CASE UNCHANGED vars
  <2>1. UNCHANGED <<file, store, pc, req, meta, snap>>
    BY <1>3 DEF vars
  <2>2. ASSUME NEW p \in Proc PROVE LocalDescends(p)'
    BY <1>1, <2>1, OthersDescend DEF DescentInv
  <2> QED BY <1>1, <2>1, <2>2, UnwrittenDescends DEF DescentInv
<1> QED BY <1>1, <1>2, <1>3, BeginDescends, ContinueDescends DEF Next

-----------------------------------------------------------------------------
(* unwrap_key_version_inner recurses at most MAX_UNWRAP_DEPTH times, so the *)
(* recursive function that models it is built level by level.               *)

VersionOf(k, i) == store[k].versions[i]
MasterWrapped(k, i) == i \in DOMAIN store[k].versions /\ VersionOf(k, i).sk = "Encrypted"
ServedWrapped(k, i, skip) ==
  /\ i \in DOMAIN store[k].versions
  /\ VersionOf(k, i).sk = "CitadelWrapped"
  /\ ParentServes(VersionOf(k, i), skip)

\* One level of the recursion, with f for the level below.
OpensOver(f, d, k, i, skip) ==
  /\ i \in DOMAIN store[k].versions
  /\ LET v == store[k].versions[i]
     IN  \/ v.sk = "Encrypted"
         \/ /\ v.sk = "CitadelWrapped"
            /\ d > 0
            /\ ParentServes(v, skip)
            /\ f[d - 1][v.by][v.byVer]

Level0(skip) == [k \in KeyId |-> [i \in Nat |-> MasterWrapped(k, i)]]
Above(g, skip) ==
  [k \in KeyId |-> [i \in Nat |->
     MasterWrapped(k, i) \/ (ServedWrapped(k, i, skip) /\ g[VersionOf(k, i).by][VersionOf(k, i).byVer])]]

Recursion(f, skip) ==
  f = [d \in 0 .. MAX_UNWRAP_DEPTH |-> [k \in KeyId |-> [i \in Nat |-> OpensOver(f, d, k, i, skip)]]]

LEMMA RecursionExists ==
  ASSUME NEW skip
  PROVE  \E f : Recursion(f, skip)
<1>1. PICK g0, g1, g2 : g0 = Level0(skip) /\ g1 = Above(g0, skip) /\ g2 = Above(g1, skip)
  OBVIOUS
<1>2. PICK g3, g4 : g3 = Above(g2, skip) /\ g4 = Above(g3, skip)
  OBVIOUS
<1>3. PICK f : f = [d \in 0..4 |-> IF d = 0 THEN g0 ELSE IF d = 1 THEN g1 ELSE IF d = 2 THEN g2
                                  ELSE IF d = 3 THEN g3 ELSE g4]
  OBVIOUS
<1>4. f[0] = g0 /\ f[1] = g1 /\ f[2] = g2 /\ f[3] = g3 /\ f[4] = g4
  BY <1>3
<1>5. g0 = [k \in KeyId |-> [i \in Nat |-> OpensOver(f, 0, k, i, skip)]]
  <2>1. ASSUME NEW k, NEW i PROVE OpensOver(f, 0, k, i, skip) = MasterWrapped(k, i)
    <3>1. ~(0 > 0)
      OBVIOUS
    <3>2. MasterWrapped(k, i) \in BOOLEAN
      BY DEF MasterWrapped
    <3> QED BY <3>1, <3>2, Zenon DEF OpensOver, MasterWrapped, VersionOf
  <2> QED BY <1>1, <2>1, Zenon DEF Level0
<1>6. ASSUME NEW d \in {1, 2, 3, 4}, NEW g, f[d - 1] = g
      PROVE  Above(g, skip) = [k \in KeyId |-> [i \in Nat |-> OpensOver(f, d, k, i, skip)]]
  <2>1. d > 0
    OBVIOUS
  <2>2. ASSUME NEW k, NEW i
        PROVE  OpensOver(f, d, k, i, skip)
                 = (MasterWrapped(k, i) \/ (ServedWrapped(k, i, skip) /\ g[VersionOf(k, i).by][VersionOf(k, i).byVer]))
    BY <1>6, <2>1, Zenon DEF OpensOver, MasterWrapped, ServedWrapped, VersionOf
  <2> QED BY <2>2, Zenon DEF Above
<1>7. ASSUME NEW d \in 0..4
      PROVE  f[d] = [k \in KeyId |-> [i \in Nat |-> OpensOver(f, d, k, i, skip)]]
  <2>1. /\ f[1 - 1] = g0 /\ f[2 - 1] = g1 /\ f[3 - 1] = g2 /\ f[4 - 1] = g3
    BY <1>4
  <2>2. CASE d = 0
    BY <1>4, <1>5, <2>2
  <2>3. CASE d = 1
    <3>1. d \in {1, 2, 3, 4} /\ f[d - 1] = g0 /\ f[d] = g1
      BY <1>4, <2>1, <2>3
    <3>2. Above(g0, skip) = [k \in KeyId |-> [i \in Nat |-> OpensOver(f, d, k, i, skip)]]
      BY <1>6, <3>1, Zenon
    <3> QED BY <1>1, <3>1, <3>2, Zenon
  <2>4. CASE d = 2
    <3>1. d \in {1, 2, 3, 4} /\ f[d - 1] = g1 /\ f[d] = g2
      BY <1>4, <2>1, <2>4
    <3>2. Above(g1, skip) = [k \in KeyId |-> [i \in Nat |-> OpensOver(f, d, k, i, skip)]]
      BY <1>6, <3>1, Zenon
    <3> QED BY <1>1, <3>1, <3>2, Zenon
  <2>5. CASE d = 3
    <3>1. d \in {1, 2, 3, 4} /\ f[d - 1] = g2 /\ f[d] = g3
      BY <1>4, <2>1, <2>5
    <3>2. Above(g2, skip) = [k \in KeyId |-> [i \in Nat |-> OpensOver(f, d, k, i, skip)]]
      BY <1>6, <3>1, Zenon
    <3> QED BY <1>2, <3>1, <3>2, Zenon
  <2>6. CASE d = 4
    <3>1. d \in {1, 2, 3, 4} /\ f[d - 1] = g3 /\ f[d] = g4
      BY <1>4, <2>1, <2>6
    <3>2. Above(g3, skip) = [k \in KeyId |-> [i \in Nat |-> OpensOver(f, d, k, i, skip)]]
      BY <1>6, <3>1, Zenon
    <3> QED BY <1>2, <3>1, <3>2, Zenon
  <2> QED BY <2>2, <2>3, <2>4, <2>5, <2>6
<1>8. f = [d \in 0..4 |-> [k \in KeyId |-> [i \in Nat |-> OpensOver(f, d, k, i, skip)]]]
  <2>1. f = [d \in 0..4 |-> f[d]]
    BY <1>3
  <2> QED BY <1>7, <2>1, Zenon
<1>9. Recursion(f, skip)
  BY <1>8, Zenon DEF Recursion, MAX_UNWRAP_DEPTH
<1> QED BY <1>9

\* f tells what opens with d levels of recursion left.
Unrolled(f, skip) ==
  /\ \A d \in 0..4, k \in KeyId, i \in Nat : f[d][k][i] = OpensOver(f, d, k, i, skip)
  /\ \A k \in KeyId, i \in Nat : Opens(k, i, skip) = f[4][k][i]

LEMMA OpensUnrolls ==
  ASSUME NEW skip
  PROVE  \E f : Unrolled(f, skip)
<1>1. PICK f : f = CHOOSE g : Recursion(g, skip)
  OBVIOUS
<1>2. f = [d \in 0..4 |-> [k \in KeyId |-> [i \in Nat |-> OpensOver(f, d, k, i, skip)]]]
  <2>1. Recursion(f, skip)
    BY <1>1, RecursionExists
  <2> QED BY <2>1, Zenon DEF Recursion, MAX_UNWRAP_DEPTH
<1>3. ASSUME NEW d \in 0..4, NEW k \in KeyId, NEW i \in Nat
      PROVE  f[d][k][i] = OpensOver(f, d, k, i, skip)
  <2>1. f[d] = [j \in KeyId |-> [n \in Nat |-> OpensOver(f, d, j, n, skip)]]
    BY <1>2, Zenon
  <2>2. f[d][k] = [n \in Nat |-> OpensOver(f, d, k, n, skip)]
    BY <2>1, Zenon
  <2> QED BY <2>2, Zenon
<1>4. ASSUME NEW k \in KeyId, NEW i \in Nat
      PROVE  Opens(k, i, skip) = f[4][k][i]
  BY <1>1 DEF Opens, Recursion, OpensOver, MAX_UNWRAP_DEPTH
<1>5. Unrolled(f, skip)
  BY <1>3, <1>4 DEF Unrolled
<1> QED BY <1>5

\* Version i of k opens wherever version n of the key j in use above it does.
HangsFrom(f, k, i, j, n) ==
  /\ file[j] # "absent" /\ store[j].state \in CanDecrypt
  /\ n \in DOMAIN store[j].versions
  /\ store[j].type \in {"KeyEncrypting", "Domain"}
  /\ <<store[j].type, store[k].type>> \in CanWrap
  /\ \A d \in 1..4 : f[d - 1][j][n] => f[d][k][i]

\* Every version of a key in use is wrapped by the master key or hangs from a
\* key one level up.
AllHang(f) ==
  \A k \in KeyId : file[k] # "absent" /\ store[k].state \in CanDecrypt =>
    \A i \in DOMAIN store[k].versions : store[k].versions[i].sk # "Encrypted" =>
      \E j \in KeyId, n \in Nat : HangsFrom(f, k, i, j, n)

LEMMA VersionNumbers ==
  ASSUME TypeOK, NEW k \in KeyId
  PROVE  DOMAIN store[k].versions \subseteq Nat
<1>1. store[k].versions \in Seq(Version)
  BY DEF TypeOK, Meta
<1> QED BY <1>1

LEMMA LevelsLeft == \A d \in 1..4 : d > 0 /\ d \in 0..4
OBVIOUS

\* Version i of k hangs from the version and the key that it names.
LEMMA HangsFromWrapper ==
  ASSUME TypeOK, NEW f, Unrolled(f, FALSE), NEW k \in KeyId, NEW i \in DOMAIN store[k].versions,
         NEW v \in Version, v = store[k].versions[i], v.sk = "CitadelWrapped",
         v.by \in KeyId, Readable(v.by), store[v.by].state \in CanDecrypt,
         store[v.by].type \in {"KeyEncrypting", "Domain"},
         <<store[v.by].type, store[k].type>> \in CanWrap,
         v.byVer \in DOMAIN store[v.by].versions, store[v.by].versions[v.byVer].pk = v.byPk
  PROVE  \E j \in KeyId, n \in Nat : HangsFrom(f, k, i, j, n)
<1>1. ParentServes(v, FALSE)
  BY KeystoreConstants DEF ParentServes
<1>2. i \in Nat /\ v.byVer \in Nat
  <2>1. i \in Nat
    BY VersionNumbers, Zenon
  <2>2. v.byVer \in Nat
    BY DEF Version
  <2> QED BY <2>1, <2>2
<1>3. ASSUME NEW d \in 1..4, f[d - 1][v.by][v.byVer] PROVE f[d][k][i]
  <2>1. d > 0 /\ d \in 0..4
    BY LevelsLeft, Zenon
  <2>2. OpensOver(f, d, k, i, FALSE)
    BY <1>1, <1>3, <2>1, Zenon DEF OpensOver
  <2>3. f[d][k][i] = OpensOver(f, d, k, i, FALSE)
    BY <1>2, <2>1, Zenon DEF Unrolled
  <2> QED BY <2>2, <2>3, Zenon
<1>4. HangsFrom(f, k, i, v.by, v.byVer)
  BY <1>3 DEF HangsFrom, Readable
<1> QED BY <1>2, <1>4

\* Three levels suffice: the key, its KEK and the Domain key the master key wraps.
LEMMA HangingOpens ==
  ASSUME TypeOK, NEW f, Unrolled(f, FALSE), AllHang(f),
         NEW key \in KeyId, file[key] # "absent", store[key].state \in CanDecrypt,
         NEW ver \in DOMAIN store[key].versions
  PROVE  Opens(key, ver, FALSE)
<1>1. ASSUME NEW k \in KeyId, file[k] # "absent", store[k].state \in CanDecrypt,
             NEW i \in DOMAIN store[k].versions, store[k].versions[i].sk # "Encrypted"
      PROVE  \E j \in KeyId, n \in Nat : HangsFrom(f, k, i, j, n)
  BY <1>1 DEF AllHang
<1>2. ASSUME NEW d \in 0..4, NEW k \in KeyId, NEW i \in DOMAIN store[k].versions,
             store[k].versions[i].sk = "Encrypted"
      PROVE  f[d][k][i]
  <2>1. i \in Nat
    BY DEF TypeOK, Meta
  <2>2. OpensOver(f, d, k, i, FALSE)
    BY <1>2 DEF OpensOver
  <2>3. f[d][k][i] = OpensOver(f, d, k, i, FALSE)
    BY <2>1, Zenon DEF Unrolled
  <2> QED BY <2>2, <2>3, Zenon
<1>3. ASSUME NEW k \in KeyId, file[k] # "absent", store[k].state \in CanDecrypt,
             store[k].type = "Domain", NEW i \in DOMAIN store[k].versions
      PROVE  f[2][k][i]
  <2>1. store[k].versions[i].sk = "Encrypted"
    BY <1>1, <1>3 DEF HangsFrom, CanWrap
  <2> QED BY <1>2, <2>1
<1>4. ASSUME NEW k \in KeyId, file[k] # "absent", store[k].state \in CanDecrypt,
             store[k].type = "KeyEncrypting", NEW i \in DOMAIN store[k].versions
      PROVE  f[3][k][i]
  <2>1. CASE store[k].versions[i].sk = "Encrypted"
    BY <1>2, <2>1
  <2>2. CASE store[k].versions[i].sk # "Encrypted"
    <3>1. PICK j \in KeyId, n \in Nat : HangsFrom(f, k, i, j, n)
      BY <1>1, <1>4, <2>2
    <3>2. store[j].type = "Domain"
      BY <1>4, <3>1 DEF HangsFrom, CanWrap
    <3>3. f[2][j][n]
      BY <1>3, <3>1, <3>2 DEF HangsFrom
    <3>4. 3 \in 1..4 /\ 3 - 1 = 2
      OBVIOUS
    <3> QED BY <3>1, <3>3, <3>4 DEF HangsFrom
  <2> QED BY <2>1, <2>2
<1>5. ASSUME NEW k \in KeyId, file[k] # "absent", store[k].state \in CanDecrypt,
             NEW i \in DOMAIN store[k].versions
      PROVE  f[4][k][i]
  <2>1. CASE store[k].versions[i].sk = "Encrypted"
    BY <1>2, <2>1
  <2>2. CASE store[k].versions[i].sk # "Encrypted"
    <3>1. PICK j \in KeyId, n \in Nat : HangsFrom(f, k, i, j, n)
      BY <1>1, <1>5, <2>2
    <3>2. 4 \in 1..4 /\ 3 \in 0..4 /\ 4 - 1 = 3
      OBVIOUS
    <3>3. f[3][j][n]
      <4>1. CASE store[j].type = "KeyEncrypting"
        BY <1>4, <3>1, <4>1 DEF HangsFrom
      <4>2. CASE store[j].type = "Domain"
        <5>1. store[j].versions[n].sk = "Encrypted"
          BY <1>1, <3>1, <4>2 DEF HangsFrom, CanWrap
        <5> QED BY <1>2, <3>1, <3>2, <5>1 DEF HangsFrom
      <4> QED BY <3>1, <4>1, <4>2 DEF HangsFrom
    <3> QED BY <3>1, <3>2, <3>3 DEF HangsFrom
  <2> QED BY <2>1, <2>2
<1>6. ver \in Nat
  BY DEF TypeOK, Meta
<1>7. Opens(key, ver, FALSE) = f[4][key][ver] /\ f[4][key][ver]
  BY <1>5, <1>6, Zenon DEF Unrolled
<1> QED BY <1>7, Zenon

\* With every wrapping key in use and no file zeroed, every version hangs.
LEMMA InUseDecrypts ==
  ASSUME StructInv, SerialInv, DescentInv
  PROVE  CiphertextsDecrypt
<1> SUFFICES ASSUME HierarchyInUse, NEW b \in blobs, store[b.key].state \in CanDecrypt
             PROVE  Decryptable(b)
  BY DEF CiphertextsDecrypt
<1>1. b.key \in KeyId /\ b.ver \in Nat /\ TypeOK
  BY DEF StructInv, TypeOK
<1>2. PICK f : Unrolled(f, FALSE)
  BY OpensUnrolls, Zenon
<1>3. ASSUME NEW k \in KeyId, file[k] # "absent" PROVE Readable(k)
  <2>1. file[k] # "zeroed" /\ file[k] \in {"absent", "json", "zeroed"}
    BY <1>1 DEF HierarchyInUse, TypeOK
  <2> QED BY <1>3, <2>1 DEF Readable
\* A version of a key in use is wrapped by the master key, or by a key one
\* level up that is in use and has the keypair it was wrapped to.
<1>4. ASSUME NEW k \in KeyId, file[k] # "absent", store[k].state \in CanDecrypt,
             NEW i \in DOMAIN store[k].versions, store[k].versions[i].sk # "Encrypted"
      PROVE  \E j \in KeyId, n \in Nat : HangsFrom(f, k, i, j, n)
  <2>1. PICK v \in Version : v = store[k].versions[i] /\ i \in Nat
    BY <1>1 DEF TypeOK, Meta
  <2>2. v.sk = "CitadelWrapped"
    <3>1. WellFormed(store[k]) /\ store[k].state # "Destroyed"
      BY <1>4 DEF StructInv, RecordsWellFormed, CanDecrypt
    <3> QED BY <1>4, <2>1, <3>1 DEF WellFormed, Version
  <2>3. /\ v.by \in KeyId /\ file[v.by] # "absent"
        /\ store[v.by].type \in {"KeyEncrypting", "Domain"}
        /\ <<store[v.by].type, store[k].type>> \in CanWrap
    BY <1>4, <2>1, <2>2 DEF DescentInv, StoreDescends, WrapsDown
  <2>4. Readable(v.by) /\ store[v.by].state \in CanDecrypt
    BY <1>3, <2>3 DEF HierarchyInUse, WrapsChildren, Readable
  <2>5. /\ v.byVer \in DOMAIN store[v.by].versions /\ store[v.by].versions[v.byVer].pk = v.byPk
        /\ v.byVer \in Nat
    <3>1. WrapIntactIn(v) /\ v.byVer \in Nat
      BY <2>1 DEF SerialInv, StoreIntact, VersionsIntact, Version
    <3> QED BY <2>2, <2>4, <3>1 DEF WrapIntactIn, CanDecrypt
  <2> QED BY <1>1, <1>2, <2>1, <2>2, <2>3, <2>4, <2>5, HangsFromWrapper
<1>5. AllHang(f)
  BY <1>4 DEF AllHang
<1>6. file[b.key] # "absent" /\ b.ver \in DOMAIN store[b.key].versions
      /\ store[b.key].versions[b.ver].pk = b.pk
  <2>1. file[b.key] # "absent" /\ Retains(b)
    BY <1>1 DEF SerialInv, AbsentUnused, CiphertextKeyRetained
  <2> QED BY <2>1 DEF Retains, CanDecrypt
<1>7. Opens(b.key, b.ver, FALSE)
  BY <1>1, <1>2, <1>5, <1>6, HangingOpens
<1>8. Readable(b.key)
  BY <1>1, <1>3, <1>6
<1> QED BY <1>6, <1>7, <1>8 DEF Decryptable

(* While no KEK or Domain key is out of use, every ciphertext of a key in use *)
(* decrypts, whatever was rotated, rewrapped, failed or crashed since: for    *)
(* any hierarchy of keys and any calls, as long as they do not overlap and    *)
(* rewrap is used along can_wrap.                                             *)
THEOREM SerialDecryption ==
  ASSUME OneCaller, RewrapsFollowHierarchy
  PROVE  Spec => []CiphertextsDecrypt
<1>1. StructInv /\ SerialInv /\ DescentInv => CiphertextsDecrypt
  BY InUseDecrypts
<1> QED BY <1>1, InitStruct, NextStruct, InitSerial, NextSerial, InitDescent, NextDescends, PTL DEF Spec

-----------------------------------------------------------------------------
(* The cascade.                                                             *)

\* The key is readable, in use, and a direct child of the one p revokes.
ChildInUse(p, k) ==
  Readable(k) /\ store[k].parent = req[p].key /\ store[k].state \in CanDecrypt

\* Where the cascade of p accounts for k.
Accounted(p, k) ==
  \/ k \in errors[p]
  \/ \E c \in snap[p] : c.key = k
  \/ \E i \in 1 .. Len(queue[p]) : queue[p][i] = req[p].key

\* A cascade has yet to list the children of its key, has them before it, has
\* stopped them, or reports them.
CascadeCovers ==
  \A p \in Proc : InCascade(p) => \A k \in KeyId : ChildInUse(p, k) => Accounted(p, k)

LEMMA WriteSuspends ==
  ASSUME TypeOK, NEW p \in Proc, NEW c \in snap[p], NEW k \in KeyId,
         Write(c.key, [c.meta EXCEPT !.state = "Suspended"]),
         UNCHANGED req, ChildInUse(p, k)'
  PROVE  ChildInUse(p, k) /\ k # c.key
<1>1. c.key \in KeyId /\ c.meta \in Meta
  BY DEF TypeOK, Listed
<1>2. k # c.key
  <2>1. SUFFICES ASSUME k = c.key PROVE FALSE
    OBVIOUS
  <2>2. store'[k].state = "Suspended"
    BY <1>1, <2>1 DEF Write, TypeOK, Meta
  <2> QED BY <2>2 DEF ChildInUse, CanDecrypt
<1>3. file'[k] = file[k] /\ store'[k] = store[k]
  BY <1>1, <1>2 DEF Write, TypeOK
<1> QED BY <1>2, <1>3 DEF ChildInUse, Readable

LEMMA CascadeStepCovers ==
  ASSUME StructInv, SerialInv, CascadeCovers, NEW p \in Proc, InCascade(p),
         Continue(p) \/ Fault(p), InCascade(p)', NEW k \in KeyId, ChildInUse(p, k)'
  PROVE  Accounted(p, k)'
<1>1. TypeOK /\ \A c \in snap[p] : c.meta = store[c.key]
  BY DEF StructInv, SerialInv, SerialLocal
<1>2. CASE CascadeList(p)
  <2>1. ChildInUse(p, k) /\ errors'[p] = errors[p] /\ req'[p] = req[p]
    BY <1>2 DEF CascadeList, ChildInUse, Readable, disk, local
  <2>2. Accounted(p, k)
    BY <2>1 DEF CascadeCovers
  <2>3. PICK q \in Seq(KeyId) : q = queue[p]
    BY <1>1 DEF TypeOK
  <2>4. q # <<>> /\ Len(q) \in Nat \ {0}
    BY <1>2, <2>3 DEF CascadeList
  <2>5. queue'[p] = SubSeq(q, 1, Len(q) - 1)
    BY <1>1, <1>2, <2>3 DEF CascadeList, Popped, TypeOK
  <2>6. CASE k \in errors[p]
    BY <2>1, <2>6 DEF Accounted
  <2>7. CASE \E i \in 1 .. Len(queue[p]) : queue[p][i] = req[p].key
    <3>1. PICK i \in 1 .. Len(q) : q[i] = req[p].key
      BY <2>3, <2>7
    <3>2. CASE i = Len(q)
      <4>1. snap'[p] = {[key |-> j, meta |-> store[j]] : j \in ChildrenOf(q[Len(q)])}
        BY <1>1, <1>2, <2>3 DEF CascadeList, TypeOK
      <4>2. k \in ChildrenOf(q[Len(q)])
        BY <2>1, <3>1, <3>2 DEF ChildrenOf, ChildInUse
      <4>3. [key |-> k, meta |-> store[k]] \in snap'[p]
        BY <4>1, <4>2
      <4> QED BY <4>3 DEF Accounted
    <3>3. CASE i # Len(q)
      <4>1. i \in 1 .. Len(q) - 1 /\ Len(queue'[p]) = Len(q) - 1 /\ queue'[p][i] = q[i]
        BY <2>4, <2>5, <3>1, <3>3
      <4> QED BY <2>1, <3>1, <4>1 DEF Accounted
    <3> QED BY <3>2, <3>3
  <2> QED BY <1>2, <2>2, <2>6, <2>7 DEF Accounted, CascadeList
<1>3. ASSUME NEW c \in snap[p], CascadeSkips(p, c) PROVE Accounted(p, k)'
  <2>1. /\ ChildInUse(p, k) /\ errors'[p] = errors[p] /\ req'[p] = req[p]
        /\ queue'[p] = queue[p]
    BY <1>3 DEF CascadeSkips, ChildInUse, Readable, disk, local
  <2>2. c.key # k
    BY <1>1, <1>3, <2>1 DEF CascadeSkips, OutOfUse, ChildInUse, CanDecrypt
  <2>3. snap'[p] = snap[p] \ {c}
    BY <1>1, <1>3 DEF CascadeSkips, Visited, TypeOK
  <2>4. Accounted(p, k)
    BY <2>1 DEF CascadeCovers
  <2> QED BY <2>1, <2>2, <2>3, <2>4 DEF Accounted
<1>4. ASSUME NEW c \in snap[p], CascadeReports(p, c) PROVE Accounted(p, k)'
  <2>1. ChildInUse(p, k) /\ req'[p] = req[p] /\ queue'[p] = queue[p]
    BY <1>4 DEF CascadeReports, ChildInUse, Readable, disk, local
  <2>2. snap'[p] = snap[p] \ {c} /\ errors'[p] = errors[p] \cup {c.key}
    BY <1>1, <1>4 DEF CascadeReports, Visited, TypeOK
  <2>3. Accounted(p, k)
    BY <2>1 DEF CascadeCovers
  <2> QED BY <2>1, <2>2, <2>3 DEF Accounted
<1>5. ASSUME NEW c \in snap[p], CascadeSuspends(p, c) PROVE Accounted(p, k)'
  <2>1. ChildInUse(p, k) /\ k # c.key
    BY <1>1, <1>5, WriteSuspends DEF CascadeSuspends, local
  <2>2. /\ req'[p] = req[p] /\ errors'[p] = errors[p]
        /\ snap'[p] = snap[p] \ {c} /\ queue'[p] = Append(queue[p], c.key)
    BY <1>1, <1>5 DEF CascadeSuspends, Visited, TypeOK, local
  <2>3. PICK q \in Seq(KeyId) : q = queue[p]
    BY <1>1 DEF TypeOK
  <2>4. \A i \in 1 .. Len(q) : i \in 1 .. Len(queue'[p]) /\ queue'[p][i] = q[i]
    <3>1. c.key \in KeyId
      BY <1>1 DEF TypeOK, Listed
    <3> QED BY <2>2, <2>3, <3>1
  <2>5. Accounted(p, k)
    BY <2>1 DEF CascadeCovers
  <2> QED BY <2>1, <2>2, <2>3, <2>4, <2>5 DEF Accounted
<1>6. ASSUME NEW c \in snap[p], CascadeUnacknowledged(p, c) PROVE Accounted(p, k)'
  <2>1. ChildInUse(p, k) /\ k # c.key
    BY <1>1, <1>6, WriteSuspends DEF CascadeUnacknowledged, local
  <2>2. /\ req'[p] = req[p] /\ errors'[p] = errors[p] \cup {c.key}
        /\ snap'[p] = snap[p] \ {c} /\ queue'[p] = queue[p]
    BY <1>1, <1>6 DEF CascadeUnacknowledged, Visited, TypeOK, local
  <2>3. Accounted(p, k)
    BY <2>1 DEF CascadeCovers
  <2> QED BY <2>1, <2>2, <2>3 DEF Accounted
<1>7. ~CascadeAborts(p) /\ ~CascadeDone(p)
  <2>1. pc'[p] # "idle"
    BY DEF InCascade
  <2> QED BY <1>1, <2>1 DEF CascadeAborts, CascadeDone, EndCascade, Return, TypeOK
<1>8. ~Wrap(p) /\ ~WrapFails(p) /\ ~ZeroFile(p) /\ ~Put(p) /\ ~PutFails(p) /\ ~PutUnacknowledged(p)
  BY DEF InCascade, Wrap, WrapFails, ZeroFile, Put, PutFails, PutUnacknowledged
<1> QED BY <1>2, <1>3, <1>4, <1>5, <1>6, <1>7, <1>8 DEF Continue, Fault

\* The cascade begins with its own key in the queue.
LEMMA CascadeBegins ==
  ASSUME TypeOK, NEW p \in Proc, ~InCascade(p), Continue(p) \/ Fault(p), InCascade(p)'
  PROVE  \A k \in KeyId : Accounted(p, k)'
<1>1. pc[p] # "cascade" /\ pc'[p] = "cascade"
  BY DEF InCascade
<1>2. Put(p)
  BY <1>1 DEF TypeOK, Continue, Fault, Wrap, WrapFails, ZeroFile, PutFails, PutUnacknowledged,
              Return, CascadeList, CascadeAborts, CascadeSkips, CascadeReports, CascadeSuspends,
              CascadeUnacknowledged, CascadeDone, CascadeEnded, InCascade
<1>3. queue'[p] = <<req[p].key>> /\ req'[p] = req[p]
  BY <1>1, <1>2 DEF Put, Return, TypeOK
<1>4. 1 \in 1 .. Len(queue'[p]) /\ queue'[p][1] = req'[p].key
  BY <1>3
<1> QED BY <1>4 DEF Accounted

LEMMA NextCovers ==
  ASSUME OneCaller
  PROVE  StructInv /\ SerialInv /\ CascadeCovers /\ [Next]_vars => CascadeCovers'
<1> SUFFICES ASSUME StructInv, SerialInv, CascadeCovers, [Next]_vars,
                    NEW p \in Proc, InCascade(p)', NEW k \in KeyId, ChildInUse(p, k)'
             PROVE  Accounted(p, k)'
  BY DEF CascadeCovers
<1>1. TypeOK
  BY DEF StructInv
<1>2. CASE UNCHANGED vars
  <2>1. InCascade(p) /\ ChildInUse(p, k)
    BY <1>2 DEF vars, disk, history, local, walk, InCascade, ChildInUse, Readable
  <2>2. Accounted(p, k)
    BY <2>1 DEF CascadeCovers
  <2> QED BY <1>2, <2>2 DEF vars, local, walk, Accounted
<1>3. ~Crash
  BY DEF Crash, InCascade
<1>4. CASE Continue(p) \/ Fault(p)
  <2>1. CASE InCascade(p)
    BY <1>4, <2>1, CascadeStepCovers
  <2>2. CASE ~InCascade(p)
    BY <1>1, <1>4, <2>2, CascadeBegins
  <2> QED BY <2>1, <2>2
<1>5. ASSUME NEW r \in Requests PROVE ~Begin(p, r)
  <2>1. pc'[p] = "cascade"
    BY DEF InCascade
  <2> QED BY <1>1, <2>1 DEF Begin, Generate, GenerateSigningKey, Create, Activate, Rotate, Rewrap,
                Revoke, RevokeCascade, Expire, Destroy, Encrypt, StartOn, Start, TypeOK
<1>6. CASE Next
  <2>1. PICK q \in Proc : (\E r \in Requests : Begin(q, r)) \/ Continue(q) \/ Fault(q)
    BY <1>3, <1>6 DEF Next
  <2>2. q = p
    BY DEF OneCaller
  <2> QED BY <1>4, <1>5, <2>1, <2>2
<1> QED BY <1>2, <1>6

(* A cascade that ends without an error to report has left no direct child   *)
(* of the revoked key in use: list_by_parent is called for that key before   *)
(* the walk ends, and each key it returns is suspended, was out of use, or   *)
(* is reported.  For any hierarchy, as long as calls do not overlap: a child *)
(* generated or re-activated meanwhile by another caller is missed.          *)
THEOREM SerialCascade ==
  ASSUME OneCaller
  PROVE  Spec => []CascadeStopsChildren
<1>1. Init => CascadeCovers
  BY DEF Init, CascadeCovers, InCascade
<1>2. CascadeCovers => CascadeStopsChildren
  <2> SUFFICES ASSUME CascadeCovers, NEW p \in Proc, CascadeEnded(p), errors[p] = {},
                      NEW k \in KeyId, ChildInUse(p, k)
               PROVE  FALSE
    BY DEF CascadeStopsChildren, ChildInUse
  <2>1. Accounted(p, k) /\ snap[p] = {} /\ queue[p] = <<>>
    BY DEF CascadeCovers, CascadeEnded
  <2>2. Len(queue[p]) = 0
    BY <2>1
  <2>3. ~ \E i \in 1 .. Len(queue[p]) : queue[p][i] = req[p].key
    BY <2>2
  <2> QED BY <2>1, <2>3 DEF Accounted
<1> QED BY <1>1, <1>2, InitStruct, NextStruct, InitSerial, NextSerial, NextCovers, PTL DEF Spec
=============================================================================
