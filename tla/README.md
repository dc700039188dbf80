# Citadel: TLA+ models, checks and proofs

Citadel is a key-management service written in Rust. A keystore holds a
hierarchy of keys (Root, Domain, KeyEncrypting, DataEncrypting, HybridIdentity,
Signing) and takes each key through a lifecycle; an HTTP server exposes the
keystore behind API keys, a rate limiter and an authorisation layer; a replay
store makes ciphertexts one-time; an audit log chains what happened; a threat
assessor tightens policies. The envelope crate seals and opens data and streams,
a C interface exports it, and an operator's command line works on the key
directory of the running server.

The hard part of this system is not the cryptography, which the models take as
ideal (a ciphertext opens exactly under what it was sealed with). It is that
almost every operation is a read-modify-write of a record, a table or a file,
shared by concurrent HTTP handlers, with no lock held from the read to the
write, and with failing writes, disconnecting clients and restarts in between.

Notation below: a *run* is an entry of `PROJECT.json`, `pass` or `violation`. The
two violation runs state what the documents of the repository say and show a
behaviour of the code that disagrees; they are the findings of section 5, which
also lists the other disagreements met while modelling.

## 1. Inventory

| Component (source) | State | Operations | Talks to | What makes it correct |
|---|---|---|---|---|
| Keystore lifecycle (`keystore.rs`, `types.rs`) | one `KeyMetadata` record per key | generate, activate, rotate, rewrap, revoke, cascade, expire, destroy, encrypt, decrypt, sign | storage, replay store, threat assessor, enforcer, audit | revocation is final; the keypair of a ciphertext is kept; usage is counted; the hierarchy is sound |
| Storage (`storage.rs`) | a JSON file per key | put (write, rename), get, list, delete, overwrite | file system | whole records, never half of one |
| Key hierarchy (`hierarchy.rs`, `graph.rs`) | none | `can_wrap`, offline graph validation | keystore, doctor | every key sits under a parent its type allows |
| Replay stores (`replay_store.rs`) | claims in memory, in a file, in Redis | claim, release, flush, evict, reload | decrypt | one plaintext per ciphertext; a failed decrypt leaves no claim |
| State enforcer (`state_enforcer.rs`) | valid, revoked and domain keys; issued tokens | register, revoke, authorize, validate | handlers, keystore | a context pays once; a revoked key is refused |
| HTTP handlers (`citadel-api/src/main.rs`) | one call in progress each | one per route | enforcer, keystore | an answered revocation holds |
| API keys (`main.rs`) | entries in memory and in `api-keys.json` | authenticate, create, revoke, touch, save, load | handlers | an answered revocation holds; an answered creation stands until revoked; an admin remains |
| Rate limiter (`main.rs`) | token buckets per address, per key, global | check, sweep | middlewares | no more than rate and burst |
| Audit log, witness (`audit.rs`, `audit_witness.rs`) | sequence, hash, file, receipts | record, anchor, verify | everything that changes state | the file verifies; what verifies has no gap |
| Threat assessor (`threat.rs`) | event queue, level, override | record, batch, reset, read | handlers, keystore | the level fits the score and comes down |
| Policies, adapter (`policy.rs`, `threat.rs`) | registered policies | adapt, evaluate | encrypt, decrypt, sweep | tighter with the level, never looser than the base |
| Envelopes (`lib.rs`, `wire.rs`, `wire_v2.rs`, `sdk.rs`, `aad.rs` of `citadel-envelope`) | none | seal, open, inspect; two versions, two suites | keystore, CLI, FFI | what opens is what was sealed, for that key and those labels; what was sealed opens |
| Streams (`stream.rs`, `stream_v3.rs`) | chunk counter, finalized, done | push, finish, decrypt a chunk, verify the tag | CLI, SDK | a prefix in order, the whole when it says so; no nonce twice; a bad frame costs nothing |
| C interface (`citadel-ffi/src/lib.rs`) | the registry of buffers handed out | keygen, seal, open, free | host threads, envelopes | every buffer is known until freed, and wiped |
| Signer and assertions (`citadel-signer`, `main.rs`) | none | sign, issue, verify | keystore, handlers | an assertion names what signed it; what is accepted is what was issued, in its time |
| Backup and restore (`backup.rs`, CLI) | the archive | create, verify, restore | storage | what decrypted when the backup was taken decrypts again |
| Migration (`migration.rs`, CLI) | a plan, the ids created | plan, generate, activate, rewrap | keystore | success means complete, however often it was interrupted |
| Doctor (`doctor.rs`, `hierarchy.rs`) | none | twelve checks over a listing | storage | a clean report is right |
| Root key provider, other commands, dashboard | none of their own | I/O, printing | all | - |

`PROJECT.json` lists all of them with their status, and under `hazards` what is
hard to test, at the line where it bites.

Behaviours that are hard, and where:

* **Interleavings.** Handlers share an `Arc<Keystore>` without a lock around
  get...put; the enforcer is told after the store; the audit chain drops its
  lock before it writes; the rate limiter reads its clock before it locks; a
  handler names the key version it read before it asks another to sign; the C
  interface wipes and frees outside its lock; the command line is a second
  process over the server's directory, which nothing locks.
* **Partial failure.** `put` may fail, also after its rename took effect;
  `destroy` zeroes the file before it stores the final record; API-key saves
  fail after memory has changed; audit write errors are only printed; Redis may
  act and lose the answer; a restore or a migration stops half way and is run
  again; a keygen fails after its first output.
* **Crashes and restarts.** Batched replay claims, the enforcer's revocations
  and the chain's position are in memory.
* **Time.** Batch intervals, tokens' and contexts' time to live, clock skew,
  idle buckets, event windows, policies' ages, an assertion's expiry in 64 bits.
* **Delivery.** Frames of streams dropped, repeated, reordered, spliced, truncated;
  envelopes with any field replaced.

## 2. Modules

One module per component. An `MC` module holds the constants of small instances
and each `.cfg` is one run. Where components share no state and answer one
question of a reader (what admits a request, what watches the keystore, which
replay store is deployed), one `MC` module extends all of them: the initial state
picks the one that moves, so that each is checked over its own behaviours.
Definitions keep the
source's names; `PROJECT.json` maps each to its lines. A definition whose comment
begins "Mutant" is a plausible bug in the definition that follows it; a run's
properties are each known to fail under one of them.

| Module | Models | Composition |
|---|---|---|
| `Keystore` | the lifecycle engine over a backend, one step per storage call | - |
| `OneTimeUse` | abstract: what replay protection promises | refined by the next two |
| `FileReplayStore` | decrypt over the file backend | `INSTANCE OneTimeUse WITH Window <- TTL + 1` |
| `SlotReplayStore` | decrypt over the memory and Redis backends | `INSTANCE OneTimeUse WITH Window <- TTL` |
| `EnforcerRegistry` | the enforcer's knowledge of keys | extended by the next two |
| `StateEnforcer` | contexts and one-shot tokens | extends `EnforcerRegistry` |
| `ApiServer` | key handlers over enforcer and store | extends `EnforcerRegistry`; a key's record is its state |
| `ApiKeys` | API keys, their file, admin rules | - |
| `RateLimiter` | three buckets, two middlewares, the sweep | - |
| `AuditChain` | chain sink over file sink, witness, verifiers | - |
| `ThreatAssessor` | events, score, level, override | - |
| `AdaptivePolicy` | adapter, evaluator and what they gate | the level moves freely, as `ThreatAssessor` allows |
| `Primitives` | KEM, KDF, AEAD and the suite table, ideal | extended by the next two |
| `Envelope` | both envelope versions, label builders, inspect | - |
| `StreamContract` | abstract: what a stream's reader is promised | refined by `Stream` |
| `Stream` | encryptors and decryptors of both stream versions, and the transport | `INSTANCE StreamContract` |
| `EnvelopeCrate` | the two together | extends `Envelope`, `Stream` |
| `Ffi` | buffers, registry and host threads | - |
| `Maintenance` | backup, restore, migration, doctor and key commands beside a server | extends `Keystore`, which runs for the server and for the command line |
| `Assertions` | signing, assertions and their verification | extends `Keystore` |
| `KeystoreProofs` | theorems about `Keystore` | extends it |
| `KeystoreUseProofs` | theorems about `Assertions` and `Maintenance` | extends both and `KeystoreProofs` |
| `ReplayProofs` | the two refinements of `OneTimeUse` | extends `FileReplayStore`, `SlotReplayStore` |
| `ApiServerProofs` | theorems about `ApiServer` | extends it |
| `AdmissionProofs` | theorems about `RateLimiter`, `ApiKeys`, `StateEnforcer` | extends them |
| `WatchProofs` | theorems about `AdaptivePolicy`, `AuditChain`, `ThreatAssessor` | extends them |
| `EnvelopeProofs` | theorems about `Envelope` and `Stream` | extends `EnvelopeCrate` |
| `FfiProofs` | theorems about `Ffi` | extends it |

### Keystore

A process is a caller inside an operation; `pc` is its next storage call and its
local copy of the record is part of the state. `get` copies, `put` stores the
copy whole; a put may fail before or after it took effect, and a crash may end a
call between two steps. `destroy` is the zeroing overwrite and then the put: in
between the file is unreadable, and every `list` (a cascade, a sweep) fails.
Unwrapping recurses at most `MAX_UNWRAP_DEPTH` levels up the wrapping keys (`Opens`).
Public keys are numbers and a ciphertext names its keypair, so "the keypair that
opens this is gone" can be said. Policies are reduced to a usage limit and to
whether a key is due; `AdaptivePolicy` has the rest, the refusal to decrypt past an
enforced cryptoperiod (`keystore.rs:1829`) included: `Decryptable` is about keys and
ciphertexts, not about age.

What it shows: with callers that do not overlap the keypairs, the usage counts and
what decrypts are safe under every failure and crash (`keystore_serial`; the
lifecycle and the finality of revocation are theorems); with overlapping callers
the hierarchy is still sound and every call returns (`keystore_concurrent`), but
the properties of the serial run are not: `encrypt`, `rotate` and `activate` put
back records read before another caller's change. Section 5 has what follows.

Also seen while modelling: no operation ever enters Rotated (COMPLIANCE_MATRIX
2.3 and 2.8 say otherwise); encrypt does not look at ancestors' states; a key
may be rewrapped under itself, which only the unwrap depth stops; expired keys
stay valid in the enforcer; the comment at `storage.rs:155` on atomic writes does
not cover `overwrite_key_file`.

### Replay protection

`OneTimeUse` is the contract: an opening of a ciphertext whose last claim has not
expired needs a crash of its own. `FileReplayStore` keeps claims with their
times, the operations since the last flush, and the file; `SlotReplayStore` one
table, lost with the process (memory) or kept by a server whose answers are lost
(Redis). The run checks both refinements (`OnePlaintextPerClaim`,
`SlotOnePlaintext`), how many claims a crash may forget (`LossBounded`) and that a
failed decrypt leaves the genuine ciphertext usable with the file store
(`NoPoisonedClaim`). Redis cannot promise that: a lost answer leaves a slot
nobody knows of.
The variable `backend` is chosen initially and never changes. `decrypt` has no suspension point between its claim and
its opening, but other threads run.

### Enforcer and handlers

`StateEnforcer` has contexts, tokens with their own constant time to live, key
changes and replacement of the enforcer, over the registry of `EnforcerRegistry`. `ApiServer` is the composition: each
handler is its steps between lock acquisitions, a client may disconnect at each
await, and a restart rebuilds the enforcer from the store. The two layers cover
for each other: `RevocationHolds` is the enforcer's, until a restart;
`StoreHolds` the store's, across restarts, until a stale write. Their common gap
is `api_revocation_restart`. A key whose stored revocation was overwritten can be
neither revoked again nor destroyed until the restart.

### API keys

The entry map, the active set and the saved file; a request carries the grant it
was authenticated with. Assumes `CITADEL_API_KEY_HASH` is set, so that a
bootstrap admin exists, saved or not. `held` records who was given a secret, which
is what makes "an admin entry remains" (`AdminRemains`) weaker than "somebody can
administer": after a failed save the remaining entry may be one whose secret was
given to nobody. `RevokedRefused` and `HandedOutAccepted` are the two promises of an
answer: "revoked" is never taken back, and a secret that was handed out is accepted
with its grant until some revocation deactivates the entry, whichever of memory and
file a failed save left behind and a restart or a `last_used` save carries on.
`struck` records the deactivations, also those whose save failed and which were
answered with an error. A request whose API key is revoked while it waits for the
lock still carries out the one operation it came for, with the grant it was
authenticated with; what it creates stands.

### Rate limiter

Whole tokens per tick instead of `f64`; the literal factors 5, 10 and 50 are
constants, so that small instances reach every tier. `overtaken` records that
some check took a bucket's lock with an older clock reading than its
predecessor's: without it the bound (`SteadyRate`) is proved, with it the bound
fails. An authenticated request is charged to its address twice.

### Audit log

Events are stamped under the mutex and written in two writes after it is
released; a file is a sequence of lines, each of the events written to it. A hash
is the event's identity. A failed write leaves nothing, the event without its end,
or part of it, cut between two characters (`Torn`: the line is not JSON) or inside
one (`Cut`: the line is not UTF-8; names and reasons in events are users' text).
`cmd_verify_chain` is a set of operators over the file: it reads up to the first
line that is not UTF-8 (`LinesRead`) and compares each filled line with the one
before it (`Filled`, `Before`). `VerifiedHasNoGap` says what its "Chain intact"
proves, of the events it counts and of no others: with an event they include every
event its process stamped before. What is behind a line it cannot read is lost
unnoticed (section 5). The witness is modelled although the product never
constructs one (`with_witness` is used by tests only).

### Threat assessor and policies

Events hold their age, saturating at `MaxEventAge`, instead of a timestamp; decay is a
constant operator. In `AdaptivePolicy` factors are percentages: `(d as f64 * 0.3)
as u64` equals `(d * 30) \div 100` for every duration below 2^50, since each
factor's representation error is below half a unit in the last place of the
product. `EscalationNeverEases` compares the verdicts of the evaluator, whose
checks are ordered, at every two levels: it holds of Compliant and Expired and
not of the warnings between them. The summaries for the dashboard, `evaluate_policy` and
`check_rotation_due` change nothing and are left out; the latter two look at the
base policy, so a key blocked at a raised level is not reported as due.

### Envelopes and streams

What a primitive computes is the record of its inputs (`Primitives`), so a format
is judged by what it feeds them. An envelope is its header fields, KEM ciphertext
and body with their real lengths, because the two suites differ in length (by 545
bytes) and the decoders slice by length; labels, contexts and associated data are
scaled down. A holder may rewrite any two fields, relabel suites, splice parts of
other envelopes, cut and extend, and open with any key and labels:
`OnlySealedOpens`. `GenuineOpens` is the other half, at the size limits too.

A stream is an encryptor with its counter and a decryptor with its expected
number; the transport presents any header and any frame, genuine, relabelled or
spliced. `StreamsAreWhole` is the refinement of `StreamContract`; `NonceOnce` is
what v3's derived nonces rest on; `StreamsComplete` says that refusing a bad frame
costs the reader nothing.

### C interface

Allocation, insertion, copy, removal, wipe and deallocation are steps of their
own, as only the registry's map is under the lock; an address goes back to the
allocator and may be handed to another thread at once. The insertion, which may
allocate, may panic under the lock and poison it; the removal of a number from the
map cannot. Hosts keep the contract at the top of the file.

### Maintenance

The command line runs `Keystore`'s operations as a process of its own beside the
server's. A directory is listed file by file, an archive truncated and then
written, a restore written key by key, a migration made of engine calls; each may
be interrupted or fail and be run again, and the directory may be lost. `lineage`
records where the files come from. The properties say what an exit code of 0
means: `RecoveredDecrypts` (for a backup taken while nobody wrote, restored into an
empty directory), `MigrationSettles`, `DoctorSound`. Their conditions are limits of
the code that section 5 lists: the doctor and the migration look at current
versions only, and an unreadable file makes both see an empty store.

### Signing and assertions

A signing handler builds its message from the key it read, waits for the
enforcer, and has the keystore read the key again. Verification changes nothing
and is a predicate, asked in every state of every assertion a holder can make of
the issued ones. The cast and the sum of the expiry wrap at `Width` bits.
`NamesItsSigner` holds although the handler's version is stale after a rotation,
because a rotated signing key cannot sign at all (section 5): the mutant that
rotates a signing key in kind breaks it.

## 3. Runs and bounds

Every bound is a `Max...` constant and a guard; time stops at `MaxTime`. Unless
said otherwise deadlock is not checked because the bounded system may finish.

| Run | Instance | Shows |
|---|---|---|
| `keystore_serial` | 1 caller, Root, Domain, two KEKs, DEK; 2 keypairs and 2 ciphertexts per key | the safety properties of one caller at a time, under failing puts and crashes; two KEKs are what rewrap needs |
| `keystore_concurrent` | 2 callers, a new key created under the KEK or the Domain against activate, rotate and destroy of the KEK and a cascade from the Domain; fair | structure under overlap; every call returns |
| `replay` | file: 3 ciphertexts, 2 decrypts, batch of 2, interval 3, TTL 2, high water 3, 1 crash; memory and Redis: 2 ciphertexts, 3 decrypts, TTL 3, time 6, 2 crashes | both refinements and bounded loss; three ciphertexts make a batch and one more, time covers two lives of a claim |
| `admission` | limiter: 2 requests, 2 addresses, 1 key, burst 2 and rate 2 per tick, global bucket of 4, sweep of buckets idle for 1 tick; API keys: 2 requests, bootstrap and 2 more keys, 2 domains, 1 restart, 1 failed save; enforcer: 2 keys, 2 nonces, 2 instances, TTL 2 + skew 1 against token TTL 2 | every bucket within its bound and refusing some request; answered revocations and creations of API keys, and the remaining admin; one-shot contexts |
| `api_revocation` | 1 key, 2 requests of all kinds, 1 restart; deadlock checked | both layers |
| `api_revocation_restart` (violation) | the same without destroy | their common gap |
| `watch` | threat: 4 events of severity 0, 4, 8, window 2, queue of 3, halving each minute; policy: five shapes, ages to 11, 5 encryptions; audit: 2 threads, 5 events, 1 restart, 1 failed write, anchor every 2; fair | no oscillation, return to Low; verdicts, cryptoperiods, expiry; quiet chains verify, what verifies has no gap |
| `envelope_crate` | two 0xA3 keys and one 0xA4; ten requests with labels and plaintexts at every limit, 2 seals, 2 edits; two streams of at most 2 chunks, both versions; fair | nothing but what was sealed opens, and all of it does; the stream contract |
| `ffi` | 2 threads, 2 addresses, texts of 0 and 100 bytes; fair | buffers stay registered, are wiped before they are freed and are wiped in the end; an address changes hands |
| `maintenance` | the command line and a server of one call at a time; Root, Domain, KEK, DEK and one free id, or a flat store; 3 commands, 2 server calls, 1 loss, 1 fault | what exit code 0 of restore, migrate and doctor means; three commands are a backup, a restore and its repetition |
| `migration_hierarchy` (violation) | one migration of a flat store, no faults | a migrated DEK has no Domain |
| `signing` | 1 signer and 1 caller of the keystore, 2 signing keys under one KEK, 2 claims, 3-bit integers, times to 2, `ttl_secs` 2 and 7 | assertions against rotation, rewrap, revocation, crash and wrap-around; 7 is -1 after the cast and 2 + 2 wraps in the sum |

Symmetry is used over callers, ciphertexts, addresses, API-key domains and claims
in safety and refinement runs only, never with fairness. In `admission` the sets
of the three components share model values, so that one permutation serves all.

### Fairness

* `keystore_concurrent`: weak fairness of each caller's next step. The runtime
  polls every ready task, and each step is a synchronous file operation.
  Starting calls is not fair.
* `watch`: the clock runs; the level is read again and again, by every encryption
  and, while an Active key with a policy exists, by the sweep the server runs each
  minute; the sweep happens. Rotations and encryptions, which clients ask for, are
  not fair.
* `envelope_crate`: the transport delivers the frame and the tag the reader waits
  for, sooner or later; nothing keeps it from presenting others before.
* `ffi`: a thread inside the library runs on (weak), and the host frees what it
  owns (strong: it may be busy in between).

## 4. Proofs

For every value of the constants, under the named `ASSUME`s of the modules. A
hypothesis a theorem has beyond those is named with it.

| Module | Result | Along |
|---|---|---|
| `KeystoreProofs` | types, `HierarchySound`, `RecordsWellFormed`, `IdentityFixed` for any number of callers | `StructInv`: besides the properties, every *local copy* is sound too (`LocalSound`), since it will be put back, and no two callers generate the same id (`GenerationsApart`) |
| | `LifecycleEdges`, `RevokedIsFinal`, `CiphertextKeyRetained`, `UsageAccounted` for calls that do not overlap (`OneCaller`) | `SerialInv`: the local copy is the stored record plus the caller's own change (`SerialLocal`), no version is wrapped to a keypair that is gone (`StoreIntact`), and a key not stored has been used for nothing (`AbsentUnused`) |
| | `CiphertextsDecrypt` (`OneCaller`, `RewrapsFollowHierarchy`) | `DescentInv`: a version is wrapped by the master key or by a key one level up `can_wrap` (`WrapsDown`), so three levels of recursion open it. The unwrap recursion is unrolled level by level (`Unrolled`). The second hypothesis is needed because `rewrap` asks `can_wrap` of nothing: rewrapping a KEK under a key below it is a call the code accepts and after which neither opens |
| | `CascadeStopsChildren` (`OneCaller`) | `CascadeCovers`: a child in use of the revoked key is yet to be visited, or was reported, or the level is yet to be listed |
| `KeystoreUseProofs` | `AcceptedAsIssued`, however calls overlap | `IssueInv`: a signature is over the input its task built, and an assertion in progress is dated as asked for in the machine's width |
| | `NamesItsSigner`, `SignaturesVerify` (`OneCaller`) | `SignerInv`, on top of `SerialInv`: what signed is a version the record still has, with the keypair and the kind it had |
| | `RecoveredDecrypts`, for any server calls, commands, crashes, failed writes and losses, which may overlap | restores put back old records, so `StructInv` is gone; `EngineInv` is what survives: records and all copies of them are typed and well formed. `RecoveryInv` adds what the command line is at (`CommandTyped`, `CallsInPlace`), that an undisturbed listing is the directory (`ListedTruly`), and what the files are, by lineage (`LineageTrue`). `ArchiveKept`: a backup taken in quiet opens, from its own records alone, all that decrypted then |
| | `MigrationSettles`, in the same generality | `MigrationInv`, on top of `RecoveryInv`: which record each call of the migration works on and what it leaves of it (`MigrationCalls`), and, as long as nothing failed, that every level not missing has an active key and every DEK the master key wraps is pending or being rewrapped (`MigrationOnCourse`). A write under way keeps the type of the record it replaces, and no file in it is unreadable, so a store that lists at the end listed when the plan was made |
| | `DoctorSound` (`KeysApart`: no two processes work on the same key at once; on different keys, a parent and its child included, they may overlap) | `WorldInv`, on top of `RecoveryInv`: the directory, or while a restore is under way the backup, is *closed* (`Closed`): every parent a record names is there and may wrap it, and every version names a version and keypair its wrapping key still has unless it is destroyed. What a process will put back is sound in that world and may take the place of what is stored (`CallSound`, `Replaces`), and a world that grows keeps all that was sound in it (`SoundStays`). A quiet backup is closed, so a restore of it is. `DoctorInv`: the directory is as the report found it (`Healthy`). Then the key that wraps any version is the parent that wraps the current one, which the doctor has seen in use, and three levels of recursion open it (`HangingOpens`, shared with `CiphertextsDecrypt`) |
| `ReplayProofs` | file store: refinement of `OneTimeUse`, `NoPoisonedClaim`, `LossBounded` | `ReplayInv`: a holder's claim is in the table and its own (`ClaimsHeld`); an opening is remembered, expired, or covered by a crash (`OpeningsKnown`). `LossInv`: unsaved claims number at most the operations since the flush |
| | memory and Redis: refinement of `OneTimeUse` | `SlotInv`, the same argument over slots (`SlotsHeld`, `SlotOpeningsKnown`) |
| `ApiServerProofs` | `RevocationHolds`, `StoreHolds` | two independent layers: the enforcer knows every answered revocation until a restart and stops late requests; without stale writes an answered key is dead in the store and in every copy |
| `AdmissionProofs` | `OneShot` | a context that has paid has no registered token (`SpentTokensGone`) |
| | `RevokedRefused`, `AdminRemains`, `HandedOutAccepted`, `FileStarts` | `ApiKeyInv`: an answered revocation is in the file (`RevokedSaved`), so is what was handed out, unless nothing was ever saved and it is the bootstrap entry (`HandedOutSaved`), and every entry, in memory and in the file, is what its id was created with (`Lineage`) |
| | `SteadyRate` | what a bucket holds plus what it paid is covered by burst and rate (`Covered`); a dropped bucket was full, from `Rate * IdleAge >= Burst` |
| `WatchProofs` | `EscalationTightens`, `EscalationNeverEases`, `UsageBounded`, `CryptoperiodStops`, `RotationDueFirst` | scaling is monotone in base, factor and floor; ages have the smaller factors and the lower floor (`FloorAge <= FloorLifetime`) |
| | `VerifiedHasNoGap`, `QuietChainIntact`, `ReceiptsVerify` | `ChainInv`: stamps are linked, and what is on file was stamped or is part of an event. The first takes the largest missing number below an event that was read: the event after it verifies, so the line before it is the missing one. `QuietShape`: alone, a thread keeps the file the stamps in order. `ReceiptsOrdered`: receipts are published in chain order |
| | `NoOscillation` | `LevelKept`: without an override the level is at least what the score calls for. Scores are sums over the queue, compared term by term; time only lowers the terms (`decay_rate` at most 1) |
| `EnvelopeProofs` | `OnlySealedOpens` | `SealsInv`: what was sealed is what `seal` makes of its request. From an envelope that opens, the AEAD's inputs are read back: key, context, header and associated data are those of one seal, for each format |
| | `GenuineOpens` (`RefusedApart`) | what was sealed passes the decoder and the checks of its reader, lengths at every limit included. The hypothesis says that the model's error value is no number and no function, which in Rust is the type of `Result` |
| | `NonceOnce`, refinement of `StreamContract` | `WriterInv`: frame i of a stream is chunk i, final only if last. `ReaderInv`: what a reader got is a prefix of the one stream its key belongs to, whatever it was presented |
| `FfiProofs` | `BuffersRegistered`, `FreedIsWiped` | `FfiInv`: at every step of a call, what allocator, registry and memory hold of the address it works on (`InProgress`), and that no two parties hold one (`HostApart`, `OutputsApart`, `WorkApart`) |

Each inductive invariant was an invariant of a run before it was proved. What is
proved for every instance and is not among the runs' properties stays a theorem
only: the type invariants, `RecordsWellFormed`, `IdentityFixed`, `LifecycleEdges`,
`RevokedIsFinal`, `FileStarts`, `EscalationTightens`, `UsageBounded`.

Induction over data (a queue's sum, a chain's lines, a stream's frames, the unwrap
recursion) is done in the form the provers take: by the least element of a set of
counterexamples (`LeastNatural`), by a set closed under the step (`UpTo`), or by
unrolling a recursion of fixed depth.

`KeysApart` is needed. When the command line reads a KEK to rotate it, the server
rotates the same KEK and then a DEK below it, and the command line's put arrives
last, the new version of the KEK has another keypair than the one the DEK is wrapped
to. The doctor, which compares no keypairs, exits with 0 and the DEK's ciphertexts
do not open: TLC finds this with rotation of the KEK allowed to both processes. The
calls of the `maintenance` run rotate no KEK and are otherwise free to overlap.

Only model-checked: liveness, as the prover has no fairness: `OperationsReturn`,
`ReturnsToLow`, `DueKeysExpire`, `StreamsComplete`, `EveryBufferWiped`. Every other
property that a run is expected to pass is a theorem.

## 5. Findings

**Checked** (`api_revocation_restart`): `rotate`, `activate` and `encrypt` put
back the whole record they read before a concurrent revoke; the enforcer hides it
until the restart that forgets the revocation (`main.rs:3265`), and the revoked
key is served again. `README.md:150`: "Permanently revoke key".

**Checked** (`migration_hierarchy`): `migrate hierarchy` rewraps every flat DEK
under the KEK it made, and `rewrap` (`keystore.rs:1198`) leaves `parent_id` None: the
DEK has no Domain, without which encrypt and decrypt refuse it, its next rotation
wraps under the master key again, and no cascade reaches it. `migration.rs:3`:
"upgrade flat master-key-wrapped keys to a proper Root → DomainKek → Kek → Dek
hierarchy".

Other places where the code and its documents disagree, met while modelling. They
are readings of the code, with no run of their own; where a property of section 3
is conditional (serial calls, no overtaking, no restart), the condition is what
excludes them. Sources are under `citadel-keystore/src/`, `citadel-core/src/` and
`citadel-api/src/` (`main.rs`); the last rows say their crate.

| Code | Says otherwise | What happens |
|---|---|---|
| `keystore.rs:1695` | `types.rs:151` "Revoked — emergency deactivation. Cannot be reactivated." | an encrypt overlapping a revoke stores Active again |
| `keystore.rs:1695` | `main.rs:4401`, a test's "must not ... return corrupt data" | an encrypt overlapping a rotate drops the new version, and what was sealed to it is lost |
| `keystore.rs:1693` | `COMPLIANCE_MATRIX.md:50`, `:88` "tracked via usage counters" | overlapping encryptions count once |
| `keystore.rs:1297` | `keystore.rs:1268` "covers all generations of descendants" | a child revoked earlier shields what is below it |
| `keystore.rs:1079` | `keystore.rs:1077` "hierarchy is preserved" | rotate after rewrap wraps under the old parent again |
| `keystore.rs:1072` | `keystore.rs:803-805`, on "wrong material" | rotate of a signing key makes encryption material |
| `keystore.rs:1099` | `keystore.rs:1626` "Rotate key before encrypting." | rotation leaves the usage count that blocks encrypting |
| `replay_store.rs:453` | `SECURITY_GUARANTEES.md:48` "Replays are rejected across process restarts." | a crash forgets the claims of the last batch |
| `replay_store.rs:453` | `REPLAY_TRUST_BOUNDARIES.md:50` "Time: 5 seconds maximum" | the interval is looked at only when the next claim comes |
| `replay_store.rs:688` | `replay_store.rs:608-609` "The slot is only kept permanently on successful decryption." | a lost Redis answer leaves a slot nobody releases |
| `state_enforcer.rs:891` | `state_enforcer.rs:189` "(timestamp within TTL + clock skew)" | tokens are dropped after a constant time, whatever TTL and skew are configured |
| `audit.rs:451`, `:397` | `audit.rs:348-351`, `COMPLIANCE_MATRIX.md:90` | overlapping writers or a restart leave a file that does not verify although nobody touched it |
| `audit.rs:121` of the CLI | `README.md:235` "SHA-256 hash chain detects log tampering" | `verify-chain` stops silently at the first line that is not UTF-8 (an event cut inside a character, with the next event on its line) and reports "Chain intact" of what is before it: the events behind it may be lost or altered |
| `main.rs:1107` | - | a request authenticated before the revocation still creates or revokes API keys after it was answered |
| `main.rs:2825` | `main.rs:7694` "revoked API key must get 401" | a key revoked in memory whose save failed works again after a restart |
| `main.rs:2818` | `main.rs:2821` "cannot revoke the last admin key", `VALIDATION_MATRIX.md:120` | the remaining admin may be an entry whose secret nobody was given |
| `main.rs:401` | `main.rs:359` "requests/sec allowed per IP" | an overtaken request sets `last_refill` back and time is paid for twice |
| `main.rs:1071` | `main.rs:1070` "(IP limit was already checked in rate_limit_middleware)" | an authenticated request is charged to its address twice |
| `threat.rs:319` | `threat.rs:186` "How far back to look when computing the threat score." | events past the window count until the next recording |
| `threat.rs:256` | `COMPLIANCE_MATRIX.md:72` "Repeated auth failures escalate threat level." | after an operator's escalation they do not |
| `policy.rs:230` | `COMPLIANCE_MATRIX.md:50` "tightens all three" | a usage warning hides an age trigger that is due |
| `policy.rs:246` | `policy.rs:19` "Key has been used more than this many times." | usage triggers are never evaluated |
| `keystore.rs:1101` | `policy.rs:42` "How long a ROTATED key remains decryptable." | no key becomes Rotated, so the grace period never starts |
| `threat.rs:574` | `policy.rs:48` "Whether to auto-rotate when triggers fire." | nothing reads the flag |
| `main.rs:2459` | `keystore.rs:2546` "Revoked/Expired/Destroyed keys are terminal" | `/api/assertions/verify` does not look at the key's state: assertions of a revoked key verify |
| `main.rs:2459` | `keystore.rs:2554`, which takes the version a signature names | assertions issued before a rotation no longer verify there, since only the current version is tried |
| signer `assertion.rs:121` | - | `ttl_secs as i64` and the sum wrap in release builds and panic in debug builds; the assertion is then expired at once, never longer-lived |
| `migrate.rs:73` and `doctor.rs:17` of the CLI | "if storage fails, still run other checks" (`doctor.rs:15`) | one unreadable key file makes the whole store look empty, and a migration then plans a second hierarchy |
| `doctor.rs:316`, `:458` | - | the hints name commands that do not exist (`key rewrap --all`, `key activate`) |
| `backup.rs:198` of the CLI | the same line: "unconditionally overwrite any existing key" | a file that exists and cannot be read is skipped as an error |
| `keystore.rs:1156` | `keystore.rs:1077` "hierarchy is preserved" | rewrap asks `can_wrap` of nothing: the Domain key wrapped under a KEK below it locks both |
| envelope `cli.rs:299` | - | a v2 envelope is shown as "envelope (v1)" |
| envelope `lib.rs:108` | `backend_awslc.rs:578` "this is the CMVP-VALIDATED build" | `lib.rs` says "NOT validated" of the same build |
| envelope `aad.rs` | `aad.rs:14-15` "no combination of env/purpose byte content can collide" | labels are cut at 65535 bytes, so two that differ only beyond collide |
| envelope `sdk.rs:493-494` | the same lines: "unknown suites should be visible not hidden" | `check_v1_suites` fails on them a few lines below |
| envelope `stream_v3.rs:239` | - | a stream whose counter is at its last value can no longer be finalized |

`REPLAY_STORE_GUARANTEES.md:36-42` ("append-only, no eviction") describes an older
store.

Also: a backup taken while the server writes may hold records of different moments,
an interrupted restore or one into a directory with newer keys may mix two
generations, and the doctor sees neither (`VALIDATION_MATRIX.md:185` admits that
key states are not preserved).

## 6. Plan

Done, in this order: `Keystore`, replay protection with its contract, enforcer
and handlers, audit chain, API keys, rate limiter, threat assessor, policies;
their proofs; envelopes and streams with their contract, the C interface,
maintenance, assertions; the proofs about those, about decryption and the cascade
in `Keystore`, about the audit chain and the threat assessor, and about restore,
migration and the doctor.

Next: the server of `ApiServer` over the full records of `Keystore`, so that handlers and
versions are in one model.

Not modelled, and why: the insides of the cryptographic primitives and their AWS-LC
backend (ideal here), the dashboard, argument parsing and printing (`graph.rs`
included), root-key I/O, the legacy replay guards (unused), jumps of the wall
clock, for which the code has no rule to check, two command-line processes at
once, which share the temporary file `<key>.tmp` with the server, and a decrypt that
outlasts its own claim's time to live. The two overrides for development are off in
the models: `CITADEL_ALLOW_FLAT_DEKS` (`keystore.rs:850`), with which `generate` asks
nothing of the parent (the flat stores of the `maintenance` run are such stores, taken
as given), and `CITADEL_ALLOW_PLAINTEXT_KEYS` (`keystore.rs:815`), with which secret
keys are stored unwrapped.
