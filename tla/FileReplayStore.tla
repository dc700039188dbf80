-------------------------- MODULE FileReplayStore --------------------------
(***************************************************************************)
(* Replay protection of decrypt (citadel-keystore/src/keystore.rs) over    *)
(* the file backend (replay_store.rs).  decrypt claims the ciphertext's    *)
(* replay key, then unwraps and opens, and releases the claim if that      *)
(* fails.  Claims live in memory; the file is written only now and then,   *)
(* so a crash forgets some.  claim, release and flush each hold the        *)
(* store's mutex for their whole length and are single steps; between the  *)
(* claim and its outcome other calls run.                                  *)
(***************************************************************************)
EXTENDS Naturals, FiniteSets

CONSTANTS
  Blob,             \* ciphertexts, one replay key each
  Proc,             \* concurrent decrypt calls
  TTL,              \* default_ttl_secs
  BATCH_SIZE,
  BATCH_INTERVAL_SECS,
  HIGH_WATER_MARK,
  MaxTime,          \* bound: the clock stops there
  MaxOps,           \* bound: ops_since_flush, which failed flushes let grow
  MaxCrashes        \* bound: crashes

ASSUME FileReplayConstants ==
  /\ TTL \in Nat
  /\ BATCH_SIZE \in Nat \ {0}
  /\ BATCH_INTERVAL_SECS \in Nat
  /\ HIGH_WATER_MARK \in Nat
  /\ MaxTime \in Nat \ {0} /\ MaxOps \in Nat /\ MaxCrashes \in Nat
  /\ IsFiniteSet(Blob)

VARIABLES
  now,        \* seconds
  claims,     \* inner.claims: when each replay key was claimed, 0 if it is not
  ops,        \* ops_since_flush
  lastFlush,
  disk,       \* replay.json
  blob,       \* per call: the ciphertext it holds a claim on
  taken,      \* per call: when it was claimed; 0 while the call holds none
  opened,     \* history: the claim under which a plaintext was last returned
  replays,    \* history: plaintexts returned before the last such claim expired
  crashes     \* history: crashes so far

mirror == <<claims, ops, lastFlush>>
calls  == <<blob, taken>>
ghost  == <<opened, replays, crashes>>
vars   == <<now, mirror, disk, calls, ghost>>

None == [b \in Blob |-> 0]

\* ts >= cutoff.
Unexpired(t) == t # 0 /\ now <= t + TTL

\* retain and the filters of flush and new: what is left of a table of claims.
Kept(table) == [b \in Blob |-> IF Unexpired(table[b]) THEN table[b] ELSE 0]

Init ==
  /\ now = 1
  /\ claims = None
  /\ ops = 0
  /\ lastFlush = 1
  /\ disk = None
  /\ blob \in [Proc -> Blob]
  /\ taken = [p \in Proc |-> 0]
  /\ opened = None
  /\ replays = None
  /\ crashes = 0

Holds(p) == taken[p] # 0

-----------------------------------------------------------------------------
(* claim                                                                    *)

TimedOnly(o, table) == now >= lastFlush + BATCH_INTERVAL_SECS \* Mutant: no batch limit.

ShouldFlush(o, table) ==
  \/ o >= BATCH_SIZE
  \/ now >= lastFlush + BATCH_INTERVAL_SECS
  \/ Cardinality({b \in Blob : table[b] # 0}) >= HIGH_WATER_MARK

Claimed(b) == [Kept(claims) EXCEPT ![b] = now]

\* The key is absent once expired entries are evicted.
Unclaimed(b) == Kept(claims)[b] = 0
NotOnDisk(b) == disk[b] = 0 \* Mutant: looks in the file, not in memory.

IsFree(b) == Unclaimed(b)

Take(p, b) ==
  /\ taken' = [taken EXCEPT ![p] = now]
  /\ blob' = [blob EXCEPT ![p] = b]

Request(p, b) == ~Holds(p) /\ ops < MaxOps

\* Ok(true), the claim kept in memory only.
ClaimInMemory(p, b) ==
  /\ Request(p, b)
  /\ IsFree(b)
  /\ ~ShouldFlush(ops + 1, Claimed(b))
  /\ claims' = Claimed(b)
  /\ ops' = ops + 1
  /\ Take(p, b)
  /\ UNCHANGED <<now, lastFlush, disk, ghost>>

\* A successful flush of the table t.
Flush(t) ==
  /\ disk' = Kept(t)
  /\ ops' = 0
  /\ lastFlush' = now

\* Ok(true), and every claim in memory is in the file.
ClaimFlushed(p, b) ==
  /\ Request(p, b)
  /\ IsFree(b)
  /\ ShouldFlush(ops + 1, Claimed(b))
  /\ claims' = Claimed(b)
  /\ Flush(Claimed(b))
  /\ Take(p, b)
  /\ UNCHANGED <<now, ghost>>

\* The flush fails: the claim is rolled back and Err denies the decrypt.
ClaimFlushFails(p, b) ==
  /\ Request(p, b)
  /\ IsFree(b)
  /\ ShouldFlush(ops + 1, Claimed(b))
  /\ claims' = Kept(claims)
  /\ ops' = ops + 1
  /\ UNCHANGED <<now, lastFlush, disk, calls, ghost>>

\* Ok(false): a replay, or a decrypt of the same ciphertext in progress.
ClaimRefused(p, b) ==
  /\ Request(p, b)
  /\ ~IsFree(b)
  /\ claims' = Kept(claims)
  /\ UNCHANGED <<now, ops, lastFlush, disk, calls, ghost>>

-----------------------------------------------------------------------------
(* The rest of decrypt                                                      *)

EndCall(p) == taken' = [taken EXCEPT ![p] = 0] /\ UNCHANGED blob

\* open() succeeds: the plaintext is returned and the claim kept.
Opened(p) ==
  /\ Holds(p)
  /\ opened' = [opened EXCEPT ![blob[p]] = taken[p]]
  /\ replays' = IF opened[blob[p]] # 0 /\ taken[p] <= opened[blob[p]] + TTL
                THEN [replays EXCEPT ![blob[p]] = @ + 1] ELSE replays
  /\ EndCall(p)
  /\ UNCHANGED <<now, mirror, disk, crashes>>

KeptOnFailure(b) == claims \* Mutant: a failed decrypt keeps its claim.
Released(b) == [claims EXCEPT ![b] = 0]

\* The unwrap, the parse of the secret key or open() fails: release, which
\* flushes at once.
OpenFails(p) ==
  /\ Holds(p)
  /\ claims' = Released(blob[p])
  /\ Flush(Released(blob[p]))
  /\ EndCall(p)
  /\ UNCHANGED <<now, ghost>>

\* The same, but the flush fails: a warning, and the file keeps what it had.
OpenFailsUnflushed(p) ==
  /\ Holds(p)
  /\ claims' = Released(blob[p])
  /\ EndCall(p)
  /\ UNCHANGED <<now, ops, lastFlush, disk, ghost>>

-----------------------------------------------------------------------------
(* The store's own life                                                     *)

\* force_flush: offered to a shutdown handler.
ForceFlush ==
  /\ Flush(claims)
  /\ UNCHANGED <<now, claims, calls, ghost>>

\* new(): the table a process starts with.
Load(file) ==
  /\ claims' = Kept(file)
  /\ ops' = 0
  /\ lastFlush' = now

\* The store is dropped, its flush succeeds, and the next process loads the file.
Restart ==
  /\ \A p \in Proc : ~Holds(p)
  /\ disk' = Kept(claims)
  /\ Load(disk')
  /\ UNCHANGED <<now, calls, ghost>>

\* The process dies, or its flush on drop fails; the next one loads the file.
\* The API server installs no shutdown handler, so SIGTERM is a crash too.
Crash ==
  /\ crashes < MaxCrashes
  /\ crashes' = crashes + 1
  /\ Load(disk)
  /\ taken' = [p \in Proc |-> 0]
  /\ UNCHANGED <<now, disk, blob, opened, replays>>

\* A decrypt in progress takes far less than TTL (24 hours): its claim does
\* not expire under it.
Tick ==
  /\ now < MaxTime
  /\ \A p \in Proc : Holds(p) => now < taken[p] + TTL
  /\ now' = now + 1
  /\ UNCHANGED <<mirror, disk, calls, ghost>>

Decrypt(p) ==
  \/ \E b \in Blob : \/ ClaimInMemory(p, b)
                     \/ ClaimFlushed(p, b)
                     \/ ClaimFlushFails(p, b)
                     \/ ClaimRefused(p, b)
  \/ Opened(p)
  \/ OpenFails(p)
  \/ OpenFailsUnflushed(p)

Next == (\E p \in Proc : Decrypt(p)) \/ ForceFlush \/ Restart \/ Crash \/ Tick

Spec == Init /\ [][Next]_vars

-----------------------------------------------------------------------------
(* Properties                                                               *)

\* Type correctness.
TypeOK ==
  /\ now \in 1 .. MaxTime
  /\ claims \in [Blob -> Nat]
  /\ ops \in Nat
  /\ lastFlush \in Nat
  /\ disk \in [Blob -> Nat]
  /\ blob \in [Proc -> Blob]
  /\ taken \in [Proc -> Nat]
  /\ opened \in [Blob -> Nat]
  /\ replays \in [Blob -> Nat]
  /\ crashes \in Nat

\* The contract of replay protection, for a backend whose crashes forget:
\* whatever flushes fail and calls overlap, an unexpired ciphertext is opened
\* again at most once per crash, so never while the process lives.
Promise == INSTANCE OneTimeUse WITH Time <- 1 .. MaxTime, Window <- TTL + 1
OnePlaintextPerClaim == Promise!Spec

\* The claims a crash would forget.
Unsaved == {b \in Blob : Unexpired(claims[b]) /\ disk[b] # claims[b]}

\* The crash window in operations: fewer than BATCH_SIZE claims are at stake,
\* failed flushes and failed releases included.
LossBounded == Cardinality(Unsaved) < BATCH_SIZE

\* Until a crash, a claim stands only for a ciphertext that was opened under
\* it or is being opened: failed decrypts leave nothing behind that would
\* refuse the genuine ciphertext.
NoPoisonedClaim ==
  crashes = 0 =>
    \A b \in Blob : claims[b] # 0 =>
      \/ opened[b] = claims[b]
      \/ \E p \in Proc : Holds(p) /\ blob[p] = b
=============================================================================
