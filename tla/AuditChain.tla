---------------------------- MODULE AuditChain -----------------------------
(***************************************************************************)
(* The audit log: IntegrityChainSink over FileAuditSink                    *)
(* (citadel-keystore/src/audit.rs), its witness (audit_witness.rs) and the *)
(* command that verifies the file (citadel-cli/src/commands/audit.rs).     *)
(*                                                                         *)
(* record stamps an event with its sequence number and the hash of the     *)
(* event before it under the sink's mutex, drops the mutex, and only then  *)
(* appends the event: its JSON with one write, the newline with another.   *)
(* The chain's state is in memory and every process starts a new one.      *)
(*                                                                         *)
(* An event's hash is its id: ids are unique and the hash covers the whole *)
(* event, so equal hashes mean equal events.                               *)
(***************************************************************************)
EXTENDS Integers, Sequences, FiniteSets

CONSTANTS
  Proc,            \* threads that record events
  anchor_interval,
  MaxEvents,       \* bound: events recorded
  MaxRestarts,     \* bound: process restarts
  MaxFailures      \* bound: failed writes

ASSUME AuditConstants ==
  /\ anchor_interval \in Nat \ {0}
  /\ MaxEvents \in Nat /\ MaxRestarts \in Nat /\ MaxFailures \in Nat

VARIABLES
  sequence,   \* ChainState
  prev_hash,  \* ChainState
  event,      \* per thread: the event it has stamped
  pc,         \* per thread: "idle", "json" or "newline", what it writes next
  file,       \* the log: its lines, each the events written to it; the last is open
  receipts,   \* the witness's file
  stamped,    \* history: every event stamped, in order
  restarts,   \* history
  failures,   \* history
  quiet       \* history: no restart, no failure, no two records overlapping

chain == <<sequence, prev_hash>>
ghost == <<restarts, failures, quiet>>
vars  == <<chain, event, pc, file, receipts, stamped, ghost>>

Genesis == 0

\* Part of an event, cut between two characters: no JSON, so it matches no
\* expected hash.
Torn == [id |-> -2, sequence |-> 0, prev_hash |-> -1]
\* Part of an event, cut inside a character of several bytes.  What comes after
\* it on the line, an event's "{" or the end, makes the line no UTF-8.
Cut == [id |-> -3, sequence |-> 0, prev_hash |-> -1]
TornReceipt == [entry_number |-> -1, hash |-> -1]

Init ==
  /\ sequence = 0
  /\ prev_hash = Genesis
  /\ event = [p \in Proc |-> Torn]
  /\ pc = [p \in Proc |-> "idle"]
  /\ file = <<<<>>>>
  /\ receipts = <<>>
  /\ stamped = <<>>
  /\ restarts = 0
  /\ failures = 0
  /\ quiet = TRUE

-----------------------------------------------------------------------------
(* IntegrityChainSink::record                                               *)

NewEvent ==
  [id |-> Len(stamped) + 1, sequence |-> sequence, prev_hash |-> prev_hash]

AnchorDue == sequence > 0 /\ sequence % anchor_interval = 0

\* Mutant: the hash published is the one before this event's.
AnchorPrevious(e) ==
  IF AnchorDue
  THEN receipts' = Append(receipts, [entry_number |-> e.sequence, hash |-> e.prev_hash])
  ELSE UNCHANGED receipts
\* publish_hash; a failure, which may leave part of a receipt, is logged and the
\* event goes on unanchored.
Anchor(e) ==
  IF AnchorDue
  THEN receipts' \in {receipts, Append(receipts, TornReceipt),
                      Append(receipts, [entry_number |-> e.sequence, hash |-> e.id])}
  ELSE UNCHANGED receipts

Link(e) == prev_hash' = e.id

Advance == sequence' = sequence + 1

Stamp(p) ==
  /\ pc[p] = "idle"
  /\ Len(stamped) < MaxEvents
  /\ event' = [event EXCEPT ![p] = NewEvent]
  /\ stamped' = Append(stamped, NewEvent)
  /\ Link(NewEvent)
  /\ Anchor(NewEvent)
  /\ Advance
  /\ pc' = [pc EXCEPT ![p] = "json"]
  /\ quiet' = (quiet /\ \A q \in Proc : pc[q] = "idle")
  /\ UNCHANGED <<file, restarts, failures>>

-----------------------------------------------------------------------------
(* FileAuditSink::record                                                    *)

\* Appended to the file's open last line.
Written(e) == [file EXCEPT ![Len(file)] = Append(@, e)]

WriteJson(p) ==
  /\ pc[p] = "json"
  /\ file' = Written(event[p])
  /\ pc' = [pc EXCEPT ![p] = "newline"]
  /\ UNCHANGED <<chain, event, receipts, stamped, ghost>>

\* Mutant: the event is written without its newline.
WriteNoNewline(p) ==
  /\ pc[p] = "newline"
  /\ pc' = [pc EXCEPT ![p] = "idle"]
  /\ UNCHANGED <<file, chain, event, receipts, stamped, ghost>>

WriteNewline(p) ==
  /\ pc[p] = "newline"
  /\ file' = Append(file, <<>>)
  /\ pc' = [pc EXCEPT ![p] = "idle"]
  /\ UNCHANGED <<chain, event, receipts, stamped, ghost>>

\* open or a write fails: nothing, part of the JSON, or a line without its end
\* is left in the file; the error is printed and the caller does not learn of it.
WriteFails(p) ==
  /\ failures < MaxFailures
  /\ \/ pc[p] = "json" /\ file' \in {file, Written(Torn), Written(Cut)}
     \/ pc[p] = "newline" /\ UNCHANGED file
  /\ pc' = [pc EXCEPT ![p] = "idle"]
  /\ failures' = failures + 1
  /\ quiet' = FALSE
  /\ UNCHANGED <<chain, event, receipts, stamped, restarts>>

\* IntegrityChainSink::new in the next process, over the same file.  Events the
\* old process had stamped and not written are gone.
Restart ==
  /\ restarts < MaxRestarts
  /\ sequence' = 0
  /\ prev_hash' = Genesis
  /\ pc' = [p \in Proc |-> "idle"]
  /\ restarts' = restarts + 1
  /\ quiet' = FALSE
  /\ UNCHANGED <<event, file, receipts, stamped, failures>>

Record(p) == Stamp(p) \/ WriteJson(p) \/ WriteNewline(p) \/ WriteFails(p)

Next == (\E p \in Proc : Record(p)) \/ Restart

Spec == Init /\ [][Next]_vars

-----------------------------------------------------------------------------
(* cmd_verify_chain                                                         *)

\* lines().map_while(Result::ok) ends at the first line that is not UTF-8, and
\* nothing says so.
Utf8(i) == \A j \in 1 .. Len(file[i]) : file[i][j] # Cut
LinesRead == {i \in 1 .. Len(file) : \A j \in 1 .. i : Utf8(j)}

\* The lines verified: blank ones are left out.
Filled == {i \in LinesRead : file[i] # <<>>}

\* Line j is the one before line i.
Before(j, i) == j < i /\ \A k \in Filled : k <= j \/ i <= k

\* Mutant: only the numbers are compared.
SequenceGrows(i) ==
  \A j \in Filled : Before(j, i) => file[j][1].sequence < file[i][1].sequence
PrevExpected(i) ==
  \/ (\A j \in Filled : i <= j) /\ file[i][1].prev_hash = Genesis
  \/ \E j \in Filled : Before(j, i) /\ file[i][1].prev_hash = file[j][1].id

LineVerifies(i) == Len(file[i]) = 1 /\ PrevExpected(i)

\* "Chain intact": no line is refused.  (Every event of this sink has the chain
\* fields, so none is passed over for want of them.)
ChainIntact == \A i \in Filled : LineVerifies(i)

\* get_receipt returns the first receipt of that number, or fails at the first
\* line that is no receipt.
IsReceipt(i, n) ==
  /\ receipts[i].entry_number = n
  /\ \A j \in 1 .. i - 1 : receipts[j].entry_number # n /\ receipts[j] # TornReceipt

verify_hash(n, hash) ==
  \E i \in 1 .. Len(receipts) : IsReceipt(i, n) /\ receipts[i].hash = hash

-----------------------------------------------------------------------------
(* Properties                                                               *)

\* The events the command has looked at; those of lines it did not reach, behind
\* one that is not UTF-8, are not among them.
Verified == UNION {{file[i][j] : j \in 1 .. Len(file[i])} : i \in Filled}

\* While records do not overlap, no write fails and the process lives, the file
\* verifies at every moment, the instant between JSON and newline included.
QuietChainIntact == quiet => ChainIntact

\* What "Chain intact, n event(s) verified" proves: the events counted have no
\* gap.  With one of them every event stamped before it in the same process is
\* among them, whatever overlapped, failed, was cut or restarted; what may be
\* missing unnoticed is a tail, of the log or of what the command reads of it.
\* (Ids number the events; a process numbers its own from 0 in sequence.)
VerifiedHasNoGap ==
  ChainIntact =>
    \A e \in Verified, k \in 1 .. Len(stamped) :
      e.id - e.sequence <= k /\ k <= e.id => stamped[k] \in Verified

\* Until a restart, every receipt of the witness verifies for the event of its
\* number, unless one before it was cut short: receipts are published in chain
\* order, whatever order the file has.
ReceiptsVerify ==
  restarts = 0 =>
    \A i \in 1 .. Len(receipts) :
      (\A j \in 1 .. i : receipts[j] # TornReceipt) =>
      \E e \in {stamped[k] : k \in 1 .. Len(stamped)} :
        /\ e.sequence = receipts[i].entry_number
        /\ verify_hash(e.sequence, e.id)
=============================================================================
