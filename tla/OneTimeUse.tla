----------------------------- MODULE OneTimeUse -----------------------------
(***************************************************************************)
(* What replay protection promises the callers of decrypt, whichever       *)
(* backend keeps the claims: a ciphertext is opened once, and again only   *)
(* after its claim has expired or, at most once for each crash, because    *)
(* the crash made the backend forget it.  A backend that forgets nothing   *)
(* implements this with crashes = 0, which leaves no Reopen step at all.   *)
(***************************************************************************)
EXTENDS Naturals

CONSTANTS
  Blob,       \* ciphertexts, one replay key each (derive_replay_key)
  Time,       \* the times at which claims are made, not 0
  Window      \* a claim made at t stands before t + Window

VARIABLES
  opened,     \* when the claim of the ciphertext's last opening was made, 0 if none
  replays,    \* how often it was opened although its last claim had not expired
  crashes     \* crashes of the process so far

contract == <<opened, replays, crashes>>

Init ==
  /\ opened = [b \in Blob |-> 0]
  /\ replays = [b \in Blob |-> 0]
  /\ crashes = 0

Spent(b, t) == opened[b] # 0 /\ t < opened[b] + Window

\* An opening under a claim made at time t.
Open(b, t) ==
  /\ ~Spent(b, t)
  /\ opened' = [opened EXCEPT ![b] = t]
  /\ UNCHANGED <<replays, crashes>>

\* The opening of a ciphertext a crash made the backend forget.
Reopen(b, t) ==
  /\ Spent(b, t)
  /\ replays[b] < crashes
  /\ opened' = [opened EXCEPT ![b] = t]
  /\ replays' = [replays EXCEPT ![b] = @ + 1]
  /\ UNCHANGED crashes

Crash ==
  /\ crashes' = crashes + 1
  /\ UNCHANGED <<opened, replays>>

Next ==
  \/ \E b \in Blob, t \in Time : Open(b, t) \/ Reopen(b, t)
  \/ Crash

Spec == Init /\ [][Next]_contract
=============================================================================
