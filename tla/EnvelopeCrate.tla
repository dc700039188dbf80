---------------------------- MODULE EnvelopeCrate -----------------------------
(***************************************************************************)
(* citadel-envelope as its callers see it: a caller uses the envelopes     *)
(* (Envelope) or the streams (Stream).  The two stand on the same          *)
(* primitives and share no state, so a behaviour follows one of them and   *)
(* the choice is made once.                                                *)
(***************************************************************************)
EXTENDS Envelope, Stream

VARIABLE api         \* which of the two the callers of this behaviour use

crateVars == <<api, envelopeVars, streamVars>>

CrateInit ==
    /\ api \in {"envelope", "stream"}
    /\ EnvelopeInit
    /\ StreamInit

UseEnvelopes ==
    /\ api = "envelope"
    /\ EnvelopeNext
    /\ UNCHANGED <<api, streamVars>>

UseStreams ==
    /\ api = "stream"
    /\ StreamNext
    /\ UNCHANGED <<api, envelopeVars>>

CrateSpec ==
    /\ CrateInit
    /\ [][UseEnvelopes \/ UseStreams]_crateVars
    /\ StreamFairness
=============================================================================
