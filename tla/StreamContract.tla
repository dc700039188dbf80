---------------------------- MODULE StreamContract ----------------------------
(***************************************************************************)
(* What streaming encryption promises its reader, without any frames: the  *)
(* reader of a stream is handed what its writer wrote, in order and from   *)
(* the start, is told that the stream is complete only when it has all of  *)
(* it, and the one-call reader returns nothing but a whole closed stream.  *)
(***************************************************************************)
EXTENDS Naturals, Sequences

CONSTANTS Streams, NoStream

VARIABLES
    written,     \* written[s]: the chunks written to stream s, in order
    closed,      \* closed[s]: whether the last chunk was written
    reading,     \* the stream the incremental reader reads, or NoStream
    delivered,   \* the chunks it was handed
    complete,    \* whether it was told that the stream ended
    received     \* what the one-call reader returned last, <<>> before

vars == <<written, closed, reading, delivered, complete, received>>

Init ==
    /\ written = [s \in Streams |-> <<>>]
    /\ closed = [s \in Streams |-> FALSE]
    /\ reading = NoStream
    /\ delivered = <<>>
    /\ complete = FALSE
    /\ received = <<>>

Write(s) ==
    /\ ~closed[s]
    /\ \E n \in 1..Len(written'[s]) : written[s] = SubSeq(written'[s], 1, Len(written'[s]) - n)
    /\ \A t \in Streams \ {s} : written'[t] = written[t]
    /\ DOMAIN written' = Streams
    /\ closed' \in {closed, [closed EXCEPT ![s] = TRUE]}
    /\ UNCHANGED <<reading, delivered, complete, received>>

Attach(s) ==
    /\ reading = NoStream
    /\ reading' = s
    /\ UNCHANGED <<written, closed, delivered, complete, received>>

Deliver ==
    /\ reading # NoStream
    /\ ~complete
    /\ Len(delivered) < Len(written[reading])
    /\ delivered' = Append(delivered, written[reading][Len(delivered) + 1])
    /\ complete' = (closed[reading] /\ delivered' = written[reading])
    /\ UNCHANGED <<written, closed, reading, received>>

Receive(s) ==
    /\ closed[s]
    /\ received' = written[s]
    /\ UNCHANGED <<written, closed, reading, delivered, complete>>

Next == Deliver \/ \E s \in Streams : Write(s) \/ Attach(s) \/ Receive(s)

Spec == Init /\ [][Next]_vars
=============================================================================
