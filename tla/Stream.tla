-------------------------------- MODULE Stream --------------------------------
(***************************************************************************)
(* Streaming encryption (stream.rs, stream_v3.rs and the stream header of  *)
(* wire.rs): writers that seal a stream chunk by chunk, a transport that   *)
(* may drop, repeat, reorder, splice or alter what it carries, and a       *)
(* reader that opens a header and then the frames it is given.             *)
(*                                                                         *)
(* The transport is what the reader may be given: any header made of parts *)
(* of headers that exist, any frame made of a header of its own and a      *)
(* sealed chunk that exists (or none).  A frame that is not delivered is   *)
(* lost, one that is given again is repeated.                              *)
(***************************************************************************)
EXTENDS Primitives, Sequences, Functions

CONSTANTS
    Streams,       \* the streams, a set of numbers: their random identifiers
    Recipient,     \* the key pair (suite 0xA3) the streams are sealed to
    Context,       \* Context[s]: the context stream s is opened with
    Contexts,      \* the contexts a reader may supply
    Aads,          \* the associated data a reader may supply with a chunk
    Aad,           \* Aad[s]: the associated data the writer of s supplies
    MaxChunks,     \* the chunk numbers the counter's width leaves usable
    NoStream       \* the reader reads none of the streams

ASSUME StreamAssumption ==
    /\ Streams \subseteq Nat
    /\ Suite[Recipient] = SUITE_KEM_HYBRID_X25519_MLKEM768
    /\ Context \in [Streams -> Contexts]
    /\ Aad \in [Streams -> Aads]
    /\ MaxChunks \in Nat \ {0}
    /\ NoStream \notin Streams

VARIABLES
    enc,           \* enc[s]: the encryptor of every stream opened so far
    sent,          \* sent[s]: the frames it produced, in order
    dec,           \* the reader's decryptor, or NoDecryptor
    got,           \* the plaintexts the decryptor returned
    received       \* what decrypt_stream_v3 returned last, <<>> before

streamVars == <<enc, sent, dec, got, received>>

Formats == {"v2", "v3"}

\* Chunks count from 1 in v2 (u32) and from 0 in v3 (u64); checked_add fails
\* on the last number of the counter, which is therefore never used.
FirstSeq(fmt) == IF fmt = "v2" THEN 1 ELSE 0
LastSeq(fmt) == FirstSeq(fmt) + MaxChunks

NoDecryptor == [fmt |-> "none"]

StreamTypeOK ==
    /\ DOMAIN enc \subseteq Streams /\ DOMAIN sent = DOMAIN enc
    /\ \A s \in DOMAIN enc :
        /\ enc[s].fmt \in Formats
        /\ enc[s].next \in FirstSeq(enc[s].fmt)..LastSeq(enc[s].fmt)
        /\ enc[s].finalized \in BOOLEAN
        /\ Len(sent[s]) = enc[s].next - FirstSeq(enc[s].fmt)
    /\ dec = NoDecryptor \/ Len(got) = dec.expected - FirstSeq(dec.fmt)

-----------------------------------------------------------------------------
(* Keys, nonces and associated data *)

\* The stream key; v3 mixes the stream identifier into the context.
derive_stream_key(fmt, k, id, ct, context) ==
    DeriveKey(Combined(k, ct), ct, IF fmt = "v3" THEN <<id, context>> ELSE context)

derive_chunk_key(key, seq, fin) == [kdf |-> "chunk", of |-> key, seq |-> seq, fin |-> fin]

derive_chunk_nonce(key, seq) == [of |-> key, seq |-> seq]

make_chunk_aad_v2(seq, fin, aad) == <<"v2", seq, fin, aad>>

\* Mutant of make_chunk_aad_v3: the final flag is not authenticated.
make_chunk_aad_v3_no_final(id, seq, fin, aad) == <<"v3", id, seq, aad>>

make_chunk_aad_v3(id, seq, fin, aad) == <<"v3", id, seq, fin, aad>>

\* The header tag of v3 authenticates everything before it.
header_tag(key, id, ct) == [of |-> key, id |-> id, ct |-> ct]

\* A header: `fixed' says that it is long enough and that magic, version,
\* flags, suites and declared length carry the one value the decoder takes.
Header(fmt, id, ct, tag) ==
    [fmt |-> fmt, fixed |-> TRUE, id |-> id, ct |-> ct, tag |-> tag]

KeyOf(s) == derive_stream_key(enc[s].fmt, Recipient, s, KemCt(Recipient, s), Context[s])

\* A v2 header has no identifier and no tag.
encode_stream_header(s, ct) == Header("v2", s, ct, Refused)

HeaderV3(s, ct) == Header("v3", s, ct, header_tag(KeyOf(s), s, ct))

HeaderOf(s) ==
    IF enc[s].fmt = "v2" THEN encode_stream_header(s, KemCt(Recipient, s))
    ELSE HeaderV3(s, KemCt(Recipient, s))

\* final_tag = HMAC over the stream identifier and the number of chunks.
FinalTag(key, id, total) == [key |-> key, id |-> id, total |-> total]

-----------------------------------------------------------------------------
(* Writing *)

\* StreamEncryptor::new, StreamV3Encryptor::new
NewStream(s, fmt) ==
    /\ s \notin DOMAIN enc
    /\ enc' = [t \in DOMAIN enc \union {s} |->
                 IF t = s THEN [fmt |-> fmt, next |-> FirstSeq(fmt), finalized |-> FALSE]
                 ELSE enc[t]]
    /\ sent' = [t \in DOMAIN enc \union {s} |-> IF t = s THEN <<>> ELSE sent[t]]
    /\ UNCHANGED <<dec, got, received>>

\* Chunk number seq of stream s, whose key is `key'.  The plaintext is named by
\* its place; the random nonce v2 sends is as unique.  v2 has a key per chunk,
\* v3 seals every chunk with the stream key under the nonce of its number.
FrameV2(s, key, seq, fin, aad) ==
    [fmt |-> "v2", seq |-> seq, fin |-> fin, nonce |-> [random |-> <<s, seq>>],
     ct |-> AeadSeal(derive_chunk_key(key, seq, fin), [random |-> <<s, seq>>], <<s, seq>>,
                     make_chunk_aad_v2(seq, fin, aad))]

FrameV3(s, key, seq, fin, aad) ==
    [fmt |-> "v3", seq |-> seq, fin |-> fin, nonce |-> Refused,
     ct |-> AeadSeal(key, derive_chunk_nonce(key, seq), <<s, seq>>,
                     make_chunk_aad_v3(s, seq, fin, aad))]

Frame(s, seq, fin, aad) ==
    IF enc[s].fmt = "v2" THEN FrameV2(s, KeyOf(s), seq, fin, aad)
    ELSE FrameV3(s, KeyOf(s), seq, fin, aad)

\* Mutant of encrypt_chunk: a counter that saturates instead of failing.
encrypt_chunk_saturates(s, fin, aad) ==
    LET e == enc[s] IN
    /\ ~e.finalized
    /\ Len(sent[s]) < MaxChunks + 1
    /\ sent' = [sent EXCEPT ![s] = Append(@, Frame(s, e.next, fin, aad))]
    /\ enc' = [enc EXCEPT ![s].next = IF @ + 1 < LastSeq(e.fmt) THEN @ + 1 ELSE @,
                          ![s].finalized = (fin = 1)]
    /\ UNCHANGED <<dec, got, received>>

\* encrypt_chunk of one encryptor: the number is used before it is advanced,
\* and a failing checked_add returns without releasing the sealed chunk.
encrypt_chunk(s, fin, aad) ==
    LET e == enc[s] IN
    /\ ~e.finalized
    /\ e.next < LastSeq(e.fmt)
    /\ sent' = [sent EXCEPT ![s] = Append(@, Frame(s, e.next, fin, aad))]
    /\ enc' = [enc EXCEPT ![s].next = @ + 1, ![s].finalized = (fin = 1)]
    /\ UNCHANGED <<dec, got, received>>

\* encrypt_stream_v3: open, seal n chunks, the last of them final.
encrypt_stream_v3(s, n, aad) ==
    LET key == derive_stream_key("v3", Recipient, s, KemCt(Recipient, s), Context[s]) IN
    /\ s \notin DOMAIN enc
    /\ n <= MaxChunks
    /\ enc' = [t \in DOMAIN enc \union {s} |->
                 IF t = s THEN [fmt |-> "v3", next |-> n, finalized |-> TRUE] ELSE enc[t]]
    /\ sent' = [t \in DOMAIN enc \union {s} |->
                 IF t = s
                 THEN [i \in 1..n |-> FrameV3(s, key, i - 1, IF i = n THEN 1 ELSE 0, aad)]
                 ELSE sent[t]]
    /\ UNCHANGED <<dec, got, received>>

-----------------------------------------------------------------------------
(* What the transport can present *)

AllFrames == UNION {Range(sent[s]) : s \in DOMAIN enc}

Headers ==
    LET cts  == {HeaderOf(s).ct : s \in DOMAIN enc}
        tags == {HeaderOf(s).tag : s \in DOMAIN enc} \union {Refused}
    IN  [fmt : Formats, fixed : BOOLEAN, id : Streams, ct : cts, tag : tags]

\* A frame with any number and final byte (2: neither 0 nor 1) written into
\* its header, or with the sealed chunk of another frame or bytes that are
\* none (garbled, or too short to hold a tag) behind its own header.
Renumbered(f, n, b) == [f EXCEPT !.seq = n, !.fin = b]

Spliced(f, c) == [f EXCEPT !.ct = c]

PresentedFrames ==
    {Renumbered(f, n, b) : f \in AllFrames, n \in 0..MaxChunks + 1, b \in 0..2}
    \union {Spliced(f, c) : f \in AllFrames, c \in {g.ct : g \in AllFrames} \union {Refused}}

FinalTags == {FinalTag(KeyOf(s), s, Len(sent[s])) :
                s \in {t \in DOMAIN enc : enc[t].fmt = "v3" /\ enc[t].finalized}}

-----------------------------------------------------------------------------
(* Reading *)

Decryptor(fmt, key, id) ==
    [fmt |-> fmt, key |-> key, id |-> id, expected |-> FirstSeq(fmt),
     done |-> FALSE, finished |-> FALSE]

\* decode_stream_header, whether it accepts.
decode_stream_header(h) == h.fmt = "v2" /\ h.fixed

\* v2 checks the fixed fields and takes the key whatever it is.
from_header_v2(h, k, context) ==
    IF ~decode_stream_header(h) \/ Decapsulate(k, h.ct) = Refused THEN NoDecryptor
    ELSE Decryptor("v2", derive_stream_key("v2", k, h.id, h.ct, context), h.id)

\* v3 also recomputes the header tag.
from_header_v3(h, k, context) ==
    LET key == derive_stream_key("v3", k, h.id, h.ct, context) IN
    IF \/ ~h.fixed
       \/ Decapsulate(k, h.ct) = Refused
       \/ h.tag # header_tag(key, h.id, h.ct)
    THEN NoDecryptor
    ELSE Decryptor("v3", key, h.id)

from_header(h, k, context) ==
    IF h.fmt = "v2" THEN from_header_v2(h, k, context) ELSE from_header_v3(h, k, context)

\* What the sealed part of a frame opens to, with the number and the flag its
\* header states.
OpenV2(d, f, aad) ==
    AeadOpen(derive_chunk_key(d.key, f.seq, f.fin), f.nonce, f.ct,
             make_chunk_aad_v2(f.seq, f.fin, aad))

OpenV3(d, f, aad) ==
    AeadOpen(d.key, derive_chunk_nonce(d.key, f.seq), f.ct,
             make_chunk_aad_v3(d.id, f.seq, f.fin, aad))

OpenChunk(d, f, aad) == IF d.fmt = "v2" THEN OpenV2(d, f, aad) ELSE OpenV3(d, f, aad)

\* Mutant of decrypt_chunk: a frame that does not open ends the stream.
decrypt_chunk_gives_up(d, f, aad) ==
    LET pt == OpenChunk(d, f, aad) IN
    IF d.done \/ f.fmt # d.fmt \/ f.fin \notin {0, 1} \/ f.seq # d.expected \/ d.expected = LastSeq(d.fmt)
    THEN [dec |-> d, pt |-> Refused]
    ELSE IF pt = Refused THEN [dec |-> [d EXCEPT !.expected = LastSeq(d.fmt)], pt |-> Refused]
    ELSE [dec |-> [d EXCEPT !.expected = @ + 1, !.done = (f.fin = 1)], pt |-> pt]

\* decrypt_chunk: every refusal leaves the decryptor as it was.
decrypt_chunk(d, f, aad) ==
    LET pt == OpenChunk(d, f, aad) IN
    IF \/ d.done
       \/ f.fmt # d.fmt
       \/ f.fin \notin {0, 1}
       \/ f.seq # d.expected
       \/ pt = Refused
       \/ d.expected = LastSeq(d.fmt)
    THEN [dec |-> d, pt |-> Refused]
    ELSE [dec |-> [d EXCEPT !.expected = @ + 1, !.done = (f.fin = 1)], pt |-> pt]

\* verify_final_tag (and finish, which consumes the decryptor): only after the
\* final chunk, and only the tag over as many chunks as were read.
verify_final_tag(d, tag) == d.done /\ tag = FinalTag(d.key, d.id, d.expected)

\* The decryptor as it comes to frame i of a stream read in one call: every frame
\* before has advanced it by one, and none has ended it.
Advanced(d, i) == [d EXCEPT !.expected = @ + (i - 1)]

\* decrypt_stream_v3: the final flag on exactly the last frame, then finish.
decrypt_stream_v3(h, k, frames, tag, aad, context) ==
    LET d    == from_header(h, k, context)
        n    == Len(frames)
        r(i) == decrypt_chunk(Advanced(d, i), frames[i], aad)
    IN  IF \/ frames = <<>>
           \/ d = NoDecryptor
           \/ d.fmt # "v3"
           \/ \E i \in 1..n : r(i).pt = Refused \/ r(i).dec.done # (i = n)
           \/ ~verify_final_tag(r(n).dec, tag)
        THEN Refused
        ELSE [i \in 1..n |-> r(i).pt]

\* The reader opens a header; one that is refused leaves it without a
\* decryptor, and it may be given another.
OpenHeader(h, k, context) ==
    /\ dec = NoDecryptor
    /\ dec' = from_header(h, k, context)
    /\ UNCHANGED <<enc, sent, got, received>>

ReadChunk(f, aad) ==
    /\ dec # NoDecryptor
    /\ LET r == decrypt_chunk(dec, f, aad) IN
        /\ dec' = r.dec
        /\ got' = IF r.pt = Refused THEN got ELSE Append(got, r.pt)
    /\ UNCHANGED <<enc, sent, received>>

ReadFinalTag(tag) ==
    /\ dec # NoDecryptor
    /\ dec.fmt = "v3"
    /\ verify_final_tag(dec, tag)
    /\ dec' = [dec EXCEPT !.finished = TRUE]
    /\ UNCHANGED <<enc, sent, got, received>>

ReadWhole(h, k, frames, tag, aad, context) ==
    LET out == decrypt_stream_v3(h, k, frames, tag, aad, context) IN
    /\ out # Refused
    /\ received' = out
    /\ UNCHANGED <<enc, sent, dec, got>>

-----------------------------------------------------------------------------
StreamInit ==
    /\ enc = <<>>
    /\ sent = <<>>
    /\ dec = NoDecryptor
    /\ got = <<>>
    /\ received = <<>>

\* The reader is given the frame it waits for, with the caller's data.
Reading == IF dec = NoDecryptor THEN NoStream
           ELSE IF \E s \in DOMAIN enc : KeyOf(s) = dec.key
                THEN CHOOSE s \in DOMAIN enc : KeyOf(s) = dec.key
                ELSE NoStream

ReadNext ==
    /\ Reading # NoStream
    /\ Len(got) < Len(sent[Reading])
    /\ ReadChunk(sent[Reading][Len(got) + 1], Aad[Reading])

ReadTag ==
    /\ Reading # NoStream
    /\ dec.done /\ ~dec.finished
    /\ ReadFinalTag(FinalTag(KeyOf(Reading), Reading, Len(sent[Reading])))

WriteStep ==
    \/ \E s \in Streams, fmt \in Formats : NewStream(s, fmt)
    \/ \E s \in DOMAIN enc, fin \in 0..1 : encrypt_chunk(s, fin, Aad[s])
    \/ \E s \in Streams, n \in 1..MaxChunks : encrypt_stream_v3(s, n, Aad[s])

ReadStep ==
    \/ \E h \in Headers, k \in Key, context \in Contexts : OpenHeader(h, k, context)
    \/ \E f \in PresentedFrames, aad \in Aads : ReadChunk(f, aad)
    \/ \E tag \in FinalTags : ReadFinalTag(tag)
    \/ \E tag \in FinalTags, h \in {HeaderOf(s) : s \in DOMAIN enc}, context \in Contexts :
        /\ from_header(h, Recipient, context) # NoDecryptor
        /\ \E aad \in Aads, n \in 1..MaxChunks + 1 : \E frames \in [1..n -> AllFrames] :
            ReadWhole(h, Recipient, frames, tag, aad, context)

StreamNext == WriteStep \/ ReadStep

\* A reader that is given a bad frame keeps its place, so the transport can
\* deliver the right one later; that it does so is the only assumption.
StreamFairness == WF_streamVars(ReadNext) /\ WF_streamVars(ReadTag)

StreamSpec == StreamInit /\ [][StreamNext]_streamVars /\ StreamFairness

-----------------------------------------------------------------------------
(* Properties *)

Plain(s) == [i \in 1..Len(sent[s]) |-> sent[s][i].ct.pt]

Contract == INSTANCE StreamContract WITH
    written   <- [s \in Streams |-> IF s \in DOMAIN enc THEN Plain(s) ELSE <<>>],
    closed    <- [s \in Streams |-> s \in DOMAIN enc /\ enc[s].finalized],
    reading   <- Reading,
    delivered <- got,
    complete  <- dec # NoDecryptor /\ dec.done

(***************************************************************************)
(* Whatever the transport does with headers and frames, the two stream     *)
(* formats implement StreamContract: a reader is handed a prefix of one    *)
(* writer's stream, is_done() only after all of a closed stream, and       *)
(* decrypt_stream_v3 returns whole closed streams only.                    *)
(***************************************************************************)
StreamsAreWhole == Contract!Spec

(***************************************************************************)
(* No two frames ever released are sealed under one AES-GCM key and nonce, *)
(* although v3 derives the nonce from the chunk number alone and a counter *)
(* at its end is used again by every failing call.                         *)
(***************************************************************************)
NonceOnce ==
    \A s, t \in DOMAIN enc : \A i \in 1..Len(sent[s]), j \in 1..Len(sent[t]) :
        /\ sent[s][i].ct.key = sent[t][j].ct.key
        /\ sent[s][i].ct.nonce = sent[t][j].ct.nonce
        => <<s, i>> = <<t, j>>

(***************************************************************************)
(* A reader that opened the header of a stream reads a finalized stream to *)
(* its end, and in v3 verifies its final tag, as long as the transport     *)
(* keeps delivering: no bad, repeated or foreign frame makes the decryptor *)
(* lose its place.                                                         *)
(***************************************************************************)
StreamsComplete ==
    \A s \in Streams :
        (Reading = s /\ enc[s].finalized)
            ~> (dec # NoDecryptor /\ dec.done /\ (dec.fmt = "v3" => dec.finished))

=============================================================================
