--------------------------- MODULE EnvelopeProofs ---------------------------
(***************************************************************************)
(* Proofs about citadel-envelope, for any key pairs, streams, contexts,    *)
(* associated data, labels, message sizes and bounds: the streams          *)
(* (Stream) and the envelopes (Envelope), as EnvelopeCrate composes them.  *)
(***************************************************************************)
EXTENDS EnvelopeCrate, SequenceTheorems, TLAPS

-----------------------------------------------------------------------------
(* Streams.  The state of a writer determines every frame it released:     *)
(* frame i is chunk number i of the stream, final only if it is the last.  *)

CountOf(s) == enc[s].next - FirstSeq(enc[s].fmt)

SeqOf(s, i) == FirstSeq(enc[s].fmt) + (i - 1)

FinOf(s, i) == IF enc[s].finalized /\ i = CountOf(s) THEN 1 ELSE 0

FrameOf(s, i) == Frame(s, SeqOf(s, i), FinOf(s, i), Aad[s])

Encryptor == [fmt : Formats, next : Nat, finalized : BOOLEAN]

WriterInv ==
    /\ DOMAIN enc \subseteq Streams
    /\ DOMAIN sent = DOMAIN enc
    /\ \A s \in DOMAIN enc :
        /\ enc[s] \in Encryptor
        /\ CountOf(s) \in Nat
        /\ enc[s].finalized => CountOf(s) > 0
        /\ sent[s] = [i \in 1..CountOf(s) |-> FrameOf(s, i)]

\* The stream key is derived from the KEM ciphertext, which is the stream's own.
LEMMA KeysApart ==
    ASSUME NEW s, NEW t, KeyOf(s) = KeyOf(t)
    PROVE  s = t
  BY DEF KeyOf, derive_stream_key, DeriveKey, KemCt

\* The sealed part of frame i of stream s.
LEMMA FrameSealed ==
    ASSUME NEW s, NEW i, NEW ct, ct = FrameOf(s, i).ct
    PROVE  /\ ct.pt = <<s, SeqOf(s, i)>>
           /\ enc[s].fmt = "v2" =>
                ct = AeadSeal(derive_chunk_key(KeyOf(s), SeqOf(s, i), FinOf(s, i)),
                              [random |-> <<s, SeqOf(s, i)>>], <<s, SeqOf(s, i)>>,
                              make_chunk_aad_v2(SeqOf(s, i), FinOf(s, i), Aad[s]))
           /\ enc[s].fmt # "v2" =>
                ct = AeadSeal(KeyOf(s), derive_chunk_nonce(KeyOf(s), SeqOf(s, i)),
                              <<s, SeqOf(s, i)>>,
                              make_chunk_aad_v3(s, SeqOf(s, i), FinOf(s, i), Aad[s]))
  BY DEF FrameOf, Frame, FrameV2, FrameV3, AeadSeal

\* Stream keys and chunk keys come from different derivations.
LEMMA KeysDiffer ==
    ASSUME NEW s, NEW key, NEW q, NEW fin
    PROVE  KeyOf(s) # derive_chunk_key(key, q, fin)
<1>1. KeyOf(s).kdf = "v1"
  BY DEF KeyOf, derive_stream_key, DeriveKey
<1>2. derive_chunk_key(key, q, fin).kdf = "chunk"
  BY DEF derive_chunk_key
<1> QED BY <1>1, <1>2

\* A chunk key tells which key, number and final flag it was derived from.
LEMMA ChunkKeyApart ==
    ASSUME NEW k1, NEW q1, NEW f1, NEW k2, NEW q2, NEW f2,
           derive_chunk_key(k1, q1, f1) = derive_chunk_key(k2, q2, f2)
    PROVE  k1 = k2 /\ q1 = q2 /\ f1 = f2
  BY DEF derive_chunk_key

\* What a frame is depends on the writer's format only, which never changes.
LEMMA SameFormat ==
    ASSUME NEW s, enc'[s].fmt = enc[s].fmt
    PROVE  /\ KeyOf(s)' = KeyOf(s)
           /\ \A i : SeqOf(s, i)' = SeqOf(s, i)
           /\ \A q, fin, aad : Frame(s, q, fin, aad)' = Frame(s, q, fin, aad)
  BY DEF KeyOf, SeqOf, Frame

LEMMA SameWriter ==
    ASSUME NEW s, enc'[s] = enc[s]
    PROVE  /\ KeyOf(s)' = KeyOf(s)
           /\ CountOf(s)' = CountOf(s)
           /\ \A i : FrameOf(s, i)' = FrameOf(s, i)
<1>1. /\ KeyOf(s)' = KeyOf(s) /\ \A i : SeqOf(s, i)' = SeqOf(s, i)
      /\ \A q, fin, aad : Frame(s, q, fin, aad)' = Frame(s, q, fin, aad)
  BY SameFormat
<1>2. CountOf(s)' = CountOf(s) /\ \A i : FinOf(s, i)' = FinOf(s, i)
  BY DEF CountOf, FinOf
<1> QED BY <1>1, <1>2 DEF FrameOf

LEMMA Lengths ==
    ASSUME WriterInv, NEW s \in DOMAIN enc
    PROVE  /\ sent[s] \in Seq({FrameOf(s, i) : i \in 1..CountOf(s)})
           /\ Len(sent[s]) = CountOf(s)
           /\ DOMAIN sent[s] = 1..CountOf(s)
<1>1. CountOf(s) \in Nat /\ sent[s] = [i \in 1..CountOf(s) |-> FrameOf(s, i)]
  BY DEF WriterInv
<1> QED BY <1>1, LenProperties

\* The frames in the transport's hands are the ones the writers made.
LEMMA FramesKnown ==
    ASSUME WriterInv, NEW f \in AllFrames
    PROVE  \E s \in DOMAIN enc : \E i \in 1..CountOf(s) : f = FrameOf(s, i)
<1>1. PICK s \in DOMAIN enc : f \in Range(sent[s])
  BY DEF AllFrames
<1>2. sent[s] = [i \in 1..CountOf(s) |-> FrameOf(s, i)]
  BY DEF WriterInv
<1> QED BY <1>1, <1>2 DEF Range

\* A writer that does nothing stays as it is.
LEMMA WriterStays ==
    ASSUME WriterInv, NEW t \in DOMAIN enc, enc'[t] = enc[t], sent'[t] = sent[t]
    PROVE  /\ enc'[t] \in Encryptor /\ CountOf(t)' \in Nat
           /\ enc'[t].finalized => CountOf(t)' > 0
           /\ sent'[t] = [i \in 1..CountOf(t) |-> FrameOf(t, i)]'
<1>1. /\ enc[t] \in Encryptor /\ CountOf(t) \in Nat
      /\ enc[t].finalized => CountOf(t) > 0
      /\ sent[t] = [i \in 1..CountOf(t) |-> FrameOf(t, i)]
  BY DEF WriterInv
<1>2. CountOf(t)' = CountOf(t) /\ \A i : FrameOf(t, i)' = FrameOf(t, i)
  BY SameWriter
<1>3. sent'[t] = [i \in 1..CountOf(t)' |-> FrameOf(t, i)']
  BY <1>1, <1>2
<1> QED BY <1>1, <1>2, <1>3

\* A writer appears, with some chunks already released.
LEMMA WriterAppears ==
    ASSUME WriterInv, NEW s \in Streams, s \notin DOMAIN enc,
           NEW e \in Encryptor, NEW n \in Nat, e.next = FirstSeq(e.fmt) + n,
           e.finalized => n > 0, NEW frames,
           enc' = [t \in DOMAIN enc \union {s} |-> IF t = s THEN e ELSE enc[t]],
           sent' = [t \in DOMAIN enc \union {s} |-> IF t = s THEN frames ELSE sent[t]],
           frames = [i \in 1..n |-> FrameOf(s, i)']
    PROVE  WriterInv'
<1>1. /\ DOMAIN enc' = DOMAIN enc \union {s} /\ DOMAIN sent' = DOMAIN enc'
      /\ enc'[s] = e /\ sent'[s] = frames
      /\ \A t \in DOMAIN enc : t # s /\ enc'[t] = enc[t] /\ sent'[t] = sent[t]
  OBVIOUS
<1>2. CountOf(s)' = n
  <2>1. e.fmt \in Formats /\ FirstSeq(e.fmt) \in Nat /\ e.next \in Nat
    BY DEF Encryptor, FirstSeq
  <2> QED BY <1>1, <2>1 DEF CountOf
<1>3. /\ enc'[s] \in Encryptor /\ CountOf(s)' \in Nat
      /\ enc'[s].finalized => CountOf(s)' > 0
      /\ sent'[s] = [i \in 1..CountOf(s) |-> FrameOf(s, i)]'
  BY <1>1, <1>2
<1>4. ASSUME NEW t \in DOMAIN enc
      PROVE  /\ enc'[t] \in Encryptor /\ CountOf(t)' \in Nat
             /\ enc'[t].finalized => CountOf(t)' > 0
             /\ sent'[t] = [i \in 1..CountOf(t) |-> FrameOf(t, i)]'
  BY <1>1, WriterStays
<1> QED BY <1>1, <1>3, <1>4 DEF WriterInv

\* encrypt_chunk adds the next frame and keeps the ones before.
LEMMA WriterAdvances ==
    ASSUME WriterInv, NEW s \in DOMAIN enc, NEW fin \in 0..1, encrypt_chunk(s, fin, Aad[s])
    PROVE  /\ WriterInv'
           /\ DOMAIN enc' = DOMAIN enc
           /\ \A t \in DOMAIN enc : t # s => enc'[t] = enc[t] /\ sent'[t] = sent[t]
           /\ enc'[s].fmt = enc[s].fmt
           /\ enc[s].finalized = FALSE
           /\ CountOf(s)' = CountOf(s) + 1
<1>1. /\ ~enc[s].finalized
      /\ sent' = [sent EXCEPT ![s] = Append(@, Frame(s, enc[s].next, fin, Aad[s]))]
      /\ enc' = [enc EXCEPT ![s].next = @ + 1, ![s].finalized = (fin = 1)]
  BY DEF encrypt_chunk
<1>2. /\ enc[s] \in Encryptor /\ CountOf(s) \in Nat
      /\ sent[s] = [i \in 1..CountOf(s) |-> FrameOf(s, i)]
      /\ DOMAIN sent = DOMAIN enc
  BY DEF WriterInv
<1>3. enc[s].next \in Nat /\ FirstSeq(enc[s].fmt) \in Nat /\ enc[s].finalized = FALSE
  BY <1>1, <1>2 DEF Encryptor, FirstSeq
<1>4. /\ DOMAIN enc' = DOMAIN enc
      /\ \A t \in DOMAIN enc : t # s => enc'[t] = enc[t]
      /\ enc'[s].fmt = enc[s].fmt /\ enc'[s].next = enc[s].next + 1
      /\ fin = 1 => enc'[s].finalized = TRUE
      /\ fin = 0 => enc'[s].finalized = FALSE
      /\ enc'[s] \in Encryptor
  <2>1. enc'[s] = [enc[s] EXCEPT !.next = @ + 1, !.finalized = (fin = 1)]
    BY <1>1
  <2>2. DOMAIN enc[s] = {"fmt", "next", "finalized"} /\ enc[s].fmt \in Formats
    BY <1>2 DEF Encryptor
  <2>3. /\ enc'[s] = [f \in DOMAIN enc'[s] |-> enc'[s][f]]
        /\ DOMAIN enc'[s] = {"fmt", "next", "finalized"}
        /\ enc'[s].fmt = enc[s].fmt /\ enc'[s].next = enc[s].next + 1
    BY <2>1, <2>2
  <2>4. enc'[s].finalized = (fin = 1)
    BY <2>1, <2>2
  <2>5. DOMAIN enc' = DOMAIN enc /\ \A t \in DOMAIN enc : t # s => enc'[t] = enc[t]
    BY <1>1
  <2>6. CASE fin = 1
    <3>1. enc'[s].finalized = TRUE
      BY <2>4, <2>6
    <3>2. enc'[s] \in Encryptor
      <4>1. PICK next \in Nat : next = enc[s].next + 1
        BY <1>3
      <4>2. enc'[s] = [fmt |-> enc[s].fmt, next |-> next, finalized |-> TRUE]
        BY <2>3, <3>1, <4>1
      <4> QED BY <2>2, <4>2 DEF Encryptor
    <3>3. fin # 0
      BY <2>6
    <3> QED BY <2>3, <2>5, <2>6, <3>1, <3>2, <3>3
  <2>7. CASE fin = 0
    <3>1. enc'[s].finalized = FALSE
      <4>1. (fin = 1) = FALSE
        BY <2>7
      <4> QED BY <2>4, <4>1, Zenon
    <3>2. enc'[s] \in Encryptor
      <4>1. PICK next \in Nat : next = enc[s].next + 1
        BY <1>3
      <4>2. enc'[s] = [fmt |-> enc[s].fmt, next |-> next, finalized |-> FALSE]
        BY <2>3, <3>1, <4>1
      <4> QED BY <2>2, <4>2 DEF Encryptor
    <3>3. fin # 1
      BY <2>7
    <3> QED BY <2>3, <2>5, <2>7, <3>1, <3>2, <3>3
  <2>8. fin = 0 \/ fin = 1
    OBVIOUS
  <2> QED BY <2>6, <2>7, <2>8, Zenon
<1>5. CountOf(s)' = CountOf(s) + 1
  BY <1>3, <1>4 DEF CountOf
<1>6. /\ DOMAIN sent' = DOMAIN sent
      /\ \A t \in DOMAIN enc : t # s => sent'[t] = sent[t]
      /\ sent'[s] = Append(sent[s], Frame(s, enc[s].next, fin, Aad[s]))
  BY <1>1, <1>2
<1>7. /\ \A i : SeqOf(s, i)' = SeqOf(s, i)
      /\ \A q, f, aad : Frame(s, q, f, aad)' = Frame(s, q, f, aad)
  BY <1>4, SameFormat
<1>8. ASSUME NEW i \in 1..CountOf(s) PROVE FrameOf(s, i)' = FrameOf(s, i)
  <2>1. FinOf(s, i)' = 0 /\ FinOf(s, i) = 0
    BY <1>2, <1>3, <1>5 DEF FinOf
  <2> QED BY <1>7, <2>1 DEF FrameOf
<1>9. ASSUME NEW n, n = CountOf(s) + 1
      PROVE  FrameOf(s, n)' = Frame(s, enc[s].next, fin, Aad[s])
  <2>1. FinOf(s, n)' = IF enc'[s].finalized /\ n = CountOf(s)' THEN 1 ELSE 0
    BY DEF FinOf
  <2>2. FinOf(s, n)' = fin
    <3>1. CASE fin = 1
      BY <1>4, <1>5, <1>9, <2>1, <3>1
    <3>2. CASE fin = 0
      <4>1. ~enc'[s].finalized
        BY <1>4, <3>2
      <4> QED BY <2>1, <3>2, <4>1
    <3> QED BY <3>1, <3>2
  <2>3. SeqOf(s, n)' = enc[s].next
    BY <1>2, <1>3, <1>7, <1>9 DEF SeqOf, CountOf
  <2> QED BY <1>7, <2>2, <2>3 DEF FrameOf
<1>10. sent'[s] = [i \in 1..CountOf(s) |-> FrameOf(s, i)]'
  <2> DEFINE G == [i \in 1..(CountOf(s) + 1) |-> FrameOf(s, i)']
  <2>1. [i \in 1..CountOf(s) |-> FrameOf(s, i)]' = G
    BY <1>5
  <2>2. sent'[s] = G
    <3>1. PICK n, f : n = CountOf(s) /\ f = Frame(s, enc[s].next, fin, Aad[s])
      OBVIOUS
    <3>2. /\ sent[s] \in Seq({FrameOf(s, i) : i \in 1..CountOf(s)})
          /\ Len(sent[s]) = n
      BY <3>1, Lengths
    <3>3. PICK S : sent[s] \in Seq(S) /\ f \in S
      <4>1. sent[s] \in Seq({FrameOf(s, i) : i \in 1..CountOf(s)} \cup {f})
        BY <3>2
      <4> QED BY <4>1
    <3>4. /\ sent'[s] \in Seq(S) /\ Len(sent'[s]) = n + 1
          /\ sent'[s][n + 1] = f /\ \A i \in 1..n : sent'[s][i] = sent[s][i]
      BY <1>6, <3>1, <3>2, <3>3, AppendProperties
    <3>5. DOMAIN sent'[s] = 1..(n + 1) /\ sent'[s] = [i \in 1..(n + 1) |-> sent'[s][i]]
      BY <3>4, LenProperties
    <3>6. ASSUME NEW i \in 1..(n + 1) PROVE sent'[s][i] = FrameOf(s, i)'
      <4>1. CASE i = n + 1
        BY <1>9, <3>1, <3>4, <4>1
      <4>2. CASE i \in 1..n
        BY <1>2, <1>8, <3>1, <3>4, <4>2
      <4> QED BY <1>2, <3>1, <4>1, <4>2
    <3>7. sent'[s] = [i \in 1..(n + 1) |-> FrameOf(s, i)']
      BY <3>5, <3>6
    <3> QED BY <3>1, <3>7
  <2> QED BY <2>1, <2>2
<1>11. \A t \in DOMAIN enc :
        /\ enc'[t] \in Encryptor /\ CountOf(t)' \in Nat
        /\ enc'[t].finalized => CountOf(t)' > 0
        /\ sent'[t] = [i \in 1..CountOf(t) |-> FrameOf(t, i)]'
  <2>1. CountOf(s)' \in Nat /\ CountOf(s)' > 0
    BY <1>2, <1>5
  <2> QED BY <1>4, <1>6, <1>10, <2>1, WriterStays
<1>12. WriterInv'
  BY <1>2, <1>4, <1>6, <1>11 DEF WriterInv
<1> QED BY <1>3, <1>4, <1>5, <1>6, <1>12

\* StreamEncryptor::new has released nothing.
LEMMA WriterOpens ==
    ASSUME WriterInv, NEW s \in Streams, NEW fmt \in Formats, NewStream(s, fmt)
    PROVE  WriterInv'
<1> DEFINE e == [fmt |-> fmt, next |-> FirstSeq(fmt), finalized |-> FALSE]
<1>1. e \in Encryptor /\ e.next = FirstSeq(e.fmt) + 0 /\ ~e.finalized
  BY DEF Encryptor, FirstSeq
<1>2. /\ s \notin DOMAIN enc
      /\ enc' = [t \in DOMAIN enc \union {s} |-> IF t = s THEN e ELSE enc[t]]
      /\ sent' = [t \in DOMAIN enc \union {s} |-> IF t = s THEN <<>> ELSE sent[t]]
  BY DEF NewStream
<1>3. <<>> = [i \in 1..0 |-> FrameOf(s, i)']
  OBVIOUS
<1>4. PICK n \in Nat : n = 0
  OBVIOUS
<1>5. PICK frames : frames = <<>>
  OBVIOUS
<1> HIDE DEF e
<1>6. /\ e.next = FirstSeq(e.fmt) + n
      /\ e.finalized => n > 0
      /\ sent' = [t \in DOMAIN enc \union {s} |-> IF t = s THEN frames ELSE sent[t]]
      /\ frames = [i \in 1..n |-> FrameOf(s, i)']
  BY <1>1, <1>2, <1>3, <1>4, <1>5
<1> QED BY <1>1, <1>2, <1>6, WriterAppears

\* encrypt_stream_v3 has released a whole stream.
LEMMA WriterWrites ==
    ASSUME WriterInv, NEW s \in Streams, NEW n \in 1..MaxChunks,
           encrypt_stream_v3(s, n, Aad[s])
    PROVE  WriterInv'
<1> DEFINE e == [fmt |-> "v3", next |-> n, finalized |-> TRUE]
           key == derive_stream_key("v3", Recipient, s, KemCt(Recipient, s), Context[s])
           frames == [i \in 1..n |-> FrameV3(s, key, i - 1, IF i = n THEN 1 ELSE 0, Aad[s])]
<1>1. n \in Nat /\ n > 0
  BY StreamAssumption
<1>2. e \in Encryptor /\ e.next = FirstSeq(e.fmt) + n
  BY <1>1 DEF Encryptor, Formats, FirstSeq
<1>3. /\ s \notin DOMAIN enc
      /\ enc' = [t \in DOMAIN enc \union {s} |-> IF t = s THEN e ELSE enc[t]]
      /\ sent' = [t \in DOMAIN enc \union {s} |-> IF t = s THEN frames ELSE sent[t]]
  BY DEF encrypt_stream_v3
<1>4. enc'[s].fmt = "v3" /\ enc'[s].next = n /\ enc'[s].finalized = TRUE
  BY <1>3
<1>5. KeyOf(s)' = key
  BY <1>4 DEF KeyOf
<1> HIDE DEF key
<1>6. CountOf(s)' = n
  BY <1>1, <1>4 DEF CountOf, FirstSeq
<1>7. ASSUME NEW i \in 1..n
      PROVE  FrameOf(s, i)' = FrameV3(s, key, i - 1, IF i = n THEN 1 ELSE 0, Aad[s])
  <2>1. SeqOf(s, i)' = i - 1
    BY <1>1, <1>4 DEF SeqOf, FirstSeq
  <2>2. FinOf(s, i)' = IF i = n THEN 1 ELSE 0
    BY <1>4, <1>6 DEF FinOf
  <2> QED BY <1>4, <1>5, <2>1, <2>2 DEF FrameOf, Frame
<1>8. frames = [i \in 1..n |-> FrameOf(s, i)']
  BY <1>7
<1> HIDE DEF e, frames
<1> QED BY <1>1, <1>2, <1>3, <1>8, WriterAppears

\* What every step leaves a reader to rely on: a writer keeps its format and its key,
\* and releases more only while it is not finalized.
WritersKept ==
    \A t \in DOMAIN enc :
        /\ t \in DOMAIN enc'
        /\ enc'[t].fmt = enc[t].fmt
        /\ KeyOf(t)' = KeyOf(t)
        /\ \/ enc'[t].finalized = enc[t].finalized /\ CountOf(t)' = CountOf(t)
           \/ enc[t].finalized = FALSE /\ CountOf(t)' = CountOf(t) + 1

LEMMA OthersKept ==
    ASSUME \A t \in DOMAIN enc : t \in DOMAIN enc' /\ enc'[t] = enc[t]
    PROVE  WritersKept
  BY SameWriter DEF WritersKept

LEMMA ChunkKept ==
    ASSUME WriterInv, NEW s \in DOMAIN enc, NEW fin \in 0..1, encrypt_chunk(s, fin, Aad[s])
    PROVE  WritersKept
<1>1. /\ DOMAIN enc' = DOMAIN enc
      /\ \A t \in DOMAIN enc : t # s => enc'[t] = enc[t]
      /\ enc'[s].fmt = enc[s].fmt
      /\ enc[s].finalized = FALSE
      /\ CountOf(s)' = CountOf(s) + 1
  BY WriterAdvances
<1>2. \A t \in DOMAIN enc : enc'[t].fmt = enc[t].fmt /\ KeyOf(t)' = KeyOf(t)
  BY <1>1, SameFormat
<1>3. \A t \in DOMAIN enc : t # s => CountOf(t)' = CountOf(t) /\ enc'[t].finalized = enc[t].finalized
  BY <1>1, SameWriter
<1> QED BY <1>1, <1>2, <1>3 DEF WritersKept

LEMMA WritersIdle ==
    ASSUME WriterInv, UNCHANGED <<enc, sent>>
    PROVE  WriterInv' /\ WritersKept
<1>1. \A t \in DOMAIN enc : t \in DOMAIN enc' /\ enc'[t] = enc[t] /\ sent'[t] = sent[t]
  OBVIOUS
<1> QED BY <1>1, WriterStays, OthersKept DEF WriterInv

LEMMA ReadStepReads ==
    ASSUME ReadStep \/ UNCHANGED streamVars
    PROVE  UNCHANGED <<enc, sent>>
  BY DEF ReadStep, OpenHeader, ReadChunk, ReadFinalTag, ReadWhole, streamVars

LEMMA WritersStep ==
    ASSUME WriterInv, [StreamNext]_streamVars
    PROVE  WriterInv'
<1>1. ASSUME NEW s \in DOMAIN enc, NEW fin \in 0..1, encrypt_chunk(s, fin, Aad[s])
      PROVE  WriterInv'
  BY <1>1, WriterAdvances
<1>2. CASE ReadStep \/ UNCHANGED streamVars
  BY <1>2, ReadStepReads, WritersIdle
<1> QED BY <1>1, <1>2, WriterOpens, WriterWrites DEF StreamNext, WriteStep

-----------------------------------------------------------------------------
(* NonceOnce: the key and the nonce of a frame tell the stream and the     *)
(* number of its chunk.                                                    *)

LEMMA FrameNonce ==
    ASSUME NEW s, NEW i, NEW ct, ct = FrameOf(s, i).ct
    PROVE  \/ ct.nonce = [random |-> <<s, SeqOf(s, i)>>]
              /\ ct.key = derive_chunk_key(KeyOf(s), SeqOf(s, i), FinOf(s, i))
           \/ ct.nonce = derive_chunk_nonce(KeyOf(s), SeqOf(s, i)) /\ ct.key = KeyOf(s)
  BY FrameSealed DEF AeadSeal

LEMMA WritersNonceOnce ==
    ASSUME WriterInv
    PROVE  NonceOnce
<1> SUFFICES ASSUME NEW s \in DOMAIN enc, NEW t \in DOMAIN enc,
                    NEW i \in 1..Len(sent[s]), NEW j \in 1..Len(sent[t]),
                    sent[s][i].ct.key = sent[t][j].ct.key,
                    sent[s][i].ct.nonce = sent[t][j].ct.nonce
             PROVE  s = t /\ i = j
  BY DEF NonceOnce
<1>1. /\ i \in 1..CountOf(s) /\ j \in 1..CountOf(t)
      /\ CountOf(s) \in Nat /\ CountOf(t) \in Nat
      /\ sent[s][i] = FrameOf(s, i) /\ sent[t][j] = FrameOf(t, j)
      /\ enc[s].fmt \in Formats /\ enc[t].fmt \in Formats
  BY Lengths DEF WriterInv, Encryptor
<1>2. PICK c, d : c = FrameOf(s, i).ct /\ d = FrameOf(t, j).ct
  OBVIOUS
<1>3. c.key = d.key /\ c.nonce = d.nonce
  BY <1>1, <1>2
<1>4. s = t /\ SeqOf(s, i) = SeqOf(t, j)
  <2>1. CASE /\ c.key = derive_chunk_key(KeyOf(s), SeqOf(s, i), FinOf(s, i))
             /\ d.key = derive_chunk_key(KeyOf(t), SeqOf(t, j), FinOf(t, j))
    <3>1. derive_chunk_key(KeyOf(s), SeqOf(s, i), FinOf(s, i))
            = derive_chunk_key(KeyOf(t), SeqOf(t, j), FinOf(t, j))
      BY <1>3, <2>1
    <3>2. KeyOf(s) = KeyOf(t) /\ SeqOf(s, i) = SeqOf(t, j)
      BY <3>1, ChunkKeyApart
    <3> QED BY <3>2, KeysApart
  <2>2. CASE /\ c.key = KeyOf(s) /\ d.key = KeyOf(t)
             /\ c.nonce = derive_chunk_nonce(KeyOf(s), SeqOf(s, i))
             /\ d.nonce = derive_chunk_nonce(KeyOf(t), SeqOf(t, j))
    <3>1. s = t
      BY <1>3, <2>2, KeysApart
    <3>2. c.nonce.seq = SeqOf(s, i) /\ d.nonce.seq = SeqOf(t, j)
      BY <2>2 DEF derive_chunk_nonce
    <3> QED BY <1>3, <3>1, <3>2
  <2>3. \/ c.nonce = [random |-> <<s, SeqOf(s, i)>>]
           /\ c.key = derive_chunk_key(KeyOf(s), SeqOf(s, i), FinOf(s, i))
        \/ c.nonce = derive_chunk_nonce(KeyOf(s), SeqOf(s, i)) /\ c.key = KeyOf(s)
    BY <1>2, FrameNonce
  <2>4. \/ d.nonce = [random |-> <<t, SeqOf(t, j)>>]
           /\ d.key = derive_chunk_key(KeyOf(t), SeqOf(t, j), FinOf(t, j))
        \/ d.nonce = derive_chunk_nonce(KeyOf(t), SeqOf(t, j)) /\ d.key = KeyOf(t)
    BY <1>2, FrameNonce
  <2>5. /\ KeyOf(s) # derive_chunk_key(KeyOf(t), SeqOf(t, j), FinOf(t, j))
        /\ KeyOf(t) # derive_chunk_key(KeyOf(s), SeqOf(s, i), FinOf(s, i))
    BY KeysDiffer
  <2> QED BY <1>3, <2>1, <2>2, <2>3, <2>4, <2>5
<1>5. i = j
  <2>1. FirstSeq(enc[s].fmt) \in Nat
    BY DEF FirstSeq
  <2> QED BY <1>1, <1>4, <2>1 DEF SeqOf
<1> QED BY <1>4, <1>5

-----------------------------------------------------------------------------
(* StreamsAreWhole.  The plaintexts of n chunks of stream s that count     *)
(* from b.                                                                 *)

Chunks(s, b, n) == [i \in 1..n |-> <<s, b + (i - 1)>>]

ChunksOf(s) == {<<s, i>> : i \in Nat}

LEMMA ChunksLen ==
    ASSUME NEW s, NEW b \in Nat, NEW n \in Nat
    PROVE  /\ Chunks(s, b, n) \in Seq(ChunksOf(s))
           /\ Len(Chunks(s, b, n)) = n
           /\ DOMAIN Chunks(s, b, n) = 1..n
           /\ \A i \in 1..n : Chunks(s, b, n)[i] = <<s, b + (i - 1)>>
<1>1. \A i \in 1..n : <<s, b + (i - 1)>> \in ChunksOf(s)
  BY DEF ChunksOf
<1>2. Chunks(s, b, n) \in Seq(ChunksOf(s))
  BY <1>1 DEF Chunks
<1>3. DOMAIN Chunks(s, b, n) = 1..n /\ \A i \in 1..n : Chunks(s, b, n)[i] = <<s, b + (i - 1)>>
  BY DEF Chunks
<1>4. Len(Chunks(s, b, n)) = n
  BY <1>2, <1>3, LenProperties
<1> QED BY <1>2, <1>3, <1>4

LEMMA ChunksAppend ==
    ASSUME NEW s, NEW b \in Nat, NEW n \in Nat
    PROVE  Append(Chunks(s, b, n), <<s, b + n>>) = Chunks(s, b, n + 1)
<1>1. PICK c, x, a : c = Chunks(s, b, n) /\ x = <<s, b + n>> /\ a = Append(c, x)
  OBVIOUS
<1>2. c \in Seq(ChunksOf(s)) /\ Len(c) = n /\ \A i \in 1..n : c[i] = <<s, b + (i - 1)>>
  BY <1>1, ChunksLen
<1>3. x \in ChunksOf(s)
  BY <1>1 DEF ChunksOf
<1>4. /\ a \in Seq(ChunksOf(s)) /\ Len(a) = n + 1 /\ a[n + 1] = x
      /\ \A i \in 1..n : a[i] = c[i]
  BY <1>1, <1>2, <1>3, AppendProperties
<1>5. a = [i \in 1..(n + 1) |-> a[i]]
  BY <1>4, LenProperties
<1>6. ASSUME NEW i \in 1..(n + 1) PROVE a[i] = <<s, b + (i - 1)>>
  <2>1. CASE i = n + 1
    BY <1>1, <1>4, <2>1
  <2>2. CASE i \in 1..n
    BY <1>2, <1>4, <2>2
  <2> QED BY <2>1, <2>2
<1>7. a = Chunks(s, b, n + 1)
  BY <1>5, <1>6 DEF Chunks
<1> QED BY <1>1, <1>7

LEMMA ChunksPrefix ==
    ASSUME NEW s, NEW b \in Nat, NEW n \in Nat, NEW m \in 0..n
    PROVE  SubSeq(Chunks(s, b, n), 1, m) = Chunks(s, b, m)
<1>1. PICK a, c : a = Chunks(s, b, n) /\ c = SubSeq(a, 1, m)
  OBVIOUS
<1>2. \A i \in 1..n : a[i] = <<s, b + (i - 1)>>
  BY <1>1, ChunksLen
<1>3. \A i \in 1..m : a[i] = <<s, b + (i - 1)>> /\ a[i] \in ChunksOf(s)
  BY <1>2 DEF ChunksOf
<1>4. /\ c \in Seq(ChunksOf(s)) /\ Len(c) = m
      /\ \A i \in 1..m : c[i] = a[i]
  BY <1>1, <1>3, SubSeqProperties
<1>5. c = [i \in 1..m |-> c[i]]
  BY <1>4, LenProperties
<1>6. c = Chunks(s, b, m)
  BY <1>3, <1>4, <1>5 DEF Chunks
<1> QED BY <1>1, <1>6

LEMMA ChunksSame ==
    ASSUME NEW s, NEW b \in Nat, NEW m \in Nat, NEW n \in Nat
    PROVE  (Chunks(s, b, m) = Chunks(s, b, n)) <=> m = n
<1>1. PICK x, y : x = Chunks(s, b, m) /\ y = Chunks(s, b, n)
  OBVIOUS
<1>2. Len(x) = m /\ Len(y) = n
  BY <1>1, ChunksLen
<1>3. x = y => m = n
  BY <1>2
<1> QED BY <1>1, <1>3

LEMMA PlainIs ==
    ASSUME WriterInv, NEW s \in DOMAIN enc
    PROVE  Plain(s) = Chunks(s, FirstSeq(enc[s].fmt), CountOf(s))
<1>1. /\ Len(sent[s]) = CountOf(s)
      /\ sent[s] = [i \in 1..CountOf(s) |-> FrameOf(s, i)]
  BY Lengths DEF WriterInv
<1>2. ASSUME NEW i \in 1..CountOf(s) PROVE sent[s][i].ct.pt = <<s, SeqOf(s, i)>>
  <2>1. PICK ct : ct = FrameOf(s, i).ct
    OBVIOUS
  <2>2. ct.pt = <<s, SeqOf(s, i)>>
    BY <2>1, FrameSealed
  <2> QED BY <1>1, <2>1, <2>2
<1> QED BY <1>1, <1>2 DEF Plain, Chunks, SeqOf

LEMMA PlainAre ==
    WriterInv => \A t \in DOMAIN enc : Plain(t) = Chunks(t, FirstSeq(enc[t].fmt), CountOf(t))
  BY PlainIs

\* A sealed part the transport can put into a frame.
ReleasedCt(ct) == \E s \in DOMAIN enc : \E i \in 1..CountOf(s) : ct = FrameOf(s, i).ct

LEMMA PresentedSealed ==
    ASSUME WriterInv, NEW f \in PresentedFrames
    PROVE  f.ct = Refused \/ ReleasedCt(f.ct)
<1>1. \A g \in AllFrames : ReleasedCt(g.ct) /\ DOMAIN g = {"fmt", "seq", "fin", "nonce", "ct"}
  <2> TAKE g \in AllFrames
  <2>1. PICK s \in DOMAIN enc : \E i \in 1..CountOf(s) : g = FrameOf(s, i)
    BY FramesKnown
  <2>2. PICK i \in 1..CountOf(s) : g = FrameOf(s, i)
    BY <2>1
  <2>3. ReleasedCt(g.ct)
    BY <2>2 DEF ReleasedCt
  <2>4. DOMAIN g = {"fmt", "seq", "fin", "nonce", "ct"}
    BY <2>2 DEF FrameOf, Frame, FrameV2, FrameV3
  <2> QED BY <2>3, <2>4
<1>2. \A g \in AllFrames : \A n, b, c : Renumbered(g, n, b).ct = g.ct /\ Spliced(g, c).ct = c
  BY <1>1 DEF Renumbered, Spliced
<1> DEFINE Cts == {g.ct : g \in AllFrames} \union {Refused}
<1>3. CASE f \in {Renumbered(g, n, b) : g \in AllFrames, n \in 0..MaxChunks + 1, b \in 0..2}
  <2>1. PICK g \in AllFrames, n \in 0..MaxChunks + 1, b \in 0..2 : f = Renumbered(g, n, b)
    BY <1>3
  <2> QED BY <1>1, <1>2, <2>1
<1>4. CASE f \in {Spliced(g, c) : g \in AllFrames, c \in Cts}
  <2>1. PICK g \in AllFrames, c \in Cts : f = Spliced(g, c)
    BY <1>4
  <2>2. f.ct = c
    BY <1>2, <2>1
  <2>3. CASE c # Refused
    <3>1. PICK h \in AllFrames : c = h.ct
      BY <2>3
    <3> QED BY <1>1, <2>2, <3>1
  <2> QED BY <2>2, <2>3
<1> QED BY <1>3, <1>4 DEF PresentedFrames

\* A frame that opens is, in its sealed part, the chunk of the reader's stream that
\* its header states.
LEMMA FrameOpens ==
    ASSUME NEW d, NEW f, NEW aad, d.fmt \in Formats, d.key.kdf = "v1",
           f.ct = Refused \/ ReleasedCt(f.ct),
           OpenChunk(d, f, aad) # Refused
    PROVE  \E s \in DOMAIN enc : \E i \in 1..CountOf(s) :
              /\ (enc[s].fmt = "v2") <=> (d.fmt = "v2")
              /\ KeyOf(s) = d.key
              /\ f.seq = SeqOf(s, i)
              /\ f.fin = FinOf(s, i)
              /\ OpenChunk(d, f, aad) = <<s, SeqOf(s, i)>>
<1>1. CASE d.fmt = "v2"
  <2>1. PICK key, n, a : /\ key = derive_chunk_key(d.key, f.seq, f.fin)
                         /\ n = f.nonce /\ a = make_chunk_aad_v2(f.seq, f.fin, aad)
    OBVIOUS
  <2>2. OpenChunk(d, f, aad) = AeadOpen(key, n, f.ct, a)
    BY <1>1, <2>1 DEF OpenChunk, OpenV2
  <2>3. /\ f.ct # Refused /\ f.ct.key = key /\ f.ct.nonce = n /\ f.ct.aad = a
        /\ OpenChunk(d, f, aad) = f.ct.pt
    BY <2>2 DEF AeadOpen, AeadSeal
  <2>4. PICK s \in DOMAIN enc : \E i \in 1..CountOf(s) : f.ct = FrameOf(s, i).ct
    BY <2>3 DEF ReleasedCt
  <2>5. PICK i \in 1..CountOf(s) : f.ct = FrameOf(s, i).ct
    BY <2>4
  <2>6. enc[s].fmt = "v2"
    <3>1. SUFFICES ASSUME enc[s].fmt # "v2" PROVE FALSE
      OBVIOUS
    <3>2. f.ct.key = KeyOf(s)
      BY <2>5, <3>1, FrameSealed DEF AeadSeal
    <3> QED BY <2>1, <2>3, <3>2, KeysDiffer
  <2>7. /\ f.ct.key = derive_chunk_key(KeyOf(s), SeqOf(s, i), FinOf(s, i))
        /\ f.ct.pt = <<s, SeqOf(s, i)>>
    BY <2>5, <2>6, FrameSealed DEF AeadSeal
  <2>8. derive_chunk_key(KeyOf(s), SeqOf(s, i), FinOf(s, i)) = derive_chunk_key(d.key, f.seq, f.fin)
    BY <2>1, <2>3, <2>7
  <2>9. KeyOf(s) = d.key /\ f.seq = SeqOf(s, i) /\ f.fin = FinOf(s, i)
    BY <2>8, ChunkKeyApart
  <2> QED BY <1>1, <2>3, <2>6, <2>7, <2>9
<1>2. CASE d.fmt # "v2"
  <2>1. PICK n, a : /\ n = derive_chunk_nonce(d.key, f.seq)
                    /\ a = make_chunk_aad_v3(d.id, f.seq, f.fin, aad)
    OBVIOUS
  <2>2. OpenChunk(d, f, aad) = AeadOpen(d.key, n, f.ct, a)
    BY <1>2, <2>1 DEF OpenChunk, OpenV3
  <2>3. /\ f.ct # Refused /\ f.ct.key = d.key /\ f.ct.nonce = n /\ f.ct.aad = a
        /\ OpenChunk(d, f, aad) = f.ct.pt
    BY <2>2 DEF AeadOpen, AeadSeal
  <2>4. PICK s \in DOMAIN enc : \E i \in 1..CountOf(s) : f.ct = FrameOf(s, i).ct
    BY <2>3 DEF ReleasedCt
  <2>5. PICK i \in 1..CountOf(s) : f.ct = FrameOf(s, i).ct
    BY <2>4
  <2>6. enc[s].fmt # "v2"
    <3>1. SUFFICES ASSUME enc[s].fmt = "v2" PROVE FALSE
      OBVIOUS
    <3>2. f.ct.key = derive_chunk_key(KeyOf(s), SeqOf(s, i), FinOf(s, i))
      BY <2>5, <3>1, FrameSealed DEF AeadSeal
    <3>3. f.ct.key.kdf = "chunk"
      BY <3>2 DEF derive_chunk_key
    <3> QED BY <2>3, <3>3
  <2>7. /\ f.ct.key = KeyOf(s)
        /\ f.ct.nonce = derive_chunk_nonce(KeyOf(s), SeqOf(s, i))
        /\ f.ct.aad = make_chunk_aad_v3(s, SeqOf(s, i), FinOf(s, i), Aad[s])
        /\ f.ct.pt = <<s, SeqOf(s, i)>>
    BY <2>5, <2>6, FrameSealed DEF AeadSeal
  <2>8. f.ct.nonce.seq = f.seq /\ f.ct.nonce.seq = SeqOf(s, i)
    BY <2>1, <2>3, <2>7 DEF derive_chunk_nonce
  <2>9. f.ct.aad[4] = f.fin /\ f.ct.aad[4] = FinOf(s, i)
    BY <2>1, <2>3, <2>7 DEF make_chunk_aad_v3
  <2> QED BY <1>2, <2>3, <2>6, <2>7, <2>8, <2>9
<1> QED BY <1>1, <1>2

\* How far the reader has got in stream s, whose key it holds.
Follows(s) ==
    \E m \in 0..CountOf(s) :
        /\ got = Chunks(s, FirstSeq(enc[s].fmt), m)
        /\ dec.expected = FirstSeq(dec.fmt) + m
        /\ dec.fmt = enc[s].fmt \/ m = 0
        /\ dec.done <=> enc[s].finalized /\ m = CountOf(s)

\* The reader's key belongs to a KEM ciphertext that exists, so that no writer that
\* opens a stream later has it.
ReadsKnown ==
    /\ DOMAIN dec = {"fmt", "key", "id", "expected", "done", "finished"}
    /\ dec.fmt \in Formats
    /\ dec.done \in BOOLEAN
    /\ dec.key.kdf = "v1"
    /\ \E s \in DOMAIN enc : dec.key.ct = KemCt(Recipient, s)

ReaderInv ==
    \/ dec = NoDecryptor /\ got = <<>>
    \/ /\ ReadsKnown
       /\ \A s \in DOMAIN enc : KeyOf(s) = dec.key => Follows(s)
       /\ (\A s \in DOMAIN enc : KeyOf(s) # dec.key) => got = <<>> /\ ~dec.done

LEMMA ReadingIs ==
    ASSUME NEW s \in DOMAIN enc, dec # NoDecryptor, KeyOf(s) = dec.key
    PROVE  Reading = s
<1>1. \A t \in DOMAIN enc : KeyOf(t) = dec.key => t = s
  BY KeysApart
<1> QED BY <1>1 DEF Reading

LEMMA ReadingNone ==
    ASSUME dec = NoDecryptor \/ \A s \in DOMAIN enc : KeyOf(s) # dec.key
    PROVE  Reading = NoStream
  BY DEF Reading

LEMMA NoDecryptorFmt == NoDecryptor.fmt \notin Formats
  BY DEF NoDecryptor, Formats

\* A key that the reader holds belongs to one of the writers that exist now.
LEMMA KeyKnown ==
    ASSUME ReadsKnown, NEW s, KeyOf(s) = dec.key
    PROVE  s \in DOMAIN enc
  BY DEF ReadsKnown, KeyOf, derive_stream_key, DeriveKey, KemCt

\* A header that is accepted gives a decryptor at the start, with a key derived from
\* the ciphertext the header carries.
LEMMA HeaderAccepted ==
    ASSUME NEW h, NEW k, NEW context, NEW d, d = from_header(h, k, context), d # NoDecryptor
    PROVE  /\ DOMAIN d = {"fmt", "key", "id", "expected", "done", "finished"}
           /\ d.fmt \in Formats
           /\ d.expected = FirstSeq(d.fmt)
           /\ d.done \in BOOLEAN /\ ~d.done
           /\ d.key.kdf = "v1"
           /\ d.key.ct = h.ct
<1>1. PICK fmt, id, context0 :
        /\ fmt \in Formats
        /\ d = Decryptor(fmt, derive_stream_key(fmt, k, id, h.ct, context0), id)
  BY DEF from_header, from_header_v2, from_header_v3, Formats
<1>2. PICK key : key = derive_stream_key(fmt, k, id, h.ct, context0)
  OBVIOUS
<1>3. key.kdf = "v1" /\ key.ct = h.ct
  BY <1>2 DEF derive_stream_key, DeriveKey
<1> QED BY <1>1, <1>2, <1>3 DEF Decryptor

\* A writer's step leaves the reader in its place and does not change which stream it
\* reads.
LEMMA ReaderStays ==
    ASSUME WriterInv, ReaderInv, WritersKept, UNCHANGED <<dec, got>>
    PROVE  ReaderInv' /\ Reading' = Reading
<1>1. CASE dec = NoDecryptor /\ got = <<>>
  BY <1>1 DEF ReaderInv, Reading
<1>2. CASE ~(dec = NoDecryptor /\ got = <<>>)
  <2>1. /\ ReadsKnown
        /\ \A s \in DOMAIN enc : KeyOf(s) = dec.key => Follows(s)
        /\ (\A s \in DOMAIN enc : KeyOf(s) # dec.key) => got = <<>> /\ ~dec.done
    BY <1>2 DEF ReaderInv
  <2>2. dec # NoDecryptor
    BY <2>1, NoDecryptorFmt DEF ReadsKnown
  <2>3. ReadsKnown'
    BY <2>1 DEF ReadsKnown, WritersKept
  <2>4. ASSUME NEW s \in DOMAIN enc', KeyOf(s)' = dec.key
        PROVE  s \in DOMAIN enc /\ KeyOf(s) = dec.key
    <3>1. PICK t \in DOMAIN enc : dec.key.ct = KemCt(Recipient, t)
      BY <2>1 DEF ReadsKnown
    <3>2. s = t
      BY <2>4, <3>1 DEF KeyOf, derive_stream_key, DeriveKey, KemCt
    <3> QED BY <2>4, <3>2 DEF WritersKept
  <2>5. \A s \in DOMAIN enc : KeyOf(s) = dec.key => s \in DOMAIN enc' /\ KeyOf(s)' = dec.key
    BY DEF WritersKept
  <2>6. ASSUME NEW s \in DOMAIN enc, KeyOf(s) = dec.key
        PROVE  Follows(s)'
    <3>1. PICK m \in 0..CountOf(s) :
            /\ got = Chunks(s, FirstSeq(enc[s].fmt), m)
            /\ dec.expected = FirstSeq(dec.fmt) + m
            /\ dec.fmt = enc[s].fmt \/ m = 0
            /\ dec.done <=> enc[s].finalized /\ m = CountOf(s)
      BY <2>1, <2>6 DEF Follows
    <3>2. /\ CountOf(s) \in Nat /\ enc'[s].fmt = enc[s].fmt
          /\ \/ enc'[s].finalized = enc[s].finalized /\ CountOf(s)' = CountOf(s)
             \/ enc[s].finalized = FALSE /\ CountOf(s)' = CountOf(s) + 1
      BY DEF WriterInv, WritersKept
    <3>3. m \in 0..CountOf(s)'
      BY <3>2
    <3>4. dec.done <=> enc'[s].finalized /\ m = CountOf(s)'
      BY <3>1, <3>2
    <3> QED BY <3>1, <3>2, <3>3, <3>4 DEF Follows
  <2>7. ReaderInv'
    BY <2>1, <2>3, <2>4, <2>5, <2>6 DEF ReaderInv
  <2>8. Reading' = Reading
    BY <2>2, <2>4, <2>5 DEF Reading
  <2> QED BY <2>7, <2>8
<1> QED BY <1>1, <1>2

\* decrypt_chunk: a frame that is accepted is the next chunk of the reader's stream.
ReaderAdvances ==
    \E s \in DOMAIN enc, m \in Nat :
        /\ m < CountOf(s)
        /\ dec # NoDecryptor /\ dec' # NoDecryptor
        /\ KeyOf(s) = dec.key /\ dec'.key = dec.key
        /\ got = Chunks(s, FirstSeq(enc[s].fmt), m)
        /\ got' = Chunks(s, FirstSeq(enc[s].fmt), m + 1)
        /\ ~dec.done
        /\ dec'.done <=> enc[s].finalized /\ m + 1 = CountOf(s)

LEMMA ChunkRead ==
    ASSUME WriterInv, ReaderInv, NEW f \in PresentedFrames, NEW aad, ReadChunk(f, aad)
    PROVE  ReaderInv' /\ (UNCHANGED <<dec, got>> \/ ReaderAdvances)
<1>1. /\ dec # NoDecryptor
      /\ ReadsKnown
      /\ \A s \in DOMAIN enc : KeyOf(s) = dec.key => Follows(s)
      /\ UNCHANGED <<enc, sent>>
  BY DEF ReadChunk, ReaderInv
<1>2. PICK r : r = decrypt_chunk(dec, f, aad)
  OBVIOUS
<1>3. dec' = r.dec /\ got' = IF r.pt = Refused THEN got ELSE Append(got, r.pt)
  BY <1>2 DEF ReadChunk
<1>4. PICK pt : pt = OpenChunk(dec, f, aad)
  OBVIOUS
<1>5. CASE \/ dec.done \/ f.fmt # dec.fmt \/ f.fin \notin {0, 1} \/ f.seq # dec.expected
           \/ pt = Refused \/ dec.expected = LastSeq(dec.fmt)
  <2>1. r = [dec |-> dec, pt |-> Refused]
    BY <1>2, <1>4, <1>5 DEF decrypt_chunk
  <2>2. UNCHANGED <<dec, got>>
    BY <1>3, <2>1
  <2>3. WritersKept
    BY <1>1, OthersKept
  <2> QED BY <2>2, <2>3, ReaderStays
<1>6. CASE ~(\/ dec.done \/ f.fmt # dec.fmt \/ f.fin \notin {0, 1} \/ f.seq # dec.expected
             \/ pt = Refused \/ dec.expected = LastSeq(dec.fmt))
  <2>1. r = [dec |-> [dec EXCEPT !.expected = @ + 1, !.done = (f.fin = 1)], pt |-> pt]
    BY <1>2, <1>4, <1>6 DEF decrypt_chunk
  <2>2. f.ct = Refused \/ ReleasedCt(f.ct)
    BY PresentedSealed
  <2>3. PICK s \in DOMAIN enc : \E i \in 1..CountOf(s) :
            /\ (enc[s].fmt = "v2") <=> (dec.fmt = "v2")
            /\ KeyOf(s) = dec.key
            /\ f.seq = SeqOf(s, i)
            /\ f.fin = FinOf(s, i)
            /\ OpenChunk(dec, f, aad) = <<s, SeqOf(s, i)>>
    BY <1>1, <1>4, <1>6, <2>2, FrameOpens DEF ReadsKnown
  <2>4. PICK i \in 1..CountOf(s) :
            /\ (enc[s].fmt = "v2") <=> (dec.fmt = "v2")
            /\ KeyOf(s) = dec.key
            /\ f.seq = SeqOf(s, i)
            /\ f.fin = FinOf(s, i)
            /\ pt = <<s, SeqOf(s, i)>>
    BY <1>4, <2>3
  <2>5. /\ enc[s].fmt \in Formats /\ CountOf(s) \in Nat /\ dec.fmt \in Formats
        /\ FirstSeq(dec.fmt) \in Nat
    BY <1>1 DEF WriterInv, Encryptor, ReadsKnown, FirstSeq
  <2>6. enc[s].fmt = dec.fmt
    BY <2>4, <2>5 DEF Formats
  <2>7. PICK m \in 0..CountOf(s) :
            /\ got = Chunks(s, FirstSeq(enc[s].fmt), m)
            /\ dec.expected = FirstSeq(dec.fmt) + m
    BY <1>1, <2>4 DEF Follows
  <2>8. i = m + 1 /\ m < CountOf(s) /\ m \in Nat
    BY <1>6, <2>4, <2>5, <2>6, <2>7 DEF SeqOf
  <2>9. /\ DOMAIN dec' = {"fmt", "key", "id", "expected", "done", "finished"}
        /\ dec'.fmt = dec.fmt /\ dec'.key = dec.key
        /\ dec'.expected = dec.expected + 1
        /\ dec'.done = (f.fin = 1)
    BY <1>1, <1>3, <2>1 DEF ReadsKnown
  <2>10. got' = Chunks(s, FirstSeq(enc[s].fmt), m + 1)
    <3>1. r.pt # Refused /\ r.pt = <<s, FirstSeq(enc[s].fmt) + m>>
      <4>1. r.pt = pt /\ SeqOf(s, i) = FirstSeq(enc[s].fmt) + m
        BY <2>1, <2>5, <2>6, <2>7, <2>8 DEF SeqOf
      <4> QED BY <1>6, <2>4, <4>1
    <3>2. got' = Append(got, <<s, FirstSeq(enc[s].fmt) + m>>)
      BY <1>3, <3>1
    <3> QED BY <2>5, <2>6, <2>7, <2>8, <3>2, ChunksAppend
  <2>11. dec'.done \in BOOLEAN /\ (dec'.done <=> enc[s].finalized /\ m + 1 = CountOf(s))
    <3>1. (f.fin = 1) <=> enc[s].finalized /\ m + 1 = CountOf(s)
      BY <2>4, <2>8 DEF FinOf
    <3> QED BY <2>9, <3>1
  <2>12. dec' # NoDecryptor
    BY <2>5, <2>9, NoDecryptorFmt
  <2>13. ReaderAdvances
    <3>1. ~dec.done
      BY <1>6
    <3> QED BY <1>1, <2>4, <2>7, <2>8, <2>9, <2>10, <2>11, <2>12, <3>1 DEF ReaderAdvances
  <2>14. /\ KeyOf(s)' = KeyOf(s) /\ CountOf(s)' = CountOf(s)
    BY <1>1, SameWriter
  <2>15. ReadsKnown'
    BY <1>1, <2>5, <2>9, <2>11 DEF ReadsKnown
  <2>16. Follows(s)'
    <3>1. /\ m + 1 \in 0..CountOf(s)' /\ dec'.expected = FirstSeq(dec'.fmt) + (m + 1)
          /\ dec'.fmt = enc'[s].fmt /\ got' = Chunks(s, FirstSeq(enc'[s].fmt), m + 1)
      BY <1>1, <2>5, <2>6, <2>7, <2>8, <2>9, <2>10, <2>14
    <3>2. dec'.done <=> enc'[s].finalized /\ m + 1 = CountOf(s)'
      BY <1>1, <2>11, <2>14
    <3> QED BY <3>1, <3>2 DEF Follows
  <2>17. ASSUME NEW t \in DOMAIN enc', KeyOf(t)' = dec'.key PROVE t = s
    <3>1. KeyOf(t) = KeyOf(s)
      BY <1>1, <2>4, <2>9, <2>17, SameWriter
    <3> QED BY <3>1, KeysApart
  <2>18. s \in DOMAIN enc' /\ KeyOf(s)' = dec'.key
    BY <1>1, <2>4, <2>9, <2>14
  <2>19. ReaderInv'
    BY <2>15, <2>16, <2>17, <2>18 DEF ReaderInv
  <2> QED BY <2>13, <2>19
<1> QED BY <1>5, <1>6

\* A header that is accepted makes the reader start with an empty stream.
ReaderStarts ==
    /\ dec = NoDecryptor /\ dec' # NoDecryptor
    /\ ~dec'.done

LEMMA HeaderRead ==
    ASSUME WriterInv, ReaderInv, NEW h \in Headers, NEW k, NEW context, OpenHeader(h, k, context)
    PROVE  ReaderInv' /\ (UNCHANGED <<dec, got>> \/ ReaderStarts)
<1>1. /\ dec = NoDecryptor /\ got = <<>> /\ UNCHANGED <<enc, sent, got>>
      /\ dec' = from_header(h, k, context)
  BY NoDecryptorFmt DEF OpenHeader, ReaderInv, ReadsKnown
<1>2. CASE dec' = NoDecryptor
  BY <1>1, <1>2 DEF ReaderInv
<1>3. CASE dec' # NoDecryptor
  <2>1. PICK s \in DOMAIN enc : h.ct = KemCt(Recipient, s)
    <3>1. h.ct \in {HeaderOf(s).ct : s \in DOMAIN enc}
      BY DEF Headers
    <3>2. \A s : HeaderOf(s).ct = KemCt(Recipient, s)
      BY DEF HeaderOf, HeaderV3, encode_stream_header, Header
    <3> QED BY <3>1, <3>2
  <2>2. /\ DOMAIN dec' = {"fmt", "key", "id", "expected", "done", "finished"}
        /\ dec'.fmt \in Formats
        /\ dec'.expected = FirstSeq(dec'.fmt)
        /\ dec'.done = FALSE
        /\ dec'.key.kdf = "v1" /\ dec'.key.ct = h.ct
    <3>1. PICK d : d = dec'
      OBVIOUS
    <3>2. d = from_header(h, k, context) /\ d # NoDecryptor
      BY <1>1, <1>3, <3>1
    <3>3. /\ DOMAIN d = {"fmt", "key", "id", "expected", "done", "finished"}
          /\ d.fmt \in Formats
          /\ d.expected = FirstSeq(d.fmt)
          /\ d.done \in BOOLEAN /\ ~d.done
          /\ d.key.kdf = "v1" /\ d.key.ct = h.ct
      BY <3>2, HeaderAccepted
    <3> QED BY <3>1, <3>3
  <2>3. ReadsKnown'
    BY <1>1, <2>1, <2>2 DEF ReadsKnown
  <2>4. ASSUME NEW t \in DOMAIN enc' PROVE Follows(t)'
    <3>1. /\ CountOf(t)' = CountOf(t) /\ CountOf(t) \in Nat
          /\ enc'[t] = enc[t] /\ (enc[t].finalized => CountOf(t) > 0)
      BY <1>1, SameWriter DEF WriterInv
    <3>2. got' = Chunks(t, FirstSeq(enc'[t].fmt), 0)
      BY <1>1 DEF Chunks
    <3>3. 0 \in 0..CountOf(t)' /\ dec'.expected = FirstSeq(dec'.fmt) + 0
      BY <2>2, <3>1 DEF FirstSeq
    <3>4. dec'.done <=> enc'[t].finalized /\ 0 = CountOf(t)'
      BY <2>2, <3>1
    <3> QED BY <3>2, <3>3, <3>4 DEF Follows
  <2> QED BY <1>1, <1>3, <2>2, <2>3, <2>4 DEF ReaderInv, ReaderStarts
<1> QED BY <1>2, <1>3

\* Verifying the final tag changes nothing that the contract speaks of.
LEMMA TagRead ==
    ASSUME WriterInv, ReaderInv, NEW tag, ReadFinalTag(tag)
    PROVE  /\ ReaderInv' /\ Reading' = Reading /\ UNCHANGED <<enc, sent, got, received>>
           /\ dec # NoDecryptor /\ dec' # NoDecryptor /\ dec'.done = dec.done
<1>1. /\ dec # NoDecryptor /\ UNCHANGED <<enc, sent, got, received>>
      /\ dec' = [dec EXCEPT !.finished = TRUE]
  BY DEF ReadFinalTag
<1>2. ReadsKnown
  BY <1>1 DEF ReaderInv
<1>3. /\ DOMAIN dec' = DOMAIN dec /\ dec'.fmt = dec.fmt /\ dec'.key = dec.key
      /\ dec'.expected = dec.expected /\ dec'.done = dec.done
  BY <1>1, <1>2 DEF ReadsKnown
<1>4. dec' # NoDecryptor
  BY <1>2, <1>3, NoDecryptorFmt DEF ReadsKnown
<1>5. \A s \in DOMAIN enc : KeyOf(s)' = KeyOf(s) /\ CountOf(s)' = CountOf(s)
  BY <1>1, SameWriter
<1>6. ReadsKnown'
  BY <1>1, <1>2, <1>3 DEF ReadsKnown
<1>7. \A s \in DOMAIN enc : Follows(s) => Follows(s)'
  BY <1>1, <1>3, <1>5 DEF Follows
<1>8. ReaderInv'
  BY <1>1, <1>3, <1>5, <1>6, <1>7 DEF ReaderInv
<1>9. Reading' = Reading
  BY <1>1, <1>3, <1>4, <1>5 DEF Reading
<1> QED BY <1>1, <1>3, <1>4, <1>8, <1>9

\* decrypt_stream_v3 returns every chunk of one finalized stream.
LEMMA WholeRead ==
    ASSUME WriterInv, NEW h, NEW n \in Nat \ {0}, NEW frames \in [1..n -> AllFrames],
           NEW tag \in FinalTags, NEW aad, NEW context,
           ReadWhole(h, Recipient, frames, tag, aad, context)
    PROVE  \E s \in DOMAIN enc : enc[s].finalized /\ received' = Plain(s)
<1>1. PICK d : d = from_header(h, Recipient, context)
  OBVIOUS
<1> DEFINE r(i) == decrypt_chunk(Advanced(d, i), frames[i], aad)
<1>2. Len(frames) = n
  <2>1. frames \in Seq(AllFrames)
    OBVIOUS
  <2> QED BY <2>1, LenProperties
<1>3. /\ d # NoDecryptor /\ d.fmt = "v3"
      /\ \A i \in 1..n : r(i).pt # Refused
      /\ verify_final_tag(r(n).dec, tag)
      /\ received' = [i \in 1..n |-> r(i).pt]
  BY <1>1, <1>2 DEF ReadWhole, decrypt_stream_v3
<1>4. /\ DOMAIN d = {"fmt", "key", "id", "expected", "done", "finished"}
      /\ d.expected = 0 /\ d.key.kdf = "v1"
  <2>1. /\ DOMAIN d = {"fmt", "key", "id", "expected", "done", "finished"}
        /\ d.expected = FirstSeq(d.fmt) /\ d.key.kdf = "v1"
    BY <1>1, <1>3, HeaderAccepted
  <2> QED BY <1>3, <2>1 DEF FirstSeq
<1>5. PICK s \in DOMAIN enc : /\ enc[s].fmt = "v3" /\ enc[s].finalized
                              /\ tag = FinalTag(KeyOf(s), s, Len(sent[s]))
  BY DEF FinalTags
<1>6. ASSUME NEW i \in 1..n
      PROVE  /\ r(i).dec.key = d.key /\ r(i).dec.expected = i
             /\ \E t \in DOMAIN enc : KeyOf(t) = d.key /\ r(i).pt = <<t, i - 1>>
  <2>1. PICK a : a = Advanced(d, i)
    OBVIOUS
  <2>2. /\ DOMAIN a = {"fmt", "key", "id", "expected", "done", "finished"}
        /\ a.fmt = "v3" /\ a.key = d.key /\ a.expected = i - 1
    BY <1>3, <1>4, <2>1 DEF Advanced
  <2>3. PICK f, pt : f = frames[i] /\ pt = OpenChunk(a, f, aad)
    OBVIOUS
  <2>4. /\ f.seq = a.expected /\ pt # Refused
        /\ r(i) = [dec |-> [a EXCEPT !.expected = @ + 1, !.done = (f.fin = 1)], pt |-> pt]
    BY <1>3, <2>1, <2>3 DEF decrypt_chunk
  <2>5. r(i).dec.key = d.key /\ r(i).dec.expected = (i - 1) + 1 /\ r(i).pt = pt
    <3>1. PICK e : e = [a EXCEPT !.expected = @ + 1, !.done = (f.fin = 1)]
      OBVIOUS
    <3>2. e.key = d.key /\ e.expected = (i - 1) + 1
      BY <2>2, <3>1
    <3>3. r(i) = [dec |-> e, pt |-> pt]
      BY <2>4, <3>1
    <3> HIDE DEF r
    <3> QED BY <3>2, <3>3
  <2>6. ReleasedCt(f.ct)
    BY <2>3, FramesKnown DEF ReleasedCt
  <2>7. PICK t \in DOMAIN enc : \E j \in 1..CountOf(t) :
            KeyOf(t) = a.key /\ f.seq = SeqOf(t, j) /\ pt = <<t, SeqOf(t, j)>>
    <3>1. a.fmt \in Formats /\ a.key.kdf = "v1"
      BY <1>4, <2>2 DEF Formats
    <3> QED BY <2>3, <2>4, <2>6, <3>1, FrameOpens
  <2> QED BY <2>2, <2>4, <2>5, <2>7
<1>7. KeyOf(s) = d.key /\ Len(sent[s]) = n
  <2>1. PICK e : e = r(n).dec
    OBVIOUS
  <2>2. tag = FinalTag(e.key, e.id, e.expected)
    BY <1>3, <2>1 DEF verify_final_tag
  <2>3. e.key = d.key /\ e.expected = n
    BY <1>6, <2>1
  <2>4. KeyOf(s) = e.key /\ Len(sent[s]) = e.expected
    BY <1>5, <2>2 DEF FinalTag
  <2> QED BY <2>3, <2>4
<1>8. \A i \in 1..n : r(i).pt = <<s, i - 1>>
  BY <1>6, <1>7, KeysApart
<1>9. Plain(s) = [i \in 1..n |-> <<s, i - 1>>]
  <2>1. Plain(s) = Chunks(s, 0, n)
    BY <1>5, <1>7, PlainIs, Lengths DEF FirstSeq
  <2> QED BY <2>1 DEF Chunks
<1> HIDE DEF r
<1>10. received' = Plain(s)
  BY <1>3, <1>8, <1>9
<1> QED BY <1>5, <1>10

-----------------------------------------------------------------------------
(* The steps of Stream as steps of StreamContract. *)

StreamInv == WriterInv /\ ReaderInv

Written == [s \in Streams |-> IF s \in DOMAIN enc THEN Plain(s) ELSE <<>>]
Closed == [s \in Streams |-> s \in DOMAIN enc /\ enc[s].finalized]
Complete == dec # NoDecryptor /\ dec.done

\* What the contract sees of a step that changes none of its state.
LEMMA ContractStutters ==
    ASSUME Written' = Written, Closed' = Closed, Reading' = Reading, got' = got,
           Complete' = Complete, received' = received
    PROVE  UNCHANGED (Contract!vars)
  BY DEF Contract!vars, Written, Closed, Complete

\* Steps that leave the writers alone do not change what was written.
LEMMA WrittenStays ==
    ASSUME UNCHANGED <<enc, sent>>
    PROVE  Written' = Written /\ Closed' = Closed
  BY DEF Written, Closed, Plain

LEMMA NewStreamStutters ==
    ASSUME StreamInv, NEW s \in Streams, NEW fmt \in Formats, NewStream(s, fmt)
    PROVE  ReaderInv' /\ UNCHANGED (Contract!vars)
<1>1. /\ s \notin DOMAIN enc /\ UNCHANGED <<dec, got, received>>
      /\ DOMAIN enc' = DOMAIN enc \union {s}
      /\ \A t \in DOMAIN enc : enc'[t] = enc[t] /\ sent'[t] = sent[t]
      /\ sent'[s] = <<>> /\ enc'[s].finalized = FALSE
  BY DEF NewStream
<1>2. WritersKept
  BY <1>1, OthersKept
<1>3. ReaderInv' /\ Reading' = Reading
  BY <1>1, <1>2, ReaderStays DEF StreamInv
<1>4. Plain(s)' = <<>>
  BY <1>1 DEF Plain
<1>5. \A t \in DOMAIN enc : Plain(t)' = Plain(t)
  BY <1>1 DEF Plain
<1>6. Written' = Written
  BY <1>1, <1>4, <1>5 DEF Written
<1>7. Closed' = Closed
  BY <1>1 DEF Closed
<1>8. Complete' = Complete
  BY <1>1 DEF Complete
<1> QED BY <1>1, <1>3, <1>6, <1>7, <1>8, ContractStutters

\* A step that adds chunks to stream s and perhaps closes it is a Write.
LEMMA Writes ==
    ASSUME NEW s \in Streams, ~Closed[s],
           NEW n \in Nat, NEW m \in Nat, n < m, NEW b \in Nat,
           Written[s] = Chunks(s, b, n), Written'[s] = Chunks(s, b, m),
           \A t \in Streams \ {s} : Written'[t] = Written[t] /\ Closed'[t] = Closed[t],
           Closed'[s] \in {Closed[s], TRUE},
           Reading' = Reading, got' = got, Complete' = Complete, received' = received
    PROVE  Contract!Next
<1>1. Len(Written'[s]) = m
  <2>1. Len(Chunks(s, b, m)) = m
    BY ChunksLen
  <2> QED BY <2>1
<1>2. m - n \in 1..Len(Written'[s]) /\ Len(Written'[s]) - (m - n) = n
  BY <1>1
<1>3. Written[s] = SubSeq(Written'[s], 1, Len(Written'[s]) - (m - n))
  <2>1. SubSeq(Chunks(s, b, m), 1, n) = Chunks(s, b, n)
    BY ChunksPrefix
  <2> QED BY <1>2, <2>1
<1>4. Closed' \in {Closed, [Closed EXCEPT ![s] = TRUE]}
  <2>1. /\ Closed = [t \in Streams |-> Closed[t]] /\ Closed' = [t \in Streams |-> Closed'[t]]
    BY DEF Closed
  <2>2. CASE Closed'[s] = Closed[s]
    <3>1. \A t \in Streams : Closed'[t] = Closed[t]
      BY <2>2
    <3> QED BY <2>1, <3>1
  <2>3. CASE Closed'[s] = TRUE
    <3>1. \A t \in Streams : Closed'[t] = IF t = s THEN TRUE ELSE Closed[t]
      BY <2>3
    <3> QED BY <2>1, <3>1
  <2> QED BY <2>2, <2>3
<1>5. DOMAIN Written' = Streams
  BY DEF Written
<1>6. Contract!Write(s)
  BY <1>2, <1>3, <1>4, <1>5 DEF Contract!Write, Written, Closed, Complete
<1> QED BY <1>6 DEF Contract!Next

LEMMA ChunkIsWrite ==
    ASSUME StreamInv, NEW s \in DOMAIN enc, NEW fin \in 0..1, encrypt_chunk(s, fin, Aad[s])
    PROVE  ReaderInv' /\ Contract!Next
<1>1. /\ UNCHANGED <<dec, got, received>> /\ WritersKept /\ s \in Streams
      /\ \A t \in DOMAIN enc : t \in Streams
  BY ChunkKept DEF encrypt_chunk, StreamInv, WriterInv
<1>2. /\ WriterInv' /\ DOMAIN enc' = DOMAIN enc
      /\ \A t \in DOMAIN enc : t # s => enc'[t] = enc[t] /\ sent'[t] = sent[t]
      /\ enc'[s].fmt = enc[s].fmt
      /\ CountOf(s)' = CountOf(s) + 1
  BY WriterAdvances DEF StreamInv
<1>3. ~enc[s].finalized
  BY DEF encrypt_chunk
<1>4. ReaderInv' /\ Reading' = Reading
  BY <1>1, ReaderStays DEF StreamInv
<1>5. PICK n \in Nat, b \in Nat : n = CountOf(s) /\ b = FirstSeq(enc[s].fmt)
  BY DEF StreamInv, WriterInv, FirstSeq
<1>6. Plain(s) = Chunks(s, b, n)
  BY <1>5, PlainIs DEF StreamInv
<1>7. Plain(s)' = Chunks(s, b, n + 1)
  <2>1. Plain(s)' = Chunks(s, FirstSeq(enc'[s].fmt), CountOf(s)')
    <3>1. (\A t \in DOMAIN enc : Plain(t) = Chunks(t, FirstSeq(enc[t].fmt), CountOf(t)))'
      BY <1>2, PlainAre, PTL
    <3> QED BY <1>2, <3>1
  <2> QED BY <1>2, <1>5, <2>1
<1>8. \A t \in DOMAIN enc : t # s => Plain(t)' = Plain(t)
  BY <1>2 DEF Plain
<1>9. /\ Written[s] = Chunks(s, b, n) /\ Written'[s] = Chunks(s, b, n + 1)
      /\ \A t \in Streams \ {s} : Written'[t] = Written[t]
  BY <1>1, <1>2, <1>6, <1>7, <1>8 DEF Written
<1>10. /\ ~Closed[s]
       /\ \A t \in Streams \ {s} : Closed'[t] = Closed[t]
  BY <1>1, <1>2, <1>3 DEF Closed
<1>11. Closed'[s] \in {Closed[s], TRUE}
  BY <1>1, <1>2, <1>3 DEF Closed
<1>12. Complete' = Complete
  BY <1>1 DEF Complete
<1>13. PICK m \in Nat : m = n + 1 /\ n < m
  OBVIOUS
<1>14. Contract!Next
  <2>1. Written'[s] = Chunks(s, b, m)
    BY <1>9, <1>13
  <2>2. \A t \in Streams \ {s} : Written'[t] = Written[t] /\ Closed'[t] = Closed[t]
    BY <1>9, <1>10
  <2> QED BY <1>1, <1>4, <1>9, <1>10, <1>11, <1>12, <1>13, <2>1, <2>2, Writes
<1> QED BY <1>4, <1>14

LEMMA WholeIsWrite ==
    ASSUME StreamInv, NEW s \in Streams, NEW n \in 1..MaxChunks,
           encrypt_stream_v3(s, n, Aad[s])
    PROVE  ReaderInv' /\ Contract!Next
<1>1. /\ s \notin DOMAIN enc /\ UNCHANGED <<dec, got, received>>
      /\ DOMAIN enc' = DOMAIN enc \union {s}
      /\ \A t \in DOMAIN enc : enc'[t] = enc[t] /\ sent'[t] = sent[t]
      /\ enc'[s] = [fmt |-> "v3", next |-> n, finalized |-> TRUE]
  BY DEF encrypt_stream_v3
<1>2. WriterInv' /\ n \in Nat /\ n > 0
  BY WriterWrites, StreamAssumption DEF StreamInv
<1>3. ReaderInv' /\ Reading' = Reading
  <2>1. WritersKept
    BY <1>1, OthersKept
  <2> QED BY <1>1, <2>1, ReaderStays DEF StreamInv
<1>4. Plain(s)' = Chunks(s, 0, n)
  <2>1. (\A t \in DOMAIN enc : Plain(t) = Chunks(t, FirstSeq(enc[t].fmt), CountOf(t)))'
    BY <1>2, PlainAre, PTL
  <2>2. FirstSeq(enc'[s].fmt) = 0 /\ CountOf(s)' = n
    BY <1>1, <1>2 DEF CountOf, FirstSeq
  <2> QED BY <1>1, <2>1, <2>2
<1>5. PICK z \in Nat, m \in Nat : z = 0 /\ m = n /\ z < m /\ <<>> = Chunks(s, z, z)
  BY <1>2 DEF Chunks
<1>6. \A t \in DOMAIN enc : Plain(t)' = Plain(t)
  BY <1>1 DEF Plain
<1>7. /\ Written[s] = Chunks(s, z, z) /\ Written'[s] = Chunks(s, z, m)
      /\ \A t \in Streams \ {s} : Written'[t] = Written[t]
  BY <1>1, <1>4, <1>5, <1>6 DEF Written
<1>8. /\ ~Closed[s]
      /\ \A t \in Streams \ {s} : Closed'[t] = Closed[t]
  BY <1>1 DEF Closed
<1>9. Closed'[s] \in {Closed[s], TRUE}
  <2>1. Closed'[s] = (s \in DOMAIN enc' /\ enc'[s].finalized)
    BY DEF Closed
  <2>2. s \in DOMAIN enc' /\ enc'[s].finalized
    BY <1>1
  <2>3. Closed'[s] = TRUE
    BY <2>1, <2>2
  <2> QED BY <2>3, Zenon
<1>10. Complete' = Complete
  BY <1>1 DEF Complete
<1>11. \A t \in Streams \ {s} : Written'[t] = Written[t] /\ Closed'[t] = Closed[t]
  BY <1>7, <1>8
<1>12. z < m
  BY <1>5
<1>13. ~Closed[s] /\ Written[s] = Chunks(s, z, z) /\ Written'[s] = Chunks(s, z, m)
  BY <1>7, <1>8
<1>14. Reading' = Reading /\ got' = got /\ received' = received
  BY <1>1, <1>3
<1>15. Contract!Next
  BY <1>9, <1>10, <1>11, <1>12, <1>13, <1>14, Writes
<1> QED BY <1>3, <1>15

LEMMA HeaderIsAttach ==
    ASSUME StreamInv, NEW h \in Headers, NEW k, NEW context, OpenHeader(h, k, context)
    PROVE  ReaderInv' /\ [Contract!Next]_(Contract!vars)
<1>1. UNCHANGED <<enc, sent, got, received>> /\ Written' = Written /\ Closed' = Closed
  BY WrittenStays DEF OpenHeader
<1>2. ReaderInv' /\ (UNCHANGED <<dec, got>> \/ ReaderStarts)
  BY HeaderRead DEF StreamInv
<1>3. CASE UNCHANGED <<dec, got>>
  <2>1. Reading' = Reading /\ Complete' = Complete
    BY <1>1, <1>3 DEF Reading, KeyOf, Complete
  <2> QED BY <1>1, <1>2, <2>1, ContractStutters
<1>4. CASE ReaderStarts
  <2>1. Complete' = Complete /\ Reading = NoStream
    BY <1>4, ReadingNone DEF ReaderStarts, Complete
  <2>2. Reading' \in Streams \/ Reading' = NoStream
    BY <1>1 DEF Reading, StreamInv, WriterInv
  <2>3. CASE Reading' = NoStream
    BY <1>1, <1>2, <2>1, <2>3, ContractStutters
  <2>4. CASE Reading' \in Streams
    <3>1. PICK s \in Streams : Reading' = s
      BY <2>4
    <3>2. Contract!Attach(s)
      BY <1>1, <2>1, <3>1 DEF Contract!Attach, Written, Closed, Complete
    <3> QED BY <1>2, <3>2 DEF Contract!Next
  <2> QED BY <2>2, <2>3, <2>4
<1> QED BY <1>2, <1>3, <1>4

LEMMA ChunkIsDeliver ==
    ASSUME StreamInv, NEW f \in PresentedFrames, NEW aad, ReadChunk(f, aad)
    PROVE  ReaderInv' /\ [Contract!Next]_(Contract!vars)
<1>1. UNCHANGED <<enc, sent, received>> /\ Written' = Written /\ Closed' = Closed
  BY WrittenStays DEF ReadChunk
<1>2. ReaderInv' /\ (UNCHANGED <<dec, got>> \/ ReaderAdvances)
  BY ChunkRead DEF StreamInv
<1>3. CASE UNCHANGED <<dec, got>>
  <2>1. Reading' = Reading /\ Complete' = Complete
    BY <1>1, <1>3 DEF Reading, KeyOf, Complete
  <2> QED BY <1>1, <1>2, <1>3, <2>1, ContractStutters
<1>4. CASE ReaderAdvances
  <2>1. PICK s \in DOMAIN enc, m \in Nat :
          /\ m < CountOf(s)
          /\ dec # NoDecryptor /\ dec' # NoDecryptor
          /\ KeyOf(s) = dec.key /\ dec'.key = dec.key
          /\ got = Chunks(s, FirstSeq(enc[s].fmt), m)
          /\ got' = Chunks(s, FirstSeq(enc[s].fmt), m + 1)
          /\ ~dec.done
          /\ dec'.done <=> enc[s].finalized /\ m + 1 = CountOf(s)
    BY <1>4 DEF ReaderAdvances
  <2>2. PICK n \in Nat, b \in Nat : n = CountOf(s) /\ b = FirstSeq(enc[s].fmt)
    BY DEF StreamInv, WriterInv, FirstSeq
  <2>3. s \in Streams /\ s # NoStream
    BY StreamAssumption DEF StreamInv, WriterInv
  <2>4. Reading = s /\ Reading' = s
    <3>1. Reading = s
      BY <2>1, ReadingIs
    <3>2. \A t \in DOMAIN enc' : KeyOf(t)' = dec'.key => t = s
      <4>1. \A t \in DOMAIN enc' : KeyOf(t)' = KeyOf(t)
        BY <1>1, SameWriter
      <4> QED BY <2>1, <4>1, KeysApart
    <3>3. s \in DOMAIN enc' /\ KeyOf(s)' = dec'.key
      BY <1>1, <2>1, SameWriter
    <3> QED BY <2>1, <3>1, <3>2, <3>3 DEF Reading
  <2>5. Written[s] = Chunks(s, b, n)
    BY <2>2, <2>3, PlainIs DEF Written, StreamInv
  <2>6. /\ Len(Chunks(s, b, m)) = m /\ Len(Chunks(s, b, n)) = n
        /\ Chunks(s, b, n)[m + 1] = <<s, b + m>>
        /\ Append(Chunks(s, b, m), <<s, b + m>>) = Chunks(s, b, m + 1)
        /\ (Chunks(s, b, m + 1) = Chunks(s, b, n)) <=> m + 1 = n
    <3>1. m + 1 \in 1..n
      BY <2>1, <2>2
    <3>2. \A i \in 1..n : Chunks(s, b, n)[i] = <<s, b + (i - 1)>>
      BY ChunksLen
    <3>3. Chunks(s, b, n)[m + 1] = <<s, b + m>>
      BY <3>1, <3>2
    <3>4. Len(Chunks(s, b, m)) = m /\ Len(Chunks(s, b, n)) = n
      BY ChunksLen
    <3>5. Append(Chunks(s, b, m), <<s, b + m>>) = Chunks(s, b, m + 1)
      BY ChunksAppend
    <3>6. (Chunks(s, b, m + 1) = Chunks(s, b, n)) <=> m + 1 = n
      BY ChunksSame
    <3> QED BY <3>3, <3>4, <3>5, <3>6
  <2>7. /\ Len(got) < Len(Written[Reading])
        /\ got' = Append(got, Written[Reading][Len(got) + 1])
        /\ (got' = Written[Reading]) <=> m + 1 = n
    BY <2>1, <2>2, <2>4, <2>5, <2>6
  <2>8. Closed[Reading] <=> enc[s].finalized
    BY <2>3, <2>4 DEF Closed
  <2>9. ~Complete /\ Complete' = (Closed[Reading] /\ got' = Written[Reading])
    BY <2>1, <2>2, <2>7, <2>8 DEF Complete
  <2>10. Contract!Deliver
    BY <1>1, <2>3, <2>4, <2>7, <2>9 DEF Contract!Deliver, Written, Closed, Complete
  <2> QED BY <1>2, <2>10 DEF Contract!Next
<1> QED BY <1>2, <1>3, <1>4

LEMMA TagStutters ==
    ASSUME StreamInv, NEW tag, ReadFinalTag(tag)
    PROVE  ReaderInv' /\ UNCHANGED (Contract!vars)
<1>1. /\ ReaderInv' /\ Reading' = Reading /\ UNCHANGED <<enc, sent, got, received>>
      /\ dec # NoDecryptor /\ dec' # NoDecryptor /\ dec'.done = dec.done
  BY TagRead DEF StreamInv
<1>2. Written' = Written /\ Closed' = Closed /\ Complete' = Complete
  BY <1>1, WrittenStays DEF Complete
<1> QED BY <1>1, <1>2, ContractStutters

LEMMA WholeIsReceive ==
    ASSUME StreamInv, NEW h, NEW n \in Nat \ {0}, NEW frames \in [1..n -> AllFrames],
           NEW tag \in FinalTags, NEW aad, NEW context,
           ReadWhole(h, Recipient, frames, tag, aad, context)
    PROVE  ReaderInv' /\ Contract!Next
<1>1. /\ UNCHANGED <<enc, sent, dec, got>> /\ Written' = Written /\ Closed' = Closed
  BY WrittenStays DEF ReadWhole
<1>2. PICK s \in DOMAIN enc : enc[s].finalized /\ received' = Plain(s)
  BY WholeRead DEF StreamInv
<1>3. ReaderInv' /\ Reading' = Reading
  <2>1. WritersKept
    BY <1>1, OthersKept
  <2> QED BY <1>1, <2>1, ReaderStays DEF StreamInv
<1>4. s \in Streams /\ Closed[s] /\ received' = Written[s] /\ Complete' = Complete
  BY <1>1, <1>2 DEF StreamInv, WriterInv, Closed, Written, Complete
<1>5. Contract!Receive(s)
  BY <1>1, <1>3, <1>4 DEF Contract!Receive, Written, Closed, Complete
<1> QED BY <1>3, <1>4, <1>5 DEF Contract!Next

LEMMA StreamStep ==
    ASSUME StreamInv, [StreamNext]_streamVars
    PROVE  StreamInv' /\ [Contract!Next]_(Contract!vars)
<1>1. WriterInv'
  BY WritersStep DEF StreamInv
<1>2. ReaderInv' /\ [Contract!Next]_(Contract!vars)
  <2>1. CASE WriteStep
    BY <2>1, NewStreamStutters, ChunkIsWrite, WholeIsWrite DEF WriteStep
  <2>2. ASSUME NEW tag \in FinalTags, NEW h, NEW context, NEW aad,
               NEW n \in 1..MaxChunks + 1, NEW frames \in [1..n -> AllFrames],
               ReadWhole(h, Recipient, frames, tag, aad, context)
        PROVE  ReaderInv' /\ [Contract!Next]_(Contract!vars)
    <3>1. n \in Nat \ {0}
      BY StreamAssumption
    <3> QED BY <2>2, <3>1, WholeIsReceive
  <2>3. CASE ReadStep
    BY <2>2, <2>3, HeaderIsAttach, ChunkIsDeliver, TagStutters DEF ReadStep
  <2>4. CASE UNCHANGED streamVars
    <3>1. WritersKept /\ UNCHANGED <<enc, sent, dec, got, received>>
      BY <2>4, OthersKept DEF streamVars
    <3>2. ReaderInv' /\ Reading' = Reading
      BY <3>1, ReaderStays DEF StreamInv
    <3>3. Written' = Written /\ Closed' = Closed /\ Complete' = Complete
      BY <3>1, WrittenStays DEF Complete
    <3> QED BY <3>1, <3>2, <3>3, ContractStutters
  <2> QED BY <2>1, <2>3, <2>4 DEF StreamNext
<1> QED BY <1>1, <1>2 DEF StreamInv

LEMMA StreamStart ==
    ASSUME StreamInit
    PROVE  StreamInv /\ Contract!Init
<1>1. /\ enc = <<>> /\ sent = <<>> /\ dec = NoDecryptor /\ got = <<>> /\ received = <<>>
      /\ DOMAIN enc = {} /\ DOMAIN sent = {}
  BY DEF StreamInit
<1>2. StreamInv
  BY <1>1 DEF StreamInv, WriterInv, ReaderInv
<1>3. Reading = NoStream
  BY <1>1, ReadingNone
<1>4. /\ \A s \in Streams : s \notin DOMAIN enc
      /\ (dec # NoDecryptor /\ dec.done) = FALSE
  BY <1>1
<1>5. Contract!Init
  BY <1>1, <1>3, <1>4 DEF Contract!Init
<1> QED BY <1>2, <1>5

\* The crate's steps are steps of Stream, or leave it alone.
LEMMA CrateStreams == [UseEnvelopes \/ UseStreams]_crateVars => [StreamNext]_streamVars
  BY DEF UseEnvelopes, UseStreams, crateVars, streamVars

\* No two frames that encrypt_chunk or encrypt_stream_v3 ever releases are sealed under
\* one AES-GCM key and nonce, for any number of streams and any width of the counter.
THEOREM StreamNonceOnce == CrateSpec => []NonceOnce
<1>1. CrateInit => StreamInv
  BY StreamStart DEF CrateInit
<1>2. StreamInv => NonceOnce
  BY WritersNonceOnce DEF StreamInv
<1> QED BY <1>1, <1>2, StreamStep, CrateStreams, PTL DEF CrateSpec

\* Whatever headers, frames and tags the transport puts together, the stream formats
\* implement StreamContract: the reader is handed a prefix of one writer's stream, told
\* that it is done only at the end of a finalized one, and decrypt_stream_v3 returns
\* whole finalized streams only.
THEOREM StreamsImplementContract == CrateSpec => StreamsAreWhole
<1>1. CrateInit => StreamInv /\ Contract!Init
  BY StreamStart DEF CrateInit
<1> QED BY <1>1, StreamStep, CrateStreams, PTL DEF CrateSpec, StreamsAreWhole, Contract!Spec

-----------------------------------------------------------------------------
(* Envelopes.  The codings of context and AAD can be taken apart: a        *)
(* length-prefixed field ends where its length says.                       *)

LEMMA PrefixedIs ==
    ASSUME NEW v \in Seq(Nat)
    PROVE  /\ Prefixed(v) \in Seq(Nat)
           /\ Len(Prefixed(v)) = Len(v) + 1
           /\ Prefixed(v)[1] = Len(v)
           /\ \A i \in 1..Len(v) : Prefixed(v)[i + 1] = v[i]
<1>1. PICK n \in Nat : n = Len(v)
  BY LenProperties
<1>2. PICK h \in Seq(Nat) : h = <<n>>
  <2>1. <<n>> \in Seq(Nat)
    OBVIOUS
  <2> QED BY <2>1
<1>3. Len(h) = 1 /\ h[1] = n
  BY <1>2
<1>4. /\ h \o v \in Seq(Nat) /\ Len(h \o v) = Len(h) + Len(v)
      /\ \A i \in 1..(Len(h) + Len(v)) : (h \o v)[i] = IF i <= Len(h) THEN h[i] ELSE v[i - Len(h)]
  BY ConcatProperties
<1>5. PICK w : w = h \o v
  OBVIOUS
<1>6. w \in Seq(Nat) /\ Len(w) = n + 1 /\ \A i \in 1..(1 + n) : w[i] = IF i <= 1 THEN h[i] ELSE v[i - 1]
  BY <1>1, <1>3, <1>4, <1>5
<1>7. w[1] = n
  BY <1>3, <1>6
<1>8. \A i \in 1..n : w[i + 1] = v[i]
  <2> TAKE i \in 1..n
  <2>1. PICK j \in 1..(1 + n) : j = i + 1
    OBVIOUS
  <2>2. ~(j <= 1) /\ j - 1 = i
    BY <2>1
  <2> QED BY <1>6, <2>1, <2>2
<1>9. w = Prefixed(v)
  BY <1>1, <1>2, <1>5 DEF Prefixed
<1> QED BY <1>1, <1>6, <1>7, <1>8, <1>9

\* A field a, and x after it.
FieldThen(a, x) == Prefixed(a) \o x

\* What such a coding w says about both.
Splits(w, a, x) ==
    /\ w[1] = Len(a)
    /\ Len(w) = Len(a) + 1 + Len(x)
    /\ \A i \in 1..Len(a) : w[i + 1] = a[i]
    /\ \A i \in 1..Len(x) : w[Len(a) + 1 + i] = x[i]

LEMMA PrefixedFirst ==
    ASSUME NEW a \in Seq(Nat), NEW x \in Seq(Nat), NEW w, w = FieldThen(a, x)
    PROVE  Splits(w, a, x)
<1>1. PICK n \in Nat, k \in Nat : n = Len(a) /\ k = Len(x)
  BY LenProperties
<1>2. PICK p \in Seq(Nat) : p = Prefixed(a)
  BY PrefixedIs
<1>3. Len(p) = n + 1 /\ p[1] = n /\ \A i \in 1..n : p[i + 1] = a[i]
  BY <1>1, <1>2, PrefixedIs
<1>4. /\ Len(p \o x) = Len(p) + Len(x)
      /\ \A i \in 1..(Len(p) + Len(x)) : (p \o x)[i] = IF i <= Len(p) THEN p[i] ELSE x[i - Len(p)]
  BY ConcatProperties
<1>5. /\ Len(w) = n + 1 + k
      /\ \A i \in 1..(n + 1 + k) : w[i] = IF i <= n + 1 THEN p[i] ELSE x[i - (n + 1)]
  BY <1>1, <1>2, <1>3, <1>4 DEF FieldThen
<1>6. w[1] = n
  BY <1>3, <1>5
<1>7. \A i \in 1..n : w[i + 1] = a[i]
  <2> TAKE i \in 1..n
  <2>1. PICK j \in 1..(n + 1 + k) : j = i + 1
    OBVIOUS
  <2>2. j <= n + 1 /\ p[j] = a[i]
    BY <1>3, <2>1
  <2> QED BY <1>5, <2>1, <2>2
<1>8. \A i \in 1..k : w[n + 1 + i] = x[i]
  <2> TAKE i \in 1..k
  <2>1. PICK j \in 1..(n + 1 + k) : j = n + 1 + i
    OBVIOUS
  <2>2. ~(j <= n + 1) /\ j - (n + 1) = i
    BY <2>1
  <2> QED BY <1>5, <2>1, <2>2
<1> QED BY <1>1, <1>5, <1>6, <1>7, <1>8 DEF Splits

LEMMA PrefixedSplits ==
    ASSUME NEW a \in Seq(Nat), NEW c \in Seq(Nat), NEW x \in Seq(Nat), NEW y \in Seq(Nat),
           FieldThen(a, x) = FieldThen(c, y)
    PROVE  a = c /\ x = y
<1>1. PICK w : w = FieldThen(a, x)
  OBVIOUS
<1>2. Splits(w, a, x) /\ Splits(w, c, y)
  BY <1>1, PrefixedFirst
<1>3. /\ w[1] = Len(a) /\ w[1] = Len(c)
      /\ Len(w) = Len(a) + 1 + Len(x) /\ Len(w) = Len(c) + 1 + Len(y)
      /\ \A i \in 1..Len(a) : w[i + 1] = a[i]
      /\ \A i \in 1..Len(x) : w[Len(a) + 1 + i] = x[i]
      /\ \A i \in 1..Len(c) : w[i + 1] = c[i]
      /\ \A i \in 1..Len(y) : w[Len(c) + 1 + i] = y[i]
  BY <1>2 DEF Splits
<1>4. Len(a) \in Nat /\ Len(c) \in Nat /\ Len(x) \in Nat /\ Len(y) \in Nat
  BY LenProperties
<1>5. Len(a) = Len(c) /\ \A i \in 1..Len(a) : a[i] = c[i]
  BY <1>3
<1>6. Len(x) = Len(y) /\ \A i \in 1..Len(x) : x[i] = y[i]
  BY <1>3, <1>4, <1>5
<1> QED BY <1>5, <1>6, SeqEqual

LEMMA TruncateIs ==
    ASSUME NEW v \in Seq(Nat)
    PROVE  Truncate(v) \in Seq(Nat)
<1>1. PICK n \in Nat : n <= Len(v) /\ Truncate(v) = SubSeq(v, 1, n)
  BY EnvelopeAssumption, LenProperties DEF Truncate
<1>2. \A i \in 1..n : v[i] \in Nat
  BY <1>1, ElementOfSeq
<1> QED BY <1>1, <1>2, SubSeqProperties

\* Two requests with one context name the same labels, as far as they are coded.
LEMMA ContextsApart ==
    ASSUME NEW m \in Requests, NEW r \in Requests, ContextOf(m) = ContextOf(r)
    PROVE  Truncate(m.env) = Truncate(r.env) /\ Truncate(m.purpose) = Truncate(r.purpose)
<1>1. PICK a, b, c, d : /\ a = Truncate(m.env) /\ b = Truncate(m.purpose)
                        /\ c = Truncate(r.env) /\ d = Truncate(r.purpose)
  OBVIOUS
<1>2. a \in Seq(Nat) /\ b \in Seq(Nat) /\ c \in Seq(Nat) /\ d \in Seq(Nat)
  BY <1>1, EnvelopeAssumption, TruncateIs DEF Request
<1>3. PICK x \in Seq(Nat), y \in Seq(Nat) : x = Prefixed(b) /\ y = Prefixed(d)
  BY <1>2, PrefixedIs
<1>4. FieldThen(a, x) = FieldThen(c, y)
  BY <1>1, <1>3 DEF ContextOf, build_context, FieldThen
<1>5. a = c /\ Prefixed(b) = Prefixed(d)
  BY <1>2, <1>3, <1>4, PrefixedSplits
<1>6. <<>> \in Seq(Nat) /\ FieldThen(b, <<>>) = FieldThen(d, <<>>)
  BY <1>5 DEF FieldThen
<1>7. b = d
  BY <1>2, <1>6, PrefixedSplits
<1> QED BY <1>1, <1>5, <1>7

\* A type byte, and x after it.
Tagged(t, x) == <<t>> \o x

LEMMA TaggedIs ==
    ASSUME NEW t \in Nat, NEW x \in Seq(Nat)
    PROVE  /\ Tagged(t, x) \in Seq(Nat)
           /\ Len(Tagged(t, x)) = Len(x) + 1
           /\ \A i \in 1..Len(x) : Tagged(t, x)[i + 1] = x[i]
<1>1. PICK n \in Nat : n = Len(x)
  BY LenProperties
<1>2. PICK h \in Seq(Nat) : h = <<t>>
  <2>1. <<t>> \in Seq(Nat)
    OBVIOUS
  <2> QED BY <2>1
<1>3. Len(h) = 1
  BY <1>2
<1>4. /\ h \o x \in Seq(Nat) /\ Len(h \o x) = Len(h) + Len(x)
      /\ \A i \in 1..(Len(h) + Len(x)) : (h \o x)[i] = IF i <= Len(h) THEN h[i] ELSE x[i - Len(h)]
  BY ConcatProperties
<1>5. PICK w : w = h \o x
  OBVIOUS
<1>6. w \in Seq(Nat) /\ Len(w) = n + 1 /\ \A i \in 1..(1 + n) : w[i] = IF i <= 1 THEN h[i] ELSE x[i - 1]
  BY <1>1, <1>3, <1>4, <1>5
<1>7. \A i \in 1..n : w[i + 1] = x[i]
  <2> TAKE i \in 1..n
  <2>1. PICK j \in 1..(1 + n) : j = i + 1
    OBVIOUS
  <2>2. ~(j <= 1) /\ j - 1 = i
    BY <2>1
  <2> QED BY <1>6, <2>1, <2>2
<1>8. w = Tagged(t, x)
  BY <1>2, <1>5 DEF Tagged
<1> QED BY <1>1, <1>6, <1>7, <1>8

LEMMA TaggedSplits ==
    ASSUME NEW t \in Nat, NEW x \in Seq(Nat), NEW y \in Seq(Nat), Tagged(t, x) = Tagged(t, y)
    PROVE  x = y
<1>1. /\ Len(Tagged(t, x)) = Len(x) + 1
      /\ \A i \in 1..Len(x) : Tagged(t, x)[i + 1] = x[i]
  BY TaggedIs
<1>2. /\ Len(Tagged(t, y)) = Len(y) + 1
      /\ \A i \in 1..Len(y) : Tagged(t, y)[i + 1] = y[i]
  BY TaggedIs
<1>3. Len(x) \in Nat /\ Len(y) \in Nat
  BY LenProperties
<1>4. Len(x) = Len(y) /\ \A i \in 1..Len(x) : x[i] = y[i]
  BY <1>1, <1>2, <1>3
<1> QED BY <1>4, SeqEqual

LEMMA FieldThenIs ==
    ASSUME NEW a \in Seq(Nat), NEW x \in Seq(Nat)
    PROVE  FieldThen(a, x) \in Seq(Nat)
<1>1. Prefixed(a) \in Seq(Nat)
  BY PrefixedIs
<1> QED BY <1>1, ConcatProperties DEF FieldThen

\* Concatenation as an operator of its own, which the provers do not take apart.
Cat(x, y) == x \o y

LEMMA CatAssociative ==
    ASSUME NEW S, NEW x \in Seq(S), NEW y \in Seq(S), NEW z \in Seq(S)
    PROVE  Cat(Cat(x, y), z) = Cat(x, Cat(y, z))
  BY ConcatAssociative DEF Cat

\* The six parts of an AAD, from the outside in.
AadCode(s, r, id) == <<1>> \o Prefixed(s) \o <<2>> \o Prefixed(r) \o <<6>> \o Prefixed(<<id>>)

LEMMA AadNests ==
    ASSUME NEW s \in Seq(Nat), NEW r \in Seq(Nat), NEW id \in Nat
    PROVE  AadCode(s, r, id)
             = Tagged(1, FieldThen(s, Tagged(2, FieldThen(r, Tagged(6, Prefixed(<<id>>))))))
<1>1. <<1>> \in Seq(Nat) /\ <<2>> \in Seq(Nat) /\ <<6>> \in Seq(Nat) /\ <<id>> \in Seq(Nat)
  OBVIOUS
<1>2. PICK a \in Seq(Nat), c \in Seq(Nat), e \in Seq(Nat) : a = <<1>> /\ c = <<2>> /\ e = <<6>>
  BY <1>1
<1>3. PICK b \in Seq(Nat), d \in Seq(Nat), f \in Seq(Nat) :
        b = Prefixed(s) /\ d = Prefixed(r) /\ f = Prefixed(<<id>>)
  BY <1>1, PrefixedIs
<1>4. \A x, y \in Seq(Nat) : Cat(x, y) \in Seq(Nat)
  BY ConcatProperties DEF Cat
<1>5. \A x, y, z \in Seq(Nat) : Cat(Cat(x, y), z) = Cat(x, Cat(y, z))
  BY CatAssociative
<1>6. AadCode(s, r, id) = Cat(Cat(Cat(Cat(Cat(a, b), c), d), e), f)
  BY <1>2, <1>3 DEF AadCode, Cat
<1>7. Tagged(1, FieldThen(s, Tagged(2, FieldThen(r, Tagged(6, Prefixed(<<id>>))))))
        = Cat(a, Cat(b, Cat(c, Cat(d, Cat(e, f)))))
  BY <1>2, <1>3 DEF Tagged, FieldThen, Cat
<1>8. PICK ab \in Seq(Nat) : ab = Cat(a, b)
  BY <1>4
<1>9. PICK abc \in Seq(Nat) : abc = Cat(ab, c)
  BY <1>4
<1>10. PICK abcd \in Seq(Nat) : abcd = Cat(abc, d)
  BY <1>4
<1>11. PICK ef \in Seq(Nat) : ef = Cat(e, f)
  BY <1>4
<1>12. PICK def \in Seq(Nat) : def = Cat(d, ef)
  BY <1>4
<1>13. PICK cdef \in Seq(Nat) : cdef = Cat(c, def)
  BY <1>4
<1>14. Cat(Cat(abcd, e), f) = Cat(abcd, ef)
  BY <1>5, <1>11
<1>15. Cat(abcd, ef) = Cat(abc, def)
  BY <1>5, <1>10, <1>12
<1>16. Cat(abc, def) = Cat(ab, cdef)
  BY <1>5, <1>9, <1>13
<1>17. Cat(ab, cdef) = Cat(a, Cat(b, cdef))
  BY <1>5, <1>8
<1> QED BY <1>6, <1>7, <1>8, <1>9, <1>10, <1>11, <1>12, <1>13, <1>14, <1>15, <1>16, <1>17

LEMMA AadsApart ==
    ASSUME NEW m \in Requests, NEW q \in Requests, AadOf(m) # Refused, AadOf(m) = AadOf(q)
    PROVE  m.sender = q.sender /\ m.recipient = q.recipient /\ m.msg_id = q.msg_id
<1>1. PICK s1 \in Seq(Nat), r1 \in Seq(Nat), i1 \in Nat, s2 \in Seq(Nat), r2 \in Seq(Nat), i2 \in Nat :
        /\ s1 = m.sender /\ r1 = m.recipient /\ i1 = m.msg_id
        /\ s2 = q.sender /\ r2 = q.recipient /\ i2 = q.msg_id
  BY EnvelopeAssumption DEF Request
<1>2. PICK d1 \in Seq(Nat), d2 \in Seq(Nat) : d1 = Prefixed(<<i1>>) /\ d2 = Prefixed(<<i2>>)
  <2>1. <<i1>> \in Seq(Nat) /\ <<i2>> \in Seq(Nat)
    OBVIOUS
  <2> QED BY <2>1, PrefixedIs
<1>3. PICK c1 \in Seq(Nat), c2 \in Seq(Nat) : c1 = Tagged(6, d1) /\ c2 = Tagged(6, d2)
  BY TaggedIs
<1>4. PICK f1 \in Seq(Nat), f2 \in Seq(Nat) : f1 = FieldThen(r1, c1) /\ f2 = FieldThen(r2, c2)
  BY FieldThenIs
<1>5. PICK b1 \in Seq(Nat), b2 \in Seq(Nat) : b1 = Tagged(2, f1) /\ b2 = Tagged(2, f2)
  BY TaggedIs
<1>6. PICK a1 \in Seq(Nat), a2 \in Seq(Nat) : a1 = FieldThen(s1, b1) /\ a2 = FieldThen(s2, b2)
  BY FieldThenIs
<1>7. AadOf(m) = Tagged(1, a1) /\ AadOf(q) = Tagged(1, a2)
  <2>1. AadOf(m) = AadCode(s1, r1, i1) /\ AadOf(q) = AadCode(s2, r2, i2)
    BY <1>1 DEF AadOf, build_aad, AadCode
  <2>2. AadCode(s1, r1, i1) = Tagged(1, a1)
    BY <1>2, <1>3, <1>4, <1>5, <1>6, AadNests
  <2>3. AadCode(s2, r2, i2) = Tagged(1, a2)
    BY <1>2, <1>3, <1>4, <1>5, <1>6, AadNests
  <2> QED BY <2>1, <2>2, <2>3
<1>8. a1 = a2
  BY <1>7, TaggedSplits
<1>9. s1 = s2 /\ b1 = b2
  <2>1. FieldThen(s1, b1) = FieldThen(s2, b2)
    BY <1>6, <1>8
  <2> QED BY <2>1, PrefixedSplits
<1>10. f1 = f2
  BY <1>5, <1>9, TaggedSplits
<1>11. r1 = r2 /\ c1 = c2
  <2>1. FieldThen(r1, c1) = FieldThen(r2, c2)
    BY <1>4, <1>10
  <2> QED BY <2>1, PrefixedSplits
<1>12. d1 = d2
  BY <1>3, <1>11, TaggedSplits
<1>13. i1 = i2
  <2>1. PICK v1 \in Seq(Nat), v2 \in Seq(Nat) : v1 = <<i1>> /\ v2 = <<i2>>
    <3>1. <<i1>> \in Seq(Nat) /\ <<i2>> \in Seq(Nat)
      OBVIOUS
    <3> QED BY <3>1
  <2>2. Len(v1) = 1 /\ Len(v2) = 1 /\ v1[1] = i1 /\ v2[1] = i2
    BY <2>1
  <2>3. /\ \A i \in 1..Len(v1) : Prefixed(v1)[i + 1] = v1[i]
        /\ \A i \in 1..Len(v2) : Prefixed(v2)[i + 1] = v2[i]
    BY PrefixedIs
  <2>4. Prefixed(v1)[1 + 1] = i1 /\ Prefixed(v2)[1 + 1] = i2
    BY <2>2, <2>3
  <2>5. Prefixed(v1) = Prefixed(v2)
    BY <1>2, <1>12, <2>1
  <2> QED BY <2>4, <2>5
<1> QED BY <1>1, <1>9, <1>11, <1>13

-----------------------------------------------------------------------------
(* What seal number i released for request m, in each of the formats.      *)

PlainOf(m, i) == [n |-> i, len |-> m.len]

HeaderFor(m) ==
    [lead |-> "CTD2", version |-> 2, flags |-> 0, suite |-> Suite[m.key], kdf |-> SUITE_KDF,
     aead |-> SUITE_AEAD, reserved |-> 0, hlen |-> HEADER_LEN,
     kemlen |-> KEM_CIPHERTEXT_BYTES(Suite[m.key]), ptlen |-> m.len,
     rcpt |-> m.key, ctxh |-> ContextOf(m)]

BodyV2(m, i) ==
    Body(derive_key(Combined(m.key, KemCt(m.key, i)),
                    kdf_transcript(HeaderFor(m), KemCt(m.key, i), ContextOf(m))),
         i, PlainOf(m, i), associated_data(HeaderFor(m), KemCt(m.key, i), ContextOf(m), AadOf(m)))

EnvelopeV2(m, i) ==
    [layout |-> "v2", lead |-> "CTD2", version |-> 2, flags |-> 0, suite |-> Suite[m.key],
     kdf |-> SUITE_KDF, aead |-> SUITE_AEAD, reserved |-> 0, hlen |-> HEADER_LEN,
     kemlen |-> KEM_CIPHERTEXT_BYTES(Suite[m.key]), ptlen |-> m.len, rcpt |-> m.key,
     ctxh |-> ContextOf(m), nonce |-> i, kem |-> KemCt(m.key, i), body |-> BodyV2(m, i)]

GenuineV2(m, e, i) ==
    /\ e = EnvelopeV2(m, i)
    /\ ~(m.len > MAX_PLAINTEXT_LEN)
    /\ ~(Len(AadOf(m)) > MAX_AAD_LEN)
    /\ ~(Len(ContextOf(m)) > MAX_CONTEXT_LEN)
    /\ suite_params(Suite[m.key]) = KEM_CIPHERTEXT_BYTES(Suite[m.key])

BodyV1(m, i) ==
    Body(DeriveKey(Combined(m.key, KemCt(m.key, i)), KemCt(m.key, i), ContextOf(m)),
         i, PlainOf(m, i), AadOf(m))

EnvelopeV1(m, i) ==
    [layout |-> "v1", lead |-> "v1", suite |-> SUITE_KEM_HYBRID_X25519_MLKEM768,
     aead |-> SUITE_AEAD, flags |-> 0, kemlen |-> 1120, nonce |-> i, kem |-> KemCt(m.key, i),
     body |-> BodyV1(m, i)]

GenuineV1(m, e, i) == e = EnvelopeV1(m, i) /\ KemCt(m.key, i).bytes = 1120

Genuine(s, i) ==
    /\ s.m \in Requests
    /\ AadOf(s.m) # Refused
    /\ s.pt = PlainOf(s.m, i)
    /\ GenuineV2(s.m, s.e, i) \/ GenuineV1(s.m, s.e, i)

SealsInv ==
    /\ sealed \in Seq({sealed[i] : i \in 1..Len(sealed)})
    /\ \A i \in 1..Len(sealed) : Genuine(sealed[i], i)

LEMMA SealIs ==
    ASSUME NEW m, NEW i, NEW e, e # Refused,
           e = seal(m.key, PlainOf(m, i), AadOf(m), ContextOf(m), i)
    PROVE  GenuineV2(m, e, i)
<1>1. PICK k, pt, aad, context : /\ k = m.key /\ pt = PlainOf(m, i)
                                 /\ aad = AadOf(m) /\ context = ContextOf(m)
  OBVIOUS
<1>2. pt.len = m.len
  BY <1>1 DEF PlainOf
<1>3. PICK kem, header : kem = Encapsulate(k, i) /\ header = encode_header(k, pt.len, context)
  OBVIOUS
<1>4. kem.ct = KemCt(k, i) /\ kem.ss = Combined(k, KemCt(k, i))
  BY <1>3 DEF Encapsulate
<1>5. /\ ~(pt.len > MAX_PLAINTEXT_LEN) /\ ~(Len(aad) > MAX_AAD_LEN)
      /\ ~(Len(context) > MAX_CONTEXT_LEN) /\ header # Refused
  BY <1>1, <1>3 DEF seal
<1>6. header = HeaderFor(m) /\ suite_params(Suite[k]) = KEM_CIPHERTEXT_BYTES(Suite[k])
  BY <1>1, <1>2, <1>3, <1>5 DEF encode_header, HeaderFor
<1>7. e = [layout |-> "v2", lead |-> header.lead, version |-> header.version,
           flags |-> header.flags, suite |-> header.suite, kdf |-> header.kdf,
           aead |-> header.aead, reserved |-> header.reserved, hlen |-> header.hlen,
           kemlen |-> header.kemlen, ptlen |-> header.ptlen, rcpt |-> header.rcpt,
           ctxh |-> header.ctxh, nonce |-> i, kem |-> kem.ct,
           body |-> Body(derive_key(kem.ss, kdf_transcript(header, kem.ct, context)), i, pt,
                         associated_data(header, kem.ct, context, aad))]
  BY <1>1, <1>3, <1>5 DEF seal
<1>8. Body(derive_key(kem.ss, kdf_transcript(header, kem.ct, context)), i, pt,
           associated_data(header, kem.ct, context, aad)) = BodyV2(m, i)
  BY <1>1, <1>4, <1>6 DEF BodyV2
<1>9. /\ header.lead = "CTD2" /\ header.version = 2 /\ header.flags = 0
      /\ header.suite = Suite[k] /\ header.kdf = SUITE_KDF /\ header.aead = SUITE_AEAD
      /\ header.reserved = 0 /\ header.hlen = HEADER_LEN
      /\ header.kemlen = KEM_CIPHERTEXT_BYTES(Suite[k]) /\ header.ptlen = m.len
      /\ header.rcpt = k /\ header.ctxh = context
  BY <1>1, <1>6 DEF HeaderFor
<1>10. e = EnvelopeV2(m, i)
  BY <1>1, <1>4, <1>7, <1>8, <1>9 DEF EnvelopeV2
<1> QED BY <1>1, <1>2, <1>5, <1>6, <1>10 DEF GenuineV2

LEMMA SealV1Is ==
    ASSUME NEW m, NEW i, NEW e, e # Refused,
           e = seal_v1_compat(m.key, PlainOf(m, i), AadOf(m), ContextOf(m), i)
    PROVE  GenuineV1(m, e, i)
<1>1. Encapsulate(m.key, i).ct = KemCt(m.key, i) /\ Encapsulate(m.key, i).ss = Combined(m.key, KemCt(m.key, i))
  BY DEF Encapsulate
<1> QED BY <1>1 DEF seal_v1_compat, GenuineV1, EnvelopeV1, BodyV1

\* A seal adds one genuine envelope behind the others.
LEMMA SealAppends ==
    ASSUME SealsInv, NEW m \in Requests, NEW e, seal_internal(m, e),
           \A i : i = Len(sealed) + 1 => GenuineV2(m, e, i) \/ GenuineV1(m, e, i)
    PROVE  /\ SealsInv' /\ opened' = opened
           /\ Len(sealed)' = Len(sealed) + 1
           /\ \A i \in 1..Len(sealed) : sealed'[i] = sealed[i]
<1>1. PICK n \in Nat : n = Len(sealed)
  BY LenProperties DEF SealsInv
<1>2. PICK x : x = [m |-> m, pt |-> PlainOf(m, n + 1), e |-> e]
  OBVIOUS
<1>3. sealed' = Append(sealed, x) /\ opened' = opened /\ AadOf(m) # Refused
  BY <1>1, <1>2 DEF seal_internal, Plaintext, PlainOf
<1>4. PICK S : S = {sealed[i] : i \in 1..n} \union {x}
  OBVIOUS
<1>5. sealed \in Seq(S) /\ x \in S
  BY <1>1, <1>4 DEF SealsInv
<1>6. /\ sealed' \in Seq(S) /\ Len(sealed') = n + 1
      /\ sealed'[n + 1] = x /\ \A i \in 1..n : sealed'[i] = sealed[i]
  BY <1>1, <1>3, <1>5, AppendProperties
<1>7. sealed' = [i \in 1..(n + 1) |-> sealed'[i]]
  BY <1>6, LenProperties
<1>8. sealed' \in Seq({sealed'[i] : i \in 1..Len(sealed')})
  BY <1>6, <1>7
<1>9. Genuine(x, n + 1)
  BY <1>1, <1>2, <1>3 DEF Genuine
<1>10. ASSUME NEW i \in 1..(n + 1) PROVE Genuine(sealed'[i], i)
  <2>1. CASE i = n + 1
    BY <1>6, <1>9, <2>1
  <2>2. CASE i \in 1..n
    BY <1>1, <1>6, <2>2 DEF SealsInv
  <2> QED BY <2>1, <2>2
<1>11. SealsInv'
  <2>1. \A i \in 1..Len(sealed') : Genuine(sealed'[i], i)
    BY <1>6, <1>10
  <2> QED BY <1>8, <2>1 DEF SealsInv, Genuine
<1> QED BY <1>1, <1>3, <1>6, <1>11

LEMMA Seals ==
    ASSUME SealsInv, NEW m \in Requests, Seal(m) \/ SealV1(m)
    PROVE  /\ SealsInv' /\ opened' = opened
           /\ Len(sealed)' = Len(sealed) + 1
           /\ \A i \in 1..Len(sealed) : sealed'[i] = sealed[i]
<1>1. Plaintext(m) = PlainOf(m, Len(sealed) + 1)
  BY DEF Plaintext, PlainOf
<1>2. CASE Seal(m)
  <2>1. PICK e : e = seal(m.key, Plaintext(m), AadOf(m), ContextOf(m), Len(sealed) + 1)
    OBVIOUS
  <2>2. seal_internal(m, e) /\ e # Refused
    BY <1>2, <2>1 DEF Seal, seal_internal
  <2>3. \A i : i = Len(sealed) + 1 => GenuineV2(m, e, i)
    BY <1>1, <2>1, <2>2, SealIs
  <2> QED BY <2>2, <2>3, SealAppends
<1>3. CASE SealV1(m)
  <2>1. PICK e : e = seal_v1_compat(m.key, Plaintext(m), AadOf(m), ContextOf(m), Len(sealed) + 1)
    OBVIOUS
  <2>2. seal_internal(m, e) /\ e # Refused
    BY <1>3, <2>1 DEF SealV1, seal_internal
  <2>3. \A i : i = Len(sealed) + 1 => GenuineV1(m, e, i)
    BY <1>1, <2>1, <2>2, SealV1Is
  <2> QED BY <2>2, <2>3, SealAppends
<1> QED BY <1>2, <1>3

-----------------------------------------------------------------------------
(* What a holder has: the layout of some envelope, and behind the KEM      *)
(* ciphertext the body of some envelope or bytes that open under nothing.  *)

Shaped(e) ==
    /\ e = [f \in DOMAIN e |-> e[f]]
    /\ \E i \in 1..Len(sealed) : DOMAIN e = DOMAIN sealed[i].e /\ e.layout = sealed[i].e.layout
    /\ e.body.ct = Refused \/ \E i \in 1..Len(sealed) : e.body = sealed[i].e.body

LEMMA GenuineDomain ==
    ASSUME SealsInv, NEW i \in 1..Len(sealed)
    PROVE  /\ {"layout", "lead", "suite", "kemlen", "kem", "body"} \subseteq DOMAIN sealed[i].e
           /\ sealed[i].e = [f \in DOMAIN sealed[i].e |-> sealed[i].e[f]]
<1>1. PICK m, e : e = sealed[i].e /\ (e = EnvelopeV2(m, i) \/ e = EnvelopeV1(m, i))
  BY DEF SealsInv, Genuine, GenuineV2, GenuineV1
<1>2. CASE e = EnvelopeV2(m, i)
  BY <1>1, <1>2 DEF EnvelopeV2
<1>3. CASE e = EnvelopeV1(m, i)
  BY <1>1, <1>3 DEF EnvelopeV1
<1> QED BY <1>1, <1>2, <1>3

LEMMA SealedShaped ==
    ASSUME SealsInv, NEW e \in Sealed
    PROVE  Shaped(e)
  BY GenuineDomain DEF Sealed, Shaped

LEMMA RewrittenShaped ==
    ASSUME SealsInv, NEW e, Shaped(e), NEW f, NEW v,
           f = "layout" => v = e.layout,
           f = "body" => v.ct = Refused \/ \E i \in 1..Len(sealed) : v = sealed[i].e.body
    PROVE  Shaped(Rewritten(e, f, v))
<1>1. PICK d : d = Rewritten(e, f, v)
  OBVIOUS
<1>2. {"layout", "body"} \subseteq DOMAIN e
  BY GenuineDomain DEF Shaped
<1>3. /\ DOMAIN d = DOMAIN e /\ d = [g \in DOMAIN d |-> d[g]]
      /\ \A g \in DOMAIN e : d[g] = IF g = f THEN v ELSE e[g]
  BY <1>1 DEF Rewritten
<1>4. d.layout = e.layout
  BY <1>2, <1>3
<1>5. d.body.ct = Refused \/ \E i \in 1..Len(sealed) : d.body = sealed[i].e.body
  BY <1>2, <1>3 DEF Shaped
<1>6. Shaped(d)
  BY <1>3, <1>4, <1>5 DEF Shaped
<1> QED BY <1>1, <1>6

LEMMA EditsShaped ==
    ASSUME SealsInv, NEW e, Shaped(e), NEW d \in Edits(e)
    PROVE  Shaped(d)
<1>1. ASSUME NEW f, NEW v, f # "layout", f # "body"
      PROVE  Shaped(Rewritten(e, f, v))
  BY <1>1, RewrittenShaped
<1>2. CASE d \in FieldEdits(e)
  <2>1. PICK f \in DOMAIN e \ {"layout"} : \E v \in Values(f) : d = Rewritten(e, f, v)
    BY <1>2 DEF FieldEdits
  <2>2. PICK v \in Values(f) : d = Rewritten(e, f, v)
    BY <2>1
  <2>3. Values("body") = {}
    BY DEF Values
  <2> QED BY <1>1, <2>2, <2>3
<1>3. CASE d \in SuiteEdits(e)
  <2>1. PICK s \in DOMAIN SUITE_TABLE :
            d = Rewritten(Rewritten(e, "suite", s), "kemlen", suite_params(s))
    BY <1>3 DEF SuiteEdits
  <2>2. Shaped(Rewritten(e, "suite", s))
    BY <1>1
  <2> QED BY <2>1, <2>2, RewrittenShaped
<1>4. CASE d \in Splices(e)
  <2>1. PICK x \in Sealed : /\ x.layout = e.layout
                            /\ \E f \in DOMAIN e : d = Rewritten(e, f, x[f])
    BY <1>4 DEF Splices
  <2>2. PICK f \in DOMAIN e : d = Rewritten(e, f, x[f])
    BY <2>1
  <2>3. PICK i \in 1..Len(sealed) : x = sealed[i].e
    BY DEF Sealed
  <2> QED BY <2>1, <2>2, <2>3, RewrittenShaped
<1>5. CASE d \in KemEdits(e)
  <2>1. PICK v : d = Rewritten(e, "kem", v)
    BY <1>5 DEF KemEdits
  <2> QED BY <1>1, <2>1
<1>6. CASE d \in BodyEdits(e)
  <2>1. PICK n \in {0, e.body.bytes - 1, e.body.bytes, e.body.bytes + 1} :
            d = Rewritten(e, "body", [ct |-> Refused, bytes |-> n])
    BY <1>6 DEF BodyEdits
  <2>2. PICK v : v.ct = Refused /\ d = Rewritten(e, "body", v)
    BY <2>1
  <2> QED BY <2>2, RewrittenShaped
<1> QED BY <1>2, <1>3, <1>4, <1>5, <1>6 DEF Edits

LEMMA HeldShaped ==
    ASSUME SealsInv, NEW e \in Held
    PROVE  Shaped(e)
<1>1. ASSUME NEW x \in Sealed PROVE Shaped(x)
  BY SealedShaped
<1>2. ASSUME NEW x \in EditedOnce PROVE Shaped(x)
  <2>1. PICK d \in Sealed : x \in Edits(d)
    BY DEF EditedOnce
  <2> QED BY <1>1, <2>1, EditsShaped
<1>3. ASSUME NEW x \in EditedTwice PROVE Shaped(x)
  <2>1. PICK d \in EditedOnce : x \in Edits(d)
    BY DEF EditedTwice
  <2> QED BY <1>2, <2>1, EditsShaped
<1> QED BY <1>1, <1>2, <1>3 DEF Held

-----------------------------------------------------------------------------
(* OnlySealedOpens: the AEAD binds what was sealed, field by field.        *)

LEMMA BoundV2 ==
    ASSUME NEW m, NEW i, NEW e, e = EnvelopeV2(m, i)
    PROVE  Bound(e) = HeaderFor(m)
  BY DEF Bound, HeaderFor, EnvelopeV2

LEMMA BodyV2Is ==
    ASSUME NEW m, NEW i, NEW c, c = BodyV2(m, i).ct
    PROVE  /\ c.key = derive_key(Combined(m.key, KemCt(m.key, i)),
                                 kdf_transcript(HeaderFor(m), KemCt(m.key, i), ContextOf(m)))
           /\ c.key.kdf = "v2"
           /\ c.nonce = i
           /\ c.pt = PlainOf(m, i)
           /\ c.aad = associated_data(HeaderFor(m), KemCt(m.key, i), ContextOf(m), AadOf(m))
  BY DEF BodyV2, Body, AeadSeal, derive_key

LEMMA BodyV1Is ==
    ASSUME NEW m, NEW i, NEW c, c = BodyV1(m, i).ct
    PROVE  /\ c.key = DeriveKey(Combined(m.key, KemCt(m.key, i)), KemCt(m.key, i), ContextOf(m))
           /\ c.key.kdf = "v1"
           /\ c.nonce = i
           /\ c.pt = PlainOf(m, i)
           /\ c.aad = AadOf(m)
  BY DEF BodyV1, Body, AeadSeal, DeriveKey

\* The fields of an envelope are those of its layout.
LEMMA ShapedV2 ==
    ASSUME SealsInv, NEW e, Shaped(e), e.layout = "v2"
    PROVE  DOMAIN e = {"layout", "lead", "version", "flags", "suite", "kdf", "aead", "reserved",
                       "hlen", "kemlen", "ptlen", "rcpt", "ctxh", "nonce", "kem", "body"}
<1>1. PICK i \in 1..Len(sealed) : DOMAIN e = DOMAIN sealed[i].e /\ sealed[i].e.layout = "v2"
  BY DEF Shaped
<1>2. PICK m : sealed[i].e = EnvelopeV2(m, i) \/ sealed[i].e = EnvelopeV1(m, i)
  BY DEF SealsInv, Genuine, GenuineV2, GenuineV1
<1>3. EnvelopeV1(m, i).layout = "v1"
  BY DEF EnvelopeV1
<1> QED BY <1>1, <1>2, <1>3 DEF EnvelopeV2

LEMMA ShapedV1 ==
    ASSUME SealsInv, NEW e, Shaped(e), e.layout = "v1"
    PROVE  DOMAIN e = {"layout", "lead", "suite", "aead", "flags", "kemlen", "nonce", "kem", "body"}
<1>1. PICK i \in 1..Len(sealed) : DOMAIN e = DOMAIN sealed[i].e /\ sealed[i].e.layout = "v1"
  BY DEF Shaped
<1>2. PICK m : sealed[i].e = EnvelopeV2(m, i) \/ sealed[i].e = EnvelopeV1(m, i)
  BY DEF SealsInv, Genuine, GenuineV2, GenuineV1
<1>3. EnvelopeV2(m, i).layout = "v2"
  BY DEF EnvelopeV2
<1> QED BY <1>1, <1>2, <1>3 DEF EnvelopeV1

LEMMA OpenedV2 ==
    ASSUME SealsInv, NEW e, Shaped(e), e.lead = "CTD2", NEW k, NEW aad, NEW context,
           NEW pt, pt = open(k, e, aad, context), pt # Refused
    PROVE  \E i \in 1..Len(sealed) :
              /\ e = sealed[i].e /\ k = sealed[i].m.key /\ pt = sealed[i].pt
              /\ context = ContextOf(sealed[i].m) /\ aad = AadOf(sealed[i].m)
<1>1. PICK s : s = Slices(e)
  OBVIOUS
<1>2. PICK key, ad : /\ key = derive_key(Decapsulate(k, s.kem), kdf_transcript(Bound(e), s.kem, context))
                     /\ ad = associated_data(Bound(e), s.kem, context, aad)
  OBVIOUS
<1>3. /\ decode(e) /\ e.rcpt = k /\ pt = AeadOpen(key, e.nonce, s.body, ad)
  BY <1>1, <1>2 DEF open
<1>4. e.layout = "v2"
  BY <1>3 DEF decode
<1>5. /\ s.body # Refused /\ s.body.key = key /\ s.body.nonce = e.nonce /\ s.body.aad = ad
      /\ pt = s.body.pt
  BY <1>3 DEF AeadOpen, AeadSeal
<1>6. s.kem = e.kem /\ s.body = e.body.ct
  BY <1>1, <1>5 DEF Slices
<1>7. PICK i \in 1..Len(sealed) : e.body = sealed[i].e.body
  BY <1>5, <1>6 DEF Shaped
<1>8. PICK m : m = sealed[i].m
  OBVIOUS
<1>9. key.kdf = "v2"
  BY <1>2 DEF derive_key
<1>10. sealed[i].e = EnvelopeV2(m, i) /\ sealed[i].pt = PlainOf(m, i)
  <2>1. sealed[i].e = EnvelopeV2(m, i) \/ sealed[i].e = EnvelopeV1(m, i)
    BY <1>8 DEF SealsInv, Genuine, GenuineV2, GenuineV1
  <2>2. ASSUME sealed[i].e = EnvelopeV1(m, i) PROVE FALSE
    <3>1. e.body.ct = BodyV1(m, i).ct
      BY <1>7, <2>2 DEF EnvelopeV1
    <3>2. e.body.ct.key.kdf = "v1"
      BY <3>1, BodyV1Is
    <3> QED BY <1>5, <1>6, <1>9, <3>2
  <2> QED BY <1>8, <2>1, <2>2 DEF SealsInv, Genuine
<1>11. PICK c : c = e.body.ct
  OBVIOUS
<1>12. c = BodyV2(m, i).ct
  BY <1>7, <1>10, <1>11 DEF EnvelopeV2
<1>13. /\ c.nonce = i /\ c.pt = PlainOf(m, i)
       /\ c.aad = associated_data(HeaderFor(m), KemCt(m.key, i), ContextOf(m), AadOf(m))
  BY <1>12, BodyV2Is
<1>14. /\ Bound(e) = HeaderFor(m) /\ e.kem = KemCt(m.key, i) /\ context = ContextOf(m)
       /\ aad = AadOf(m) /\ e.nonce = i /\ pt = PlainOf(m, i)
  <2>1. associated_data(Bound(e), e.kem, context, aad)
          = associated_data(HeaderFor(m), KemCt(m.key, i), ContextOf(m), AadOf(m))
    BY <1>2, <1>5, <1>6, <1>11, <1>13
  <2>2. /\ Bound(e) = HeaderFor(m) /\ e.kem = KemCt(m.key, i) /\ context = ContextOf(m)
        /\ aad = AadOf(m)
    BY <2>1 DEF associated_data
  <2> QED BY <1>5, <1>6, <1>11, <1>13, <2>2
<1>15. \A f \in {"lead", "version", "flags", "suite", "kdf", "aead", "reserved",
                 "hlen", "kemlen", "ptlen", "rcpt", "ctxh"} : e[f] = EnvelopeV2(m, i)[f]
  <2>1. Bound(EnvelopeV2(m, i)) = HeaderFor(m)
    BY BoundV2
  <2> QED BY <1>14, <2>1 DEF Bound
<1>16. e = EnvelopeV2(m, i)
  <2>1. DOMAIN e = {"layout", "lead", "version", "flags", "suite", "kdf", "aead", "reserved",
                    "hlen", "kemlen", "ptlen", "rcpt", "ctxh", "nonce", "kem", "body"}
    BY <1>4, ShapedV2
  <2>2. e = [f \in DOMAIN e |-> e[f]]
    BY DEF Shaped
  <2>3. PICK d : d = EnvelopeV2(m, i)
    OBVIOUS
  <2>4. /\ DOMAIN d = {"layout", "lead", "version", "flags", "suite", "kdf", "aead", "reserved",
                       "hlen", "kemlen", "ptlen", "rcpt", "ctxh", "nonce", "kem", "body"}
        /\ d = [f \in DOMAIN d |-> d[f]]
        /\ d.layout = "v2" /\ d.nonce = i /\ d.kem = KemCt(m.key, i) /\ d.body = BodyV2(m, i)
    BY <2>3 DEF EnvelopeV2
  <2>5. e.body = d.body
    BY <1>7, <1>10, <2>3
  <2>6. \A f \in DOMAIN e : e[f] = d[f]
    BY <1>4, <1>14, <1>15, <2>1, <2>3, <2>4, <2>5
  <2>7. e = d
    BY <2>1, <2>2, <2>4, <2>6
  <2> QED BY <2>3, <2>7
<1>17. k = m.key
  BY <1>3, <1>16 DEF EnvelopeV2
<1> QED BY <1>8, <1>10, <1>14, <1>16, <1>17

\* The combined secret names the key pair whose private halves computed it.
LEMMA CombinedNamesKey ==
    ASSUME NEW k, NEW j, NEW ct, NEW d, Combined(k, ct) = Combined(j, d)
    PROVE  k = j
<1>1. Combined(k, ct)[1][2] = k /\ Combined(j, d)[1][2] = j
  BY DEF Combined
<1> QED BY <1>1

LEMMA OpenedV1 ==
    ASSUME SealsInv, NEW e, Shaped(e), decode_wire(e), NEW k, NEW aad, NEW context,
           Decapsulate(k, e.kem) # Refused,
           NEW pt, pt = AeadOpen(DeriveKey(Decapsulate(k, e.kem), e.kem, context), e.nonce, e.body.ct, aad),
           pt # Refused
    PROVE  \E i \in 1..Len(sealed) :
              /\ e = sealed[i].e /\ k = sealed[i].m.key /\ pt = sealed[i].pt
              /\ context = ContextOf(sealed[i].m) /\ aad = AadOf(sealed[i].m)
<1>1. PICK ss, key : ss = Decapsulate(k, e.kem) /\ key = DeriveKey(ss, e.kem, context)
  OBVIOUS
<1>2. ss = Combined(k, e.kem)
  BY <1>1 DEF Decapsulate
<1>3. PICK c : c = e.body.ct
  OBVIOUS
<1>4. c # Refused /\ c.key = key /\ c.nonce = e.nonce /\ c.aad = aad /\ pt = c.pt
  BY <1>1, <1>3 DEF AeadOpen, AeadSeal
<1>5. /\ e.layout = "v1" /\ e.lead = "v1" /\ e.flags = 0 /\ e.kemlen = 1120
      /\ e.suite = SUITE_KEM_HYBRID_X25519_MLKEM768 /\ e.aead = SUITE_AEAD
  BY DEF decode_wire, decode_wire_raw, check_v1_suites
<1>6. PICK i \in 1..Len(sealed) : e.body = sealed[i].e.body
  BY <1>3, <1>4 DEF Shaped
<1>7. PICK m : m = sealed[i].m
  OBVIOUS
<1>8. sealed[i].e = EnvelopeV1(m, i) /\ sealed[i].pt = PlainOf(m, i)
  <2>1. sealed[i].e = EnvelopeV2(m, i) \/ sealed[i].e = EnvelopeV1(m, i)
    BY <1>7 DEF SealsInv, Genuine, GenuineV2, GenuineV1
  <2>2. ASSUME sealed[i].e = EnvelopeV2(m, i) PROVE FALSE
    <3>1. c = BodyV2(m, i).ct
      BY <1>3, <1>6, <2>2 DEF EnvelopeV2
    <3>2. c.key.kdf = "v2"
      BY <3>1, BodyV2Is
    <3>3. key.kdf = "v1"
      BY <1>1 DEF DeriveKey
    <3> QED BY <1>4, <3>2, <3>3
  <2> QED BY <1>7, <2>1, <2>2 DEF SealsInv, Genuine
<1>9. c = BodyV1(m, i).ct
  BY <1>3, <1>6, <1>8 DEF EnvelopeV1
<1>10. /\ c.key = DeriveKey(Combined(m.key, KemCt(m.key, i)), KemCt(m.key, i), ContextOf(m))
       /\ c.nonce = i /\ c.pt = PlainOf(m, i) /\ c.aad = AadOf(m)
  BY <1>9, BodyV1Is
<1>11. /\ ss = Combined(m.key, KemCt(m.key, i)) /\ e.kem = KemCt(m.key, i) /\ context = ContextOf(m)
  <2>1. DeriveKey(ss, e.kem, context)
          = DeriveKey(Combined(m.key, KemCt(m.key, i)), KemCt(m.key, i), ContextOf(m))
    BY <1>1, <1>4, <1>10
  <2> QED BY <2>1 DEF DeriveKey
<1>12. k = m.key
  <2>1. Combined(k, e.kem) = Combined(m.key, KemCt(m.key, i))
    BY <1>2, <1>11
  <2> QED BY <2>1, CombinedNamesKey
<1>13. e = EnvelopeV1(m, i)
  <2>1. DOMAIN e = {"layout", "lead", "suite", "aead", "flags", "kemlen", "nonce", "kem", "body"}
    BY <1>5, ShapedV1
  <2>2. e = [f \in DOMAIN e |-> e[f]]
    BY DEF Shaped
  <2>3. PICK d : d = EnvelopeV1(m, i)
    OBVIOUS
  <2>4. /\ DOMAIN d = {"layout", "lead", "suite", "aead", "flags", "kemlen", "nonce", "kem", "body"}
        /\ d = [f \in DOMAIN d |-> d[f]]
        /\ d.layout = "v1" /\ d.lead = "v1" /\ d.suite = SUITE_KEM_HYBRID_X25519_MLKEM768
        /\ d.aead = SUITE_AEAD /\ d.flags = 0 /\ d.kemlen = 1120
        /\ d.nonce = i /\ d.kem = KemCt(m.key, i)
    BY <2>3 DEF EnvelopeV1
  <2>5. e.body = d.body /\ e.nonce = i
    BY <1>4, <1>6, <1>8, <1>10, <2>3
  <2>6. \A f \in DOMAIN e : e[f] = d[f]
    BY <1>5, <1>11, <2>1, <2>4, <2>5
  <2>7. e = d
    BY <2>1, <2>2, <2>4, <2>6
  <2> QED BY <2>3, <2>7
<1> QED BY <1>4, <1>7, <1>8, <1>10, <1>11, <1>12, <1>13

EnvelopeInv == SealsInv /\ OnlySealedOpens

LEMMA OpenSound ==
    ASSUME SealsInv, NEW e \in Held, NEW k \in Key, NEW m \in Requests, Open(e, k, m)
    PROVE  EnvelopeInv'
<1>1. Shaped(e)
  BY HeldShaped
<1>2. PICK pt : pt = decrypt(k, e, AadOf(m), ContextOf(m))
  OBVIOUS
<1>3. /\ AadOf(m) # Refused /\ pt # Refused /\ sealed' = sealed
      /\ opened' = [e |-> e, k |-> k, m |-> m, pt |-> pt]
  BY <1>2 DEF Open
<1>4. PICK i \in 1..Len(sealed) :
         /\ e = sealed[i].e /\ k = sealed[i].m.key /\ pt = sealed[i].pt
         /\ ContextOf(m) = ContextOf(sealed[i].m) /\ AadOf(m) = AadOf(sealed[i].m)
  <2>1. CASE e.lead = "CTD2"
    BY <1>1, <1>2, <1>3, <2>1, OpenedV2 DEF decrypt
  <2>2. CASE e.lead # "CTD2"
    <3>1. /\ decode_wire(e) /\ Decapsulate(k, e.kem) # Refused
          /\ pt = AeadOpen(DeriveKey(Decapsulate(k, e.kem), e.kem, ContextOf(m)), e.nonce, e.body.ct, AadOf(m))
      BY <1>2, <1>3, <2>2 DEF decrypt
    <3> QED BY <1>1, <1>3, <3>1, OpenedV1
  <2> QED BY <2>1, <2>2
<1>5. PICK q \in Requests : q = sealed[i].m
  BY DEF SealsInv, Genuine
<1>6. Truncate(m.env) = Truncate(q.env) /\ Truncate(m.purpose) = Truncate(q.purpose)
  BY <1>4, <1>5, ContextsApart
<1>7. m.sender = q.sender /\ m.recipient = q.recipient /\ m.msg_id = q.msg_id
  BY <1>3, <1>4, <1>5, AadsApart
<1>8. /\ opened'.e = e /\ opened'.k = k /\ opened'.m = m /\ opened'.pt = pt
  BY <1>3
<1>9. OnlySealedOpens'
  BY <1>3, <1>4, <1>5, <1>6, <1>7, <1>8 DEF OnlySealedOpens
<1>10. SealsInv'
  BY <1>3 DEF SealsInv
<1> QED BY <1>9, <1>10 DEF EnvelopeInv

LEMMA EnvelopeStep ==
    ASSUME EnvelopeInv, [EnvelopeNext]_envelopeVars
    PROVE  EnvelopeInv'
<1>1. CASE UNCHANGED envelopeVars
  <2>1. sealed' = sealed /\ opened' = opened
    BY <1>1 DEF envelopeVars
  <2> QED BY <2>1 DEF EnvelopeInv, SealsInv, OnlySealedOpens
<1>2. ASSUME NEW m \in Requests, Seal(m) \/ SealV1(m)
      PROVE  EnvelopeInv'
  <2>1. /\ SealsInv' /\ opened' = opened /\ Len(sealed)' = Len(sealed) + 1
        /\ \A i \in 1..Len(sealed) : sealed'[i] = sealed[i]
    BY <1>2, Seals DEF EnvelopeInv
  <2>2. Len(sealed) \in Nat
    BY LenProperties DEF EnvelopeInv, SealsInv
  <2>3. \A i \in 1..Len(sealed) : i \in 1..Len(sealed') /\ sealed'[i] = sealed[i]
    BY <2>1, <2>2
  <2>4. OnlySealedOpens'
    BY <2>1, <2>3 DEF EnvelopeInv, OnlySealedOpens
  <2> QED BY <2>1, <2>4 DEF EnvelopeInv
<1>3. ASSUME NEW e \in Held, NEW k \in Key, NEW m \in Requests, Open(e, k, m)
      PROVE  EnvelopeInv'
  BY <1>3, OpenSound DEF EnvelopeInv
<1> QED BY <1>1, <1>2, <1>3 DEF EnvelopeNext

LEMMA EnvelopeStart == EnvelopeInit => EnvelopeInv
<1> SUFFICES ASSUME EnvelopeInit PROVE EnvelopeInv
  OBVIOUS
<1>1. sealed = <<>> /\ opened = <<>>
  BY DEF EnvelopeInit
<1>2. Len(sealed) = 0
  BY <1>1
<1> QED BY <1>1, <1>2 DEF EnvelopeInv, SealsInv, OnlySealedOpens

LEMMA CrateEnvelopes == [UseEnvelopes \/ UseStreams]_crateVars => [EnvelopeNext]_envelopeVars
  BY DEF UseEnvelopes, UseStreams, crateVars, envelopeVars

(***************************************************************************)
(* Whatever decrypt returns, of either format and whatever was done to the *)
(* envelope on the way, is the plaintext of a seal made from that very     *)
(* envelope for that very key and those very labels: for any requests, key *)
(* pairs, label and size limits and any number of seals.                   *)
(***************************************************************************)
THEOREM EnvelopeOnlySealedOpens == CrateSpec => []OnlySealedOpens
<1>1. CrateInit => EnvelopeInv
  BY EnvelopeStart DEF CrateInit
<1>2. EnvelopeInv /\ [UseEnvelopes \/ UseStreams]_crateVars => EnvelopeInv'
  BY EnvelopeStep, CrateEnvelopes
<1>3. EnvelopeInv => OnlySealedOpens
  BY DEF EnvelopeInv
<1> QED BY <1>1, <1>2, <1>3, PTL DEF CrateSpec

-----------------------------------------------------------------------------
(* GenuineOpens: what was sealed passes every check of its reader.         *)

\* An error is told from a result: it is no number, record or sequence.
RefusedApart == Refused \notin Nat /\ \A S, T : Refused \notin [S -> T]

LEMMA NoFunction ==
    ASSUME RefusedApart, NEW S, NEW T, NEW x \in [S -> T]
    PROVE  x # Refused
<1>1. Refused \notin [S -> T]
  BY Zenon DEF RefusedApart
<1> QED BY <1>1, Zenon

LEMMA SuiteLengths ==
    /\ suite_params(SUITE_KEM_HYBRID_X25519_MLKEM768) = 1120
    /\ suite_params(SUITE_KEM_HYBRID_P384_MLKEM1024) = 1665
    /\ KEM_CIPHERTEXT_BYTES(SUITE_KEM_HYBRID_X25519_MLKEM768) = 1120
    /\ KEM_CIPHERTEXT_BYTES(SUITE_KEM_HYBRID_P384_MLKEM1024) = 1665
    /\ MIN_KEM_CIPHERTEXT_BYTES = 1120
<1>1. /\ DOMAIN SUITE_TABLE = {163, 164}
      /\ SUITE_TABLE[163] = 1120 /\ SUITE_TABLE[164] = 1665
  BY DEF SUITE_TABLE, SUITE_KEM_HYBRID_X25519_MLKEM768, SUITE_KEM_HYBRID_P384_MLKEM1024
<1>2. {SUITE_TABLE[s] : s \in DOMAIN SUITE_TABLE} = {1120, 1665}
  BY <1>1
<1>3. MIN_KEM_CIPHERTEXT_BYTES = CHOOSE n \in {1120, 1665} : \A s \in DOMAIN SUITE_TABLE : n <= SUITE_TABLE[s]
  BY <1>2 DEF MIN_KEM_CIPHERTEXT_BYTES
<1>4. \E n \in {1120, 1665} : \A s \in DOMAIN SUITE_TABLE : n <= SUITE_TABLE[s]
  BY <1>1
<1>5. /\ MIN_KEM_CIPHERTEXT_BYTES \in {1120, 1665}
      /\ \A s \in DOMAIN SUITE_TABLE : MIN_KEM_CIPHERTEXT_BYTES <= SUITE_TABLE[s]
  BY <1>3, <1>4
<1>6. MIN_KEM_CIPHERTEXT_BYTES = 1120
  BY <1>1, <1>5
<1> QED BY <1>1, <1>6 DEF suite_params, KEM_CIPHERTEXT_BYTES, SUITE_KEM_HYBRID_X25519_MLKEM768,
                         SUITE_KEM_HYBRID_P384_MLKEM1024

\* The recipient recovers the secret the sender encapsulated.
LEMMA Recovers ==
    ASSUME NEW k, NEW i
    PROVE  /\ Decapsulate(k, KemCt(k, i)) = Combined(k, KemCt(k, i))
           /\ KemCt(k, i).bytes = KEM_CIPHERTEXT_BYTES(Suite[k])
           /\ RefusedApart => Combined(k, KemCt(k, i)) # Refused
<1>1. KemCt(k, i).bytes = KEM_CIPHERTEXT_BYTES(Suite[k]) /\ KemCt(k, i).point = TRUE
  BY DEF KemCt
<1>2. ASSUME RefusedApart PROVE Combined(k, KemCt(k, i)) # Refused
  <2>1. PICK x, y : Combined(k, KemCt(k, i)) = <<x, y>>
    BY DEF Combined
  <2>2. <<x, y>> \in [1..2 -> {x, y}]
    OBVIOUS
  <2>3. <<x, y>> # Refused
    BY <1>2, <2>2, NoFunction
  <2> QED BY <2>1, <2>3
<1> QED BY <1>1, <1>2 DEF Decapsulate

\* What the AEAD sealed opens under the same key, nonce and associated data.
LEMMA SealedReopens ==
    ASSUME RefusedApart, NEW key, NEW n, NEW pt, NEW aad
    PROVE  AeadOpen(key, n, AeadSeal(key, n, pt, aad), aad) = pt
<1>1. PICK c : c = AeadSeal(key, n, pt, aad)
  OBVIOUS
<1>2. c.pt = pt
  BY <1>1 DEF AeadSeal
<1>3. c # Refused
  <2>1. c \in [{"key", "nonce", "pt", "aad"} -> {key, n, pt, aad}]
    BY <1>1 DEF AeadSeal
  <2> QED BY <2>1, NoFunction
<1>4. AeadOpen(key, n, c, aad) = pt
  BY <1>1, <1>2, <1>3 DEF AeadOpen
<1> QED BY <1>1, <1>4

\* What GenuineOpens says of one seal.
OpensFor(m, e, pt, i) ==
    /\ decrypt(m.key, e, AadOf(m), ContextOf(m)) = pt
    /\ envelope_nonce(e) = i
    /\ inspect(e) # Refused
    /\ inspect(e).suite = Suite[m.key]
    /\ inspect(e).plaintext_bytes = m.len

LEMMA PlainApart ==
    ASSUME RefusedApart, NEW m, NEW i
    PROVE  PlainOf(m, i) # Refused /\ PlainOf(m, i).len = m.len
<1>1. PlainOf(m, i) \in [{"n", "len"} -> {i, m.len}]
  BY DEF PlainOf
<1>2. PlainOf(m, i) # Refused
  BY <1>1, NoFunction
<1> QED BY <1>2 DEF PlainOf

LEMMA SummaryApart ==
    ASSUME RefusedApart, NEW v, NEW s, NEW n
    PROVE  [version |-> v, suite |-> s, plaintext_bytes |-> n] # Refused
<1>1. [version |-> v, suite |-> s, plaintext_bytes |-> n]
        \in [{"version", "suite", "plaintext_bytes"} -> {v, s, n}]
  OBVIOUS
<1> QED BY <1>1, NoFunction

LEMMA V2Opens ==
    ASSUME RefusedApart, NEW m \in Requests, NEW i, NEW e, GenuineV2(m, e, i)
    PROVE  OpensFor(m, e, PlainOf(m, i), i)
<1>0. PICK ctx, aad : ctx = ContextOf(m) /\ aad = AadOf(m)
  OBVIOUS
<1>1. PICK k \in Key, n \in Nat : k = m.key /\ n = m.len
  BY EnvelopeAssumption DEF Request
<1>2. PICK b \in {1120, 1665} : suite_params(Suite[k]) = b /\ KEM_CIPHERTEXT_BYTES(Suite[k]) = b
  BY SuiteAssumption, SuiteLengths
<1>3. e = EnvelopeV2(m, i)
  BY DEF GenuineV2
<1>4. PICK ct, body : ct = KemCt(k, i) /\ body = BodyV2(m, i)
  OBVIOUS
<1>5. /\ e.layout = "v2" /\ e.lead = "CTD2" /\ e.version = 2 /\ e.flags = 0 /\ e.suite = Suite[k]
      /\ e.kdf = SUITE_KDF /\ e.aead = SUITE_AEAD /\ e.reserved = 0 /\ e.hlen = HEADER_LEN
      /\ e.kemlen = b /\ e.ptlen = n /\ e.rcpt = k /\ e.ctxh = ctx /\ e.nonce = i /\ e.kem = ct
      /\ e.body = body
  BY <1>0, <1>1, <1>2, <1>3, <1>4 DEF EnvelopeV2
<1>6. ct.bytes = b
  BY <1>2, <1>4, Recovers
<1>7. PICK hd, key, ad :
         /\ hd = HeaderFor(m)
         /\ key = derive_key(Combined(k, ct), kdf_transcript(hd, ct, ctx))
         /\ ad = associated_data(hd, ct, ctx, aad)
  OBVIOUS
<1>8. body = Body(key, i, PlainOf(m, i), ad)
  BY <1>0, <1>1, <1>4, <1>7 DEF BodyV2
<1>9. body.ct = AeadSeal(key, i, PlainOf(m, i), ad) /\ body.bytes = n + TAG_LEN
  BY <1>0, <1>1, <1>8, PlainApart DEF Body
<1>10. Length(e) = HEADER_LEN + b + (n + TAG_LEN)
  BY <1>5, <1>6, <1>9 DEF Length
<1>11. n <= MAX_PLAINTEXT_LEN /\ ~(Len(aad) > MAX_AAD_LEN) /\ ~(Len(ctx) > MAX_CONTEXT_LEN)
  BY <1>0, <1>1 DEF GenuineV2, MAX_PLAINTEXT_LEN
<1>12. decode(e)
  <2>1. b # Refused
    BY DEF RefusedApart
  <2>2. Length(e) >= HEADER_LEN + MIN_KEM_CIPHERTEXT_BYTES + TAG_LEN
    BY <1>10, SuiteLengths DEF HEADER_LEN, TAG_LEN
  <2>3. Length(e) = HEADER_LEN + b + TAG_LEN + n
    BY <1>10 DEF HEADER_LEN, TAG_LEN
  <2> QED BY <1>2, <1>5, <1>11, <2>1, <2>2, <2>3 DEF decode
<1>13. PICK s : s = Slices(e)
  OBVIOUS
<1>14. s.kem = ct /\ s.body = body.ct
  BY <1>2, <1>5, <1>6, <1>13 DEF Slices
<1>15. Bound(e) = hd
  BY <1>3, <1>7, BoundV2
<1>16. Decapsulate(k, s.kem) = Combined(k, ct) /\ Combined(k, ct) # Refused
  BY <1>4, <1>14, Recovers
<1>17. AeadOpen(derive_key(Decapsulate(k, s.kem), kdf_transcript(Bound(e), s.kem, ctx)), e.nonce,
                s.body, associated_data(Bound(e), s.kem, ctx, aad)) = PlainOf(m, i)
  BY <1>5, <1>7, <1>9, <1>14, <1>15, <1>16, SealedReopens
<1>18. open(k, e, aad, ctx) = PlainOf(m, i)
  <2>1. PlainOf(m, i) # Refused /\ PlainOf(m, i).len = n
    BY <1>0, <1>1, PlainApart
  <2> QED BY <1>5, <1>11, <1>12, <1>13, <1>16, <1>17, <2>1 DEF open
<1>19. decrypt(m.key, e, AadOf(m), ContextOf(m)) = PlainOf(m, i)
  BY <1>0, <1>1, <1>5, <1>18 DEF decrypt
<1>20. envelope_nonce(e) = i
  BY <1>5, <1>12 DEF envelope_nonce
<1>21. inspect(e) = [version |-> 2, suite |-> Suite[k], plaintext_bytes |-> n]
  BY <1>5, <1>12 DEF inspect
<1>22. inspect(e) # Refused /\ inspect(e).suite = Suite[m.key] /\ inspect(e).plaintext_bytes = m.len
  BY <1>0, <1>1, <1>21, SummaryApart
<1> QED BY <1>19, <1>20, <1>22 DEF OpensFor

LEMMA V1Opens ==
    ASSUME RefusedApart, NEW m \in Requests, NEW i, NEW e, GenuineV1(m, e, i)
    PROVE  OpensFor(m, e, PlainOf(m, i), i)
<1>0. PICK ctx, aad : ctx = ContextOf(m) /\ aad = AadOf(m)
  OBVIOUS
<1>1. PICK k \in Key, n \in Nat : k = m.key /\ n = m.len
  BY EnvelopeAssumption DEF Request
<1>2. PICK ct, body : ct = KemCt(k, i) /\ body = BodyV1(m, i)
  OBVIOUS
<1>3. ct.bytes = 1120
  BY <1>0, <1>1, <1>2 DEF GenuineV1
<1>4. Suite[k] = SUITE_KEM_HYBRID_X25519_MLKEM768
  <2>1. KEM_CIPHERTEXT_BYTES(Suite[k]) = 1120
    BY <1>2, <1>3, Recovers
  <2> QED BY <2>1, SuiteAssumption, SuiteLengths
<1>5. /\ e.layout = "v1" /\ e.lead = "v1" /\ e.flags = 0 /\ e.suite = Suite[k]
      /\ e.aead = SUITE_AEAD /\ e.kemlen = 1120 /\ e.nonce = i /\ e.kem = ct /\ e.body = body
  BY <1>0, <1>1, <1>2, <1>4 DEF GenuineV1, EnvelopeV1
<1>6. PICK key : key = DeriveKey(Combined(k, ct), ct, ctx)
  OBVIOUS
<1>7. body.ct = AeadSeal(key, i, PlainOf(m, i), aad) /\ body.bytes = n + TAG_LEN
  <2>1. body = Body(key, i, PlainOf(m, i), aad)
    BY <1>0, <1>1, <1>2, <1>6 DEF BodyV1
  <2> QED BY <1>0, <1>1, <2>1, PlainApart DEF Body
<1>8. Length(e) = 18 + 1120 + (n + 16)
  BY <1>3, <1>5, <1>7 DEF Length, TAG_LEN
<1>9. MIN_CIPHERTEXT_BYTES = 1154
  BY DEF MIN_CIPHERTEXT_BYTES, TAG_LEN
<1>10. decode_wire(e)
  BY <1>4, <1>5, <1>8, <1>9 DEF decode_wire, decode_wire_raw, check_v1_suites
<1>11. Decapsulate(k, e.kem) = Combined(k, ct) /\ Combined(k, ct) # Refused
  BY <1>2, <1>5, Recovers
<1>12. AeadOpen(DeriveKey(Decapsulate(k, e.kem), e.kem, ctx), e.nonce, e.body.ct, aad) = PlainOf(m, i)
  BY <1>5, <1>6, <1>7, <1>11, SealedReopens
<1>13. decrypt(m.key, e, AadOf(m), ContextOf(m)) = PlainOf(m, i)
  BY <1>0, <1>1, <1>5, <1>10, <1>11, <1>12 DEF decrypt
<1>14. envelope_nonce(e) = i
  BY <1>5, <1>10 DEF envelope_nonce
<1>15. inspect(e) = [version |-> 1, suite |-> Suite[k], plaintext_bytes |-> n]
  <2>1. Length(e) - MIN_CIPHERTEXT_BYTES = n
    BY <1>8, <1>9
  <2> QED BY <1>5, <1>10, <2>1 DEF inspect
<1>16. inspect(e) # Refused /\ inspect(e).suite = Suite[m.key] /\ inspect(e).plaintext_bytes = m.len
  BY <1>0, <1>1, <1>15, SummaryApart
<1> QED BY <1>13, <1>14, <1>16 DEF OpensFor

(***************************************************************************)
(* Every envelope seal and encrypt_v1_compat release, of either suite and  *)
(* up to the size limits, opens for its recipient with its labels; inspect *)
(* tells its suite and length and envelope_nonce its nonce.  All it takes  *)
(* is that an error is distinct from every result.                         *)
(***************************************************************************)
THEOREM EnvelopeGenuineOpens ==
    ASSUME RefusedApart
    PROVE  CrateSpec => []GenuineOpens
<1>1. CrateInit => EnvelopeInv
  BY EnvelopeStart DEF CrateInit
<1>2. EnvelopeInv /\ [UseEnvelopes \/ UseStreams]_crateVars => EnvelopeInv'
  BY EnvelopeStep, CrateEnvelopes
<1>3. EnvelopeInv => GenuineOpens
  <2> SUFFICES ASSUME EnvelopeInv, NEW i \in 1..Len(sealed)
               PROVE  OpensFor(sealed[i].m, sealed[i].e, sealed[i].pt, i)
    BY DEF GenuineOpens, OpensFor
  <2> QED BY V2Opens, V1Opens DEF EnvelopeInv, SealsInv, Genuine
<1> QED BY <1>1, <1>2, <1>3, PTL DEF CrateSpec
=============================================================================
