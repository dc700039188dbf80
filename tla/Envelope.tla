------------------------------- MODULE Envelope -------------------------------
(***************************************************************************)
(* The envelopes of citadel-envelope: the v2 codec (wire_v2.rs), historical*)
(* v1 (wire.rs), the engine that tells them apart (lib.rs), the locked     *)
(* context and AAD builders (aad.rs, envelope.rs) and inspect (sdk.rs).    *)
(*                                                                         *)
(* Senders seal messages; whoever holds an envelope may be given it with   *)
(* any field of its header, its KEM ciphertext, its body or its length     *)
(* replaced, and opens it with any key, context and associated data.       *)
(*                                                                         *)
(* An envelope is the record of its fields in the layout it was written    *)
(* in; a body that was cut, lengthened or sliced at the wrong place is     *)
(* Refused, which opens under no key.  Lengths are the real ones, except   *)
(* those of labels, contexts and AAD, which are scaled by the constants.   *)
(***************************************************************************)
EXTENDS Primitives, Sequences

CONSTANTS
    Requests,          \* what senders seal and readers ask for, see Request
    LabelMax,          \* the longest label a u16 length can state
    MAX_CONTEXT_LEN,   \* 4 KiB, scaled
    MAX_AAD_LEN,       \* 64 KiB, scaled
    MaxSeals           \* how many envelopes are sealed

VARIABLES
    sealed,            \* the seals made: request, envelope and plaintext
    opened             \* the last successful open, <<>> before

envelopeVars == <<sealed, opened>>

Request == [key : Key, env : Seq(Nat), purpose : Seq(Nat),
            sender : Seq(Nat), recipient : Seq(Nat), msg_id : Nat, len : Nat]

ASSUME EnvelopeAssumption ==
    /\ \A m \in Requests : m \in Request
    /\ {LabelMax, MAX_CONTEXT_LEN, MAX_AAD_LEN, MaxSeals} \subseteq Nat

-----------------------------------------------------------------------------
(* Context and AAD builders (aad.rs) *)

Truncate(label) == SubSeq(label, 1, IF Len(label) < LabelMax THEN Len(label) ELSE LabelMax)

Prefixed(v) == <<Len(v)>> \o v

\* Mutant of build_context: the fields joined by a delimiter, which a label may contain.
build_context_delimited(env, purpose) == env \o <<0>> \o purpose

\* Length-prefixed; a label longer than the length field can state is cut.
build_context(env, purpose) == Prefixed(Truncate(env)) \o Prefixed(Truncate(purpose))

\* Type-length-value; a field that is too long is an error.  The route, the
\* timestamp and the sequence number are coded like the fields kept here.
build_aad(sender, recipient, msg_id) ==
    IF Len(sender) > LabelMax \/ Len(recipient) > LabelMax
    THEN Refused
    ELSE <<1>> \o Prefixed(sender) \o <<2>> \o Prefixed(recipient) \o <<6>> \o Prefixed(<<msg_id>>)

ContextOf(m) == build_context(m.env, m.purpose)
AadOf(m) == build_aad(m.sender, m.recipient, m.msg_id)

-----------------------------------------------------------------------------
(* Envelope v2 (wire_v2.rs) *)

HEADER_LEN == 98
TAG_LEN == 16
MAX_PLAINTEXT_LEN == 64 * 1024 * 1024
SUITE_KDF == 193
SUITE_AEAD == 177

\* The header without its last field, the nonce: what key and associated data
\* bind.
Bound(e) == [f \in {"lead", "version", "flags", "suite", "kdf", "aead", "reserved",
                    "hlen", "kemlen", "ptlen", "rcpt", "ctxh"} |-> e[f]]

encode_header(k, len, context) ==
    IF \/ len > MAX_PLAINTEXT_LEN
       \/ suite_params(Suite[k]) # KEM_CIPHERTEXT_BYTES(Suite[k])
    THEN Refused
    ELSE [lead |-> "CTD2", version |-> 2, flags |-> 0, suite |-> Suite[k], kdf |-> SUITE_KDF,
          aead |-> SUITE_AEAD, reserved |-> 0, hlen |-> HEADER_LEN,
          kemlen |-> KEM_CIPHERTEXT_BYTES(Suite[k]), ptlen |-> len,
          rcpt |-> k, ctxh |-> context]

kdf_transcript(bound, ct, context) == [bound |-> bound, ct |-> ct, context |-> context]

derive_key(ss, transcript) == [kdf |-> "v2", ss |-> ss, transcript |-> transcript]

associated_data(bound, ct, context, aad) ==
    [bound |-> bound, ct |-> ct, context |-> context, aad |-> aad]

\* What follows the KEM ciphertext: the sealed plaintext and its length.
Body(key, n, pt, aad) == [ct |-> AeadSeal(key, n, pt, aad), bytes |-> pt.len + TAG_LEN]

\* seal: limits, encapsulation, header, key, then the AEAD draws the nonce.
\* n numbers the seal and stands for all its random choices.
seal(k, pt, aad, context, n) ==
    LET kem    == Encapsulate(k, n)
        header == encode_header(k, pt.len, context)
        key    == derive_key(kem.ss, kdf_transcript(header, kem.ct, context))
    IN  IF \/ pt.len > MAX_PLAINTEXT_LEN
           \/ Len(aad) > MAX_AAD_LEN
           \/ Len(context) > MAX_CONTEXT_LEN
           \/ header = Refused
        THEN Refused
        ELSE [layout |-> "v2", lead |-> header.lead, version |-> header.version,
              flags |-> header.flags, suite |-> header.suite, kdf |-> header.kdf,
              aead |-> header.aead, reserved |-> header.reserved, hlen |-> header.hlen,
              kemlen |-> header.kemlen, ptlen |-> header.ptlen, rcpt |-> header.rcpt,
              ctxh |-> header.ctxh, nonce |-> n, kem |-> kem.ct,
              body |-> Body(key, n, pt, associated_data(header, kem.ct, context, aad))]

Length(e) == (IF e.layout = "v2" THEN HEADER_LEN ELSE 6 + 12) + e.kem.bytes + e.body.bytes

\* Mutant of decode: every suite is sliced with the lengths of 0xA3.
decode_one_size(e) ==
    Length(e) >= HEADER_LEN + MIN_KEM_CIPHERTEXT_BYTES + TAG_LEN
    /\ e.layout = "v2" /\ e.version = 2 /\ e.flags = 0 /\ e.kdf = SUITE_KDF
    /\ e.aead = SUITE_AEAD /\ e.reserved = 0 /\ e.hlen = HEADER_LEN
    /\ suite_params(e.suite) # Refused
    /\ e.kemlen = MIN_KEM_CIPHERTEXT_BYTES
    /\ Length(e) = HEADER_LEN + MIN_KEM_CIPHERTEXT_BYTES + TAG_LEN + e.ptlen

\* decode, whether it accepts: a floor on the length that assumes no suite,
\* the fixed fields, the suite's row, and only then the exact length.  A v1
\* layout never gets past the version byte.
decode(e) ==
    /\ Length(e) >= HEADER_LEN + MIN_KEM_CIPHERTEXT_BYTES + TAG_LEN
    /\ e.layout = "v2" /\ e.version = 2 /\ e.flags = 0 /\ e.kdf = SUITE_KDF
    /\ e.aead = SUITE_AEAD /\ e.reserved = 0 /\ e.hlen = HEADER_LEN
    /\ suite_params(e.suite) # Refused
    /\ e.kemlen = suite_params(e.suite)
    /\ e.ptlen <= MAX_PLAINTEXT_LEN
    /\ Length(e) = HEADER_LEN + suite_params(e.suite) + TAG_LEN + e.ptlen

\* The slices decode returns: the ones the writer meant when the suite's row
\* has the length the writer used, other bytes otherwise.
Slices(e) ==
    IF suite_params(e.suite) = e.kem.bytes
    THEN [kem |-> e.kem, body |-> e.body.ct]
    ELSE [kem |-> [e.kem EXCEPT !.bytes = suite_params(e.suite)], body |-> Refused]

open(k, e, aad, context) ==
    LET s   == Slices(e)
        ss  == Decapsulate(k, s.kem)
        key == derive_key(ss, kdf_transcript(Bound(e), s.kem, context))
        pt  == AeadOpen(key, e.nonce, s.body, associated_data(Bound(e), s.kem, context, aad))
    IN  IF \/ Len(aad) > MAX_AAD_LEN
           \/ Len(context) > MAX_CONTEXT_LEN
           \/ ~decode(e)
           \/ e.suite # Suite[k]
           \/ e.ctxh # context
        THEN Refused
        ELSE IF ss = Refused \/ pt = Refused THEN Refused
        ELSE IF pt.len # e.ptlen \/ e.rcpt # k THEN Refused
        ELSE pt

-----------------------------------------------------------------------------
(* Envelope v1 (wire.rs, kem_engine) *)

MIN_CIPHERTEXT_BYTES == 6 + 1120 + 12 + TAG_LEN

\* encrypt_v1_compat, only in builds with legacy-envelope-v1; encode_wire
\* takes no KEM ciphertext of another length than 0xA3's.
seal_v1_compat(k, pt, aad, context, n) ==
    LET kem == Encapsulate(k, n) IN
    IF kem.ct.bytes # 1120
    THEN Refused
    ELSE [layout |-> "v1", lead |-> "v1", suite |-> SUITE_KEM_HYBRID_X25519_MLKEM768,
          aead |-> SUITE_AEAD, flags |-> 0, kemlen |-> 1120, nonce |-> n, kem |-> kem.ct,
          body |-> Body(DeriveKey(kem.ss, kem.ct, context), n, pt, aad)]

\* The structural checks; a v2 layout fails them at the flags byte.
decode_wire_raw(e) ==
    /\ Length(e) >= MIN_CIPHERTEXT_BYTES
    /\ e.layout = "v1" /\ e.lead = "v1" /\ e.flags = 0 /\ e.kemlen = 1120

check_v1_suites(e) == e.suite = SUITE_KEM_HYBRID_X25519_MLKEM768 /\ e.aead = SUITE_AEAD

decode_wire(e) == decode_wire_raw(e) /\ check_v1_suites(e)

\* decrypt: the magic decides; everything else is parsed as v1.
decrypt(k, e, aad, context) ==
    IF e.lead = "CTD2" THEN open(k, e, aad, context)
    ELSE IF ~decode_wire(e) THEN Refused
    ELSE LET ss == Decapsulate(k, e.kem) IN
         IF ss = Refused THEN Refused
         ELSE AeadOpen(DeriveKey(ss, e.kem, context), e.nonce, e.body.ct, aad)

\* The nonce replay protection takes as the identity of an envelope.
envelope_nonce(e) ==
    IF e.lead = "CTD2" THEN (IF decode(e) THEN e.nonce ELSE Refused)
    ELSE IF decode_wire(e) THEN e.nonce ELSE Refused

\* inspect: what an operator is told of an envelope without a key.  A v1
\* layout whose lead byte says stream fails the stream header at its flags.
inspect(e) ==
    IF e.lead = "CTD2"
    THEN IF ~decode(e) THEN Refused
         ELSE [version |-> 2, suite |-> e.suite, plaintext_bytes |-> e.ptlen]
    ELSE IF ~decode_wire(e) THEN Refused
         ELSE [version |-> 1, suite |-> e.suite, plaintext_bytes |-> Length(e) - MIN_CIPHERTEXT_BYTES]

-----------------------------------------------------------------------------
(* Senders, holders and readers *)

\* A request to the facade: seal_internal builds context and AAD and seals;
\* e is what the engine made of them.
Plaintext(m) == [n |-> Len(sealed) + 1, len |-> m.len]

seal_internal(m, e) ==
    /\ Len(sealed) < MaxSeals
    /\ AadOf(m) # Refused
    /\ e # Refused
    /\ sealed' = Append(sealed, [m |-> m, pt |-> Plaintext(m), e |-> e])
    /\ UNCHANGED opened

Seal(m) ==
    seal_internal(m, seal(m.key, Plaintext(m), AadOf(m), ContextOf(m), Len(sealed) + 1))

SealV1(m) ==
    seal_internal(m, seal_v1_compat(m.key, Plaintext(m), AadOf(m), ContextOf(m), Len(sealed) + 1))

\* What a holder can turn an envelope into: one field rewritten with another
\* value of it, suite and KEM length relabelled together, one field taken from
\* another envelope, or the end cut or extended.
Sealed == {sealed[i].e : i \in 1..Len(sealed)}

Values(f) ==
    CASE f = "lead"      -> {"CTD2", "v1", "stream", "other"}
      [] f \in {"version", "flags", "reserved"} -> 0..2
      [] f = "suite"     -> {163, 164, 165}
      [] f \in {"kdf", "aead", "hlen"} -> {177, 178, 193, HEADER_LEN}
      [] f = "kemlen"    -> {1120, 1665}
      [] f = "ptlen"     -> {m.len : m \in Requests}
                            \union {m.len - 545 : m \in {r \in Requests : r.len >= 545}}
      [] OTHER           -> {}

Rewritten(e, f, v) == [e EXCEPT ![f] = v]

FieldEdits(e) ==
    UNION {{Rewritten(e, f, v) : v \in Values(f)} : f \in DOMAIN e \ {"layout"}}

SuiteEdits(e) ==
    {Rewritten(Rewritten(e, "suite", s), "kemlen", suite_params(s)) : s \in DOMAIN SUITE_TABLE}

Splices(e) ==
    UNION {{Rewritten(e, f, d[f]) : f \in DOMAIN e \intersect DOMAIN d} :
             d \in {x \in Sealed : x.layout = e.layout}}

KemEdits(e) ==
    {Rewritten(e, "kem", Rewritten(e.kem, "eph", d.kem.eph)) : d \in Sealed}
    \union {Rewritten(e, "kem", Rewritten(e.kem, "point", FALSE))}

BodyEdits(e) ==
    {Rewritten(e, "body", [ct |-> Refused, bytes |-> n]) :
       n \in {0, e.body.bytes - 1, e.body.bytes, e.body.bytes + 1}}

Edits(e) == FieldEdits(e) \union SuiteEdits(e) \union Splices(e) \union KemEdits(e) \union BodyEdits(e)

\* An envelope as it was sealed, or after one or two edits.
EditedOnce == UNION {Edits(e) : e \in Sealed}

EditedTwice == UNION {Edits(e) : e \in EditedOnce}

Held == Sealed \union EditedOnce \union EditedTwice

\* open_internal with the labels of request m and key k.
Open(e, k, m) ==
    LET pt == decrypt(k, e, AadOf(m), ContextOf(m)) IN
    /\ AadOf(m) # Refused
    /\ pt # Refused
    /\ opened' = [e |-> e, k |-> k, m |-> m, pt |-> pt]
    /\ UNCHANGED sealed

EnvelopeInit == sealed = <<>> /\ opened = <<>>

EnvelopeNext ==
    \/ \E m \in Requests : Seal(m) \/ SealV1(m)
    \/ \E e \in Held, k \in Key, m \in Requests : Open(e, k, m)

-----------------------------------------------------------------------------
(* Properties *)

(***************************************************************************)
(* Whatever a holder makes of the envelopes, what decrypt returns is the   *)
(* plaintext of a seal made for that very key with those very labels, from *)
(* that very envelope, byte for byte: no edit, splice or relabelling is    *)
(* ever opened.  (Labels of a context count as far as build_context        *)
(* codes them.)                                                            *)
(***************************************************************************)
OnlySealedOpens ==
    opened # <<>> =>
        \E i \in 1..Len(sealed) :
            LET s == sealed[i] IN
            /\ opened.e = s.e
            /\ opened.k = s.m.key
            /\ opened.pt = s.pt
            /\ Truncate(opened.m.env) = Truncate(s.m.env)
            /\ Truncate(opened.m.purpose) = Truncate(s.m.purpose)
            /\ <<opened.m.sender, opened.m.recipient, opened.m.msg_id>>
                 = <<s.m.sender, s.m.recipient, s.m.msg_id>>

(***************************************************************************)
(* Every envelope either format's seal releases, of either suite and up to *)
(* the size limits, is one its recipient opens, and inspect and            *)
(* envelope_nonce tell of it what it was sealed as.                        *)
(***************************************************************************)
GenuineOpens ==
    \A i \in 1..Len(sealed) :
        LET s == sealed[i] IN
        /\ decrypt(s.m.key, s.e, AadOf(s.m), ContextOf(s.m)) = s.pt
        /\ envelope_nonce(s.e) = i
        /\ inspect(s.e) # Refused
        /\ inspect(s.e).suite = Suite[s.m.key]
        /\ inspect(s.e).plaintext_bytes = s.m.len
=============================================================================
