------------------------------ MODULE Primitives ------------------------------
(***************************************************************************)
(* The cryptography of citadel-envelope as the formats above it see it     *)
(* (kem.rs, kem_p384.rs, kdf.rs, aead.rs).  A key pair is a name; what a   *)
(* primitive computes is the record of its inputs, so two outputs are      *)
(* equal exactly when all their inputs are.  Random values (ephemeral      *)
(* keys, nonces, stream identifiers) are numbers the caller never repeats. *)
(***************************************************************************)
EXTENDS Naturals

CONSTANTS
    Key,         \* the hybrid key pairs
    Suite,       \* Suite[k]: the KEM suite of key pair k, 0xA3 or 0xA4
    Refused      \* what a fallible operation returns instead of a result

SUITE_KEM_HYBRID_X25519_MLKEM768 == 163
SUITE_KEM_HYBRID_P384_MLKEM1024  == 164

ASSUME SuiteAssumption ==
    Suite \in [Key -> {SUITE_KEM_HYBRID_X25519_MLKEM768, SUITE_KEM_HYBRID_P384_MLKEM1024}]

(***************************************************************************)
(* SUITE_TABLE: the length of a KEM ciphertext of every supported suite.   *)
(* 0xA5 and 0xA6 are reserved and have no row.                             *)
(***************************************************************************)
SUITE_TABLE == [s \in {SUITE_KEM_HYBRID_X25519_MLKEM768, SUITE_KEM_HYBRID_P384_MLKEM1024} |->
                  IF s = SUITE_KEM_HYBRID_X25519_MLKEM768 THEN 1120 ELSE 1665]

suite_params(s) == IF s \in DOMAIN SUITE_TABLE THEN SUITE_TABLE[s] ELSE Refused

MIN_KEM_CIPHERTEXT_BYTES ==
    CHOOSE n \in {SUITE_TABLE[s] : s \in DOMAIN SUITE_TABLE} :
        \A s \in DOMAIN SUITE_TABLE : n <= SUITE_TABLE[s]

-----------------------------------------------------------------------------
\* The provider's own statement of that length: an ephemeral public key of the
\* classical arm and an ML-KEM ciphertext.
KEM_CIPHERTEXT_BYTES(s) ==
    IF s = SUITE_KEM_HYBRID_X25519_MLKEM768 THEN 32 + 1088 ELSE 97 + 1568

(***************************************************************************)
(* A KEM ciphertext: its length, the ephemeral point of the classical arm  *)
(* and the ML-KEM ciphertext, made for key pair `to' from randomness `r'.  *)
(* `point' is FALSE for a point the classical arm refuses: a low-order     *)
(* X25519 point, or a P-384 encoding that is not an uncompressed point of  *)
(* the curve.                                                              *)
(***************************************************************************)
KemCt(k, r) == [bytes |-> KEM_CIPHERTEXT_BYTES(Suite[k]), point |-> TRUE, eph |-> r, to |-> k, r |-> r]

\* The combined secret concatenates the two arms.  The ML-KEM arm never
\* fails: a ciphertext made for another key gives an unrelated secret
\* (implicit rejection).
Combined(k, ct) ==
    << <<"dh", k, ct.eph>>,
       <<IF ct.to = k THEN "mlkem" ELSE "rejected", k, ct.to, ct.r>> >>

\* encapsulate: a fresh ciphertext and the secret it carries.
Encapsulate(k, r) == [ss |-> Combined(k, KemCt(k, r)), ct |-> KemCt(k, r)]

\* decapsulate: the length first, then the point, then both arms.
Decapsulate(k, ct) ==
    IF ct.bytes # KEM_CIPHERTEXT_BYTES(Suite[k]) \/ ~ct.point THEN Refused ELSE Combined(k, ct)

-----------------------------------------------------------------------------
\* kdf::derive_key, the key schedule of envelope v1 and of both streams: the
\* secret, the hash of the KEM ciphertext and the context.
DeriveKey(ss, ct, context) == [kdf |-> "v1", ss |-> ss, ct |-> ct, context |-> context]

\* AES-256-GCM: a ciphertext opens under the key, nonce and associated data
\* it was sealed with, and under nothing else.
AeadSeal(key, nonce, pt, aad) == [key |-> key, nonce |-> nonce, pt |-> pt, aad |-> aad]

AeadOpen(key, nonce, ct, aad) ==
    IF ct # Refused /\ ct = AeadSeal(key, nonce, ct.pt, aad) THEN ct.pt ELSE Refused
=============================================================================
