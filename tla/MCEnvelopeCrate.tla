--------------------------- MODULE MCEnvelopeCrate ----------------------------
(***************************************************************************)
(* Two key pairs of suite 0xA3 and one of 0xA4; labels of which one joined *)
(* by a delimiter reads as two others, a label too long for its length     *)
(* field and one too long for the context limit; plaintexts of no length,  *)
(* of the 545 bytes by which the two suites' KEM ciphertexts differ, and   *)
(* at and past the size limit; two streams of at most two chunks.          *)
(***************************************************************************)
EXTENDS EnvelopeCrate

CONSTANTS k3, k3b, k4, c1, c2, a1, a2

MCSuite == [k \in Key |-> IF k = k4 THEN 164 ELSE 163]

MCContext == [s \in Streams |-> c1]

MCAad == [s \in Streams |-> IF s = 1 THEN a1 ELSE a2]

Ask(k, env, purpose, sender, id, len) ==
    [key |-> k, env |-> env, purpose |-> purpose, sender |-> sender, recipient |-> <<5>>,
     msg_id |-> id, len |-> len]

MCRequests ==
    {Ask(k3, <<1>>, <<2, 0, 3>>, <<4>>, 1, 0),
     Ask(k3, <<1, 0, 2>>, <<3>>, <<4>>, 1, 545),
     Ask(k3b, <<1>>, <<2>>, <<4>>, 1, 0),
     Ask(k4, <<1>>, <<2>>, <<4>>, 1, 545),
     Ask(k4, <<1>>, <<2>>, <<4>>, 2, 67108864),
     Ask(k4, <<1>>, <<2>>, <<4>>, 1, 67108865),
     Ask(k3, <<1, 1, 1, 1>>, <<2>>, <<4>>, 1, 0),
     Ask(k3, <<1, 1, 1, 1, 1>>, <<2>>, <<4>>, 1, 0),
     Ask(k3, <<1, 1, 1, 1>>, <<2, 2, 2, 2>>, <<4>>, 1, 0),
     Ask(k3, <<1>>, <<2>>, <<4, 4, 4, 4, 4>>, 1, 0)}
=============================================================================
