---------------------------- MODULE MCAssertions ----------------------------
(* A small instance of Assertions.                                           *)
EXTENDS Assertions, TLC

CONSTANTS root, dom, kek, sig, sig2

Hierarchy == { Generation(root, "Root", NoKey),
               Generation(dom, "Domain", root),
               Generation(kek, "KeyEncrypting", dom),
               Generation(sig, "Signing", kek),
               Generation(sig2, "Signing", kek) }

\* The signing key and the KEK above it go through their life.
SomeRequests ==
  { Call("rotate", sig), Call("revoke", sig), Call("destroy", sig), Rewrapping(sig, kek),
    Call("rotate", kek), Call("revoke_cascade", kek) }

Alike == Permutations(Claims)

Limits == [k \in KeyId |-> 1]
=============================================================================
