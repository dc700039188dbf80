----------------------------- MODULE MCKeystore -----------------------------
(* Small instances of Keystore: which keys, callers and calls each run has.  *)
EXTENDS Keystore

CONSTANTS root, dom, kek, kek2, dek, new

Calls(ops, ks) == { Call(op, k) : op \in ops, k \in ks }

Hierarchy == { Generation(root, "Root", NoKey),
               Generation(dom, "Domain", root),
               Generation(kek, "KeyEncrypting", dom),
               Generation(dek, "DataEncrypting", kek) }
TwoKeks == Hierarchy \cup { Generation(kek2, "KeyEncrypting", dom) }
KeksOnly == { r \in Hierarchy : r.key # dek }

Lifecycle == {"activate", "rotate", "revoke", "expire", "destroy"}

\* Every lifecycle call on a KEK and its DEK, cascades from two levels, and
\* rewraps of the DEK within the hierarchy.
SerialRequests ==
  Calls(Lifecycle, {kek, dek}) \cup Calls({"encrypt"}, {dek, kek})
    \cup Calls({"revoke_cascade"}, {dom, kek})
    \cup { Rewrapping(dek, kek), Rewrapping(dek, kek2) }

\* Keys created while the KEK they are to hang from goes through its life:
\* three well placed, one under a key that cannot wrap it, one without a parent;
\* and a cascade from the domain while keys below are re-activated.
ConcurrentRequests ==
  { Generation(new, "DataEncrypting", kek), Generation(new, "Signing", kek),
    Generation(new, "KeyEncrypting", dom), Generation(new, "KeyEncrypting", kek),
    Generation(new, "Domain", NoKey) }
    \cup Calls({"activate", "rotate", "destroy"}, {kek}) \cup Calls({"activate"}, {new})
    \cup Calls({"revoke_cascade"}, {dom}) \cup { Rewrapping(new, NoKey) }

Limits == [k \in KeyId |-> 2]
=============================================================================
