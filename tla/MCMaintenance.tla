--------------------------- MODULE MCMaintenance ---------------------------
(* Small instances of Maintenance.                                           *)
EXTENDS Maintenance

CONSTANTS root, dom, kek, dek, new

Hierarchy == { Generation(root, "Root", NoKey),
               Generation(dom, "Domain", root),
               Generation(kek, "KeyEncrypting", dom),
               Generation(dek, "DataEncrypting", kek) }

\* Clients encrypt and rotate the DEK and destroy a new key, and the KEK expires.
SomeServerRequests ==
  { Call("encrypt", dek), Call("rotate", dek), Call("expire", kek), Call("destroy", new) }

\* The operator destroys the KEK, and wraps the Domain key under the KEK below it.
SomeKeyRequests == { Call("destroy", kek), Rewrapping(dom, kek) }

\* What a migration may ask of the engine.
Migrations ==
  { Generation(k, t, p) : k \in Named, t \in Level, p \in Named \cup {NoKey} }
    \cup { Call("activate", k) : k \in Named } \cup { Rewrapping(dek, k) : k \in Named }

AllRequests == SomeServerRequests \cup SomeKeyRequests \cup Migrations

Good == [master |-> "right", plaintext |-> FALSE, development |-> FALSE, dir |-> "0700",
         src |-> FALSE, replay |-> "file"]

Run(op, flag, env) == [op |-> op, flag |-> flag, env |-> env]

SomeCommands ==
  { Run("create", "none", Good), Run("restore", "none", Good), Run("restore", "overwrite", Good),
    Run("verify", "none", [Good EXCEPT !.master = "other"]),
    Run("migrate", "none", Good), Run("doctor", "none", Good),
    Run("doctor", "none", NoEnvironment) }

MigrateOnly == { Run("migrate", "none", Good) }

Limits == [k \in KeyId |-> 1]
=============================================================================
