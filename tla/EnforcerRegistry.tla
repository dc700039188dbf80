------------------------- MODULE EnforcerRegistry -------------------------
(***************************************************************************)
(* What StateEnforcer (citadel-core/src/state_enforcer.rs) knows of keys:  *)
(* the ones it takes for valid, the ones it has been told are revoked, and *)
(* the domains they belong to.  Shared by the enforcer's own model and by  *)
(* the API server's.                                                       *)
(***************************************************************************)

CONSTANTS
  Key,
  Domain,
  None     \* the None of an Option

ASSUME NoneIsNone == None \notin Key \cup Domain

VARIABLES
  valid_keys,
  revoked_keys,
  domain_keys   \* pairs of a domain and a key

registry == <<valid_keys, revoked_keys, domain_keys>>

RegistryInit ==
  /\ valid_keys = {}
  /\ revoked_keys = {}
  /\ domain_keys = {}

RegistryTypeOK ==
  /\ valid_keys \subseteq Key
  /\ revoked_keys \subseteq Key
  /\ domain_keys \subseteq Domain \X Key

register_key(k, d) ==
  /\ valid_keys' = valid_keys \cup {k}
  /\ domain_keys' = IF d = None THEN domain_keys ELSE domain_keys \cup {<<d, k>>}
  /\ UNCHANGED revoked_keys

revoke_key(k) ==
  /\ revoked_keys' = revoked_keys \cup {k}
  /\ valid_keys' = valid_keys \ {k}
  /\ domain_keys' = {dk \in domain_keys : dk[2] # k}

\* Mutant: a key that is registered is taken for unrevoked.
KnownKey(k, d) == k \in valid_keys /\ (d # None => <<d, k>> \in domain_keys)

\* validate_key returns no denial.
KeyAllowed(k, d) ==
  /\ k \notin revoked_keys
  /\ k \in valid_keys
  /\ d # None => <<d, k>> \in domain_keys
=============================================================================
