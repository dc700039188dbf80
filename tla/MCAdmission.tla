---------------------------- MODULE MCAdmission ----------------------------
(***************************************************************************)
(* Small instances of what a request passes before it reaches the          *)
(* keystore: the rate limiter, the API keys and the state enforcer.  They  *)
(* share no state: the initial state picks one, and the others stay as     *)
(* they are.                                                               *)
(***************************************************************************)
EXTENDS RateLimiter, ApiKeys, StateEnforcer, TLC

CONSTANTS d1, d2

VARIABLE gate

admissionVars == <<gate, rateVars, apiKeysVars, enforcerVars>>

Asked(scopes, domains) == [scopes |-> scopes, allowed_domains |-> domains]

\* Global and scoped admins, scoped keys inside and outside the scoped admin's
\* domain, and requests the rules refuse.
SomeWanted ==
  {GlobalAdmin, Asked({"Admin", "Read"}, {d1}), Asked({"Read"}, {d1}),
   Asked({"Read"}, {d1, d2}), Asked({"Read"}, Unrestricted), Asked({"Read"}, {}),
   Asked({"Encrypt"}, {d1})}

AdmissionInit ==
  /\ gate \in {"rate", "api key", "enforcer"}
  /\ RateInit /\ ApiKeysInit /\ Init
  /\ gate # "rate" => \A p, q \in Request : ip[p] = ip[q] /\ key[p] = key[q]
  /\ gate # "api key" => file = Empty

AdmissionNext ==
  \/ gate = "rate" /\ RateNext /\ UNCHANGED <<gate, apiKeysVars, enforcerVars>>
  \/ gate = "api key" /\ ApiKeysNext /\ UNCHANGED <<gate, rateVars, enforcerVars>>
  \/ gate = "enforcer" /\ Next /\ UNCHANGED <<gate, rateVars, apiKeysVars>>

AdmissionSpec == AdmissionInit /\ [][AdmissionNext]_admissionVars

\* Requests and nonces; addresses, API keys and keys.
Symmetry == Permutations(Proc) \cup Permutations(Key)
=============================================================================
