---------------------------- MODULE MCApiServer ----------------------------
(* Small instances of ApiServer.                                             *)
EXTENDS ApiServer, TLC

AllRequests == Op
NoDestroy == Op \ {"destroy"}

Symmetry == Permutations(Proc)

\* One key, in the domain.
InDomain == [k \in Key |-> CHOOSE d \in Domain : TRUE]
=============================================================================
