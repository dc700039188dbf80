--------------------------------- MODULE MCFfi --------------------------------
(***************************************************************************)
(* Two host threads and two addresses: one address is freed by a thread    *)
(* while the other allocates, and a keygen can run out of memory half way. *)
(***************************************************************************)
EXTENDS Ffi
=============================================================================
