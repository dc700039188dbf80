----------------------------- MODULE MCReplay ------------------------------
(***************************************************************************)
(* Small instances of the replay stores.  They share no state: the initial *)
(* state picks the store a deployment runs, and the other stays as it is.  *)
(***************************************************************************)
EXTENDS FileReplayStore, SlotReplayStore, TLC

VARIABLE deployed

replayVars == <<deployed, vars, slotVars>>


ReplayInit ==
  /\ deployed \in {"file", "slot"}
  /\ Init
  /\ SlotInit
  /\ deployed = "slot" => \A p, q \in Proc : blob[p] = blob[q]
  /\ deployed = "file" =>
       /\ backend = "memory"
       /\ \A p, q \in SlotCall : slotBlob[p] = slotBlob[q]

ReplayNext ==
  \/ deployed = "file" /\ Next /\ UNCHANGED <<deployed, slotVars>>
  \/ deployed = "slot" /\ SlotNext /\ UNCHANGED <<deployed, vars>>

ReplaySpec == ReplayInit /\ [][ReplayNext]_replayVars

Symmetry ==
  Permutations(Blob) \cup Permutations(Proc) \cup
  Permutations(SlotBlob) \cup Permutations(SlotCall)
=============================================================================
