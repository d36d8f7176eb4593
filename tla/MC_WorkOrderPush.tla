--------------------------- MODULE MC_WorkOrderPush ---------------------------
(***************************************************************************)
(* Small instances of WorkOrderPush: one device that two technicians use,  *)
(* or one device for each of them.                                         *)
(***************************************************************************)
EXTENDS WorkOrderPush, TLC

CONSTANTS d1, k1, k2

MC_FirstToken == [d \in Devices |-> IF d = d1 THEN k1 ELSE k2]
MC_Symmetry == Permutations(Users) \cup Permutations(Requests)
=============================================================================
