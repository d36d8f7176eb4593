---------------------------- MODULE MC_SyncPull ----------------------------
(***************************************************************************)
(* Small instances of SyncPull: an object and a work order of one tenant,  *)
(* and for the change of tenant a row of each.                             *)
(***************************************************************************)
EXTENDS SyncPull

CONSTANTS object, order, t1, t2

MC_Types == <<"objects", "work_orders">>
MC_OneType == <<"work_orders">>
MC_TypeOf == [r \in Rows |-> IF r = object THEN "objects" ELSE "work_orders"]
MC_OneTenant == [r \in Rows |-> t1]
MC_MaxRev == [r \in Rows |-> IF r = object THEN 1 ELSE 2]
MC_TwoTenants == [r \in Rows |-> IF r = object THEN t2 ELSE t1]
=============================================================================
