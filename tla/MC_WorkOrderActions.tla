------------------------ MODULE MC_WorkOrderActions -------------------------
(***************************************************************************)
(* Small instances of WorkOrderActions: every button, and one or two       *)
(* handlers in progress.                                                   *)
(***************************************************************************)
EXTENDS WorkOrderActions

CONSTANTS h1, h2

MC_Buttons == StatusOperations \cup {"sign", "report"}
=============================================================================
