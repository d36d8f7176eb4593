---------------------------- MODULE MC_OutboxSync ----------------------------
(***************************************************************************)
(* Small instances of OutboxSync: a work order the server has sent, and a  *)
(* photo or a report of it that is created on the device.                  *)
(***************************************************************************)
EXTENDS OutboxSync

CONSTANTS order, photo, report

MC_Types == {"work_order", "photo", "report"}
MC_TypeOf == [e \in Entities |-> CASE e = photo  -> "photo"
                                   [] e = report -> "report"
                                   [] OTHER      -> "work_order"]
MC_OrderOf == [e \in Entities |-> IF e = report THEN order ELSE NoOrder]
=============================================================================
