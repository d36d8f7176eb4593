----------------------------- MODULE MC_Accounts -----------------------------
(***************************************************************************)
(* A small instance of Accounts: two tenants whose administrators have the *)
(* same address.                                                           *)
(***************************************************************************)
EXTENDS Accounts

CONSTANTS ann, eve, t1, t2, mail

MC_TenantOf == [u \in Users |-> IF u = eve THEN t2 ELSE t1]
MC_EmailOf == [u \in Users |-> mail]
MC_Required == {{<<"sync", "push">>}, {<<"entity", "report_templates", "write">>}}
=============================================================================
