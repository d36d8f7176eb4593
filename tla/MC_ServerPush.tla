---------------------------- MODULE MC_ServerPush ----------------------------
(***************************************************************************)
(* Small instances of ServerPush: a record that exists, one that does not  *)
(* yet, the row of the first tenant itself, and up to three entries.       *)
(***************************************************************************)
EXTENDS ServerPush

CONSTANTS old, new, own, o1, o2, o3, t1, t2

\* The old record belongs to the first tenant, the new one does not exist.
MC_Owner == [r \in Records |-> IF r = new THEN NoTenant ELSE t1]

\* Every entry comes from the tenant that owns the old record ...
MC_OneTenant == [o \in OutboxIds |-> t1]

\* ... or the second one from another tenant.
MC_TwoTenants == [o \in OutboxIds |-> IF o = o2 THEN t2 ELSE t1]

\* No payload names a relation ...
MC_NoRelinks == [o \in OutboxIds |-> NoTenant]

\* ... or that of the third entry moves its record to the second tenant.
MC_Relinks == [o \in OutboxIds |-> IF o = o3 THEN t2 ELSE NoTenant]

MC_Single == {<<o>> : o \in OutboxIds}
MC_Pairs == {s \in [1 .. 2 -> OutboxIds \ {o3}] : s[1] # s[2]}
MC_Batches == MC_Single \cup MC_Pairs
=============================================================================
