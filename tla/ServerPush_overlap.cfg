SPECIFICATION Spec
CONSTANTS
    old = old
    new = new
    own = own
    o1 = o1
    o2 = o2
    o3 = o3
    t1 = t1
    t2 = t2
    NoTenant = NoTenant
    Records = {old, new, own}
    OutboxIds = {o1, o2}
    Tenants = {t1, t2}
    TenantOf <- MC_TwoTenants
    Owner <- MC_Owner
    TenantRecords = {own}
    Relinks <- MC_NoRelinks
    Operations = {"create", "update", "delete", "bogus"}
    Versioned = {o1}
    Handlers = {h1, h2}
    Batches <- MC_Single
    Faults = {"crash", "lost_reply", "dispatch"}
    MaxRev = 2
INVARIANTS
    TypeOK
    AnswersAgreeWithLog
    AcceptedWasApplied
PROPERTIES
    TenantsAreIsolated
