SPECIFICATION Spec
CONSTANTS
    old = old
    new = new
    own = own
    o1 = o1
    o2 = o2
    o3 = o3
    t1 = t1
    t2 = t2
    NoTenant = NoTenant
    Records = {old, new}
    OutboxIds = {o1}
    Tenants = {t1}
    TenantOf <- MC_OneTenant
    Owner <- MC_Owner
    TenantRecords = {}
    Relinks <- MC_NoRelinks
    Operations = {"create", "update", "delete", "bogus"}
    Versioned = {o1}
    Handlers = {h1, h2}
    Batches <- MC_Batches
    Faults = {}
    MaxRev = 3
INVARIANTS
    RejectedNotApplied
