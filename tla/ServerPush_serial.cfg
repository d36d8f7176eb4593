SPECIFICATION Spec
CONSTANTS
    old = old
    new = new
    own = own
    o1 = o1
    o2 = o2
    o3 = o3
    t1 = t1
    t2 = t2
    NoTenant = NoTenant
    Records = {old, new}
    OutboxIds = {o1, o2, o3}
    Tenants = {t1, t2}
    TenantOf <- MC_OneTenant
    Owner <- MC_Owner
    TenantRecords = {}
    Relinks <- MC_Relinks
    Operations = {"create", "update", "delete", "bogus"}
    Versioned = {o1}
    Handlers = {h1}
    Batches <- MC_Batches
    Faults = {"crash", "lost_reply"}
    MaxRev = 3
PROPERTIES
    VerdictEndsWrites
    NoStaleWrite
    VersionCountsWrites
