SPECIFICATION Spec
CONSTANTS
    ann = ann
    eve = eve
    t1 = t1
    t2 = t2
    mail = mail
    Tenants = {t1, t2}
    Users = {ann, eve}
    TenantOf <- MC_TenantOf
    EmailOf <- MC_EmailOf
    NoTenant = NoTenant
    Roles = {"admin", "technician"}
    Required <- MC_Required
    AccessTTL = 1
    RefreshTTL = 2
    Handlers = {h1}
    MaxHandling = 1
    MaxClock = 5
    MaxChanges = 2
CHECK_DEADLOCK FALSE
INVARIANTS
    RightsEnd
