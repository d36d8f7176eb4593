SPECIFICATION Spec
CONSTANTS
    object = object
    order = order
    t1 = t1
    t2 = t2
    NoTenant = NoTenant
    Rows = {object, order}
    Types <- MC_Types
    TypeOf <- MC_TypeOf
    Tenants = {t1, t2}
    TenantOf <- MC_TwoTenants
    Pulls = {p1}
    Faults = {"switch"}
    MaxClock = 5
    MaxRev <- MC_MaxRev
INVARIANTS
    NothingSkipped
