SPECIFICATION Spec
CONSTANTS
    object = object
    order = order
    t1 = t1
    t2 = t2
    NoTenant = NoTenant
    Rows = {order}
    Types <- MC_OneType
    TypeOf <- MC_TypeOf
    Tenants = {t1}
    TenantOf <- MC_OneTenant
    Pulls = {p1, p2}
    Faults = {}
    MaxClock = 5
    MaxRev <- MC_MaxRev
INVARIANTS
    NothingSkipped
