SPECIFICATION LiveSpec
CONSTANTS
    object = object
    order = order
    t1 = t1
    t2 = t2
    NoTenant = NoTenant
    Rows = {object, order}
    Types <- MC_Types
    TypeOf <- MC_TypeOf
    Tenants = {t1}
    TenantOf <- MC_OneTenant
    Pulls = {p1}
    Faults = {"lost_reply", "kill", "edit"}
    MaxClock = 4
    MaxRev <- MC_MaxRev
INVARIANTS
    TypeOK
    NothingSkipped
PROPERTIES
    CatchesUp
