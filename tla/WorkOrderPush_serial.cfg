SPECIFICATION Spec
CONSTANTS
    Users = {ann, bob}
    none = none
    keep = keep
    d1 = d1
    k1 = k1
    k2 = k2
    Devices = {d1}
    Tokens = {k1, k2}
    Requests = {r1, r2}
    MaxHandlers = 1
    MaxInFlight = 1
    MaxInactive = 1
    Faults = {"gateway", "kill", "offline"}
    FirstToken <- MC_FirstToken
SYMMETRY MC_Symmetry
CHECK_DEADLOCK FALSE
INVARIANTS
    TypeOK
    AssigneeIsTold
    DeviceFollowsSession
