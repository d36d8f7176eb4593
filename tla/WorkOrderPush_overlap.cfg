SPECIFICATION Spec
CONSTANTS
    Users = {ann, bob}
    none = none
    keep = keep
    d1 = d1
    k1 = k1
    k2 = k2
    Devices = {d1}
    Tokens = {k1}
    Requests = {r1, r2, r3}
    MaxHandlers = 2
    MaxInFlight = 1
    MaxInactive = 1
    Faults = {}
    FirstToken <- MC_FirstToken
SYMMETRY MC_Symmetry
CHECK_DEADLOCK FALSE
INVARIANTS
    AssigneeIsTold
