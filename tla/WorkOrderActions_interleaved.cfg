SPECIFICATION Spec
CONSTANTS
    h1 = h1
    h2 = h2
    Handlers = {h1, h2}
    Operations <- MC_Buttons
    Faults = {"pull"}
    MaxTaps = 3
INVARIANTS
    PendingIsQueued
