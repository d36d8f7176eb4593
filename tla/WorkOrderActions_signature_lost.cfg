SPECIFICATION Spec
CONSTANTS
    h1 = h1
    h2 = h2
    Handlers = {h1, h2}
    Operations <- MC_Buttons
    Faults = {}
    MaxTaps = 4
CHECK_DEADLOCK FALSE
PROPERTIES
    AttachedStays
