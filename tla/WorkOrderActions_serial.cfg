SPECIFICATION Spec
CONSTANTS
    h1 = h1
    h2 = h2
    Handlers = {h1}
    Operations <- MC_Buttons
    Faults = {"kill"}
    MaxTaps = 7
CHECK_DEADLOCK FALSE
INVARIANTS
    TypeOK
    ClockMatchesStatus
PROPERTIES
    AttachedStays
    LocalChangeRaisesVersion
    CompletedIsFinal
