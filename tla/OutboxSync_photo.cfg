SPECIFICATION Spec
CONSTANTS
    order = order
    photo = photo
    report = report
    NoOrder = NoOrder
    OrderOf <- MC_OrderOf
    Entities = {order, photo}
    Types = {"work_order", "photo"}
    TypeOf <- MC_TypeOf
    FileTypes = {"photo"}
    MappedTypes = {"work_order", "photo"}
    Initial = {order}
    Runs = {r1}
    Editors = {u1}
    EditOps = {"update", "delete"}
    Outcomes = {"accepted", "conflict", "error"}
    Faults = {"crash", "pull"}
    Limit = 2
    MaxEdits = 2
INVARIANTS
    TypeOK
    UnsyncedHasOpenEntry
    DoneWasAccepted
PROPERTIES
    LifecycleSpec
