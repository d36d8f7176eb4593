SPECIFICATION Spec
CONSTANTS
    order = order
    photo = photo
    report = report
    NoOrder = NoOrder
    OrderOf <- MC_OrderOf
    Entities = {order, report}
    Types = {"work_order", "report"}
    TypeOf <- MC_TypeOf
    FileTypes = {"report"}
    MappedTypes = {"work_order", "report"}
    Initial = {}
    Runs = {r1}
    Editors = {u1}
    EditOps = {"update", "delete"}
    Outcomes = {"accepted", "conflict"}
    Faults = {"crash", "pull"}
    Limit = 2
    MaxEdits = 2
INVARIANTS
    TypeOK
    UnsyncedHasOpenEntry
    DoneWasAccepted
PROPERTIES
    LifecycleSpec
