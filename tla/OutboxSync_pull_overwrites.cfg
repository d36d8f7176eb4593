SPECIFICATION Spec
CONSTANTS
    order = order
    photo = photo
    report = report
    NoOrder = NoOrder
    OrderOf <- MC_OrderOf
    Entities = {order}
    Types = {"work_order"}
    TypeOf <- MC_TypeOf
    FileTypes = {}
    MappedTypes = {"work_order"}
    Initial = {order}
    Runs = {r1}
    Editors = {u1}
    EditOps = {"update", "delete"}
    Outcomes = {"accepted", "conflict", "error"}
    Faults = {}
    Limit = 2
    MaxEdits = 2
PROPERTIES
    PullKeepsUnsentEdits
