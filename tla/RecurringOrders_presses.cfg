SPECIFICATION LiveSpec
CONSTANTS
    boiler = boiler
    UtcOffset <- MC_UtcOffset
    Installations = {boiler}
    Intervals = {0, 1, 2}
    Presses = {p1, p2}
    Days <- MC_Days
    OfficeDates <- MC_OfficeDates
    FirstDate <- MC_FirstDate
    ChangesDuringPress = FALSE
    MaxOrders = 2
INVARIANTS
    OneOrderPerTerm
    TermsFollowTheInterval
PROPERTIES
    TermsLeaveAnOrder
    PressEnds
CHECK_DEADLOCK FALSE
