SPECIFICATION Spec
CONSTANTS
    boiler = boiler
    UtcOffset <- MC_UtcOffset
    Installations = {boiler}
    Intervals = {0, 1}
    Presses = {p1, p2}
    Days <- MC_Days
    OfficeDates <- MC_OfficeDates
    FirstDate <- MC_FirstDate
    ChangesDuringPress = TRUE
    MaxOrders = 2
PROPERTIES
    TermsLeaveAnOrder
