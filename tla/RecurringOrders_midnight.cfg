SPECIFICATION Spec
CONSTANTS
    boiler = boiler
    UtcOffset <- MC_UtcOffset
    Installations = {boiler}
    Intervals = {6}
    Presses = {p1, p2}
    Days <- MC_MidnightDays
    OfficeDates <- MC_Midnight
    FirstDate <- MC_FirstMidnight
    ChangesDuringPress = FALSE
    MaxOrders = 3
INVARIANTS
    OneOrderPerTerm
