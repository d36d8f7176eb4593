SPECIFICATION LiveSpec
CONSTANTS
    t1 = t1
    undefined = undefined
    lower <- MC_lower
    slug <- MC_slug
    Shelves <- MC_Shelves
    EntriesOf <- MC_EntriesOf
    Tenants = {t1}
    ChunkSize = 2
    Faults = {"database", "kill"}
    MaxFaults = 2
INVARIANTS
    NeverRefused
    ImportedAsPlanned
    BuildingsAreOne
    InstallationsFollowTheirBuildings
    AssignmentsResolve
    CustomerIsTheOwner
PROPERTIES
    ImportsComplete
