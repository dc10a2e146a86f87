SPECIFICATION Spec
CONSTANTS
    None = None
    Clients <- MCClients
    DocIds <- MCDocIds
    PatchSets <- MCPatchSets
    Imports <- MCImports
    Values <- MCValues
    BlockIds <- MCBlockIds
    MaxCalls = 2
CHECK_DEADLOCK FALSE
INVARIANTS
    CachedPagesNumbered
    UpdatesLostOnlyIfExposed
    PatchSetsAreWhole
PROPERTIES
    BlocksAreConserved
