SPECIFICATION Spec
CONSTANTS
    e1 = e1
    e2 = e2
    Agents <- MCExchanges
    Goals <- MCGoals
    ToolNames <- MCToolNames
    MaxGlobalEntries = 3
    None = None
CHECK_DEADLOCK FALSE
INVARIANTS ActiveAreTheRuns OkMeansDone StreamIsWellFormed
 
