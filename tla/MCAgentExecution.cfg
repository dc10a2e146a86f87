SPECIFICATION AgentSpec
CONSTANTS
    a1 = a1
    Agents <- MCAgents
    Goals <- MCGoals
    ToolNames <- MCToolNames
    MaxGlobalEntries = 3
    None = None
INVARIANTS OutcomeMatchesPlan
PROPERTY AcceptedGoalSettles
