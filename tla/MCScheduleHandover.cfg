SPECIFICATION Spec
CONSTANTS
    A = A
    B = B
    NoConfig = NoConfig
    Config <- MCConfig
    Day <- MCDay
    Plan <- MCPlan
    Rank <- MCRank
    Offsets <- MCOffsets
    BaseTolerance = 1
    Safety = 0
    Drift = 4
    PollInterval = 2
    Horizon = 2
    Interventions = 0
CONSTRAINT Prompt
INVARIANT ScheduleObeyed
