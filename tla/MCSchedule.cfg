SPECIFICATION Spec
CONSTANTS
    A = A
    B = B
    NoConfig = NoConfig
    Config <- MCConfig
    Day <- MCDay
    Plan <- MCPlan
    Rank <- MCRank
    Offsets <- MCOffsets
    BaseTolerance = 1
    Safety = 0
    Drift = 4
    PollInterval = 1
    Horizon = 2
    Interventions = 2
INVARIANTS TypeOK NoneSkipped ClockHeld
PROPERTIES DecisionSound EvaluatedOnce SwitchKept
