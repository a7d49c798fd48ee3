SPECIFICATION FairSpec
CONSTANTS
    g1 = g1  g2 = g2  o1 = o1  o2 = o2  u1 = u1  u2 = u2  u3 = u3
    NoGoal = NoGoal  NoId = NoId  NoObjective = NoObjective
    NoRequest = NoRequest  NoUsage = NoUsage  NoChild = NoChild
    GoalId = {g1}
    Objective = {o1, o2}
    Budget = {}
    UsageId = {}
    Results = {"worked", "cancelled"}
    MayQueue = TRUE
    MaxGeneration = 2
    MaxRuns = 2
    MaxStarts = 2
INVARIANTS TypeOK ChainContinues PromptOnce
PROPERTIES GoalAdvances RunsForCurrentGoal
CHECK_DEADLOCK FALSE
