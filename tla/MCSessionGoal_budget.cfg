SPECIFICATION Spec
CONSTANTS
    g1 = g1  g2 = g2  o1 = o1  o2 = o2  u1 = u1  u2 = u2  u3 = u3
    NoGoal = NoGoal  NoId = NoId  NoObjective = NoObjective
    NoRequest = NoRequest  NoUsage = NoUsage  NoChild = NoChild
    GoalId = {g1}
    Objective = {o1, o2}
    Budget = {2}
    UsageId = {u1, u2, u3}
    Results = {"worked"}
    MayQueue = FALSE
    MaxGeneration = 2
    MaxRuns = 1
    MaxStarts = 1
SYMMETRY Interchangeable
INVARIANTS ActiveAffordable UsageExact
PROPERTIES CompletesWhatItSaw
CHECK_DEADLOCK FALSE
