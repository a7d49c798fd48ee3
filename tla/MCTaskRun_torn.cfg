SPECIFICATION Spec
CONSTANTS
    NChecks = 2
    Privileged = {2}
    MaxAttempts = 1
    MaxEdits = 1
    MaxCrashes = 1
    MaxFaults = 1
INVARIANTS ChangedCandidateNotReused
CHECK_DEADLOCK FALSE
