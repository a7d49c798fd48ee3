SPECIFICATION FairSpec
CONSTANTS
    NChecks = 2
    Privileged = {2}
    MaxAttempts = 2
    MaxEdits = 1
    MaxCrashes = 2
    MaxFaults = 1
INVARIANTS TypeOK CompletedOnEvidence ChecksRunOnce NoBlindReplay
PROPERTIES KeepsPromise ComesToRest
CHECK_DEADLOCK FALSE
