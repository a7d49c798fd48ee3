SPECIFICATION FairSpec
CONSTANTS
    HistoryLimit = 2
    Capacity = 1
    MaxEvents = 3
    MaxEpoch = 2
    MaxAsks = 2
    MaxFaults = 1
INVARIANTS TypeOK JournalRecoverable
PROPERTIES ImplementsFeed CatchesUp
CHECK_DEADLOCK FALSE
