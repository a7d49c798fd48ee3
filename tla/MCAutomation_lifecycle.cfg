\* An interval in fresh sessions and a once automation in a session a user works in; pauses,
\* resumes, shutdown and one crash.
CONSTANTS
  a1 = a1
  a2 = a2
  s1 = s1
  Automation = {a1, a2}
  NoAutomation = NoAutomation
  NFire = 3
  Session = {s1}
  NoSession = NoSession
  Primary = s1
  Kind <- MixedKind
  Target <- MixedTarget
  Interval <- EveryTick
  OnceAt <- AtOne
  CronNext <- NoCron
  MaxFires <- MixedMaxFires
  Expiry <- MixedExpiry
  PauseAfter = 2
  MaxConcurrent = 2
  DiscoveryLimit = 1
  DeferDelay = 1
  MaxTime = 2
  MaxCrashes = 1
  Commands = {"pause", "resume", "stop", "user"}
SPECIFICATION Spec
INVARIANTS TypeOK AtMostOneRun BudgetRespected OutcomeProven ActiveIsHealthy
PROPERTIES NoRunWhenRetired PauseNotOverridden MissedPeriodsSkipped ImplementsLedger
CHECK_DEADLOCK FALSE
