\* A heartbeat of the session a user works in and a finite cron bound to the same session;
\* forced runs, deletions and one crash: every admitted fire settles, however often the
\* session is found busy.
CONSTANTS
  a1 = a1
  a2 = a2
  s1 = s1
  Automation = {a1, a2}
  NoAutomation = NoAutomation
  NFire = 2
  Session = {s1}
  NoSession = NoSession
  Primary = s1
  Kind <- SharedKind
  Target <- SharedTarget
  Interval <- EveryOther
  OnceAt <- AtOne
  CronNext <- CronAtOne
  MaxFires <- SharedMaxFires
  Expiry <- NeverExpires
  PauseAfter = 2
  MaxConcurrent = 2
  DiscoveryLimit = 1
  DeferDelay = 1
  MaxTime = 2
  MaxCrashes = 1
  Commands = {"run", "delete", "user"}
SPECIFICATION FairSpec
INVARIANTS RunsExclusive
PROPERTIES FiresSettle
CHECK_DEADLOCK FALSE
