\* Every timeout and wake-up is enabled.  Three links and as many commands: a
\* command may outlive its link and a link may come back unseen, twice.
CONSTANTS
  SlowEnds = TRUE
  WakeEnds = TRUE
  NfcWakes = TRUE
  MaxLinks = 3
  MaxCommands = 3
  MaxFailures = 1
SPECIFICATION MsmFairSpec
INVARIANTS
  AsleepIsSilent
  ProcessRunsAgain
  SubscriptionOfThisLink
PROPERTIES
  FollowsLink
  Reachable
