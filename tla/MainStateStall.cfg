\* One command with the refresh time 0.
CONSTANTS
  SlowEnds = TRUE
  WakeEnds = TRUE
  NfcWakes = TRUE
  MaxLinks = 1
  MaxCommands = 1
  MaxFailures = 0
SPECIFICATION MsmSpec
INVARIANT NoTimerRuns
