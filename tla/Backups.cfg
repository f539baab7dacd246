\* The scheduler and a request back up a database that is written and restored.
SPECIFICATION BackupFairSpec
CONSTANTS
  NULL = NULL
  Runners = {"scheduler", "request"}
  Commits = {1, 2}
  Minutes = {1, 2}
  KeepInputs = {0, 1}
  MaxSteps = 2
INVARIANT BackupInv
PROPERTY EventuallySaved
