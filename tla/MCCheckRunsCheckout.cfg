SPECIFICATION Spec
CONSTANTS
  run1 = run1
  run2 = run2
  Runs <- MCRuns
  Fixtures <- MCFixtures
  Tracked = {}
  Elsewhere = {"checkout"}
  MaxProtocol = 1
  MaxEdits = 0
  MaxUpdates = 1
  MaxCommits = 1
  InGit = TRUE
  CacheIgnored = TRUE
  ProbesMayFail = FALSE
  StatusMayFail = FALSE
  EditsDuringRuns = FALSE
INVARIANT
  HitsMatchFixtures
\* Every run ends, and the bounds stop the world.
CHECK_DEADLOCK FALSE
