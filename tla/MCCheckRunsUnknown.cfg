SPECIFICATION Spec
CONSTANTS
  run1 = run1
  run2 = run2
  Runs <- MCRuns
  Fixtures <- MCFixtures
  Tracked = {"fixtures"}
  Elsewhere = {}
  MaxProtocol = 2
  MaxEdits = 0
  MaxUpdates = 0
  MaxCommits = 1
  InGit = TRUE
  CacheIgnored = TRUE
  ProbesMayFail = TRUE
  StatusMayFail = FALSE
  EditsDuringRuns = FALSE
INVARIANT
  HitsAreNotFromAnOlderNetwork
\* Every run ends, and the bounds stop the world.
CHECK_DEADLOCK FALSE
