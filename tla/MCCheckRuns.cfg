SPECIFICATION Spec
CONSTANTS
  run1 = run1
  run2 = run2
  Runs <- MCRuns
  Fixtures <- MCFixtures
  Tracked = {"fixtures"}
  Elsewhere = {"checkout"}
  MaxProtocol = 2
  MaxEdits = 1
  MaxUpdates = 1
  MaxCommits = 2
  InGit = TRUE
  CacheIgnored = TRUE
  ProbesMayFail = TRUE
  StatusMayFail = TRUE
  EditsDuringRuns = TRUE
INVARIANTS
  TypeOK
  ProbedHitsAreNotFromAnOlderNetwork
  EntriesMatchTheirProtocol
  CleanHitsMatchFixtures
SYMMETRY RunSymmetry
\* Every run ends, and the bounds stop the world.
CHECK_DEADLOCK FALSE
