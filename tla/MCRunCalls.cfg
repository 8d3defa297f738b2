\* RunCompletes subsumes the absence of deadlock.
SPECIFICATION FairSpec
CONSTANTS
  FixtureIds <- MCFixtureIds
  Plan <- MCPlan
  Stems <- MCFixtureIds
  Stem <- MCStem
  EarlierResults <- MCEarlierResults
  StoresMayFail = FALSE
  Concurrencies = {0, 2}
  NoEntry = NoEntry
  Limits = {2}
  Values <- MCValues
  Exchanges <- MCExchanges
INVARIANTS
  ServerLoadIsBounded
  ReportTellsOwnCall
PROPERTIES
  EachCallIsAClient
  RunsAsExecution
  RunCompletes
CHECK_DEADLOCK FALSE
