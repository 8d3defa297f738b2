SPECIFICATION Spec
CONSTANTS
  FixtureIds <- MCFixtureIds
  Plan <- MCPlan
  Stems <- MCStems
  Stem <- MCStem
  EarlierResults <- MCEarlierResults
  StoresMayFail = FALSE
  Concurrencies = {2}
  NoEntry = NoEntry
INVARIANT
  SameResultsOnEverySchedule
