SPECIFICATION Spec
CONSTANTS
  FixtureIds <- MCFixtureIds
  Plan <- MCPlan
  Stems <- MCStems
  Stem <- MCStem
  EarlierResults <- MCEarlierResults
  StoresMayFail = TRUE
  Concurrencies = {0, 2}
  NoEntry = NoEntry
INVARIANTS
  TypeOK
  ResultsAreDeterministic
  CallsAreBounded
  NoFixtureLostOrDoubled
  NextRunRepeatsOrRetries
PROPERTIES
  AnswersEachFixtureOnce
  HitsAreLeftAlone
