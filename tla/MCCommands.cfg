SPECIFICATION Spec
CONSTANTS
  NumFiles = 3
  Contents <- MCContents
  Situations <- MCSituations
INVARIANTS
  TypeOK
  PlanAccountsForEveryFile
  PlanFollowsPathOrder
  PlanIsAllOrNothing
  InspectForeseesCheck
  ListingCoversPlan
  RequestsGoToAChosenEndpoint
