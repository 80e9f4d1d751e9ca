SPECIFICATION FairSpec
CONSTANTS
  RouteTables <- AllCatalogs
  DeclaredSets <- SomeDeclared
  AllowChoices <- Both
  OutageChoices <- Both
  PrefixConfigured = FALSE
  Misrouted <- NoRoute
  Rejections <- TwoRejections
  ScratchReused = TRUE
  Crashes = TRUE
  MaxFaults = 1
  MaxRuns = 2
ACTION_CONSTRAINT Calm
INVARIANTS TypeOK NamesTracked NoFalseCredit NothingLeftBehind NoFalseFailure MissingRouteScored
PROPERTIES DeadReadPassKeepsEvidence PassEnds
CHECK_DEADLOCK FALSE
