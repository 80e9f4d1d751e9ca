SPECIFICATION Spec
CONSTANTS
  RouteTables <- OneCatalog
  DeclaredSets <- AllDeclared
  AllowChoices <- Yes
  OutageChoices <- Both
  PrefixConfigured = FALSE
  Misrouted <- NoRoute
  Rejections <- NoRejections
  ScratchReused = FALSE
  Crashes = FALSE
  MaxFaults = 0
  MaxRuns = 2
PROPERTIES DeadRunKeepsEvidence
CHECK_DEADLOCK FALSE
