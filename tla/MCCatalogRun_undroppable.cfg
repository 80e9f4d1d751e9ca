SPECIFICATION Spec
CONSTANTS
  RouteTables <- Undroppable
  DeclaredSets <- AllDeclared
  AllowChoices <- Yes
  OutageChoices <- No
  PrefixConfigured = FALSE
  Misrouted <- NoRoute
  Rejections <- NoRejections
  ScratchReused = FALSE
  Crashes = FALSE
  MaxFaults = 0
  MaxRuns = 1
INVARIANTS NoInventedOverclaim
CHECK_DEADLOCK FALSE
