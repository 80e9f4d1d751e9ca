SPECIFICATION Spec
CONSTANTS
  CatalogOrder <- TwoCatalogs
  Auth <- OneOfEach
  Considered <- Followed
  Serves <- Answered
  Declares <- Named
  MaxRuns = 2
  MaxTroubles = 1
PROPERTIES GoodEvidenceIsKept
CHECK_DEADLOCK FALSE
