SPECIFICATION Spec
CONSTANTS
  CatalogOrder <- TwoCatalogs
  Auth <- OneOfEach
  Considered <- Followed
  Serves <- Answered
  Declares <- Named
  MaxRuns = 3
  MaxTroubles = 1
INVARIANTS RowsSayWhatWasSent PlainEvidenceIsARun AgreementIsReal GateCostForetold
CHECK_DEADLOCK FALSE
