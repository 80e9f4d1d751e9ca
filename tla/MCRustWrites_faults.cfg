SPECIFICATION FairSpec
CONSTANTS
  Catalogs <- SomeCatalogs
INVARIANTS TypeOK ReportMatchesWire MissingOnlyAfterAbort ControlIsGreen NothingLeft
PROPERTIES RunEnds
CHECK_DEADLOCK FALSE
