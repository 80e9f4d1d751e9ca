SPECIFICATION Spec
CONSTANTS
  Axes <- SomeAxes
  Legs <- OneLeg
  Catalogs <- TwoCatalogs
  Repeat = 1
  Times <- TwoTimes
  Bodies <- Answers
  Known <- SomeKnown
  MaxRuns = 4
  MaxPublications = 2
  MaxTroubles = 1
ACTION_CONSTRAINTS FirstTakesOne Calm Prompt FewOrSmooth
INVARIANTS TypeOK UnansweredNeverPublished RowsHaveCaptures DifferencesAreTold IdentifiersMasked NothingPublishedIsLost
CHECK_DEADLOCK FALSE
