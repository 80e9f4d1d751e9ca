SPECIFICATION Spec
CONSTANTS
  Hosts <- TwoHosts
  GlobalHosts <- AgyIsGlobal
  Configs <- SomeConfigs
  Rounds = 1
  MaxCalls = 1
  MaxRuns = 2
  MaxTroubles = 1
INVARIANTS TypeOK OnlyItsServer OwnTrace UntooledIsHonest FileIsComplete ReplayHonest
PROPERTIES RescoreKeepsHistory
CHECK_DEADLOCK FALSE
