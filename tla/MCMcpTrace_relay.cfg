SPECIFICATION FairSpec
CONSTANTS
  Kinds <- ThreeKinds
  Noise <- PlainText
  Deaths = TRUE
  PipeCap = 1
  MaxFrames = 3
INVARIANTS TypeOK TraceIsExact ClosedTraceIsWhole
PROPERTIES NeitherNotices Answered ProxyEnds
CHECK_DEADLOCK FALSE
