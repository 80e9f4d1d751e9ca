SPECIFICATION FairSpec
CONSTANTS
  Kinds <- Requests
  Noise <- BareNumber
  Deaths = FALSE
  PipeCap = 2
  MaxFrames = 1
PROPERTIES Answered
CHECK_DEADLOCK FALSE
