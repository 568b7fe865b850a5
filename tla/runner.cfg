CONSTANTS
  Leader = Leader
  Descendants = {d1}
  RequestSizes <- MCRequestSizes
  RequestLimit = 3
  ResponseLimit = 1
  PipeSize = 2
  MaxOutput = 3
SPECIFICATION FairSpec
INVARIANTS
  TypeOK
  GroupGone
  AnswerIsWhole
PROPERTIES
  EndsUnlessHeld
CHECK_DEADLOCK FALSE
