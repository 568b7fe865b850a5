CONSTANTS
  Leader = Leader
  Descendants = {d1}
  RequestSizes <- MCRequestSizes
  RequestLimit = 3
  ResponseLimit = 1
  PipeSize = 2
  MaxOutput = 3
SPECIFICATION FairSpec
PROPERTIES
  InvocationEnds
CHECK_DEADLOCK FALSE
