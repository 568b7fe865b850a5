CONSTANTS
  Clients = {c1, c2}
  Services = {s1}
  NULL = NULL
  MaxTroubles = 1
SPECIFICATION FairSpec
INVARIANTS
  TypeOK
  FileLeadsToListener
  CommittedOnce
  AutostartWorks
PROPERTIES
  DrainsUnlessUnread
CHECK_DEADLOCK FALSE
