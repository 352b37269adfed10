SPECIFICATION FairSpec
CONSTANTS
  Clients = {c1, c2}
  None = none
  Backlog = 1
  MaxFaults = 3
INVARIANTS
  TypeOK
  NoDescriptorLost
  NoConnectionLost
  FreedLast
PROPERTIES
  Served
  ShutdownCompletes
  ComesBack
