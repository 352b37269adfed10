\* A configured table, one without a page, and the three special ones.
\* The system may stop: an exception ends the simulator for good.
CONSTANTS
  Byte = {0, 1}
  Configured = {4}
  Unknown = {1}
  Outpc <- MCOutpc
  Text <- MCText
  PageSize = 2
  NewSize = 3
  MaxLength = 5
  Offsets = {0, 1, 2}
  Counts = {1, 2, 4, 5}
  Contents <- MCContents
  MaxFaults = 1
SPECIFICATION Spec
INVARIANTS
  TypeOK
  ClientIsRight
PROPERTIES
  EveryRequestAnswered
CHECK_DEADLOCK FALSE
