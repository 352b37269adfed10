SPECIFICATION Spec
CONSTANTS
  Tables = {4, 16}
  Configured = {4}
  Byte = {0, 1}
  PageSize = 2
  MaxFaults = 2
INVARIANTS
  AutoSaved
