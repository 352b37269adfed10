SPECIFICATION FairSpec
CONSTANTS
  K = 5
  MaxUnanswered = 2
  MaxFaults = 3
  BackoffInitial = 1000
  BackoffMax = 30000
  MaxFailures = 6
INVARIANTS
  TypeOK
  FlushResynchronises
  RetryRate
PROPERTIES
  KeepsGoing
