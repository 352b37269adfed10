\* Polls that overlap, while the daemon comes, goes and hangs; or the keys of
\* the drag race, pressed at any moment of up to three countdowns.
CONSTANTS
  Polls = {p1, p2}
  Boot = boot
  Retries = 2
  MaxTime = 2
  SplitTimes <- TwoSplits
  MaxStages = 3
  MaxResets = 1
SPECIFICATION AnySpec
INVARIANTS
  TypesOK
PROPERTIES
  ShownSincePoll
  PageGoesOn
  RunsAreWhole
CHECK_DEADLOCK FALSE
