\* One subject in each behaviour; these constants are for the engine.
CONSTANTS
  Ticks = {0, 1, 5, 90}
  Timers = {20}
  IdleRpm = {830, 870}
  IdleMap = {28}
  CruiseRpm = {2700, 2900}
  CruiseTps = {28}
  CruiseMap = {60}
  NoNumber = NoNumber
  IniLines <- MCLines
  IniNames = {"map"}
  Projects <- MCProjects
  MaxDepth = 2
  MaxNest = 3
  MaxLines = 7
  OutpcChannels <- MCChannels
  DebugChannels <- MCDebugChannels
  OutpcSize = 16
  EngineStates <- MCEngines
SPECIFICATION AnySpec
INVARIANTS
  TypesOK
  InRange
  BlocksAreShown
  IniIsRead
  TuneIsRead
  TextsAreRead
CHECK_DEADLOCK FALSE
