SPECIFICATION FramesSpec
CONSTANTS
  KEEP_WIDTH = 2
  TOTAL_LENGTH = 4
  LENGTHS = {1, 2, 3, 4, 5, 6, 7}
  BAD_LENGTHS = {3, 4, 6}
  COUNTER_MOD = 3
  KEEP_ALWAYS = TRUE
  Fields <- MCFields
  DropConditions <- MCDropConditions
  RouteConditions <- MCRouteConditions
  DEFAULT_TDEST = 3
  ConfigValues <- MCConfigValues
  CONFIG_DEFAULT <- MCConfigDefault
  Frames <- MCFrames
INVARIANTS PayloadIntegrity
PROPERTIES ImplementsFilter
