SPECIFICATION FramesSpec
CONSTANTS
  KEEP_WIDTH = 4
  TOTAL_LENGTH = 7
  LENGTHS = {8, 14}
  BAD_LENGTHS = {8}
  COUNTER_MOD = 2
  KEEP_ALWAYS = FALSE
  Fields <- MCFields
  DropConditions <- MCDropConditions
  RouteConditions <- MCRouteConditions
  DEFAULT_TDEST = 3
  ConfigValues <- MCConfigValues
  CONFIG_DEFAULT <- MCConfigDefault
  Frames <- MCFrames
INVARIANTS PayloadIntegrity
