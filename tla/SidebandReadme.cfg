SPECIFICATION FramesSpec
CONSTANTS
  KEEP_WIDTH = 4
  TOTAL_LENGTH = 34
  LENGTHS = {}
  BAD_LENGTHS = {}
  COUNTER_MOD = 2
  KEEP_ALWAYS = TRUE
  Fields <- ReadmeFields
  DropConditions <- ReadmeDropConditions
  RouteConditions <- NoRoutes
  DEFAULT_TDEST = 0
  ConfigValues = {}
  CONFIG_DEFAULT <- NoConfig
  Frames <- ReadmeFrames
INVARIANTS PayloadIntegrity
