SPECIFICATION FramesSpec
CONSTANTS
  KEEP_WIDTH = 3
  TOTAL_LENGTH = 4
  SUB_HEADER_BYTES = 2
  COUNTER_MOD = 2
  KEEP_ALWAYS = FALSE
  Fields <- MCFields
  SubFields <- MCSubFields
  message_count_field = "count"
  length_field = "length"
  DropConditions <- MCDropConditions
  RouteConditions <- MCRouteConditions
  DEFAULT_TDEST = 0
  ConfigValues <- MCConfigValues
  CONFIG_DEFAULT <- MCConfigDefault
  Frames <- MCBoundaryFrames
INVARIANTS FieldsCoherent
