SPECIFICATION FramesSpec
CONSTANTS
  KEEP_WIDTH = 4
  TOTAL_LENGTH = 5
  LENGTHS = {3, 4, 5, 6, 7, 8, 9, 10, 11, 12, 13}
  BAD_LENGTHS = {5, 8, 10, 12}
  COUNTER_MOD = 2
  KEEP_ALWAYS = TRUE
  Fields <- MCFields
  DropConditions <- MCDropConditions
  RouteConditions <- MCRouteConditions
  DEFAULT_TDEST = 3
  ConfigValues <- MCConfigValues
  CONFIG_DEFAULT <- MCConfigDefault
  Frames <- MCFrames
INVARIANTS FramesInv TypeOK PayloadIntegrity FrameBoundary ErrorFlag OnlyAccepted FieldsCoherent
PROPERTIES HeldUntilAccepted FrameCompletes ImplementsFilter
