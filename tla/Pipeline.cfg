SPECIFICATION PipelineSpec
CONSTANTS
  KEEP_WIDTH = 10
  TOTAL_LENGTH = 20
  SUB_HEADER_BYTES = 2
  COUNTER_MOD = 2
  KEEP_ALWAYS = TRUE
  Fields <- MCFields
  SubFields <- MCSubFields
  message_count_field = "msg_count"
  length_field = "msg_len"
  DropConditions <- NoConditions
  RouteConditions <- NoRoutes
  DEFAULT_TDEST = 0
  ConfigValues <- MCConfigValues
  CONFIG_DEFAULT <- NoConfig
  CommonFields <- MCCommonFields
  discriminator = "message_type"
  Variants <- MCVariants
  variant_length <- MCLengths
  Frames <- MCFrames
  Asserted <- MCAsserted
INVARIANTS SeqNumCoherent FrameAsTested
PROPERTIES ImplementsFeed
