SPECIFICATION FieldsSpec
CONSTANTS
  KEEP_WIDTH = 3
  TOTAL_LENGTH = 4
  SUB_HEADER_BYTES = 2
  COUNTER_MOD = 2
  KEEP_ALWAYS = FALSE
  Fields <- MCFields
  SubFields <- MCLengthField
  message_count_field = "count"
  length_field = "length"
  CommonFields <- MCCommonFields
  discriminator = "tag"
  Variants <- MCVariants
  variant_length <- MCVariantLength
  DropConditions <- MCDropConditions
  RouteConditions <- MCRouteConditions
  DEFAULT_TDEST = 0
  ConfigValues = {}
  CONFIG_DEFAULT <- MCConfigDefault
  Frames <- MCFieldFrames
INVARIANTS TypeOK PayloadInStep MessagePublished
PROPERTIES ImplementsReader
