SPECIFICATION FramesSpec
CONSTANTS
  KEEP_WIDTH = 2
  COUNTER_MOD = 2
  KEEP_ALWAYS = TRUE
  forward = TRUE
  CommonFields <- MCCommonFields
  discriminator = "tag"
  Variants <- MCVariants
  variant_length <- MCVariantLength
  Frames <- MCFrames
INVARIANTS TypeOK Published Framing
PROPERTIES ImplementsReader
