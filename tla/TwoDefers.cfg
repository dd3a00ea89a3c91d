SPECIFICATION TwoDefersSpec
CONSTANTS
    Keywords <- SomeKeywords
    IntSuffixes <- SomeIntSuffixes
    FloatSuffixes <- SomeFloatSuffixes
    MAX_SOURCE_LEN = 5
    MAX_DEPTH = 6
    MAX_POSTFIX_CHAIN = 3
    MAX_ATTR_SCAN = 6
    MaxInt = 9
    MaxFrames = 3
    NORMALISE_DEPTH_MAX = 3
    LIN_DEPTH_MAX = 64
    MAX_LIST = 65535
    MAX_FN_PARAMS = 255
    MAX_KEY_DEPTH = 8
    WIDE = 2
    Widths <- ScaledWidths
INVARIANT DeferredPlacesLive
CHECK_DEADLOCK FALSE
