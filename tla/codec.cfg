SPECIFICATION Spec
CONSTANTS
    Base = 4
    FirstBuffer = 4
    SafeHigh = 9
    Samples <- SampleValues
    Values <- SampleTypes
    FieldValues <- TwoValues
    MaxFields = 2
    Channels <- TwoChannels
    Payloads <- TwoPayloads
    Bodies <- SomeBodies
    Maps <- OneMap
INVARIANTS ValuesComeBack SizesAreTrue NothingIsLost FramesComeBack MessagesComeBack
CHECK_DEADLOCK FALSE
