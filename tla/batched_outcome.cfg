SPECIFICATION Spec
CONSTANTS
    Links = {0}
    OutCapacity = 2
    InCapacity = 2
    UintModulus = 1024
    CreditWindow <- PrefetchTwo
    AutoAccept = {}
    SettledFirst = {}
    SettlesSecond = {}
    Outcomes = {"accepted", "released"}
    Liberties = {}
    MaxDeliveries = 2
    MaxFrames = 1
    MaxGrant = 1
INVARIANT OutcomeIsGiven
CHECK_DEADLOCK FALSE
