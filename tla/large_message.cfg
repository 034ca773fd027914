SPECIFICATION FairSpec
CONSTANTS
    Links = {0}
    OutCapacity = 2
    InCapacity = 2
    UintModulus = 1024
    CreditWindow <- PrefetchTwo
    AutoAccept = {0}
    SettledFirst = {}
    SettlesSecond = {}
    Outcomes = {"accepted"}
    Liberties = {}
    MaxDeliveries = 1
    MaxFrames = 3
    MaxGrant = 1
PROPERTY EveryMessageSettled
CHECK_DEADLOCK FALSE
