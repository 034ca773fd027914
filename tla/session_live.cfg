SPECIFICATION FairSpec
CONSTANTS
    Links = {0, 1}
    OutCapacity = 2
    InCapacity = 4
    UintModulus = 1024
    CreditWindow <- OneAndEight
    AutoAccept = {0, 1}
    SettledFirst = {}
    SettlesSecond = {}
    Outcomes = {"accepted"}
    Liberties = {}
    MaxDeliveries = 4
    MaxFrames = 2
    MaxGrant = 1
PROPERTY EveryMessageSettled
CHECK_DEADLOCK FALSE
