SPECIFICATION FairSpec
CONSTANTS
    Links = {1, 2}
    CreditWindow <- ByHandAndTwo
    Drains = {1}
    Capacity = 2
    Liberties = {}
    MaxGrant = 2
    MaxMessages = 2
INVARIANTS NeverOverdrawn CreditAgrees DrainedMeansNone HeldOnlyByCredit
PROPERTIES DrainIsAnswered SendableIsTold
CHECK_DEADLOCK FALSE
