SPECIFICATION Spec
CONSTANTS
    Links = {1}
    CreditWindow <- PrefetchFour
    Drains = {1}
    Capacity = 4
    Liberties = {}
    MaxGrant = 0
    MaxMessages = 3
INVARIANT DrainedMeansNone
CHECK_DEADLOCK FALSE
