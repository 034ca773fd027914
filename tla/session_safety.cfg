SPECIFICATION Spec
CONSTANTS
    Links = {0, 1, 2}
    OutCapacity = 2
    InCapacity = 2
    UintModulus = 1024
    CreditWindow <- MixedCredit
    AutoAccept = {0}
    SettledFirst = {2}
    SettlesSecond = {1}
    Outcomes = {"accepted"}
    Liberties = {}
    MaxDeliveries = 3
    MaxFrames = 2
    MaxGrant = 1
INVARIANTS TypeOK NeverOverflows InSequence FlowAccounting CreditCovered PendingIsFound FreedWhenSettled
PROPERTY KeepsContract
CHECK_DEADLOCK FALSE
