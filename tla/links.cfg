SPECIFICATION FairSpec
CONSTANTS
    Peers = {"client", "server"}
    Names = {"a", "b"}
    Times = {1, 2}
    Liberties = {}
    MaxCalls = 5
INVARIANTS NeverRefused AgreeAtRest
PROPERTIES RemovedWhenClosed ClosedForGood
CHECK_DEADLOCK FALSE
