SPECIFICATION Spec
CONSTANTS
    Peers = {"client", "server"}
    Names = {"a", "b"}
    Times = {1, 2}
    Liberties = {"early", "late", "reopen"}
    MaxCalls = 4
INVARIANTS TypeOK DetachFindsItsLink
CHECK_DEADLOCK FALSE
