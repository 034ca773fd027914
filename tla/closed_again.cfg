SPECIFICATION Spec
CONSTANTS
    MaxSockets = 2
    ReconnectLimit = 0
    Liberties = {"loss"}
    MaxCalls = 2
PROPERTY ClosedStaysClosed
CHECK_DEADLOCK FALSE
