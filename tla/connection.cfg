SPECIFICATION FairSpec
CONSTANTS
    MaxSockets = 4
    ReconnectLimit = 2
    Liberties = {}
    MaxCalls = 4
INVARIANTS TypeOK OneSocket FramesInOrder SilenceIsNoticed PeerHearsFromUs AttemptsAreLimited
PROPERTIES ClosedStaysClosed LinkComesBack
CHECK_DEADLOCK FALSE
