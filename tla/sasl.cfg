SPECIFICATION FairSpec
CONSTANTS
    Size <- SmallFrames
    Offered <- TwoMechanisms
    Known <- KnownMechanisms
    MaxRounds = 2
    MaxBeats = 2
INVARIANTS TypeOK KeptFromAUnit NothingWaits AcceptedFirst
PROPERTIES NegotiationEnds AcceptedOpens
CHECK_DEADLOCK FALSE
