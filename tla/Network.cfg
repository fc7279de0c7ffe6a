CONSTANTS
    Thread = {t1, t2}
    Block = {"b1", "b2", "c"}
    root <- MCroot
    Representative = TRUE
    MaxPackets = 3
    None = "none"
SPECIFICATION MCSpec
INVARIANTS
    OneChain
    VotedBlockArrived
PROPERTIES
    NoPullLost
    StopEnds
    SilentPeerIsDropped
    Converged
    ServesTheRequest
CHECK_DEADLOCK FALSE
