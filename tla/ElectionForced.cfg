CONSTANTS
    r1 = r1
    r2 = r2
    r3 = r3
    t1 = t1
    t2 = t2
    Rep = {r1, r2, r3}
    Own = {}
    Weight <- Weights
    Blocks = {1, 2}
    Stake = 500
    Minimum = 200
    Quorum = 50
    Votes <- AllVotes
    Thread = {t1}
    MaxSequence = 2
    MaxElections = 1
    AnnouncementMin = 4
SPECIFICATION ThreadsSpec
INVARIANT LedgerHoldsWinner
