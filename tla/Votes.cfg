CONSTANTS
    r1 = r1
    r2 = r2
    r3 = r3
    t1 = t1
    t2 = t2
    w1 = w1
    Rep = {r1, r2, r3}
    Own = {}
    Weight <- Weights
    Blocks = {1, 2}
    Stake = 500
    Minimum = 200
    Quorum = 50
    Votes <- SettledVotes
    Thread = {t1, t2}
    MaxSequence = 2
    MaxElections = 2
    AnnouncementMin = 2
    Voter = {r1}
    Reader = {t1, t2}
    Writer = {w1}
    MaxNumber = 4
    MaxCrashes = 1
SPECIFICATION MCSpec
INVARIANTS
    IssuedIsKnown
    ConfirmedOnce
    OneThreadWinnerLeads
PROPERTIES
    StoredVotesAdvance
    LatestAdvances
    
    StakeIsSum
    WantedIsFetched
    OneThreadConfirmsByQuorum
    ElectionEnds
CHECK_DEADLOCK FALSE
