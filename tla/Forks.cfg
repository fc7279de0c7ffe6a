CONSTANTS
    Hash <- Hashes
    Block <- Blocks
    Age <- Ages
    Account = {"G", "A", "B"}
    Reserved = {"B"}
    Zero = "0"
    Genesis = "g0"
    GenesisAccount = "G"
    MaxAmount = 3
    BlockInfoMax = 2
    Incoming = {"b1", "b2", "b3"}
    Fork = {"b2", "b3"}
    Caller = {"c1"}
    MaxBatch = 2
SPECIFICATION MCSpec
INVARIANTS
    SupplyIsConserved
    WeightIsDelegated
    TablesAgree
    LookupsAgree
    SendsSettleOnce
    AnswersAgree
    NothingWaitsInVain
PROPERTIES
    RollbackIsSafe
    ImplementsLattice
    ForcedIsNotForked
    OrderDoesNotMatter
    FlushedIsStored
    FlushReturns
    ConfirmedIsTold
CHECK_DEADLOCK FALSE
