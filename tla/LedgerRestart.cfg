CONSTANTS
    Hash <- Hashes
    Block <- Blocks
    Age <- Ages
    Account = {"G", "A", "B"}
    Reserved = {"B"}
    Zero = "0"
    Genesis = "g0"
    GenesisAccount = "G"
    MaxAmount = 3
    BlockInfoMax = 2
SPECIFICATION RestartSpec
PROPERTIES
    ChecksumIsPersistent
CHECK_DEADLOCK FALSE
