------------------------------ MODULE Lattice -------------------------------
(***************************************************************************)
(* What the ledger promises, whatever its tables: a set of blocks in which *)
(* every block has what it builds on and no two blocks claim the same      *)
(* place in a chain or the same send.  Blocks come one by one and go one   *)
(* by one, and the genesis block stays.                                    *)
(***************************************************************************)
CONSTANTS
    Hash,
    Genesis,
    Requires,   \* Hash -> the blocks a block builds on: its previous and its source
    Claims      \* Hash -> what a block takes for itself: its root and its source

VARIABLE ledger

Init == ledger = {Genesis}

Add(h) ==
    /\ h \notin ledger
    /\ ledger' = ledger \cup {h}
    /\ Requires[h] \subseteq ledger
    /\ \A x \in ledger : Claims[x] \cap Claims[h] = {}

Remove(h) ==
    /\ h \in ledger \ {Genesis}
    /\ ledger' = ledger \ {h}
    /\ \A x \in ledger : h \notin Requires[x]

Next == \E h \in Hash : Add(h) \/ Remove(h)

Spec == Init /\ [][Next]_ledger

-----------------------------------------------------------------------------
\* Every stored block has its previous block and its source stored.
Closed == \A h \in ledger : Requires[h] \subseteq ledger

\* No two stored blocks take the same place in a chain or receive the same send.
NoForks == \A x, y \in ledger : x # y => Claims[x] \cap Claims[y] = {}

\* The genesis block is always stored.
GenesisStays == Genesis \in ledger
=============================================================================
