-------------------------- MODULE LedgerProperties --------------------------
(***************************************************************************)
(* What the ledger must keep true.  The reference definitions below say    *)
(* what a block means from its content alone; the ledger's tables cache    *)
(* the same facts and its visitors recompute them with shortcuts.          *)
(***************************************************************************)
EXTENDS Ledger

\* The balance of an account right after h, the amount h moves.
Reference[q \in {"balance", "amount"} \X Link] ==
    LET x == q[2]
        b == Block[x]
    IN  CASE x = GenesisAccount -> MaxAmount
          [] x \in Address \ {GenesisAccount} -> 0
          [] x \in Hash /\ q[1] = "balance" ->
               (CASE b.type \in {"send", "state"} -> b.balance
                  [] b.type = "change" -> Reference[<<"balance", b.previous>>]
                  [] b.type \in {"receive", "open"} ->
                       Reference[<<"balance", b.previous>>] + Reference[<<"amount", b.link>>])
          [] x \in Hash /\ q[1] = "amount" ->
               (CASE b.type \in {"send", "state"} -> Difference(Reference[<<"balance", b.previous>>], b.balance)
                  [] b.type \in {"receive", "open"} -> Reference[<<"amount", b.link>>]
                  [] b.type = "change" -> 0)
BalanceAfter(h) == Reference[<<"balance", h>>]
AmountOf(h) == Reference[<<"amount", h>>]

IsSend(h) ==
    \/ Block[h].type = "send"
    \/ Block[h].type = "state" /\ Block[h].balance < BalanceAfter(Block[h].previous)
\* The send that h receives, if any.
SourceOf(h) ==
    IF h # Genesis /\ Block[h].type \in {"receive", "open", "state"} /\ ~IsSend(h) THEN Block[h].link ELSE Zero

\* h and every block that h names, directly or not.
Named(h) == {Block[h].previous, SourceOf(h)} \cap Hash
Ancestors[h \in Hash] == {h} \cup UNION {Ancestors[x] : x \in Named(h)}

NamesRepresentative(h) == Block[h].type \in {"open", "change", "state"}
Stored == DOMAIN blocks
Heads == {accounts[a].head : a \in DOMAIN accounts}
ChainOf(a) == {h \in Stored : Block[h].signer = a}
Quiet == rollbacks = <<>>

-----------------------------------------------------------------------------
\* Every table holds what its code type allows: hashes, accounts and 128 bit
\* amounts, and the rollback stack holds well-formed calls.
TypeOK ==
    /\ DOMAIN blocks \subseteq Hash
    /\ blocks \in [DOMAIN blocks -> Hash \cup {Zero}]
    /\ DOMAIN accounts \subseteq Account
    /\ accounts \in [DOMAIN accounts -> [head : Hash, rep_block : Hash, open_block : Hash,
                                         balance : Amount, block_count : Nat]]
    /\ DOMAIN frontiers \subseteq Hash
    /\ frontiers \in [DOMAIN frontiers -> Account]
    /\ DOMAIN pending \subseteq Link \X Hash
    /\ pending \in [DOMAIN pending -> [source : Account, amount : Amount]]
    /\ DOMAIN block_info \subseteq Hash
    /\ block_info \in [DOMAIN block_info -> [account : Account, balance : Amount]]
    /\ representation \in [Address -> Amount]
    /\ checksum \subseteq Hash
    /\ rollbacks \in Seq(Frame)

\* No processing and no step of a rollback creates or destroys funds: balances
\* and pending amounts always add up to the genesis amount.
SupplyIsConserved ==
    SumFunction([a \in DOMAIN accounts |-> accounts[a].balance])
        + SumFunction([k \in DOMAIN pending |-> pending[k].amount]) = MaxAmount

\* Between operations the voting weight of a representative is the sum of the
\* balances of the accounts whose rep_block names it, although process and
\* rollback only ever add wrapped differences to the representation table.
WeightIsDelegated ==
    Quiet => \A rep \in Address :
        LET delegators == {a \in DOMAIN accounts : Block[accounts[a].rep_block].representative = rep}
        IN  representation[rep] = SumFunction([a \in delegators |-> accounts[a].balance])

\* The frontier table lists exactly the heads that are legacy blocks, so that
\* the asserts `info.head == previous' in change_block and send_block hold and
\* no legacy block can be put on top of a state block.
FrontiersAreLegacyHeads ==
    frontiers = [h \in {x \in Heads : Block[x].type \in LegacyType} |-> Block[h].signer]

\* Stored blocks form unbranched chains: the previous block is stored and its
\* record names the block as successor; only heads have no successor.
ChainsAreLinked ==
    \A h \in Stored :
        /\ Block[h].previous # Zero => block_successor(Block[h].previous) = h
        /\ IF blocks[h] = Zero THEN h \in Heads
           ELSE blocks[h] \in Stored /\ Block[blocks[h]].previous = h

\* account_info describes the account's chain: its head and open block are
\* stored blocks signed by the account, block_count is the length of the chain,
\* the balance is what the history of the head implies, and rep_block is the
\* last block of the chain that names a representative.
AccountInfoIsChain ==
    \A a \in DOMAIN accounts :
        /\ {accounts[a].head, accounts[a].open_block, accounts[a].rep_block} \subseteq ChainOf(a)
        /\ Block[accounts[a].open_block].previous = Zero
        /\ accounts[a].block_count = Cardinality(ChainOf(a))
        /\ accounts[a].balance = BalanceAfter(accounts[a].head)
        /\ \A h \in ChainOf(a) : NamesRepresentative(h) => Age[h] <= Age[accounts[a].rep_block]
        /\ NamesRepresentative(accounts[a].rep_block)

\* What the ledger recomputes by walking (with the block_info shortcuts) agrees
\* with the blocks' history: account() finds the account that signed the block,
\* balance() and amount() what the history implies, and representative() of a
\* head the rep_block of its account.
WalksAgree ==
    /\ \A h \in Stored :
          /\ account(h) = Block[h].signer
          /\ balance(h) = BalanceAfter(h)
          /\ amount(h) = AmountOf(h)
    /\ \A a \in DOMAIN accounts : representative(accounts[a].head) = accounts[a].rep_block

\* A stored send is either pending, with the amount it sent, or has been
\* received by exactly one stored block of its destination; nothing else is
\* pending.  No send is ever received twice, lost, or re-created by a rollback.
SendsSettleOnce ==
    LET receivers(s) == {r \in Stored : SourceOf(r) = s}
        sends == {s \in Stored : IsSend(s)}
        waiting == {s \in sends : receivers(s) = {}}
    IN  /\ pending = [k \in {<<Block[s].link, s>> : s \in waiting} |->
                        [source |-> Block[k[2]].signer, amount |-> AmountOf(k[2])]]
        /\ \A s \in sends : \A r, q \in receivers(s) : r = q /\ Block[r].signer = Block[s].link
        /\ \A r \in Stored : SourceOf(r) # Zero => SourceOf(r) \in sends

\* The checksum is the XOR of the heads of all accounts.
ChecksumOfHeads == checksum = Heads

\* The tables that process and rollback update one by one describe the same
\* chains at every step: linked blocks, account records, legacy frontiers and the
\* checksum of the heads.
TablesAgree ==
    TypeOK /\ ChainsAreLinked /\ AccountInfoIsChain /\ FrontiersAreLegacyHeads /\ ChecksumOfHeads

\* The previous block of a state block can be one of another account's chain.
BuildsOnOwnChain(h) ==
    Block[h].type = "state" /\ Block[h].previous \in Stored => Block[Block[h].previous].signer = Block[h].signer

\* A block that process calls a fork has a competitor in the ledger, and the
\* two lookups the node uses for it, forked_block for an election and successor
\* for the rollback, both find that competitor.  (state_block_impl also says fork
\* of a state block that names a block of another account's chain; when that is
\* the head of its chain there is no competitor to find.)
ForksFindTheirCompetitor ==
    Quiet => \A h \in Hash : process_code(h) = "fork" /\ BuildsOnOwnChain(h) =>
        /\ forked_block(h) \in Stored \ {h}
        /\ root(forked_block(h)) = root(h)
        /\ successor(root(h)) = forked_block(h)

\* A block_info record of a stored block is right.  A legacy block at a multiple
\* of block_info_max has one, and takes it along when it is rolled back; a
\* record that outlives its block belongs to a state block.
BlockInfoIsRight ==
    LET height(h) == Cardinality({x \in ChainOf(Block[h].signer) : x \in Ancestors[h]})
    IN  /\ \A h \in DOMAIN block_info :
              IF h \in Stored
              THEN block_info[h] = [account |-> Block[h].signer, balance |-> BalanceAfter(h)]
              ELSE Block[h].type = "state"
        /\ \A h \in Stored :
              Block[h].type \in LegacyType /\ height(h) % BlockInfoMax = 0 => h \in DOMAIN block_info

\* Every shortcut gives what the history of the blocks gives: the visitors' walks,
\* the block_info snapshots they stop at, and the two lookups of a fork's
\* competitor, although process and rollback keep each of them up by hand.
LookupsAgree == WalksAgree /\ BlockInfoIsRight /\ ForksFindTheirCompetitor

\* What the rollback code asserts or dereferences is there: the account of the
\* running call has a stored head, a block under visit is still the head of its
\* account after the nested calls, and a send that is not pending has a
\* destination with a block to roll back.
RollbackFindsItsBlocks ==
    rollbacks # <<>> =>
        LET top == Head(rollbacks)
        IN  /\ block_exists(top.block) => top.account \in DOMAIN accounts
            /\ top.visit # Zero => top.visit \in Heads
            /\ top.visit # Zero /\ VisitedIsSend(top.visit) /\ VisitedKey(top.visit) \notin DOMAIN pending =>
                  latest(Block[top.visit].link) \in Stored

\* A step removes only blocks that depend on the block the rollback was called
\* for (`roll back any dependent blocks'): later blocks of the chain, receives of
\* what they sent, and so on.
RemovesDependents == \A h \in Stored \ Stored' : rollbacks[Len(rollbacks)].block \in Ancestors[h]

\* A rollback removes only dependent blocks, nothing it asserts or dereferences
\* is missing meanwhile, and it ends, however deep its calls nest.
RollbackIsSafe ==
    /\ [][RemovesDependents]_vars
    /\ []RollbackFindsItsBlocks
    /\ []<>(rollbacks = <<>>)

(* value that the definition's body gives f at q, and it looks at f only at  *)
(* arguments of a smaller rank.                                              *)

Recurses(D, V, rank, step) ==
    /\ rank \in [D -> Nat]
    /\ step \in [D \X [D -> V] -> V]
    /\ \A q \in D : \A f, g \in [D -> V] :
          (\A p \in D : rank[p] < rank[q] => f[p] = g[p]) => step[<<q, f>>] = step[<<q, g>>]
Pick(s) == CHOOSE x \in s : TRUE
SumIter(f, S) ==
    CHOOSE iter : iter = [s \in SUBSET S |-> IF s = {} THEN 0 ELSE f[Pick(s)] + iter[s \ {Pick(s)}]]
Question == {"balance", "amount"} \X Link
\* The block that names the representative in force after x.
RepBlock[x \in Link] ==
    IF x \notin Hash THEN Zero
    ELSE IF NamesRepresentative(x) THEN x
    ELSE RepBlock[Block[x].previous]
Legacy(h) == Block[h].type # "state"
Key(s) == <<Block[s].link, s>>
Receipt(r) == <<Block[r].signer, SourceOf(r)>>
\* The tables are finite functions.
Tables ==
    /\ IsFiniteSet(DOMAIN blocks) /\ DOMAIN blocks \subseteq Hash
    /\ blocks \in [DOMAIN blocks -> Hash \cup {Zero}]
    /\ IsFiniteSet(DOMAIN accounts) /\ DOMAIN accounts \subseteq Account
    /\ accounts \in [DOMAIN accounts -> [head : Hash, rep_block : Hash, open_block : Hash,
                                         balance : Amount, block_count : Nat]]
    /\ Genesis \in DOMAIN blocks
\* A stored block is linked to its neighbours and to its account.
BlockLinked(h) ==
    /\ Block[h].signer \in DOMAIN accounts
    /\ Block[h].type \in {"open", "state"} => Block[h].account = Block[h].signer
    /\ Block[h].previous = Zero =>
          Block[h].type \in {"open", "state"} /\ accounts[Block[h].signer].open_block = h
    /\ Block[h].previous # Zero =>
          /\ Block[h].previous \in DOMAIN blocks /\ blocks[Block[h].previous] = h
          /\ Block[Block[h].previous].signer = Block[h].signer
          /\ Legacy(h) => Legacy(Block[h].previous)
    /\ blocks[h] = Zero => accounts[Block[h].signer].head = h
    /\ blocks[h] # Zero => blocks[h] \in DOMAIN blocks /\ Block[blocks[h]].previous = h
Linked == \A h \in DOMAIN blocks : BlockLinked(h)
\* The ends of an account's chain are those its record names.
AccountLinked(a) ==
    /\ accounts[a].head \in DOMAIN blocks /\ Block[accounts[a].head].signer = a
    /\ blocks[accounts[a].head] = Zero
    /\ accounts[a].open_block \in DOMAIN blocks /\ Block[accounts[a].open_block].signer = a
    /\ Block[accounts[a].open_block].previous = Zero
    /\ accounts[a].rep_block = RepBlock[accounts[a].head]
    /\ accounts[a].balance = BalanceAfter(accounts[a].head)
    /\ accounts[a].block_count = Cardinality(ChainOf(a))
Owned == \A a \in DOMAIN accounts : AccountLinked(a)
\* The blocks of a chain are in the order of their age.
Ordered ==
    /\ \A x, y \in DOMAIN blocks : Block[x].signer = Block[y].signer =>
          /\ Age[x] = Age[y] => x = y
          /\ Age[x] < Age[y] => Block[y].previous # Zero /\ Age[x] <= Age[Block[y].previous]
    /\ \A x \in DOMAIN blocks : Age[x] <= Age[accounts[Block[x].signer].head]
\* A send leaves less, a receipt adds what its source sent, nothing else moves
\* an amount.
BlockMeans(h) ==
    /\ BalanceAfter(h) \in Amount /\ AmountOf(h) \in Amount
    /\ IsSend(h) => Block[h].previous # Zero /\ BalanceAfter(h) + AmountOf(h) = BalanceAfter(Block[h].previous)
    /\ SourceOf(h) # Zero =>
          /\ SourceOf(h) \in DOMAIN blocks /\ IsSend(SourceOf(h)) /\ Block[SourceOf(h)].link = Block[h].signer
          /\ AmountOf(h) = AmountOf(SourceOf(h))
          /\ BalanceAfter(h) = BalanceAfter(Block[h].previous) + AmountOf(h)
    /\ ~IsSend(h) /\ SourceOf(h) = Zero /\ h # Genesis =>
          Block[h].previous # Zero /\ BalanceAfter(h) = BalanceAfter(Block[h].previous)
    /\ Block[h].type \in {"receive", "open"} /\ h # Genesis => SourceOf(h) # Zero
Meant == \A h \in DOMAIN blocks : BlockMeans(h)
\* SendsSettleOnce, entry by entry.
Settled ==
    /\ pending = [k \in DOMAIN pending |-> pending[k]]
    /\ \A k \in DOMAIN pending :
          /\ k[2] \in DOMAIN blocks /\ k = Key(k[2]) /\ IsSend(k[2])
          /\ \A r \in DOMAIN blocks : SourceOf(r) # k[2]
          /\ pending[k] = [source |-> Block[k[2]].signer, amount |-> AmountOf(k[2])]
    /\ \A s \in DOMAIN blocks : IsSend(s) /\ (\A r \in DOMAIN blocks : SourceOf(r) # s) => Key(s) \in DOMAIN pending
    /\ \A r, q \in DOMAIN blocks : SourceOf(r) = SourceOf(q) /\ SourceOf(r) # Zero => r = q
    /\ IsFiniteSet(DOMAIN pending)
\* The frontier table has the legacy heads.
Headed ==
    /\ frontiers = [h \in DOMAIN frontiers |-> frontiers[h]]
    /\ \A h \in DOMAIN frontiers : /\ h \in DOMAIN blocks /\ blocks[h] = Zero /\ Legacy(h)
                                   /\ frontiers[h] = Block[h].signer
    /\ \A h \in DOMAIN blocks : blocks[h] = Zero /\ Legacy(h) => h \in DOMAIN frontiers
\* The checksum has all heads; this is lost when the store is opened again.
Summed == checksum = {h \in DOMAIN blocks : blocks[h] = Zero}
\* The number of blocks of the chain up to h.
Height(h) == Cardinality({x \in DOMAIN blocks : Block[x].signer = Block[h].signer /\ Age[x] <= Age[h]})
Info(h) == [account |-> Block[h].signer, balance |-> BalanceAfter(h)]
Snapshots ==
    /\ block_info = [h \in DOMAIN block_info |-> block_info[h]]
    /\ \A h \in DOMAIN block_info :
          /\ h \in Hash /\ block_info[h] = Info(h) /\ Block[h].signer \in Account /\ BalanceAfter(h) \in Amount
          /\ h \notin DOMAIN blocks => ~Legacy(h)
          /\ h \in DOMAIN blocks /\ Legacy(h) => Height(h) % BlockInfoMax = 0
    /\ \A h \in DOMAIN blocks : Legacy(h) /\ Height(h) % BlockInfoMax = 0 => h \in DOMAIN block_info
Balances == [a \in DOMAIN accounts |-> accounts[a].balance]
Amounts == [k \in DOMAIN pending |-> pending[k].amount]
\* The calls of a rollback.  A caller visits the head of its account and waits;
\* whatever an inner call removes is younger than what the callers visit.
FrameOK(i) ==
    LET f == rollbacks[i]
    IN  /\ f.account = Block[f.block].signer /\ f.block # Genesis
        /\ i > 1 => f.visit # Zero
        /\ f.visit # Zero =>
              /\ f.block \in DOMAIN blocks /\ f.visit \in DOMAIN blocks /\ blocks[f.visit] = Zero
              /\ Block[f.visit].signer = f.account /\ Block[f.visit].type \in {"send", "state"}
              /\ Block[f.visit].type = "state" =>
                    f.balance = BalanceAfter(Block[f.visit].previous) /\ f.representative = RepBlock[Block[f.visit].previous]
        /\ rollbacks[Len(rollbacks)].block \in Ancestors[f.block]
Stacked ==
    /\ rollbacks \in Seq(Frame)
    /\ \A i \in 1..Len(rollbacks) : FrameOK(i)
    /\ \A i, j \in 1..Len(rollbacks) : i < j => Age[rollbacks[j].visit] < Age[rollbacks[i].block]
\* A state block's visitor takes the weight away before it takes the block away.
Visited == {rollbacks[i].visit : i \in 1..Len(rollbacks)}
Undone(h) == Block[h].type = "state" /\ h \in Visited
WeighedHead(a) == LET h == accounts[a].head IN IF Undone(h) THEN Block[h].previous ELSE h
ShareAt(h, rep) == IF h # Zero /\ Block[RepBlock[h]].representative = rep THEN BalanceAfter(h) ELSE 0
Shares(rep) == [a \in DOMAIN accounts |-> ShareAt(WeighedHead(a), rep)]
\* Equal modulo 2^128.
Same(x, y) == \E k \in Int : x = y + k * Modulus
Weighed ==
    /\ representation \in [Address -> Amount]
    /\ \A rep \in Address : Same(representation[rep], SumFunction(Shares(rep)))
NewRecord(h) ==
    [head |-> h, rep_block |-> RepBlock[h],
     open_block |-> IF Block[h].previous = Zero THEN h ELSE accounts[Block[h].signer].open_block,
     balance |-> BalanceAfter(h),
     block_count |-> IF Block[h].previous = Zero THEN 1 ELSE accounts[Block[h].signer].block_count + 1]
AddsBlock(h) ==
    /\ h \in Hash /\ h \notin DOMAIN blocks /\ Block[h].signer \in Account
    /\ Block[h].type \in {"open", "state"} => Block[h].account = Block[h].signer
    /\ Block[h].previous = Zero => Block[h].signer \notin DOMAIN accounts /\ Block[h].type \in {"open", "state"}
    /\ Block[h].previous # Zero =>
          /\ Block[h].signer \in DOMAIN accounts /\ accounts[Block[h].signer].head = Block[h].previous
          /\ Legacy(h) => Legacy(Block[h].previous)
    /\ BalanceAfter(h) \in Amount
    /\ blocks' = [x \in DOMAIN blocks \cup {h} |->
                    IF x = h THEN Zero ELSE IF x = Block[h].previous THEN h ELSE blocks[x]]
    /\ accounts' = Put(accounts, Block[h].signer, NewRecord(h))
\* What that means for each entry.
Added(h) ==
    /\ h \in Hash /\ h # Zero /\ h \notin DOMAIN blocks /\ Block[h].signer \in Account
    /\ Block[h].type \in {"open", "state"} => Block[h].account = Block[h].signer
    /\ Block[h].previous = Zero =>
          /\ Block[h].signer \notin DOMAIN accounts /\ Block[h].type \in {"open", "state"}
          /\ \A x \in DOMAIN blocks : Block[x].signer # Block[h].signer
    /\ Block[h].previous # Zero =>
          /\ Block[h].signer \in DOMAIN accounts /\ accounts[Block[h].signer].head = Block[h].previous
          /\ Legacy(h) => Legacy(Block[h].previous)
          /\ Block[h].previous \in DOMAIN blocks /\ Block[Block[h].previous].signer = Block[h].signer
          /\ blocks[Block[h].previous] = Zero
    /\ BalanceAfter(h) \in Amount
    /\ \A x \in DOMAIN blocks : x \in Hash /\ x # h /\ x # Zero
    /\ DOMAIN blocks' = DOMAIN blocks \cup {h} /\ blocks'[h] = Zero
    /\ \A x \in DOMAIN blocks : blocks'[x] = IF x = Block[h].previous THEN h ELSE blocks[x]
    /\ DOMAIN accounts' = DOMAIN accounts \cup {Block[h].signer}
    /\ accounts'[Block[h].signer] = NewRecord(h)
    /\ \A a \in DOMAIN accounts \ {Block[h].signer} : accounts'[a] = accounts[a]
OldRecord(h) ==
    [head |-> Block[h].previous, rep_block |-> RepBlock[Block[h].previous],
     open_block |-> accounts[Block[h].signer].open_block,
     balance |-> BalanceAfter(Block[h].previous),
     block_count |-> accounts[Block[h].signer].block_count - 1]
RemovesBlock(h) ==
    /\ h \in DOMAIN blocks /\ h # Genesis /\ blocks[h] = Zero
    /\ blocks' = [x \in DOMAIN blocks \ {h} |-> IF x = Block[h].previous THEN Zero ELSE blocks[x]]
    /\ accounts' = IF Block[h].previous = Zero THEN Del(accounts, Block[h].signer)
                   ELSE Put(accounts, Block[h].signer, OldRecord(h))
    /\ \A r \in DOMAIN blocks : SourceOf(r) # h
\* What that means for each entry.
Removed(h) ==
    /\ h \in Hash /\ h # Zero /\ h \in DOMAIN blocks /\ blocks[h] = Zero /\ h # Genesis
    /\ \A r \in DOMAIN blocks : SourceOf(r) # h
    /\ Block[h].signer \in DOMAIN accounts /\ accounts[Block[h].signer].head = h
    /\ Block[h].previous = Zero => \A x \in DOMAIN blocks \ {h} : Block[x].signer # Block[h].signer
    /\ Block[h].previous # Zero =>
          /\ Block[h].previous \in DOMAIN blocks \ {h} /\ Block[Block[h].previous].signer = Block[h].signer
          /\ blocks[Block[h].previous] = h
          /\ accounts[Block[h].signer].open_block # h
    /\ \A x \in DOMAIN blocks : x \in Hash /\ x # Zero /\ Block[x].previous # h
    /\ \A x \in DOMAIN blocks \ {h} : blocks[x] # Zero /\ blocks[x] = h => x = Block[h].previous
    /\ DOMAIN blocks' = DOMAIN blocks \ {h}
    /\ \A x \in DOMAIN blocks \ {h} : blocks'[x] = IF x = Block[h].previous THEN Zero ELSE blocks[x]
    /\ DOMAIN accounts' = IF Block[h].previous = Zero THEN DOMAIN accounts \ {Block[h].signer} ELSE DOMAIN accounts
    /\ Block[h].previous # Zero => accounts'[Block[h].signer] = OldRecord(h)
    /\ \A a \in DOMAIN accounts \ {Block[h].signer} : accounts'[a] = accounts[a]
\* What a new block does to the pending table.
AddsValue(h) ==
    /\ AmountOf(h) \in Amount
    /\ Block[h].type \in {"receive", "open"} => SourceOf(h) # Zero
    /\ IsSend(h) =>
          /\ Block[h].previous # Zero /\ BalanceAfter(h) + AmountOf(h) = BalanceAfter(Block[h].previous)
          /\ pending' = Put(pending, Key(h), [source |-> Block[h].signer, amount |-> AmountOf(h)])
    /\ SourceOf(h) # Zero =>
          /\ Receipt(h) \in DOMAIN pending /\ pending[Receipt(h)].amount = AmountOf(h)
          /\ BalanceAfter(h) = BalanceAfter(Block[h].previous) + AmountOf(h)
          /\ pending' = Del(pending, Receipt(h))
    /\ ~IsSend(h) /\ SourceOf(h) = Zero =>
          Block[h].previous # Zero /\ BalanceAfter(h) = BalanceAfter(Block[h].previous) /\ pending' = pending
\* What taking a block away does to the pending table.
RemovesValue(h) ==
    /\ IsSend(h) => Key(h) \in DOMAIN pending /\ pending' = Del(pending, Key(h))
    /\ SourceOf(h) # Zero =>
          pending' = Put(pending, Receipt(h), [source |-> Block[SourceOf(h)].signer, amount |-> AmountOf(h)])
    /\ ~IsSend(h) /\ SourceOf(h) = Zero => pending' = pending
AddsHead(h) ==
    /\ frontiers' = [x \in (DOMAIN frontiers \ {Block[h].previous}) \cup (IF Legacy(h) THEN {h} ELSE {}) |-> Block[x].signer]
    /\ Summed => checksum' = (checksum \ {Block[h].previous}) \cup {h}
RemovesHead(h) ==
    /\ frontiers' = [x \in (DOMAIN frontiers \ {h})
                             \cup (IF Block[h].previous # Zero /\ Legacy(Block[h].previous) THEN {Block[h].previous} ELSE {})
                       |-> Block[x].signer]
    /\ Summed => checksum' = (checksum \ {h}) \cup ({Block[h].previous} \ {Zero})
AddsInfo(h) ==
    block_info' = IF Legacy(h) /\ NewRecord(h).block_count % BlockInfoMax = 0 THEN Put(block_info, h, Info(h)) ELSE block_info
\* What taking a block away does to the snapshots.  A visitor that calls
\* change_latest leaves one for the new head whatever its type.
InfoBefore(h) ==
    IF Legacy(h) /\ Block[h].previous # Zero /\ accounts[Block[h].signer].block_count % BlockInfoMax = 0
    THEN Del(block_info, h) ELSE block_info
RemovesInfo(h) ==
    block_info' = IF Block[h].previous # Zero /\ (accounts[Block[h].signer].block_count - 1) % BlockInfoMax = 0
                  THEN Put(InfoBefore(h), Block[h].previous, Info(Block[h].previous)) ELSE InfoBefore(h)
-----------------------------------------------------------------------------
Weight(s, rep, n) == IF Block[s].representative = rep THEN n ELSE 0
-----------------------------------------------------------------------------
\* The weight of one account follows its head.
WeightMoves(x, y) ==
    /\ representation' \in [Address -> Amount]
    /\ \A r \in Address : Same(representation'[r], representation[r] + (ShareAt(y, r) - ShareAt(x, r)))
\* The tables and what they mean.
Base ==
    Tables /\ Linked /\ Owned /\ Ordered /\ Meant /\ Settled /\ Headed /\ Snapshots /\ SupplyIsConserved
\* What accepting a block does, whatever its type.
Adds(h) == AddsBlock(h) /\ AddsValue(h) /\ AddsHead(h) /\ AddsInfo(h)
\* A head that may be taken away.
Top(h) == h \in DOMAIN blocks /\ blocks[h] = Zero /\ h # Genesis
\* What taking a head away does, whatever its type.
Removes(h) == RemovesBlock(h) /\ RemovesValue(h) /\ RemovesHead(h) /\ RemovesInfo(h)
\* The innermost call has changed to f, the others wait.
TopBecomes(f) ==
    /\ rollbacks' \in Seq(Frame) /\ Len(rollbacks') = Len(rollbacks) /\ rollbacks'[1] = f
    /\ \A i \in 2..Len(rollbacks) : rollbacks'[i] = rollbacks[i]
\* A call is made.
Pushes(f) ==
    /\ rollbacks' \in Seq(Frame) /\ Len(rollbacks') = Len(rollbacks) + 1 /\ rollbacks'[1] = f
    /\ \A i \in 2..(Len(rollbacks) + 1) : rollbacks'[i] = rollbacks[i - 1]
\* The inductive invariant.
IInv == Base /\ Stacked /\ Weighed

\* The ledger with all its tables implements the abstract lattice: process adds
\* one block that conflicts with nothing and has all it builds on, and every
\* step of a rollback removes at most one block, one nothing depends on.
References == [h \in Hash |-> Named(h)]
Places == [h \in Hash |-> {<<"root", root(h)>>} \cup {<<"source", x>> : x \in {SourceOf(h)} \cap Hash}]
Abstract == INSTANCE Lattice WITH ledger <- Stored, Requires <- References, Claims <- Places
ImplementsLattice == Abstract!Spec

\* The checksum is the same when the ledger is loaded again.
ChecksumIsPersistent == [][store_opened => checksum' = checksum]_vars
=============================================================================
