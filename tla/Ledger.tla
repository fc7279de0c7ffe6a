------------------------------- MODULE Ledger -------------------------------
(***************************************************************************)
(* The block lattice ledger: rai/ledger.cpp over the LMDB tables of        *)
(* rai/blockstore.cpp.  A table is a partial function from keys to values. *)
(* Ledger::process is one action per block type; ledger::rollback is a     *)
(* recursive call inside one write transaction and is modelled step by     *)
(* step, with the C++ call stack in `rollbacks'.                           *)
(*                                                                         *)
(* A block is known by its hash; Block[h] is the content the hash commits  *)
(* to.  `link' stands for a send's destination, a receive's or an open's   *)
(* source and a state block's link.  `signer' is the account whose key     *)
(* made the signature.                                                     *)
(***************************************************************************)
EXTENDS Integers, Sequences, FiniteSets, Functions

CONSTANTS
    Hash,             \* hashes of the blocks that exist somewhere
    Account,          \* public keys
    Zero,             \* the all-zero 256 bit value: no block, and the burn account
    Block,            \* Hash -> content
    Age,              \* Hash -> when the block was made
    Genesis,          \* hash of the genesis open block
    GenesisAccount,
    MaxAmount,        \* largest uint128_t; also the genesis amount
    BlockInfoMax      \* block_store::block_info_max

Address == Account \cup {Zero}
Link == Hash \cup Address
Amount == 0..MaxAmount
LegacyType == {"send", "receive", "open", "change"}
BlockContent == [type : LegacyType \cup {"state"}, account : Address,
                 previous : Hash \cup {Zero}, link : Link,
                 representative : Address, balance : Amount, signer : Address]

ASSUME LedgerValues ==
    /\ Zero \notin Hash \cup Account
    /\ Hash \cap Account = {}
    /\ MaxAmount \in Nat \ {0}
    /\ BlockInfoMax \in Nat \ {0, 1}

ASSUME GenesisBlock ==
    /\ Block \in [Hash -> BlockContent]
    /\ Genesis \in Hash
    /\ GenesisAccount \in Account
    /\ Block[Genesis].type = "open"
    /\ Block[Genesis].previous = Zero
    /\ Block[Genesis].account = GenesisAccount
    /\ Block[Genesis].signer = GenesisAccount
    /\ Block[Genesis].link = GenesisAccount
    /\ Block[Genesis].representative = GenesisAccount

\* A hash commits to the block's content, so a block can only name blocks that
\* were made before it; an open block names no previous block.
ASSUME HashesAreNotCircular ==
    /\ Age \in [Hash -> Nat]
    /\ \A h \in Hash : \A x \in {Block[h].previous, Block[h].link} \cap Hash : Age[x] < Age[h]
    /\ \A h \in Hash : Block[h].type = "open" => Block[h].previous = Zero

VARIABLES
    blocks,           \* the five block tables: hash -> successor
    accounts,         \* account -> account_info
    frontiers,        \* head hash -> account, for legacy heads only
    pending,          \* <<destination, send hash>> -> pending_info
    block_info,       \* hash -> account and balance, every BlockInfoMax blocks
    representation,   \* account -> delegated weight
    checksum,         \* XOR of hashes: the hashes that occur an odd number of times
    rollbacks         \* call stack of ledger::rollback, innermost call first

store == <<blocks, accounts, frontiers, pending, block_info, representation, checksum>>
vars == <<blocks, accounts, frontiers, pending, block_info, representation, checksum, rollbacks>>

-----------------------------------------------------------------------------
(* LMDB tables.  The few definitions marked `mutant' are plausible mistakes  *)
(* in the definition after them; nothing uses them.                          *)

Put(table, key, value) ==
    [k \in DOMAIN table \cup {key} |-> IF k = key THEN value ELSE table[k]]
Del(table, key) == [k \in DOMAIN table \ {key} |-> table[k]]

NoAccountInfo == [head |-> Zero, rep_block |-> Zero, open_block |-> Zero,
                  balance |-> 0, block_count |-> 0]

account_get(a) == IF a \in DOMAIN accounts THEN accounts[a] ELSE NoAccountInfo
\* frontier_del, then frontier_put
frontier_move(from, to, owner) == Put(Del(frontiers, from), to, owner)
frontier_get(h) == IF h \in DOMAIN frontiers THEN frontiers[h] ELSE Zero
block_exists(h) == h \in DOMAIN blocks
block_successor(h) == IF h \in DOMAIN blocks THEN blocks[h] ELSE Zero

\* block_put also writes the hash into the predecessor's record.
block_put(table, h) ==
    LET written == Put(table, h, Zero)
    IN  IF Block[h].previous = Zero THEN written ELSE Put(written, Block[h].previous, h)

\* mutant
successor_kept(table, h) == table
\* block_successor_clear puts the block again, with no successor.
block_successor_clear(table, h) == block_put(table, h)

\* uint128_t arithmetic wraps.
Modulus == MaxAmount + 1
\* mutant
Unsigned(amount) == amount
Negate(amount) == (Modulus - amount) % Modulus

representation_add(weights, source, amount) ==
    LET rep == Block[source].representative
    IN  [weights EXCEPT ![rep] = (@ + amount) % Modulus]

checksum_update(sum, h) == IF h \in sum THEN sum \ {h} ELSE sum \cup {h}

-----------------------------------------------------------------------------
(* Lookups that walk the lattice *)

\* representative_visitor: the nearest block at or below h that names a
\* representative.  Zero when the walk meets a block that is not stored, where
\* the code asserts.
representative_visitor[x \in Link] ==
    CASE ~block_exists(x) -> Zero
      [] block_exists(x) /\ Block[x].type \in {"open", "change", "state"} -> x
      [] block_exists(x) /\ Block[x].type \in {"send", "receive"} ->
           representative_visitor[Block[x].previous]
representative(h) == representative_visitor[h]

\* balance_visitor and amount_visitor, which call each other.
Difference(x, y) == IF x < y THEN y - x ELSE x - y
visitor[q \in {"balance", "amount"} \X Link] ==
    LET x == q[2]
        b == Block[x]
    IN  CASE x = GenesisAccount -> MaxAmount
          [] x # GenesisAccount /\ ~block_exists(x) -> 0
          [] block_exists(x) /\ q[1] = "balance" ->
               (CASE b.type \in {"send", "state"} -> b.balance
                  [] b.type \in {"receive", "change"} /\ x \in DOMAIN block_info ->
                       block_info[x].balance
                  [] b.type = "change" /\ x \notin DOMAIN block_info ->
                       visitor[<<"balance", b.previous>>]
                  [] b.type = "receive" /\ x \notin DOMAIN block_info ->
                       (visitor[<<"amount", b.link>>] + visitor[<<"balance", b.previous>>]) % Modulus
                  [] b.type = "open" -> visitor[<<"amount", b.link>>])
          [] block_exists(x) /\ q[1] = "amount" ->
               (CASE b.type \in {"send", "state"} ->
                       Difference(b.balance, visitor[<<"balance", b.previous>>])
                  [] b.type \in {"receive", "open"} -> visitor[<<"amount", b.link>>]
                  [] b.type = "change" -> 0)
balance(h) == visitor[<<"balance", h>>]
amount(h) == visitor[<<"amount", h>>]

\* ledger::account: forward along successors to a state block, to a block with
\* an info record, or to the head, whose account is in the frontier table.
account_walk[x \in Hash] ==
    LET next == block_successor(x)
    IN  CASE Block[x].type = "state" -> Block[x].account
          [] Block[x].type # "state" /\ next = Zero -> frontier_get(x)
          [] Block[x].type # "state" /\ next # Zero ->
               IF next \in DOMAIN block_info /\ Block[next].type # "state"
               THEN block_info[next].account
               ELSE account_walk[next]
\* mutant
account_of_head(h) == IF Block[h].type = "state" THEN Block[h].account ELSE frontier_get(h)
account(h) == account_walk[h]

latest(a) == account_get(a).head

\* block::root: the place a block competes for.
root(h) == IF Block[h].previous = Zero THEN Block[h].account ELSE Block[h].previous

is_send(h) == Block[h].previous # Zero /\ Block[h].balance < balance(Block[h].previous)
block_source(h) ==
    CASE Block[h].type \in {"receive", "open"} -> Block[h].link
      [] Block[h].type = "state" /\ ~is_send(h) -> Block[h].link
      [] OTHER -> Zero

\* The stored block that has the place r.
successor(r) == IF r \in DOMAIN accounts THEN accounts[r].open_block ELSE block_successor(r)
forked_block(h) ==
    LET next == block_successor(root(h))
    IN  IF block_exists(next) THEN next ELSE account_get(root(h)).open_block

valid_predecessor(b, p) == b.type = "state" \/ (b.type # "open" /\ p.type \in LegacyType)

-----------------------------------------------------------------------------
(* ledger_processor: the verdict on a block, in the order of the checks *)

send_code(h) ==
    LET b == Block[h]
        owner == frontier_get(b.previous)
    IN  IF block_exists(h) THEN "old"
        ELSE IF ~block_exists(b.previous) THEN "gap_previous"
        ELSE IF ~valid_predecessor(b, Block[b.previous]) THEN "block_position"
        ELSE IF owner = Zero THEN "fork"
        ELSE IF b.signer # owner THEN "bad_signature"
        ELSE IF account_get(owner).balance < b.balance THEN "negative_spend"
        ELSE "progress"

receive_code(h) ==
    LET b == Block[h]
        owner == frontier_get(b.previous)
    IN  IF block_exists(h) THEN "old"
        ELSE IF ~block_exists(b.previous) THEN "gap_previous"
        ELSE IF ~valid_predecessor(b, Block[b.previous]) THEN "block_position"
        ELSE IF ~block_exists(b.link) THEN "gap_source"
        ELSE IF owner = Zero THEN "fork"
        ELSE IF b.signer # owner THEN "bad_signature"
        ELSE IF latest(owner) # b.previous THEN "gap_previous"
        ELSE IF <<owner, b.link>> \notin DOMAIN pending THEN "unreceivable"
        ELSE "progress"

open_code(h) ==
    LET b == Block[h]
    IN  IF block_exists(h) THEN "old"
        ELSE IF ~block_exists(b.link) THEN "gap_source"
        ELSE IF b.signer # b.account THEN "bad_signature"
        ELSE IF b.account \in DOMAIN accounts THEN "fork"
        ELSE IF <<b.account, b.link>> \notin DOMAIN pending THEN "unreceivable"
        ELSE IF b.account = Zero THEN "opened_burn_account"
        ELSE "progress"

change_code(h) ==
    LET b == Block[h]
        owner == frontier_get(b.previous)
    IN  IF block_exists(h) THEN "old"
        ELSE IF ~block_exists(b.previous) THEN "gap_previous"
        ELSE IF ~valid_predecessor(b, Block[b.previous]) THEN "block_position"
        ELSE IF owner = Zero THEN "fork"
        ELSE IF b.signer # owner THEN "bad_signature"
        ELSE "progress"

\* mutant
state_position_any(b, info) ==
    IF b.previous = Zero THEN "fork" ELSE IF ~block_exists(b.previous) THEN "gap_previous" ELSE "progress"
\* The account exists: the block must extend its head.
state_position(b, info) ==
    IF b.previous = Zero THEN "fork"
    ELSE IF ~block_exists(b.previous) THEN "gap_previous"
    ELSE IF b.previous # info.head THEN "fork"
    ELSE "progress"

\* The account does not exist: the block must open it.
state_opening(b) ==
    IF b.previous # Zero THEN "gap_previous"
    ELSE IF b.link = Zero THEN "gap_source"
    ELSE "progress"

\* mutant
state_receiving_any(b, info) ==
    IF b.link # Zero /\ ~block_exists(b.link) THEN "gap_source"
    ELSE IF b.link # Zero /\ <<b.account, b.link>> \notin DOMAIN pending THEN "unreceivable"
    ELSE "progress"
\* Not a send: the balance moves by what the link sends, or not at all.
state_receiving(b, info) ==
    LET received == b.balance - info.balance
    IN  IF b.link = Zero THEN IF received = 0 THEN "progress" ELSE "balance_mismatch"
        ELSE IF ~block_exists(b.link) THEN "gap_source"
        ELSE IF <<b.account, b.link>> \notin DOMAIN pending THEN "unreceivable"
        ELSE IF pending[<<b.account, b.link>>].amount # received THEN "balance_mismatch"
        ELSE "progress"

state_is_send(b) == b.account \in DOMAIN accounts /\ b.balance < accounts[b.account].balance

state_code(h) ==
    LET b == Block[h]
        info == account_get(b.account)
        position == IF b.account \in DOMAIN accounts THEN state_position(b, info) ELSE state_opening(b)
    IN  IF block_exists(h) THEN "old"
        ELSE IF b.signer # b.account THEN "bad_signature"
        ELSE IF b.account = Zero THEN "opened_burn_account"
        ELSE IF position # "progress" THEN position
        ELSE IF state_is_send(b) THEN "progress"
        ELSE state_receiving(b, info)

process_code(h) ==
    CASE Block[h].type = "send" -> send_code(h)
      [] Block[h].type = "receive" -> receive_code(h)
      [] Block[h].type = "open" -> open_code(h)
      [] Block[h].type = "change" -> change_code(h)
      [] Block[h].type = "state" -> state_code(h)

-----------------------------------------------------------------------------
(* ledger_processor: the effect of a block that is accepted *)

\* `infos' is the block_info table as the rest of the handler leaves it.
change_latest(a, h, rep_block, new_balance, block_count, is_state, infos) ==
    LET info == account_get(a)
        entry == [head |-> h, rep_block |-> rep_block,
                  open_block |-> IF a \in DOMAIN accounts THEN info.open_block ELSE h,
                  balance |-> new_balance, block_count |-> block_count]
        without == IF a \in DOMAIN accounts THEN checksum_update(checksum, info.head) ELSE checksum
    IN  /\ accounts' = IF h = Zero THEN Del(accounts, a) ELSE Put(accounts, a, entry)
        /\ block_info' = IF h # Zero /\ block_count % BlockInfoMax = 0 /\ ~is_state
                         THEN Put(infos, h, [account |-> a, balance |-> new_balance])
                         ELSE infos
        /\ checksum' = IF h = Zero THEN without ELSE checksum_update(without, h)

send_block(h) ==
    LET b == Block[h]
        owner == frontier_get(b.previous)
        info == account_get(owner)
        sent == info.balance - b.balance
    IN  /\ b.type = "send" /\ send_code(h) = "progress"
        /\ representation' = representation_add(representation, info.rep_block, Negate(sent))
        /\ blocks' = block_put(blocks, h)
        /\ change_latest(owner, h, info.rep_block, b.balance, info.block_count + 1, FALSE, block_info)
        /\ pending' = Put(pending, <<b.link, h>>, [source |-> owner, amount |-> sent])
        /\ frontiers' = frontier_move(b.previous, h, owner)

receive_block(h) ==
    LET b == Block[h]
        owner == frontier_get(b.previous)
        info == account_get(owner)
        received == pending[<<owner, b.link>>].amount
    IN  /\ b.type = "receive" /\ receive_code(h) = "progress"
        /\ pending' = Del(pending, <<owner, b.link>>)
        /\ blocks' = block_put(blocks, h)
        /\ change_latest(owner, h, info.rep_block, (info.balance + received) % Modulus,
                         info.block_count + 1, FALSE, block_info)
        /\ representation' = representation_add(representation, info.rep_block, received)
        /\ frontiers' = frontier_move(b.previous, h, owner)

open_block(h) ==
    LET b == Block[h]
        received == pending[<<b.account, b.link>>].amount
    IN  /\ b.type = "open" /\ open_code(h) = "progress"
        /\ pending' = Del(pending, <<b.account, b.link>>)
        /\ blocks' = block_put(blocks, h)
        /\ change_latest(b.account, h, h, received, 1, FALSE, block_info)
        /\ representation' = representation_add(representation, h, received)
        /\ frontiers' = Put(frontiers, h, b.account)

change_block(h) ==
    LET b == Block[h]
        owner == frontier_get(b.previous)
        info == account_get(owner)
        moved == balance(b.previous)
    IN  /\ b.type = "change" /\ change_code(h) = "progress"
        /\ blocks' = block_put(blocks, h)
        /\ representation' = representation_add(representation_add(representation, h, moved),
                                                info.rep_block, Negate(moved))
        /\ change_latest(owner, h, h, info.balance, info.block_count + 1, FALSE, block_info)
        /\ frontiers' = frontier_move(b.previous, h, owner)
        /\ UNCHANGED pending

state_block(h) ==
    LET b == Block[h]
        info == account_get(b.account)
        moved == IF info.rep_block = Zero THEN representation
                 ELSE representation_add(representation, info.rep_block, Negate(info.balance))
    IN  /\ b.type = "state" /\ state_code(h) = "progress"
        /\ blocks' = block_put(blocks, h)
        /\ representation' = representation_add(moved, h, b.balance)
        /\ pending' = CASE state_is_send(b) ->
                             Put(pending, <<b.link, h>>, [source |-> b.account, amount |-> info.balance - b.balance])
                        [] ~state_is_send(b) /\ b.link # Zero -> Del(pending, <<b.account, b.link>>)
                        [] ~state_is_send(b) /\ b.link = Zero -> pending
        /\ change_latest(b.account, h, h, b.balance, info.block_count + 1, TRUE, block_info)
        /\ frontiers' = Del(frontiers, info.head)

\* Blocks are processed one at a time in a write transaction of their own, so
\* never while a rollback is under way.
process(h) ==
    /\ rollbacks = <<>>
    /\ send_block(h) \/ receive_block(h) \/ open_block(h) \/ change_block(h) \/ state_block(h)
    /\ UNCHANGED rollbacks

-----------------------------------------------------------------------------
(* ledger::rollback and rollback_visitor *)

\* One call: roll the chain of `account' back until `block' is gone.  `visit' is
\* the send or state block whose visitor is running; `representative' and
\* `balance' are locals that a state block's visitor reads before its own
\* nested calls and uses after them.
Frame == [block : Hash, account : Address, visit : Hash \cup {Zero},
          representative : Hash \cup {Zero}, balance : Amount]
Call(h) == [block |-> h, account |-> account(h), visit |-> Zero,
            representative |-> Zero, balance |-> 0]

rollback(h) ==
    /\ rollbacks = <<>>
    /\ block_exists(h) /\ h # Genesis
    /\ rollbacks' = <<Call(h)>>
    /\ UNCHANGED store

\* The while loop of the innermost call: done, or visit the head.
Looping == rollbacks # <<>> /\ Head(rollbacks).visit = Zero
Visiting == rollbacks # <<>> /\ Head(rollbacks).visit # Zero
LoopHead == latest(Head(rollbacks).account)
VisitHead(h, type) ==
    Looping /\ block_exists(Head(rollbacks).block) /\ h = LoopHead /\ Block[h].type = type
Resume(frame) == rollbacks' = <<frame>> \o Tail(rollbacks)

rollback_return ==
    /\ Looping
    /\ ~block_exists(Head(rollbacks).block)
    /\ rollbacks' = Tail(rollbacks)
    /\ UNCHANGED store

InfoDeleted(h, info) == IF info.block_count % BlockInfoMax = 0 THEN Del(block_info, h) ELSE block_info

\* mutant
pending_to_self(destination, source, received) ==
    Put(pending, <<destination, source>>, [source |-> destination, amount |-> received])
\* The send `source' can be received again.
pending_again(destination, source, received) ==
    Put(pending, <<destination, source>>, [source |-> account(source), amount |-> received])

rollback_receive(h) ==
    LET b == Block[h]
        destination == account(h)
        info == account_get(destination)
        received == amount(b.link)
    IN  /\ VisitHead(h, "receive")
        /\ representation' = representation_add(representation, representative(h), Negate(received))
        /\ change_latest(destination, b.previous, representative(b.previous), balance(b.previous),
                         info.block_count - 1, FALSE, InfoDeleted(h, info))
        /\ blocks' = block_successor_clear(Del(blocks, h), b.previous)
        /\ pending' = pending_again(destination, b.link, received)
        /\ frontiers' = frontier_move(h, b.previous, destination)
        /\ UNCHANGED rollbacks

rollback_open(h) ==
    LET b == Block[h]
        destination == account(h)
        received == amount(b.link)
    IN  /\ VisitHead(h, "open")
        /\ representation' = representation_add(representation, representative(h), Negate(received))
        /\ change_latest(destination, Zero, Zero, 0, 0, FALSE, block_info)
        /\ blocks' = Del(blocks, h)
        /\ pending' = pending_again(destination, b.link, received)
        /\ frontiers' = Del(frontiers, h)
        /\ UNCHANGED rollbacks

rollback_change(h) ==
    LET b == Block[h]
        owner == account(b.previous)
        info == account_get(owner)
        rep == representative(b.previous)
        moved == balance(b.previous)
    IN  /\ VisitHead(h, "change")
        /\ representation' = representation_add(representation_add(representation, rep, moved), h, Negate(moved))
        /\ change_latest(owner, b.previous, rep, info.balance, info.block_count - 1, FALSE, InfoDeleted(h, info))
        /\ blocks' = block_successor_clear(Del(blocks, h), b.previous)
        /\ frontiers' = frontier_move(h, b.previous, owner)
        /\ UNCHANGED <<pending, rollbacks>>

\* The visitor of a send enters its own loop.
rollback_send_begin(h) ==
    /\ VisitHead(h, "send")
    /\ Resume([Head(rollbacks) EXCEPT !.visit = h])
    /\ UNCHANGED store

\* The visitor of a state block moves the weight before anything else.
rollback_state_begin(h) ==
    LET b == Block[h]
        rep == IF b.previous = Zero THEN Zero ELSE representative(b.previous)
        before == balance(b.previous)
        reduced == representation_add(representation, h, Negate(b.balance))
    IN  /\ VisitHead(h, "state")
        /\ representation' = IF rep = Zero THEN reduced ELSE representation_add(reduced, rep, before)
        /\ Resume([Head(rollbacks) EXCEPT !.visit = h, !.representative = rep, !.balance = before])
        /\ UNCHANGED <<blocks, accounts, frontiers, pending, block_info, checksum>>

Visit(h) == Visiting /\ h = Head(rollbacks).visit
VisitedIsSend(h) == Block[h].type = "send" \/ Block[h].balance < Head(rollbacks).balance
VisitedKey(h) == <<Block[h].link, h>>

\* mutant
rollback_whole_destination(h) ==
    /\ Visit(h)
    /\ VisitedIsSend(h)
    /\ VisitedKey(h) \notin DOMAIN pending
    /\ rollbacks' = <<Call(account_get(Block[h].link).open_block)>> \o rollbacks
    /\ UNCHANGED store
\* The amount was received: roll back the head of the destination, and look again.
rollback_destination(h) ==
    /\ Visit(h)
    /\ VisitedIsSend(h)
    /\ VisitedKey(h) \notin DOMAIN pending
    /\ rollbacks' = <<Call(latest(Block[h].link))>> \o rollbacks
    /\ UNCHANGED store

rollback_send(h) ==
    LET b == Block[h]
        sent == pending[VisitedKey(h)]
        info == account_get(sent.source)
    IN  /\ Visit(h) /\ b.type = "send"
        /\ VisitedKey(h) \in DOMAIN pending
        /\ pending' = Del(pending, VisitedKey(h))
        /\ representation' = representation_add(representation, representative(h), sent.amount)
        /\ change_latest(sent.source, b.previous, info.rep_block, balance(b.previous),
                         info.block_count - 1, FALSE, InfoDeleted(h, info))
        /\ blocks' = block_successor_clear(Del(blocks, h), b.previous)
        /\ frontiers' = frontier_move(h, b.previous, sent.source)
        /\ Resume([Head(rollbacks) EXCEPT !.visit = Zero])

\* The rest of a state block's visitor, once a send is pending again.
rollback_state(h) ==
    LET top == Head(rollbacks)
        b == Block[h]
        info == account_get(b.account)
    IN  /\ Visit(h) /\ b.type = "state"
        /\ VisitedIsSend(h) => VisitedKey(h) \in DOMAIN pending
        /\ pending' = IF VisitedIsSend(h) THEN Del(pending, VisitedKey(h))
                      ELSE IF b.link = Zero THEN pending
                      ELSE pending_again(b.account, b.link, b.balance - top.balance)
        /\ change_latest(b.account, b.previous, top.representative, top.balance,
                         info.block_count - 1, FALSE, block_info)
        /\ blocks' = Del(IF block_exists(b.previous) THEN block_successor_clear(blocks, b.previous) ELSE blocks, h)
        /\ frontiers' = IF block_exists(b.previous) /\ Block[b.previous].type \in LegacyType
                        THEN Put(frontiers, b.previous, b.account) ELSE frontiers
        /\ Resume([top EXCEPT !.visit = Zero])
        /\ UNCHANGED representation

rollback_step ==
    \/ rollback_return
    \/ \E h \in Hash :
          \/ rollback_receive(h) \/ rollback_open(h) \/ rollback_change(h)
          \/ rollback_send_begin(h) \/ rollback_destination(h) \/ rollback_send(h)
          \/ rollback_state_begin(h) \/ rollback_state(h)

-----------------------------------------------------------------------------
(* genesis::initialize on an empty store *)
Init ==
    /\ blocks = [h \in {Genesis} |-> Zero]
    /\ accounts = [a \in {GenesisAccount} |->
                     [head |-> Genesis, rep_block |-> Genesis, open_block |-> Genesis,
                      balance |-> MaxAmount, block_count |-> 1]]
    /\ frontiers = [h \in {Genesis} |-> GenesisAccount]
    /\ pending = [k \in {} |-> 0]
    /\ block_info = [h \in {} |-> 0]
    /\ representation = [a \in Address |-> IF a = GenesisAccount THEN MaxAmount ELSE 0]
    /\ checksum = {Genesis}
    /\ rollbacks = <<>>

Next ==
    \/ \E h \in Hash : process(h)
    \/ \E h \in Hash : rollback(h)
    \/ rollback_step

\* block_store::block_store on an existing store: the checksum is put back to 0.
store_opened ==
    /\ rollbacks = <<>>
    /\ checksum' = {}
    /\ UNCHANGED <<blocks, accounts, frontiers, pending, block_info, representation, rollbacks>>

Spec == Init /\ [][Next]_vars
\* The block processor thread finishes the call it is in.
FairSpec == Spec /\ WF_vars(rollback_step)
\* The node is stopped and started between operations.
RestartingSpec == Init /\ [][Next \/ store_opened]_vars
RestartSpec == RestartingSpec /\ WF_vars(rollback_step)
=============================================================================
