----------------------------- MODULE RpcQueries -----------------------------
(***************************************************************************)
(* What the RPC handlers of rai/node/rpc.cpp answer about the ledger.  A   *)
(* query runs in one read transaction and sees a committed store: a state  *)
(* of Ledger in which no rollback is under way.  A handler computes its    *)
(* answer anew, from other tables than the ones ledger::process maintains  *)
(* the balances in, so that two answers about the same thing may disagree. *)
(* RpcServer models whether the handlers answer.                           *)
(***************************************************************************)
EXTENDS LedgerProperties, SequencesExt, FiniteSetsExt

CONSTANT Reserved                       \* the landing and faucet accounts of available_supply

ASSUME ReservedAccounts == Reserved \subseteq Account \ {GenesisAccount}

All == Cardinality (Hash)               \* a count that limits nothing
Limits == 1 .. 3                        \* counts that do

-----------------------------------------------------------------------------
(* Chains. *)

chain(from, count) ==
    LET walk[x \in Hash \cup {Zero}, n \in 0 .. count] ==
            IF n = 0 \/ ~block_exists (x) THEN <<>> ELSE <<x>> \o walk[Block[x].previous, n - 1]
    IN  walk[from, count]

\* mutant
successors_by_previous(from, count) == chain (from, count)
successors(from, count) ==
    LET walk[x \in Hash \cup {Zero}, n \in 0 .. count] ==
            IF n = 0 \/ ~block_exists (x) THEN <<>> ELSE <<x>> \o walk[block_successor (x), n - 1]
    IN  walk[from, count]

block_account(h) == account (h)
account_block_count(a) == account_get (a).block_count

\* ledger::block_destination
block_destination(h) == IF Block[h].type = "send" \/ (Block[h].type = "state" /\ is_send (h)) THEN Block[h].link ELSE Zero

-----------------------------------------------------------------------------
(* Accounts and weights. *)

account_balance(a) == account_get (a).balance

\* ledger::account_pending
account_pending(a) == LET amount_of(key) == pending[key].amount
                      IN  MapThenSumSet (amount_of, {key \in DOMAIN pending : key[1] = a})

account_weight(a) == representation[a]

delegators(a) == {d \in DOMAIN accounts : Block[accounts[d].rep_block].representative = a}

\* The handler reads each balance in a transaction of its own: see
\* AvailableIsHeld.
available_supply ==
    MaxAmount - MapThenSumSet (account_balance, {GenesisAccount} \cup Reserved) - account_pending (Zero)

-----------------------------------------------------------------------------
(* Pending sends. *)

\* The handler `pending' with a threshold; 0 when none is given.
pending_blocks(a, threshold) == {key[2] : key \in {k \in DOMAIN pending : k[1] = a /\ pending[k].amount >= threshold}}

pending_exists(h) == block_destination (h) # Zero /\ <<block_destination (h), h>> \in DOMAIN pending

-----------------------------------------------------------------------------
(* History. *)

Entry(type, with, moved, h) == <<[type |-> type, account |-> with, amount |-> moved, hash |-> h]>>

\* history_visitor::state_block
state_entry(h, raw, before, after) ==
    CASE after < before -> Entry ("send", Block[h].link, before - after, h)
      [] after >= before /\ Block[h].link = Zero -> IF raw THEN Entry ("change", Zero, 0, h) ELSE <<>>
      [] OTHER -> Entry ("receive", account (Block[h].link), after - before, h)

\* history_visitor: a raw state block has its kind as the subtype.
history_entry[h \in Hash, raw \in BOOLEAN] ==
    LET type == IF Block[h].type = "open" /\ ~raw THEN "receive" ELSE Block[h].type
    IN  CASE Block[h].type = "send" -> Entry (type, Block[h].link, amount (h), h)
          [] Block[h].type \in {"receive", "open"} /\ Block[h].link # GenesisAccount ->
                 Entry (type, account (Block[h].link), amount (h), h)
          [] Block[h].type = "open" /\ Block[h].link = GenesisAccount ->
                 Entry (type, GenesisAccount, MaxAmount, h)
          [] Block[h].type = "change" -> IF raw THEN Entry (type, Zero, 0, h) ELSE <<>>
          [] Block[h].type = "state" -> state_entry (h, raw, balance (Block[h].previous), Block[h].balance)

\* `count' counts blocks, those without an entry too; `previous' is where the
\* next page begins.
account_history(head, count, offset, raw) ==
    LET walk[x \in Hash \cup {Zero}, c \in 0 .. count, o \in 0 .. offset] ==
            IF c = 0 \/ ~block_exists (x) THEN [history |-> <<>>, previous |-> x]
            ELSE IF o > 0 THEN walk[Block[x].previous, c, o - 1]
            ELSE LET rest == walk[Block[x].previous, c - 1, 0]
                 IN  [rest EXCEPT !.history = history_entry[x, raw] \o @]
    IN  walk[head, count, offset]

-----------------------------------------------------------------------------
(* Republishing. *)

\* The block and those below it, oldest first: the source chain of republish,
\* and the chain of every account in wallet_republish.
oldest_first(from, count) == Reverse (chain (from, count))

\* The destination's chain down to the block that received h, oldest first.
destination_chain(h, count) ==
    LET walk[x \in Hash \cup {Zero}] ==
            IF ~block_exists (x) THEN <<>>
            ELSE IF block_source (x) = h THEN <<x>> ELSE <<x>> \o walk[Block[x].previous]
        hashes == Reverse (walk[latest (block_destination (h))])
    IN  IF block_destination (h) = Zero \/ pending_exists (h) THEN <<>>
        ELSE SubSeq (hashes, 1, IF Len (hashes) > count THEN count ELSE Len (hashes))

-----------------------------------------------------------------------------
(* chain from an account's head and successors from its open block list    *)
(* the same blocks in opposite orders, as many as account_block_count      *)
(* says, and block_account of each of them is the account.                 *)
ChainAnswersAgree ==
    Quiet => \A a \in DOMAIN accounts :
        LET down == chain (accounts[a].head, All)
        IN  /\ successors (accounts[a].open_block, All) = Reverse (down)
            /\ Len (down) = account_block_count (a)
            /\ \A i \in DOMAIN down : block_account (down[i]) = a
            /\ \A n \in Limits : \A i \in DOMAIN down :
                   chain (down[i], n) = SubSeq (down, i, IF i + n - 1 > Len (down) THEN Len (down) ELSE i + n - 1)

(* The balances that `delegators' lists for a representative add up to its *)
(* account_weight, which the ledger keeps in a table of its own.           *)
DelegatorsAddUp == Quiet => \A a \in Account : MapThenSumSet (account_balance, delegators (a)) = account_weight (a)

(* available_supply is what the other accounts hold plus every amount sent *)
(* and not received, the burnt apart, and so does not wrap below zero, as  *)
(* long as no block is processed between the four transactions it reads    *)
(* the balances in.                                                        *)
AvailableIsHeld ==
    LET pending_amount(key) == pending[key].amount
    IN  Quiet => available_supply =
                     MapThenSumSet (account_balance, Account \ ({GenesisAccount} \cup Reserved))
                     + MapThenSumSet (pending_amount, {key \in DOMAIN pending : key[1] # Zero})

(* pending_exists says yes exactly for the sends that no stored block      *)
(* receives, `pending' of the destination lists the same ones, a threshold *)
(* leaves out those below it, and what remains adds up to the account's    *)
(* pending balance.                                                        *)
PendingAnswersAgree ==
    Quiet =>
        /\ \A h \in Stored :
              /\ pending_exists (h) <=> IsSend (h) /\ Block[h].link # Zero /\ \A r \in Stored : SourceOf (r) # h
              /\ pending_exists (h) => h \in pending_blocks (block_destination (h), AmountOf (h))
        /\ \A a \in Account : account_pending (a) = MapThenSumSet (AmountOf, pending_blocks (a, 0))

Total(type, entries) == LET amount_of(entry) == entry.amount
                        IN  MapThenSumSet (amount_of, {e \in entries : e.type = type})

(* The receives in account_history less the sends are the balance; and     *)
(* every receive has its send, of the same amount and to this account, in  *)
(* the history of the account it names.                                    *)
HistoryAddsUp ==
    Quiet => \A history \in {[a \in DOMAIN accounts |->
                                 Range (account_history (latest (a), All, 0, FALSE).history)]} :
        \A a \in DOMAIN accounts :
            /\ Total ("receive", history[a]) - Total ("send", history[a]) = account_balance (a)
            /\ \A e \in history[a] : e.type = "receive" /\ e.hash # Genesis =>
                  [type |-> "send", account |-> a, amount |-> e.amount, hash |-> SourceOf (e.hash)]
                      \in history[e.account]

(* A caller that asks for pages, each from the `previous' of the last one, *)
(* or with an offset, sees every entry once, whatever the length.          *)
HistoryPages ==
    Quiet => \A a \in DOMAIN accounts, raw \in BOOLEAN : \A n \in Limits :
        \A page \in {account_history (latest (a), n, 0, raw)} :
        \A rest \in {account_history (page.previous, All, 0, raw).history} :
            /\ account_history (latest (a), All, 0, raw).history = page.history \o rest
            /\ account_history (latest (a), All, n, raw).history = rest

(* What republish sends for a send that was received begins, on the        *)
(* destination's side, with the receiving block, however few blocks are    *)
(* asked for; and every run of blocks it sends is a chain, oldest first.   *)
IsChain(hashes) == \A i \in 2 .. Len (hashes) : Block[hashes[i]].previous = hashes[i - 1]

RepublishReachesReceiver ==
    Quiet => \A h \in Stored : \A n \in Limits :
        /\ IsChain (oldest_first (h, n))
        /\ \A hashes \in {destination_chain (h, n)} :
              /\ IsChain (hashes)
              /\ (\E r \in Stored : SourceOf (r) = h) => hashes # <<>> /\ SourceOf (hashes[1]) = h

(* Answers of different handlers about the same ledger agree, though each  *)
(* recomputes them from other tables: chains, balances and weights,        *)
(* supply, pending sends, histories and what republish sends.              *)
AnswersAgree ==
    /\ ChainAnswersAgree /\ DelegatorsAddUp /\ AvailableIsHeld /\ PendingAnswersAgree
    /\ HistoryAddsUp /\ HistoryPages /\ RepublishReachesReceiver
=============================================================================
