------------------------------ MODULE Upgrades ------------------------------
(***************************************************************************)
(* The database upgrades of rai::block_store (src/rai/blockstore.cpp,      *)
(* src/rai/versioning.cpp).  A store written by any earlier version is     *)
(* opened, carried forward one version at a time inside ONE write          *)
(* transaction, and committed; the process may die anywhere in between.    *)
(*                                                                         *)
(* The blocks themselves never change: `chain` holds, for each account,    *)
(* its blocks in order.  A block is its kind and its link (the             *)
(* representative of an open or change, the destination of a send).  The   *)
(* hash of block i of account a is <<a, i>>, and None is the zero hash.    *)
(* What the upgrades rewrite is everything derived from the blocks: the    *)
(* account records, the weights, the pending entries, the successors, the  *)
(* balance snapshots, and beside them the unchecked and the vote tables.   *)
(* The checksum, which every open resets, is modelled in Ledger.           *)
(***************************************************************************)
EXTENDS Integers, Sequences, FiniteSets, FiniteSetsExt

CONSTANTS
    Account,      \* the accounts that may have a chain
    Rep,          \* representatives and destinations
    Long,         \* the account whose chain may grow to MaxLength blocks
    MaxLength,    \* bound: blocks in the chain of Long (the others: one)
    InfoMax,      \* block_info_max
    Funds,        \* what an open block brings
    MaxSequence,  \* bound: vote sequence numbers
    MaxCrash      \* bound: deaths of the process

VARIABLES
    chain,      \* account -> its blocks (never changed by an upgrade)
    disk,       \* the committed store
    txn,        \* the store as the open write transaction sees it
    at,         \* the version whose upgrade is next; 0: no transaction open
    opened,     \* the constructor has returned and the node is running
    misread,    \* a record was read in the layout of another version
    crashes     \* deaths so far

vars == <<chain, disk, txn, at, opened, misread, crashes>>

None == <<>>
Last == 11

-----------------------------------------------------------------------------
(***************************************************************************)
(* What the blocks determine.                                              *)
(***************************************************************************)
Kinds == {"send", "receive", "change"}

AnyRep == CHOOSE r \in Rep : TRUE

\* A receive names no account, so its link is fixed.
NonOpen == {b \in [kind : Kinds, link : Rep] : b.kind = "receive" => b.link = AnyRep}

\* Chains of one account: none, or an open block and what follows it.
Chains(a) ==
    LET Rest == UNION {[1 .. k -> NonOpen] : k \in 0 .. (IF a = Long THEN MaxLength - 1 ELSE 0)}
    IN {None} \cup {<<[kind |-> "open", link |-> r]>> \o t : r \in Rep, t \in Rest}

Present == {a \in Account : chain[a] # None}

Hashes == UNION {{<<a, i>> : i \in DOMAIN chain[a]} : a \in Account}

BlockAt(h) == chain[h[1]][h[2]]

HeadOf(a) == <<a, Len(chain[a])>>

previous(h) == IF h[2] = 1 THEN None ELSE <<h[1], h[2] - 1>>

\* The blocks a walk along previous () from h visits.
Ancestors(h) == {<<h[1], i>> : i \in 1 .. h[2]}

\* The balance of the account right after its block h.
block_balance(h) ==
    LET Of(kind) == {g \in Ancestors(h) : BlockAt(g).kind = kind}
    IN Funds - Cardinality(Of("send")) + Cardinality(Of("receive"))

\* The latest block at or before h that names a representative.
representative_visitor(h) ==
    CHOOSE g \in Ancestors(h) :
        /\ BlockAt(g).kind \in {"open", "change"}
        /\ \A f \in Ancestors(h) : BlockAt(f).kind \in {"open", "change"} => f[2] <= g[2]

\* The send blocks as entries of the pending table.  keyed: the destination
\* is part of the key (since version 4) and not of the value.
Sends(keyed) ==
    {[hash |-> h, source |-> h[1], destination |-> BlockAt(h).link, amount |-> 1,
      keyed |-> keyed] : h \in {g \in Hashes : BlockAt(g).kind = "send"}}

\* representation_add, for every account of `infos` on top of the table w.
representation_add(w, infos) ==
    [r \in Rep |-> w[r] + MapThenSumSet(LAMBDA a : infos[a].balance,
                             {a \in DOMAIN infos : BlockAt(infos[a].rep_block).link = r})]

NoWeight == [r \in Rep |-> 0]

-----------------------------------------------------------------------------
(***************************************************************************)
(* What a node running today keeps for these blocks.                       *)
(***************************************************************************)
CurrentAccounts ==
    [a \in Present |->
        [layout |-> 6, head |-> HeadOf(a), rep_block |-> representative_visitor(HeadOf(a)),
         open_block |-> <<a, 1>>, balance |-> block_balance(HeadOf(a)),
         block_count |-> Len(chain[a])]]

CurrentSuccessors ==
    [h \in Hashes |-> IF h = HeadOf(h[1]) THEN None ELSE <<h[1], h[2] + 1>>]

CurrentInfos ==
    {[hash |-> h, account |-> h[1], balance |-> block_balance(h)] :
        h \in {g \in Hashes : g[2] % InfoMax = 0}}

CurrentWeights == representation_add(NoWeight, CurrentAccounts)

(***************************************************************************)
(* The stores that version v left behind: what it did not keep yet is      *)
(* absent, and what later versions had to repair may be wrong.             *)
(***************************************************************************)
OldAccounts(v) ==
    {[a \in Present |->
        [CurrentAccounts[a] EXCEPT
            !.layout = IF v = 1 THEN 1 ELSE IF v <= 5 THEN 5 ELSE 6,
            !.open_block = IF v = 1 THEN None ELSE @,
            !.block_count = IF v <= 5 THEN 0 ELSE @,
            !.rep_block = IF v <= 2 THEN reps[a] ELSE @]] :
        reps \in {f \in [Present -> Hashes] : \A a \in Present : f[a][1] = a}}

OldSuccessors(v) ==
    {[h \in Hashes |-> IF h \in lost THEN None ELSE CurrentSuccessors[h]] :
        lost \in IF v <= 4 THEN SUBSET Hashes ELSE {{}}}

Sequences(absent) == [Rep -> IF absent THEN {0} ELSE 0 .. MaxSequence - 1]

OldStores(v) ==
    [version : {v},
     accounts : OldAccounts(v),
     successor : OldSuccessors(v),
     representation : IF v <= 2 THEN {NoWeight, [r \in Rep |-> 1]} ELSE {CurrentWeights},
     pending : {Sends(v >= 4)},
     infos : {IF v <= 9 THEN {} ELSE CurrentInfos},
     unchecked : BOOLEAN,      \* the table holds a block
     dupsort : {v >= 8},       \* the table takes several blocks per key
     sequence : Sequences(v >= 9),
     vote : Sequences(v <= 8),
     unsynced : IF v = 10 THEN BOOLEAN ELSE {TRUE}]  \* the abandoned table still exists

Init ==
    /\ chain \in {f \in [Account -> UNION {Chains(a) : a \in Account}] :
                     \A a \in Account : f[a] \in Chains(a)}
    /\ \E v \in 1 .. Last - 1 : disk \in OldStores(v)
    /\ txn = disk
    /\ at = 0
    /\ opened = FALSE
    /\ misread = FALSE
    /\ crashes = 0

-----------------------------------------------------------------------------

\* The constructor begins its write transaction and do_upgrades looks up the
\* version; a store without one is of version 1.
Open ==
    /\ at = 0
    /\ ~opened
    /\ txn' = disk
    /\ at' = disk.version
    /\ UNCHANGED <<chain, disk, opened, misread, crashes>>

\* One case of the switch: the transaction's store becomes s, the accounts
\* were read in the given layouts, and control falls through to the next case.
Upgrade(v, s, layouts) ==
    /\ at = v
    /\ txn' = s
    /\ misread' = (misread \/ \E a \in DOMAIN txn.accounts : txn.accounts[a].layout \notin layouts)
    /\ at' = v + 1
    /\ UNCHANGED <<chain, disk, opened, crashes>>

Any == {1, 5, 6}

upgrade_v1_to_v2 ==
    Upgrade(1,
            [txn EXCEPT !.version = 2,
                        !.accounts = [a \in DOMAIN @ |->
                            [@[a] EXCEPT !.layout = 5,
                                         !.open_block = CHOOSE h \in Ancestors(txn.accounts[a].head) :
                                                            previous(h) = None]]],
            {1})

upgrade_v2_to_v3 ==
    LET infos == [a \in DOMAIN txn.accounts |->
                     [txn.accounts[a] EXCEPT !.rep_block = representative_visitor(txn.accounts[a].head)]]
    IN Upgrade(2,
               [txn EXCEPT !.version = 3,
                           !.accounts = infos,
                           !.representation = representation_add(NoWeight, infos)],
               {5})

upgrade_v3_to_v4 ==
    Upgrade(3,
            [txn EXCEPT !.version = 4,
                        !.pending = {[p EXCEPT !.keyed = TRUE] : p \in @}],
            Any)

\* Walking back from each head, a block that lost its successor gets the one
\* the walk came from.  block_put also repeats the link of the block before
\* (set_predecessor), which the walk then finds in place.
upgrade_v4_to_v5 ==
    Upgrade(4,
            [txn EXCEPT !.version = 5,
                        !.successor = [h \in Hashes |->
                            IF @[h] = None /\ h # txn.accounts[h[1]].head
                            THEN CHOOSE g \in Ancestors(txn.accounts[h[1]].head) : previous(g) = h
                            ELSE @[h]]],
            {5})

upgrade_v5_to_v6 ==
    Upgrade(5,
            [txn EXCEPT !.version = 6,
                        !.accounts = [a \in DOMAIN @ |->
                            [@[a] EXCEPT !.layout = 6,
                                         !.block_count = Cardinality(Ancestors(txn.accounts[a].head))]]],
            {5})

upgrade_v6_to_v7 ==
    Upgrade(6, [txn EXCEPT !.version = 7, !.unchecked = FALSE], Any)

upgrade_v7_to_v8 ==
    Upgrade(7, [txn EXCEPT !.version = 8, !.unchecked = FALSE, !.dupsort = TRUE], Any)

\* Every sequence number becomes a dummy vote that carries it; 0 stands for a
\* representative without an entry.
upgrade_v8_to_v9 ==
    Upgrade(8,
            [txn EXCEPT !.version = 9,
                        !.vote = [r \in Rep |-> IF txn.sequence[r] > 0 THEN txn.sequence[r] ELSE @[r]],
                        !.sequence = [r \in Rep |-> 0]],
            Any)

\* The blocks a walk along the stored successors from h visits, in order.
RECURSIVE Forward(_, _)
Forward(successor, h) ==
    IF h = None THEN <<>> ELSE <<h>> \o Forward(successor, successor[h])

\* mutant: the first block of each InfoMax, not the last
snapshots_of_first ==
    LET Walk(a) == Forward(txn.successor, txn.accounts[a].open_block)
        Infos(a) == {[hash |-> Walk(a)[i], account |-> a, balance |-> block_balance(Walk(a)[i])] :
                        i \in {j \in DOMAIN Walk(a) : (j - 1) % InfoMax = 0}}
        long == {a \in DOMAIN txn.accounts : txn.accounts[a].block_count >= InfoMax}
    IN Upgrade(9,
               [txn EXCEPT !.version = 10,
                           !.infos = @ \cup UNION {Infos(a) : a \in long}],
               {6})

\* The balance snapshots, every InfoMax blocks of the accounts long enough.
upgrade_v9_to_v10 ==
    LET Walk(a) == Forward(txn.successor, txn.accounts[a].open_block)
        Infos(a) == {[hash |-> Walk(a)[i], account |-> a, balance |-> block_balance(Walk(a)[i])] :
                        i \in {j \in DOMAIN Walk(a) : j % InfoMax = 0}}
        long == {a \in DOMAIN txn.accounts : txn.accounts[a].block_count >= InfoMax}
    IN Upgrade(9,
               [txn EXCEPT !.version = 10,
                           !.infos = @ \cup UNION {Infos(a) : a \in long}],
               {6})

\* The abandoned table goes.  The version stays 10, so that every later open
\* of the store takes this step again.
upgrade_v10_to_v11 ==
    Upgrade(10, [txn EXCEPT !.unsynced = FALSE], Any)

\* The constructor returns and its transaction commits.
Commit ==
    /\ at = Last
    /\ disk' = txn
    /\ at' = 0
    /\ opened' = TRUE
    /\ UNCHANGED <<chain, txn, misread, crashes>>

\* The running node flushes a block it cannot place yet.
flush_unchecked ==
    /\ opened
    /\ disk' = [disk EXCEPT !.unchecked = TRUE]
    /\ txn' = disk'
    /\ UNCHANGED <<chain, at, opened, misread, crashes>>

\* The running node flushes a vote of its representative r, one number further.
flush_vote(r) ==
    /\ opened
    /\ disk.vote[r] < MaxSequence
    /\ disk' = [disk EXCEPT !.vote[r] = @ + 1]
    /\ txn' = disk'
    /\ UNCHANGED <<chain, at, opened, misread, crashes>>

\* The process ends, in the middle of the upgrade or while running: an open
\* transaction leaves no trace.
Crash ==
    /\ at # 0 \/ opened
    /\ crashes < MaxCrash
    /\ txn' = disk
    /\ at' = 0
    /\ opened' = FALSE
    /\ crashes' = crashes + 1
    /\ UNCHANGED <<chain, disk, misread>>

Next ==
    \/ Open
    \/ upgrade_v1_to_v2 \/ upgrade_v2_to_v3 \/ upgrade_v3_to_v4 \/ upgrade_v4_to_v5
    \/ upgrade_v5_to_v6 \/ upgrade_v6_to_v7 \/ upgrade_v7_to_v8 \/ upgrade_v8_to_v9
    \/ upgrade_v9_to_v10 \/ upgrade_v10_to_v11
    \/ Commit
    \/ flush_unchecked
    \/ \E r \in Rep : flush_vote(r)
    \/ Crash

Spec == Init /\ [][Next]_vars

-----------------------------------------------------------------------------
(***************************************************************************)
(* Properties                                                              *)
(***************************************************************************)

\* Types of the variables: the tables of the store and the constructor's place.
TypeOK ==
    /\ \A s \in {disk, txn} :
          /\ s.version \in 1 .. Last
          /\ DOMAIN s.accounts = Present
          /\ s.successor \in [Hashes -> Hashes \cup {None}]
          /\ s.representation \in [Rep -> Nat]
          /\ s.sequence \in [Rep -> 0 .. MaxSequence]
          /\ s.vote \in [Rep -> 0 .. MaxSequence]
    /\ at \in 0 .. Last
    /\ opened \in BOOLEAN
    /\ crashes \in 0 .. MaxCrash

\* Whatever version wrote the store, and however often the process died while
\* upgrading it, once the constructor of block_store returns the store holds
\* exactly what a node of today would have derived from the same blocks: the
\* account records, weights, pending entries, successors and snapshots agree
\* and the tables of old versions are gone (do_upgrades).
OpenedIsCurrent ==
    opened =>
        /\ disk.accounts = CurrentAccounts
        /\ disk.representation = CurrentWeights
        /\ disk.pending = Sends(TRUE)
        /\ disk.successor = CurrentSuccessors
        /\ disk.infos = CurrentInfos
        /\ disk.dupsort
        /\ ~disk.unsynced
        /\ \A r \in Rep : disk.sequence[r] = 0

\* No upgrade reads an account record in the layout of another version: the
\* size assertions of account_info_v1, account_info_v5 and account_info hold
\* at every step of the fall-through switch.
LayoutsMatch == ~misread

\* A block put into the unchecked table by the running node survives every
\* later open of the store, although the last upgrade runs each time.
UncheckedKept == disk.version >= 8 /\ disk.unchecked => disk'.unchecked

LastNumber(s, r) == IF s.version <= 8 THEN s.sequence[r] ELSE s.vote[r]

\* The number of a representative's last vote never falls, through the move
\* from the sequence table to the vote table (upgrade_v8_to_v9) and through
\* crashes: the node never signs the same number twice.
SequenceKept == \A r \in Rep : LastNumber(disk, r) <= LastNumber(disk', r)
=============================================================================
