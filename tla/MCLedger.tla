------------------------------ MODULE MCLedger ------------------------------
(***************************************************************************)
(* A small universe of blocks for the ledger.  Every block, valid or not,  *)
(* can arrive at any time and any stored block can be rolled back, so that *)
(* all orders of arrival, forks on every position and nested rollbacks     *)
(* happen.                                                                 *)
(***************************************************************************)
EXTENDS RpcQueries

\* A table lists, block after block: hash, type, account, previous, link,
\* representative, balance and signer.
Universe(table) ==
    LET rows == {SubSeq(table, 8 * i + 1, 8 * i + 8) : i \in 0 .. Len(table) \div 8 - 1}
        content(row) == [type |-> row[2], account |-> row[3], previous |-> row[4], link |-> row[5],
                         representative |-> row[6], balance |-> row[7], signer |-> row[8]]
    IN  [h \in {row[1] : row \in rows} |-> content(CHOOSE row \in rows : row[1] = h)]

\* The longest path of references below a block.
Depth(universe) ==
    LET named(h) == {universe[h].previous, universe[h].link} \cap DOMAIN universe
        depth[h \in DOMAIN universe] == Max({0} \cup {1 + depth[x] : x \in named(h)})
    IN  depth

\* Legacy blocks: funds that go G -> A -> G -> A and G -> A -> B, a self-send,
\* a send of nothing and one to the burn account, forks of a send, of an open and
\* of a change, a wrong signer.  Then state blocks over the legacy genesis, with
\* legacy blocks where they may and where they may not occur.
Table == <<
    \* hash, type, account, previous, link, representative, balance, signer
    "g0",  "open",    "G",     "0",      "G",   "G",   0,  "G",
    "s1",  "send",    "0",     "g0",     "A",   "0",   1,  "G",
    "s1x", "send",    "0",     "g0",     "B",   "0",   2,  "G",
    "oA",  "open",    "A",     "0",      "s1",  "A",   0,  "A",
    "oAx", "open",    "A",     "0",      "s1",  "G",   0,  "A",
    "oB",  "open",    "B",     "0",      "s1x", "G",   0,  "B",
    "cA",  "change",  "0",     "oA",     "0",   "B",   0,  "A",
    "sA",  "send",    "0",     "cA",     "G",   "0",   1,  "A",
    "rG",  "receive", "0",     "s1",     "sA",  "0",   0,  "G",
    "sG",  "send",    "0",     "rG",     "A",   "0",   0,  "G",
    "rA",  "receive", "0",     "sA",     "sG",  "0",   0,  "A",
    "sS",  "send",    "0",     "oA",     "A",   "0",   1,  "A",
    "rS",  "receive", "0",     "sS",     "sS",  "0",   0,  "A",
    "sB",  "send",    "0",     "s1",     "B",   "0",   0,  "G",
    "oN",  "open",    "B",     "0",      "sB",  "B",   0,  "B",
    "sN",  "send",    "0",     "sB",     "A",   "0",   0,  "G",
    "rN",  "receive", "0",     "oA",     "sN",  "0",   0,  "A",
    "sR",  "send",    "0",     "cA",     "B",   "0",   0,  "A",
    "rR",  "receive", "0",     "oN",     "sR",  "0",   0,  "B",
    "oR",  "open",    "B",     "0",      "sR",  "A",   0,  "B",
    "cB",  "change",  "0",     "oN",     "0",   "A",   0,  "B",
    "cX",  "change",  "0",     "rR",     "0",   "G",   0,  "B",
    "cF",  "change",  "0",     "oA",     "0",   "G",   0,  "B",
    "sX",  "send",    "0",     "s1",     "B",   "0",   2,  "G",
    "sZ",  "send",    "0",     "g0",     "0",   "0",   2,  "G",
    "oZ",  "open",    "0",     "0",      "sZ",  "G",   0,  "0",
    "rX",  "receive", "0",     "oA",     "s1",  "0",   0,  "A",

    "t1",  "state",   "G",     "g0",     "A",   "A",   1,  "G",
    "u1",  "state",   "A",     "0",      "t1",  "B",   2,  "A",
    "o1",  "open",    "A",     "0",      "t1",  "A",   0,  "A",
    "u2",  "state",   "A",     "u1",     "G",   "B",   1,  "A",
    "o2",  "change",  "0",     "o1",     "0",   "G",   0,  "A",
    "o3",  "state",   "A",     "o2",     "G",   "B",   1,  "A",
    "t2",  "state",   "G",     "t1",     "u2",  "G",   2,  "G",
    "t2x", "state",   "G",     "t1",     "o3",  "A",   2,  "G",
    "t3",  "state",   "G",     "t2",     "A",   "B",   0,  "G",
    "u3",  "state",   "A",     "u2",     "t3",  "A",   3,  "A",
    "u3x", "state",   "A",     "u2",     "0",   "G",   1,  "A",
    "u4",  "state",   "A",     "u1",     "B",   "G",   1,  "A",
    "v4",  "state",   "B",     "0",      "u4",  "A",   1,  "B",
    "w1",  "state",   "A",     "u1",     "A",   "A",   0,  "A",
    "w2",  "state",   "A",     "w1",     "w1",  "B",   2,  "A",
    "bad", "state",   "A",     "u1",     "t1",  "A",   2,  "A",
    "mis", "state",   "A",     "0",      "t1",  "A",   3,  "A",
    "tZ",  "state",   "0",     "0",      "sZ",  "G",   1,  "0",
    "leg", "send",    "0",     "u1",     "G",   "0",   0,  "A",
    "o4",  "state",   "A",     "o2",     "B",   "B",   1,  "A",
    "v5",  "state",   "B",     "0",      "o4",  "B",   1,  "B",
    "t5",  "state",   "G",     "t1",     "0",   "B",   1,  "G"
    >>

\* TLC computes a constant definition once, but not one that a configuration
\* substitutes for a constant.
Contents == Universe(Table)
Depths == Depth(Contents)
Names == DOMAIN Contents

Blocks == Contents
Hashes == Names
Ages == Depths
=============================================================================
