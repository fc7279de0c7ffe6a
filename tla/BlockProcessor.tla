--------------------------- MODULE BlockProcessor ---------------------------
(***************************************************************************)
(* block_processor (rai/node/node.cpp) over the ledger: blocks come from   *)
(* the network and from bootstrapping in any order, wait in `unchecked'    *)
(* for a block they build on, and the winner of an election replaces the   *)
(* stored block.                                                           *)
(*                                                                         *)
(* One thread handles blocks, one at a time, inside write transactions;    *)
(* other threads add and force blocks meanwhile.  LMDB drops an open       *)
(* transaction when the process dies, so a crash in the middle of one is   *)
(* the crash at its beginning, and `crash' happens between blocks.         *)
(***************************************************************************)
EXTENDS LedgerProperties, SequencesExt

CONSTANTS
    Live,             \* blocks that may come by UDP
    Bootstrap,        \* blocks that a bootstrap attempt may deliver
    Forkable,         \* blocks that an election or the rpc may force
    GapMax,           \* gap_cache::max
    MaxQueue,         \* bound on the queue when a block is added or forced
    MaxForced,        \* bound on the forced queue
    MaxCrashes        \* bound on crashes

VARIABLES
    queue,            \* block_processor::blocks, front first
    forced,           \* block_processor::forced, front first
    replacing,        \* the forced block in hand, or Zero
    unchecked,        \* the table: <<what is missing, block>>
    unchecked_cache,  \* the same, in memory
    arrival,          \* block_arrival: blocks that came by UDP
    gaps,             \* gap_cache, oldest first
    active,           \* roots with an election
    crashes

outside == <<queue, forced, replacing, unchecked, unchecked_cache, arrival, gaps, active, crashes>>
all == <<vars, outside>>

-----------------------------------------------------------------------------
(* The unchecked blocks and the gap cache *)

\* mutant
unchecked_get_table(h) == {p[2] : p \in {q \in unchecked : q[1] = h}}
unchecked_get(h) == {p[2] : p \in {q \in unchecked \cup unchecked_cache : q[1] = h}}

unchecked_put(key, h) ==
    /\ unchecked_cache' = IF h \in unchecked_get(key) THEN unchecked_cache ELSE unchecked_cache \cup {<<key, h>>}
    /\ UNCHANGED unchecked

gap_erase(h) == SelectSeq(gaps, LAMBDA x : x # h)

\* A known block becomes the newest; a new one may push out the oldest.
gap_add(h) ==
    LET added == Append(gap_erase(h), h)
    IN  gaps' = IF Len(added) > GapMax THEN Tail(added) ELSE added

\* What waits for h is queued again, in the order of a hash table.
queue_unchecked(h, rest) ==
    /\ \E again \in SetToSeqs(unchecked_get(h)) : queue' = again \o rest
    /\ unchecked' = unchecked \ ({h} \X unchecked_get(h))
    /\ unchecked_cache' = unchecked_cache \ ({h} \X unchecked_get(h))
    /\ gaps' = gap_erase(h)

-----------------------------------------------------------------------------
(* process_receive_one, with `rest' the queue after the block is taken *)

\* mutant
gap_key_previous(h, code) == Block[h].previous
gap_key(h, code) == IF code = "gap_previous" THEN Block[h].previous ELSE block_source(h)

receive_progress(h, rest) ==
    /\ process_code(h) = "progress"
    /\ process(h)
    /\ active' = IF h \in arrival THEN active \cup {root(h)} ELSE active
    /\ queue_unchecked(h, rest)

receive_old(h, rest) ==
    /\ process_code(h) = "old"
    /\ queue_unchecked(h, rest)
    /\ UNCHANGED <<vars, active>>

receive_gap(h, rest) ==
    LET code == process_code(h)
    IN  /\ code \in {"gap_previous", "gap_source"}
        /\ unchecked_put(gap_key(h, code), h)
        /\ gap_add(h)
        /\ queue' = rest
        /\ UNCHANGED <<vars, active>>

\* node::process_fork starts an election with the stored block.
root_exists(r) == block_exists(r) \/ r \in DOMAIN accounts
receive_fork(h, rest) ==
    /\ process_code(h) = "fork"
    /\ active' = IF h \notin arrival /\ root_exists(root(h)) /\ block_exists(forked_block(h))
                 THEN active \cup {root(h)} ELSE active
    /\ queue' = rest
    /\ UNCHANGED <<vars, unchecked, unchecked_cache, gaps>>

receive_rejected(h, rest) ==
    /\ process_code(h) \notin {"progress", "old", "gap_previous", "gap_source", "fork"}
    /\ queue' = rest
    /\ UNCHANGED <<vars, unchecked, unchecked_cache, gaps, active>>

process_receive_one(h, rest) ==
    \/ receive_progress(h, rest)
    \/ receive_old(h, rest)
    \/ receive_gap(h, rest)
    \/ receive_fork(h, rest)
    \/ receive_rejected(h, rest)

-----------------------------------------------------------------------------
(* process_receive_many: forced blocks first *)

\* mutant
competitor_after(h) == block_successor(root(h))
competitor(h) == successor(root(h))

take_forced ==
    /\ replacing = Zero
    /\ forced # <<>>
    /\ replacing' = Head(forced)
    /\ forced' = Tail(forced)
    /\ IF competitor(Head(forced)) \in {Zero, Head(forced)}
       THEN UNCHANGED vars
       ELSE rollback(competitor(Head(forced)))
    /\ UNCHANGED <<queue, unchecked, unchecked_cache, arrival, gaps, active, crashes>>

roll_back ==
    /\ rollback_step
    /\ UNCHANGED outside

process_forced ==
    /\ replacing # Zero /\ rollbacks = <<>>
    /\ process_receive_one(replacing, queue)
    /\ replacing' = Zero
    /\ UNCHANGED <<forced, arrival, crashes>>

process_queued ==
    /\ replacing = Zero /\ forced = <<>> /\ queue # <<>>
    /\ process_receive_one(Head(queue), Tail(queue))
    /\ UNCHANGED <<forced, replacing, arrival, crashes>>

process_receive_many == take_forced \/ roll_back \/ process_forced \/ process_queued

-----------------------------------------------------------------------------
(* The other threads *)

\* node::process_active: a block comes by UDP; it is queued the first time.
process_active(h) ==
    /\ h \notin arrival
    /\ Len(queue) < MaxQueue
    /\ arrival' = arrival \cup {h}
    /\ queue' = <<h>> \o queue
    /\ UNCHANGED <<vars, forced, replacing, unchecked, unchecked_cache, gaps, active, crashes>>

\* A bulk pull delivers a block.
add(h) ==
    /\ Len(queue) < MaxQueue
    /\ queue' = <<h>> \o queue
    /\ UNCHANGED <<vars, forced, replacing, unchecked, unchecked_cache, arrival, gaps, active, crashes>>

\* The winner of the election for its root.
force(h) ==
    /\ root(h) \in active
    /\ Len(forced) < MaxForced /\ Len(queue) < MaxQueue
    /\ forced' = <<h>> \o forced
    /\ UNCHANGED <<vars, queue, replacing, unchecked, unchecked_cache, arrival, gaps, active, crashes>>

\* active_transactions::announce_votes drops a finished election.
election_ends(r) ==
    /\ active' = active \ {r}
    /\ UNCHANGED <<vars, queue, forced, replacing, unchecked, unchecked_cache, arrival, gaps, crashes>>

\* block_store::flush, in a write transaction of its own.
flush ==
    /\ replacing = Zero
    /\ unchecked' = unchecked \cup unchecked_cache
    /\ unchecked_cache' = {}
    /\ UNCHANGED <<vars, queue, forced, replacing, arrival, gaps, active, crashes>>

\* The process dies and starts again: what is in memory is gone.
crash ==
    /\ crashes < MaxCrashes /\ replacing = Zero
    /\ crashes' = crashes + 1
    /\ store_opened
    /\ queue' = <<>> /\ forced' = <<>> /\ gaps' = <<>>
    /\ unchecked_cache' = {} /\ arrival' = {} /\ active' = {}
    /\ UNCHANGED <<replacing, unchecked>>

ProcessorInit ==
    /\ Init
    /\ queue = <<>> /\ forced = <<>> /\ gaps = <<>>
    /\ replacing = Zero
    /\ unchecked = {} /\ unchecked_cache = {} /\ arrival = {} /\ active = {}
    /\ crashes = 0

ProcessorNext ==
    \/ process_receive_many
    \/ \E h \in Live : process_active(h)
    \/ \E h \in Bootstrap : add(h)
    \/ \E h \in Forkable : force(h)
    \/ \E r \in active : election_ends(r)
    \/ flush
    \/ crash

-----------------------------------------------------------------------------
\* Queues hold blocks, and a block waits for a block.
ProcessorTypeOK ==
    /\ queue \in Seq(Hash)
    /\ forced \in Seq(Hash) /\ Len(forced) <= MaxForced
    /\ replacing \in Hash \cup {Zero}
    /\ unchecked \subseteq (Hash \cup {Zero}) \X Hash
    /\ unchecked_cache \subseteq (Hash \cup {Zero}) \X Hash
    /\ arrival \subseteq Hash
    /\ gaps \in Seq(Hash) /\ Len(gaps) <= GapMax
    /\ active \subseteq Link
    /\ crashes \in 0..MaxCrashes

\* No block is left waiting for something that is there: when the queue is
\* empty, no unchecked block, in memory or on disk, could be processed.  This
\* holds through rollbacks, flushes and crashes.
NoneWaitsInVain ==
    queue = <<>> /\ replacing = Zero =>
        \A p \in unchecked \cup unchecked_cache : p[1] \notin Stored /\ process_code(p[2]) # "progress"

\* The gap cache, whose votes start a bootstrap, names no block that was stored
\* since it was put there.
GapsAreMissing == Quiet => \A i \in DOMAIN gaps : gaps[i] \notin Stored

\* `Replace our block with the winner': when the processor is done with a forced
\* block, no competitor is in its place: it is stored, or its place is free.
ForcedTakesItsPlace ==
    replacing # Zero /\ replacing' = Zero =>
        replacing \in Stored' \/ \A h \in Stored' : root(h) # root(replacing)

\* Every block that comes by UDP is in the ledger.
AllStored == Live \subseteq Stored
=============================================================================
