--------------------------- MODULE ProcessorQueue ---------------------------
(***************************************************************************)
(* The queues of rai::block_processor (rai/node/node.cpp), its thread and  *)
(* those that wait for it with flush.  What the ledger does with a block   *)
(* is the subject of BlockProcessor; here it is stored unless a competitor *)
(* with the same root is, and a forced block replaces its competitors.     *)
(* One condition variable serves the thread and the waiting callers.       *)
(***************************************************************************)
EXTENDS Integers, Sequences, FiniteSets

CONSTANTS
    Incoming,    \* blocks
    Fork,        \* those among them that have one root in common
    Caller,      \* threads that call flush
    MaxBatch     \* blocks in one write transaction: 16384 in the code

VARIABLES
    queued, forced,    \* block_processor::blocks and forced, front first
    active, stopped,
    thread,      \* where process_blocks is
    count,       \* blocks processed in the open transaction
    hand,        \* the block in hand and whether it is forced
    ledger,      \* what the open write transaction shows
    stored,      \* what is committed
    caller,      \* caller -> where it is in flush
    before,      \* history: caller -> the blocks added before it called
    added, used  \* history: the blocks that were added, and forced

queues == <<queued, forced, added, used>>
work == <<active, count, hand, ledger, stored>>
callers == <<caller, before>>
queue_vars == <<queues, work, thread, stopped, callers>>

ASSUME ProcessorQueueValues == Fork \subseteq Incoming /\ MaxBatch \in Nat \ {0}

Nothing == [block |-> "none", force |-> FALSE]
Place == {"top", "waiting", "opening", "loop", "one", "closing", "ended"}

\* Queues hold each block once at most.
Elements(queue) == {queue[i] : i \in DOMAIN queue}
rivals(b) == IF b \in Fork THEN Fork \ {b} ELSE {}

have_blocks == queued # <<>> \/ forced # <<>>

\* Whoever waits wakes up; the callers check again and the thread goes on.
Woken(at) == IF at = "waiting" THEN "top" ELSE at
notify_all ==
    /\ caller' = [c \in Caller |-> Woken(caller[c])]
    /\ thread' = Woken(thread)

add(b) ==
    /\ b \notin added
    /\ added' = added \cup {b}
    /\ queued' = <<b>> \o queued
    /\ notify_all
    /\ UNCHANGED <<forced, used, work, stopped, before>>

force(b) ==
    /\ b \notin used
    /\ used' = used \cup {b}
    /\ forced' = <<b>> \o forced
    /\ notify_all
    /\ UNCHANGED <<queued, added, work, stopped, before>>

stop ==
    /\ ~stopped
    /\ stopped' = TRUE
    /\ notify_all
    /\ UNCHANGED <<queues, work, before>>

-----------------------------------------------------------------------------
(* process_blocks and process_receive_many *)

batch_begin ==
    /\ thread = "top" /\ ~stopped /\ have_blocks
    /\ active' = TRUE
    /\ thread' = "opening"
    /\ UNCHANGED <<queues, count, hand, ledger, stored, stopped, callers>>

\* mutant
wait_silently ==
    /\ thread = "top" /\ ~stopped /\ ~have_blocks
    /\ thread' = "waiting"
    /\ UNCHANGED <<queues, work, stopped, callers>>
\* The thread tells the callers before it waits.
wait ==
    /\ thread = "top" /\ ~stopped /\ ~have_blocks
    /\ caller' = [c \in Caller |-> Woken(caller[c])]
    /\ thread' = "waiting"
    /\ UNCHANGED <<queues, work, stopped, before>>

end ==
    /\ thread = "top" /\ stopped
    /\ thread' = "ended"
    /\ UNCHANGED <<queues, work, stopped, callers>>

\* The write transaction is opened without the lock.
open ==
    /\ thread = "opening"
    /\ thread' = "loop"
    /\ UNCHANGED <<queues, active, count, hand, ledger, stored, stopped, callers>>

more(n) == n < MaxBatch

take_forced ==
    /\ forced # <<>>
    /\ hand' = [block |-> Head(forced), force |-> TRUE]
    /\ forced' = Tail(forced) /\ queued' = queued

take_queued ==
    /\ forced = <<>> /\ queued # <<>>
    /\ hand' = [block |-> Head(queued), force |-> FALSE]
    /\ queued' = Tail(queued) /\ forced' = forced

take ==
    /\ thread = "loop" /\ more(count)
    /\ take_forced \/ take_queued
    /\ thread' = "one"
    /\ UNCHANGED <<added, used, active, count, ledger, stored, stopped, callers>>

process_receive_one ==
    /\ thread = "one"
    /\ ledger' = IF hand.force THEN (ledger \ rivals(hand.block)) \cup {hand.block}
                 ELSE IF rivals(hand.block) \cap ledger # {} THEN ledger
                 ELSE ledger \cup {hand.block}
    /\ hand' = Nothing
    /\ count' = count + 1
    /\ thread' = "loop"
    /\ UNCHANGED <<queues, active, stored, stopped, callers>>

\* The transaction commits at the end of its scope, with the lock held.
commit ==
    /\ thread = "loop" /\ ~(have_blocks /\ more(count))
    /\ stored' = ledger
    /\ count' = 0
    /\ thread' = "closing"
    /\ UNCHANGED <<queues, active, hand, ledger, stopped, callers>>

batch_end ==
    /\ thread = "closing"
    /\ active' = FALSE
    /\ thread' = "top"
    /\ UNCHANGED <<queues, count, hand, ledger, stored, stopped, callers>>

process_blocks ==
    batch_begin \/ wait \/ end \/ open \/ take \/ process_receive_one \/ commit \/ batch_end

\* A wait may end for no reason.
spurious ==
    /\ \/ thread = "waiting" /\ thread' = "top" /\ caller' = caller
       \/ \E c \in Caller : caller[c] = "waiting" /\ caller' = [caller EXCEPT ![c] = "top"] /\ thread' = thread
    /\ UNCHANGED <<queues, work, stopped, before>>

-----------------------------------------------------------------------------
(* flush *)

flush(c) ==
    /\ caller[c] = "out"
    /\ caller' = [caller EXCEPT ![c] = "top"]
    /\ before' = [before EXCEPT ![c] = added]
    /\ UNCHANGED <<queues, work, thread, stopped>>

\* mutant
busy_queue == queued # <<>>
busy == queued # <<>> \/ active

flush_wait(c) ==
    /\ caller[c] = "top" /\ ~stopped /\ busy
    /\ caller' = [caller EXCEPT ![c] = "waiting"]
    /\ UNCHANGED <<queues, work, thread, stopped, before>>

flush_return(c) ==
    /\ caller[c] = "top" /\ ~(~stopped /\ busy)
    /\ caller' = [caller EXCEPT ![c] = "out"]
    /\ before' = [before EXCEPT ![c] = {}]
    /\ UNCHANGED <<queues, work, thread, stopped>>

flushing(c) == flush_wait(c) \/ flush_return(c)

QueueInit ==
    /\ queued = <<>> /\ forced = <<>>
    /\ active = FALSE /\ stopped = FALSE
    /\ thread = "top" /\ count = 0 /\ hand = Nothing
    /\ ledger = {} /\ stored = {}
    /\ caller = [c \in Caller |-> "out"]
    /\ before = [c \in Caller |-> {}]
    /\ added = {} /\ used = {}

QueueNext ==
    \/ \E b \in Incoming : add(b)
    \/ stop
    \/ process_blocks
    \/ spurious
    \/ \E c \in Caller : flush(c) \/ flushing(c)

ProcessorNext == QueueNext \/ \E b \in Fork : force(b)

QueueSpec == QueueInit /\ [][ProcessorNext]_queue_vars

-----------------------------------------------------------------------------
\* The queues, the thread and the callers are well formed, and a transaction
\* takes no more blocks than the limit.
QueueTypeOK ==
    /\ queued \in Seq(Incoming) /\ forced \in Seq(Fork)
    /\ Elements(queued) \subseteq added /\ Elements(forced) \subseteq used
    /\ active \in BOOLEAN /\ stopped \in BOOLEAN
    /\ thread \in Place
    /\ count \in 0..MaxBatch
    /\ hand = Nothing \/ hand.block \in Incoming
    /\ ledger \subseteq Incoming /\ stored \subseteq Incoming
    /\ caller \in [Caller -> {"out", "top", "waiting"}]
    /\ before \in [Caller -> SUBSET Incoming]

\* Someone who calls flush, a wallet after it queued its block, comes back only
\* when every block that was queued before the call is in the committed store,
\* or a competitor of it is; the transaction the caller opens next sees it.  Only
\* stopping the node ends the wait earlier.
FlushedIsStored ==
    [][\A c \in DOMAIN caller : caller[c] # "out" /\ caller'[c] = "out" =>
           stopped \/ \A b \in before[c] : ({b} \cup rivals(b)) \cap stored # {}]_queue_vars
=============================================================================
