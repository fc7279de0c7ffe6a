------------------------------ MODULE MCForks -------------------------------
(***************************************************************************)
(* The ledger and the block processor.  A behaviour is one of six parts.   *)
(* In "ledger" blocks are processed and rolled back (MCLedger).  In        *)
(* "forks", "opens" and "arrival" the block processor feeds a ledger       *)
(* (BlockProcessor), with blocks that compete and with blocks that do not. *)
(* In "queue" its thread, add, force, stop and the callers of flush meet   *)
(* at the lock (ProcessorQueue); in "confirmation" an election forces its  *)
(* winner through that queue (Confirmation).  The configuration gives the  *)
(* constants of "ledger" and "queue".  Outside its part the ledger holds   *)
(* the genesis block; other variables that a part does not use stay 0.     *)
(***************************************************************************)
EXTENDS ProcessorQueue, MCLedger

VARIABLES
    part,
    \* BlockProcessor, which shares forced and active with the queue
    b_blocks, b_accounts, b_frontiers, b_pending, b_info, b_representation, b_checksum, b_rollbacks,
    queue, replacing, unchecked, unchecked_cache, arrival, gaps, crashes,
    \* Confirmation
    winner, confirmed, background, told, dropped

\* A legacy and a state block compete for the place of a send; one of the blocks
\* that build on it is never valid.
Forks == INSTANCE BlockProcessor WITH
    blocks <- b_blocks, accounts <- b_accounts, frontiers <- b_frontiers, pending <- b_pending,
    block_info <- b_info, representation <- b_representation, checksum <- b_checksum,
    rollbacks <- b_rollbacks,
    Live <- {"s1", "oA", "rX"}, Bootstrap <- {"t1"}, Forkable <- {"s1", "t1"},
    GapMax <- 2, MaxQueue <- 2, MaxForced <- 1, MaxCrashes <- 1

\* Two blocks compete to open the account that the send is for, too.
Opens == INSTANCE BlockProcessor WITH
    blocks <- b_blocks, accounts <- b_accounts, frontiers <- b_frontiers, pending <- b_pending,
    block_info <- b_info, representation <- b_representation, checksum <- b_checksum,
    rollbacks <- b_rollbacks,
    Live <- {"s1", "oA"}, Bootstrap <- {"t1"}, Forkable <- {"s1", "t1", "oAx"},
    GapMax <- 2, MaxQueue <- 2, MaxForced <- 1, MaxCrashes <- 1

\* No two compete: legacy and state blocks that build on each other across
\* three accounts, all of which arrive live.
Arriving == {"t1", "t5", "o1", "o2", "o4", "v5"}

Arrivals == INSTANCE BlockProcessor WITH
    blocks <- b_blocks, accounts <- b_accounts, frontiers <- b_frontiers, pending <- b_pending,
    block_info <- b_info, representation <- b_representation, checksum <- b_checksum,
    rollbacks <- b_rollbacks,
    Live <- Arriving, Bootstrap <- {}, Forkable <- {},
    GapMax <- 8, MaxQueue <- 3, MaxForced <- 0, MaxCrashes <- 0

Confirming == INSTANCE Confirmation WITH
    Incoming <- {"b1", "b2", "b3"}, Fork <- {"b2", "b3"}, Caller <- {}, MaxBatch <- 2

-----------------------------------------------------------------------------
of_processor ==
    <<b_blocks, b_accounts, b_frontiers, b_pending, b_info, b_representation, b_checksum, b_rollbacks,
      queue, replacing, unchecked, unchecked_cache, arrival, gaps, crashes>>
of_queue == <<queued, stopped, thread, count, hand, ledger, stored, caller, before, added, used>>
of_confirmation == <<winner, confirmed, background, told, dropped>>
all == <<part, vars, forced, active, of_processor, of_queue, of_confirmation>>

NoProcessor ==
    /\ b_blocks = 0 /\ b_accounts = 0 /\ b_frontiers = 0 /\ b_pending = 0 /\ b_info = 0
    /\ b_representation = 0 /\ b_checksum = 0 /\ b_rollbacks = 0 /\ queue = 0 /\ replacing = 0
    /\ unchecked = 0 /\ unchecked_cache = 0 /\ arrival = 0 /\ gaps = 0 /\ crashes = 0
NoQueue ==
    /\ queued = 0 /\ stopped = 0 /\ thread = 0 /\ count = 0 /\ hand = 0 /\ ledger = 0 /\ stored = 0
    /\ caller = <<>> /\ before = 0 /\ added = 0 /\ used = 0
NoConfirmation == winner = 0 /\ confirmed = 0 /\ background = 0 /\ told = 0 /\ dropped = 0

MCInit ==
    /\ Init
    /\ \/ part = "ledger" /\ forced = 0 /\ active = 0 /\ NoProcessor /\ NoQueue /\ NoConfirmation
       \/ part \in {"forks", "opens", "arrival"} /\ Forks!ProcessorInit /\ NoQueue /\ NoConfirmation
       \/ part = "queue" /\ QueueInit /\ NoProcessor /\ NoConfirmation
       \/ part = "confirmation" /\ Confirming!Init /\ NoProcessor
MCNext ==
    \/ part = "ledger" /\ Next /\ UNCHANGED <<part, forced, active, of_processor, of_queue, of_confirmation>>
    \/ part = "forks" /\ Forks!ProcessorNext /\ UNCHANGED <<part, vars, of_queue, of_confirmation>>
    \/ part = "opens" /\ Opens!ProcessorNext /\ UNCHANGED <<part, vars, of_queue, of_confirmation>>
    \/ part = "arrival" /\ Arrivals!ProcessorNext /\ UNCHANGED <<part, vars, of_queue, of_confirmation>>
    \/ part = "queue" /\ ProcessorNext /\ UNCHANGED <<part, vars, of_processor, of_confirmation>>
    \/ part = "confirmation" /\ Confirming!Next /\ UNCHANGED <<part, vars, of_processor>>

\* A rollback goes on; the processor's thread, the callers of flush and the
\* threads that run background closures are scheduled; every live block reaches
\* the node.
MCSpec ==
    /\ MCInit /\ [][MCNext]_all
    /\ WF_vars(part = "ledger" /\ rollback_step)
    /\ WF_(Arrivals!all)(part = "arrival" /\ Arrivals!process_receive_many)
    /\ \A h \in Arriving : WF_(Arrivals!all)(part = "arrival" /\ Arrivals!process_active(h))
    /\ WF_queue_vars(part = "queue" /\ process_blocks)
    /\ \A c \in Caller : WF_queue_vars(part = "queue" /\ flushing(c))
    /\ WF_(Confirming!vars)(part = "confirmation" /\ Confirming!process_blocks /\ UNCHANGED of_confirmation)
    /\ WF_(Confirming!vars)(part = "confirmation" /\ \E b \in {"b2", "b3"} : Confirming!process_confirmed(b))

-----------------------------------------------------------------------------
Competing == part \in {"forks", "opens"}

\* No block is left waiting for something that is there: when the queue is empty,
\* no unchecked block, in memory or on disk, could be processed, and the gap cache
\* names no stored block, through rollbacks, flushes and crashes.
NothingWaitsInVain ==
    Competing => Forks!ProcessorTypeOK /\ Forks!NoneWaitsInVain /\ Forks!GapsAreMissing

\* "Replace our block with the winner": when the processor is done with a forced
\* block, no competitor is in its place: it is stored, or its place is free.
ForcedIsNotForked == [][Competing => Forks!ForcedTakesItsPlace]_all

\* Blocks that do not compete end up in the ledger in whatever order they arrive.
OrderDoesNotMatter == <>[](part = "arrival" => Arrivals!AllStored)

\* flush returns once blocks stop arriving, whatever order the notifications of
\* add, force, stop and the thread come in: nobody is left waiting on a thread
\* that waits.  Queued and forced blocks are processed although later ones go in
\* front of them, and stop ends the thread in the middle of a batch.
FlushReturns ==
    /\ \A c \in Caller : []<>(part = "queue" => caller[c] = "out")
    /\ \A b \in Incoming : []<>(part = "queue" => b \notin Elements(queued) \/ stopped)
    /\ \A b \in Fork : []<>(part = "queue" => b \notin Elements(forced) \/ stopped)
    /\ []<>(part = "queue" /\ stopped => thread = "ended")

\* One election tells wallets and observers of one block at most, one that the
\* committed store holds.  The confirmation of a block that stays where it is
\* reaches them; process_confirmed misses a block only while it is on its way
\* through the forced queue, or a competitor was forced meanwhile.
ConfirmedIsTold ==
    /\ [](part = "confirmation" => Confirming!ConfirmationTypeOK /\ Confirming!ToldAtMostOne)
    /\ [][part = "confirmation" => Confirming!ToldIsStored /\ Confirming!DroppedIsUnsettled]_all
    /\ []<>(part = "confirmation" /\ confirmed /\ used = {} => told # {})
=============================================================================
