---------------------------- MODULE Confirmation ----------------------------
(***************************************************************************)
(* From the quorum of an election to the observers (rai/node/node.cpp):    *)
(* election::confirm_if_quorum forces a new winner into the queue of the   *)
(* block processor and leaves process_confirmed to a background thread;    *)
(* the two run in any order.  The election is about the root of Fork, one  *)
(* block of which is in the ledger when it starts; its votes are inputs    *)
(* here and are the subject of Elections.                                  *)
(***************************************************************************)
EXTENDS ProcessorQueue

VARIABLES
    winner,       \* status.winner
    confirmed,
    background,   \* the winners whose closure is queued
    told,         \* the blocks the observers were told of
    dropped       \* the blocks process_confirmed did not find

confirmation == <<winner, confirmed, background, told, dropped>>
vars == <<queue_vars, confirmation>>

confirm_once(w, quorum) ==
    /\ confirmed' = (confirmed \/ quorum)
    /\ background' = IF quorum /\ ~confirmed THEN background \cup {w} ELSE background

\* The tally has b in front; enough is whether it reaches online_weight_minimum.
confirm_if_quorum(b, enough, quorum) ==
    /\ IF enough /\ b # winner THEN force(b) /\ winner' = b ELSE UNCHANGED <<queue_vars, winner>>
    /\ confirm_once(winner', quorum)
    /\ UNCHANGED <<told, dropped>>

\* mutant
found_in_progress(b) == b \in ledger
\* block_exists, in a transaction that reads what is committed.
found(b) == b \in stored

process_confirmed(b) ==
    /\ b \in background
    /\ background' = background \ {b}
    /\ told' = IF found(b) THEN told \cup {b} ELSE told
    /\ dropped' = IF found(b) THEN dropped ELSE dropped \cup {b}
    /\ UNCHANGED <<queue_vars, winner, confirmed>>

Init ==
    /\ winner \in Fork
    /\ queued = <<>> /\ forced = <<>>
    /\ active = FALSE /\ stopped = FALSE
    /\ thread = "top" /\ count = 0 /\ hand = Nothing
    /\ ledger = {winner} /\ stored = {winner}
    /\ caller = [c \in Caller |-> "out"] /\ before = [c \in Caller |-> {}]
    /\ added = {winner} /\ used = {}
    /\ confirmed = FALSE
    /\ background = {} /\ told = {} /\ dropped = {}

Next ==
    \/ \E b \in Fork, enough, quorum \in BOOLEAN : confirm_if_quorum(b, enough, quorum)
    \/ \E b \in Fork : process_confirmed(b)
    \/ QueueNext /\ UNCHANGED confirmation

Spec == Init /\ [][Next]_vars

-----------------------------------------------------------------------------
\* The election and the notifications are well formed.
ConfirmationTypeOK ==
    /\ QueueTypeOK
    /\ winner \in Fork /\ confirmed \in BOOLEAN
    /\ background \subseteq Fork /\ told \subseteq Fork /\ dropped \subseteq Fork

\* One election tells wallets and observers of one block at most, whatever the
\* votes do after the quorum: nobody hears of two competitors.
ToldAtMostOne == Cardinality(told) <= 1

\* process_confirmed reads what is committed, and the observers are told of no
\* block that the committed store does not hold when they are told.
ToldIsStored == told' \subseteq told \cup stored

\* process_confirmed misses a block only while the block is still on its way
\* through the forced queue, or a competitor was forced meanwhile.
DroppedIsUnsettled ==
    \A b \in dropped' \ dropped :
        b \in Elements(forced) \cup {hand.block} \cup (ledger \ stored) \/ rivals(b) \cap used # {}
=============================================================================
