------------------------------ MODULE MCVotes -------------------------------
(***************************************************************************)
(* What the node does with votes.  A behaviour is an election, one of the  *)
(* parts of MCElections, or one of four: in "store" threads use VoteStore; *)
(* in "processor" two nodes exchange votes (VoteProcessor); in "online"    *)
(* votes make representatives join OnlineReps while weights change; in     *)
(* "gap" votes are counted for blocks that miss their predecessor          *)
(* (GapVotes).  The last three keep their variables in s1, s2, ....  The   *)
(* variables of the other parts stay as they are.                          *)
(***************************************************************************)
EXTENDS VoteStore, MCElections

CONSTANT w1

VARIABLES s1, s2, s3, s4, s5, s6, s7, s8

from7 == <<s7, s8>>
from6 == <<s6, from7>>
slots == <<s1, s2, s3, s4, s5, from6>>
all == <<part, vars, store_vars, slots>>

Processor == INSTANCE VoteProcessor WITH
    Node <- {"rep", "n1"}, Rep <- "rep", Hash <- {1, 2}, Gap <- 1, Modulus <- 5,
    MaxVotes <- 2, MaxTwice <- 1,
    known <- s1, electing <- s2, last <- s3, network <- s4, working <- s5,
    result <- s6, votes <- s7, twice <- s8
Online == INSTANCE OnlineReps WITH
    Rep <- 1..3, Supply <- 3, Cutoff <- 2, MaxChanges <- 2,
    weight <- s1, reps <- s2, total <- s3, moved <- s4, changes <- s5
Gaps == INSTANCE GapVotes WITH
    Hash <- 1..3, Rep <- 1..3, Heavy <- {1}, threshold <- 2, max <- 2,
    blocks <- s1, votes <- s2, stored <- s3, alarms <- s4, attempts <- s5, enough <- s6

Idle7 == s7 = 0 /\ s8 = 0
Idle6 == s6 = 0 /\ Idle7
IdleSlots == s1 = 0 /\ s2 = 0 /\ s3 = 0 /\ s4 = 0 /\ s5 = 0 /\ Idle6

MCInit ==
    \/ ElectionInit /\ StoreInit /\ IdleSlots
    \/ /\ Init
       /\ \/ part = "store" /\ StoreInit /\ IdleSlots
          \/ part = "processor" /\ Processor!Init /\ StoreInit
          \/ part = "online" /\ Online!Init /\ Idle6 /\ StoreInit
          \/ part = "gap" /\ Gaps!Init /\ Idle7 /\ StoreInit
MCNext ==
    \/ ElectionNext /\ UNCHANGED <<store_vars, slots>>
    \/ part = "store" /\ StoreNext /\ UNCHANGED <<part, vars, slots>>
    \/ part = "processor" /\ Processor!Next /\ UNCHANGED <<part, vars, store_vars>>
    \/ part = "online" /\ Online!Next /\ UNCHANGED <<part, vars, store_vars, from6>>
    \/ part = "gap" /\ Gaps!Next /\ UNCHANGED <<part, vars, store_vars, from7>>

\* Messages arrive, handlers finish and the representative has blocks to vote
\* on; the alarm calls what was given to it.
MCSpec ==
    /\ MCInit /\ [][MCNext]_all
    /\ ElectionFairness
    /\ WF_(Processor!vars)(part = "processor" /\ \E m \in s4 : Processor!vote_begin(m))
    /\ WF_(Processor!vars)(part = "processor" /\ \E w \in s5 : Processor!vote_end(w))
    /\ WF_(Processor!vars)(part = "processor" /\ \E hash \in 1..2 : Processor!confirm_block(hash))
    /\ WF_(Online!vars)(part = "online" /\ Online!recalculate_stake)
    /\ \A h \in 1..3 : WF_(Gaps!vars)(part = "gap" /\ Gaps!look(h))

\* The flush timer runs again and again, and a transaction is closed in the end.
NumbersSpec ==
    /\ part = "store" /\ Init /\ StoreInit /\ IdleSlots
    /\ [][StoreNext /\ UNCHANGED <<part, vars, slots>>]_all
    /\ WF_store_vars(flush_begin) /\ WF_store_vars(flush) /\ WF_store_vars(flush_commit)
    /\ \A t \in User : WF_store_vars(end(t))

-----------------------------------------------------------------------------

\* While no weight changes, online_stake is the sum of the weights of the
\* representatives heard of lately, however they join, expire and return; no vote
\* wraps it, and a total that drifted comes right after the last change.
StakeIsSum ==
    /\ [](part = "online" => Online!TypeOK /\ Online!StakeIsSum)
    /\ [][part = "online" => Online!NeverWraps]_all
    /\ <>[](part = "online" => Online!Settled)

\* A block that representatives above the threshold voted for while gap_cache held
\* it gets into the ledger or a bootstrap is started for it, also when the cache
\* drops the entry before the alarm looks; for no other block is one started.
WantedIsFetched ==
    /\ [](part = "gap" => Gaps!TypeOK)
    /\ [][part = "gap" => Gaps!OnlyForMissing]_all
    /\ []<>(part = "gap" => s6 \subseteq s3 \cup s5)
=============================================================================
