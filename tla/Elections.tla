----------------------------- MODULE Elections ------------------------------
(***************************************************************************)
(* active_transactions and election (rai/node/node.cpp) for one root, with *)
(* ledger::tally and the block processor's forced queue.                   *)
(*                                                                         *)
(* active_transactions::vote releases the mutex before it calls            *)
(* election::vote, so the threads of the io service run election::vote on  *)
(* the same election at the same time.  A thread's call is modelled as     *)
(* four steps: record the vote, tally, switch the winner, confirm.         *)
(***************************************************************************)
EXTENDS Integers, Sequences, FiniteSets, FiniteSetsExt, Functions

CONSTANTS
    Rep,             \* representatives
    Own,             \* the representatives in the node's own wallets
    Weight,          \* Rep -> voting weight in the ledger
    Blocks,          \* the blocks that compete for the root, ordered like their hashes
    Stake,           \* online_reps::online_stake
    Minimum,         \* config.online_weight_minimum
    Quorum,          \* config.online_weight_quorum, percent
    Votes,           \* the votes the other representatives send, in any order and any number of times
    Thread,          \* io threads that handle votes
    MaxSequence,     \* bound on vote sequence numbers
    MaxElections,    \* bound on elections for the root
    AnnouncementMin  \* active_transactions::announcement_min

Vote == [rep : Rep, sequence : 1..MaxSequence, block : Blocks]

ASSUME ElectionValues ==
    /\ Votes \subseteq Vote
    /\ Own \subseteq Rep
    /\ Weight \in [Rep -> Nat]
    /\ Blocks \subseteq Nat \ {0}
    /\ {Stake, Minimum, Quorum, MaxSequence, MaxElections, AnnouncementMin} \subseteq Nat
    /\ Minimum <= Stake

VARIABLES
    elections,       \* every election object so far
    active,          \* roots: the number of the active election, or 0
    announcements,   \* of the active election
    calls,           \* thread -> where its election::vote call is
    broadcasts,      \* <<election, own representative>> still to vote in the background
    ledger,          \* the stored block with this root, or NoBlock
    root_exists,     \* the block or account the root names is stored
    forced,          \* block_processor::forced, front first
    confirmations    \* what confirm_once handed to the background, oldest first

vars == <<elections, active, announcements, calls, broadcasts, ledger, root_exists, forced, confirmations>>

NoBlock == 0
NoVote == [sequence |-> 0, block |-> NoBlock]
Idle == [step |-> "idle"]

\* An election knows the block it was started with as the vote of
\* not_an_account, whose weight is 0; rep_votes[r] = NoBlock is no vote of r.
NewElection(b) == [first |-> b, rep_votes |-> [r \in Rep |-> NoBlock],
                   last_votes |-> [r \in Rep |-> NoVote], winner |-> b, confirmed |-> FALSE]

-----------------------------------------------------------------------------
(* ledger::tally, node::delta, election::have_quorum *)

Candidates(e) == {e.first} \cup {e.rep_votes[r] : r \in {q \in Rep : e.rep_votes[q] # NoBlock}}
Total(e, b) == SumFunctionOnSet(Weight, {r \in Rep : e.rep_votes[r] = b})
Totals(e) == [b \in Candidates(e) |-> Total(e, b)]

\* tally returns a map from totals to blocks: of blocks with the same total one
\* stays, whichever the hash table yields last.
Leaders(totals) == {b \in DOMAIN totals : \A c \in DOMAIN totals : totals[c] <= totals[b]}
Counted(totals) == SumSet(Range(totals))

delta == (Stake \div 100) * Quorum

\* mutant
have_majority(totals) == Max(Range(totals)) > 0
have_quorum(totals) ==
    LET first == Max(Range(totals))
        second == Max({0} \cup (Range(totals) \ {first}))
    IN  first > second + delta

-----------------------------------------------------------------------------
(* election::vote *)

\* active_transactions::vote looks the election up; election::vote ignores
\* representatives with 0.1% of the stake or less.
Called(t, v) ==
    IF active # 0 /\ Weight[v.rep] > Stake \div 1000
    THEN [calls EXCEPT ![t] = [step |-> "record", election |-> active, vote |-> v]]
    ELSE calls

vote(t, v) ==
    /\ calls[t] = Idle
    /\ calls' = Called(t, v)
    /\ UNCHANGED <<elections, active, announcements, broadcasts, ledger, root_exists, forced, confirmations>>

\* vote_info::operator<
Newer(v, last) == last.sequence < v.sequence \/ (last.sequence = v.sequence /\ last.block < v.block)

vote_record(t) ==
    LET call == calls[t]
        v == call.vote
        e == elections[call.election]
    IN  /\ call.step = "record"
        /\ Newer(v, e.last_votes[v.rep])
        /\ elections' = [elections EXCEPT
               ![call.election].last_votes[v.rep] = [sequence |-> v.sequence, block |-> v.block],
               ![call.election].rep_votes[v.rep] = v.block]
        /\ calls' = [calls EXCEPT ![t] = [step |-> "tally", election |-> call.election]]
        /\ UNCHANGED <<active, announcements, broadcasts, ledger, root_exists, forced, confirmations>>

\* A replay, or a vote of a representative that voted less than its cooldown ago.
vote_drop(t) ==
    LET call == calls[t]
    IN  /\ call.step = "record"
        /\ elections[call.election].last_votes[call.vote.rep] # NoVote
        /\ calls' = [calls EXCEPT ![t] = Idle]
        /\ UNCHANGED <<elections, active, announcements, broadcasts, ledger, root_exists, forced, confirmations>>

(* election::confirm_if_quorum *)
vote_tally(t) ==
    LET call == calls[t]
        totals == Totals(elections[call.election])
    IN  /\ call.step = "tally"
        /\ \E b \in Leaders(totals) :
              calls' = [calls EXCEPT ![t] = [step |-> "switch", election |-> call.election,
                                             totals |-> totals, leader |-> b]]
        /\ UNCHANGED <<elections, active, announcements, broadcasts, ledger, root_exists, forced, confirmations>>

\* mutant
OvertakesAbove(totals, leader, winner) == Counted(totals) > Minimum /\ leader # winner
Overtakes(totals, leader, winner) == Counted(totals) >= Minimum /\ leader # winner

vote_switch(t) ==
    LET call == calls[t]
        switch == Overtakes(call.totals, call.leader, elections[call.election].winner)
    IN  /\ call.step = "switch"
        /\ forced' = IF switch THEN <<call.leader>> \o forced ELSE forced
        /\ elections' = IF switch THEN [elections EXCEPT ![call.election].winner = call.leader] ELSE elections
        /\ calls' = [calls EXCEPT ![t] = [step |-> "confirm", election |-> call.election, totals |-> call.totals]]
        /\ UNCHANGED <<active, announcements, broadcasts, ledger, root_exists, confirmations>>

\* mutant
confirm_again(e) == TRUE
\* confirm_once: confirmed.exchange(true) lets one caller through.
confirm_once(e) == ~e.confirmed

vote_confirm(t) ==
    LET call == calls[t]
        e == elections[call.election]
    IN  /\ call.step = "confirm"
        /\ IF have_quorum(call.totals) /\ confirm_once(e)
           THEN /\ elections' = [elections EXCEPT ![call.election].confirmed = TRUE]
                /\ confirmations' = Append(confirmations, [election |-> call.election, block |-> e.winner])
           ELSE UNCHANGED <<elections, confirmations>>
        /\ calls' = [calls EXCEPT ![t] = Idle]
        /\ UNCHANGED <<active, announcements, broadcasts, ledger, root_exists, forced>>

vote_step(t) == vote_record(t) \/ vote_drop(t) \/ vote_tally(t) \/ vote_switch(t) \/ vote_confirm(t)

-----------------------------------------------------------------------------
(* active_transactions *)

\* An election is started with a block that was just stored or looked up.
startable == active = 0 /\ ledger # NoBlock

start ==
    /\ startable
    /\ Len(elections) < MaxElections
    /\ elections' = Append(elections, NewElection(ledger))
    /\ active' = Len(elections')
    /\ announcements' = 0
    /\ UNCHANGED <<calls, broadcasts, ledger, root_exists, forced, confirmations>>

\* mutant
election_over(e) == e.confirmed /\ announcements > AnnouncementMin
\* The test of announce_votes; announcements stops counting at AnnouncementMin.
inactive(e) == ~root_exists \/ (e.confirmed /\ announcements >= AnnouncementMin - 1)

announce_votes ==
    /\ active # 0
    /\ IF inactive(elections[active])
       THEN /\ active' = 0
            /\ announcements' = 0
            /\ UNCHANGED broadcasts
       ELSE /\ broadcasts' = broadcasts \cup ({active} \X Own)
            /\ announcements' = IF announcements < AnnouncementMin THEN announcements + 1 ELSE announcements
            /\ UNCHANGED active
    /\ UNCHANGED <<elections, calls, ledger, root_exists, forced, confirmations>>

\* election::broadcast_winner in the background: an own representative votes for
\* the winner.  Its number is any: vote_generate counts over all elections.
broadcast_winner(t, i, r) ==
    /\ calls[t] = Idle
    /\ <<i, r>> \in broadcasts
    /\ broadcasts' = broadcasts \ {<<i, r>>}
    /\ \E sequence \in 1..MaxSequence :
          calls' = Called(t, [rep |-> r, sequence |-> sequence, block |-> elections[i].winner])
    /\ UNCHANGED <<elections, active, announcements, ledger, root_exists, forced, confirmations>>

(* block_processor: a forced block replaces the stored one *)
process_forced ==
    /\ forced # <<>>
    /\ forced' = Tail(forced)
    /\ ledger' = IF root_exists THEN Head(forced) ELSE ledger
    /\ UNCHANGED <<elections, active, announcements, calls, broadcasts, root_exists, confirmations>>

\* The block below is rolled back, by an election of its own.
root_rolled_back ==
    /\ root_exists
    /\ root_exists' = FALSE
    /\ ledger' = NoBlock
    /\ UNCHANGED <<elections, active, announcements, calls, broadcasts, forced, confirmations>>

Init ==
    /\ elections = <<>>
    /\ active = 0
    /\ announcements = 0
    /\ calls = [t \in Thread |-> Idle]
    /\ broadcasts = {}
    /\ ledger \in Blocks
    /\ root_exists = TRUE
    /\ forced = <<>>
    /\ confirmations = <<>>

Next ==
    \/ \E t \in Thread, v \in Votes : vote(t, v)
    \/ \E t \in Thread : vote_step(t)
    \/ start
    \/ announce_votes
    \/ \E t \in Thread, p \in broadcasts : broadcast_winner(t, p[1], p[2])
    \/ process_forced
    \/ root_rolled_back

Spec == Init /\ [][Next]_vars

\* Every call returns, the announcement timer keeps firing, and the block
\* processor drains its queue.
FairSpec ==
    /\ Spec
    /\ \A t \in Thread : WF_vars(vote_step(t))
    /\ WF_vars(announce_votes)
    /\ WF_vars(process_forced)

-----------------------------------------------------------------------------
\* Elections, calls and queues are well formed.
TypeOK ==
    /\ \A i \in DOMAIN elections :
          /\ elections[i].rep_votes \in [Rep -> Blocks \cup {NoBlock}]
          /\ elections[i].winner \in Blocks
          /\ elections[i].confirmed \in BOOLEAN
    /\ active \in 0..Len(elections) /\ Len(elections) <= MaxElections
    /\ announcements \in 0..AnnouncementMin
    /\ \A t \in Thread : calls[t].step # "idle" => calls[t].election \in DOMAIN elections
    /\ broadcasts \subseteq (1..MaxElections) \X Own
    /\ ledger \in Blocks \cup {NoBlock}
    /\ root_exists \in BOOLEAN
    /\ forced \in Seq(Blocks)
    /\ confirmations \in Seq([election : 1..MaxElections, block : Blocks])

\* However many threads see the quorum, an election hands one block to
\* process_confirmed and to its confirmation action, and hands it over exactly
\* when it is marked confirmed.
ConfirmedOnce ==
    /\ \A i, j \in DOMAIN confirmations :
          confirmations[i].election = confirmations[j].election => i = j
    /\ \A n \in DOMAIN elections :
          elections[n].confirmed <=> \E i \in DOMAIN confirmations : confirmations[i].election = n

\* `Confirm this block if quorum is met': the block that is confirmed leads
\* every other block by more than delta in the tally of a thread that confirms.
ByQuorum ==
    \A i \in DOMAIN confirmations' \ DOMAIN confirmations :
        \E t \in Thread :
            LET b == confirmations'[i].block
                totals == calls[t].totals
            IN  /\ calls[t].step = "confirm" /\ calls[t].election = confirmations'[i].election
                /\ b \in DOMAIN totals
                /\ \A c \in DOMAIN totals \ {b} : totals[b] > totals[c] + delta
ConfirmedByQuorum == [][ByQuorum]_vars

\* Once enough weight has voted, the node's winner is a block that leads the
\* tally of the votes it has recorded.
WinnerLeads ==
    \A n \in DOMAIN elections :
        LET totals == Totals(elections[n])
        IN  (\A t \in Thread : calls[t] = Idle) /\ Counted(totals) >= Minimum =>
                elections[n].winner \in Leaders(totals)

\* A confirmed election, or one whose root is rolled back, does not stay active.
\* (It stays confirmed, and the root does not come back.)
ElectionEnds ==
    \A n \in 1..MaxElections :
        []<>~(active = n /\ (elections[n].confirmed \/ ~root_exists))

\* `Replace our block with the winner': once the forced queue is empty and no
\* vote is being handled, the ledger holds the winner of the active election.
LedgerHoldsWinner ==
    active # 0 /\ root_exists /\ forced = <<>> /\ (\A t \in Thread : calls[t] = Idle) =>
        ledger = elections[active].winner
=============================================================================
