---------------------------- MODULE MCElections -----------------------------
(***************************************************************************)
(* Small instances of Elections: three representatives, two competing      *)
(* blocks.  A behaviour is one of two parts: in "threads", the constants   *)
(* of the configuration, several io threads handle votes and elections     *)
(* follow each other; in "votes" one thread handles the votes of others,   *)
(* changed and in every order, while this node votes too.  MCVotes adds    *)
(* what else the node does with votes.                                     *)
(***************************************************************************)
EXTENDS Elections

CONSTANTS r1, r2, r3, t1, t2

VARIABLE part

\* Two equal representatives and a smaller one; no single one is a majority.
Weights == [r \in Rep |-> IF r = r3 THEN 100 ELSE 200]
\* Every representative may vote for either block and change its vote.
AllVotes == {v \in Vote : v.rep \notin Own}
\* One representative may change its vote, one votes once.
OneChanges == {v \in Vote : v.rep = r1 \/ (v.rep = r2 /\ v.sequence = 1)}
\* The other representatives vote for the second block.
SettledVotes == {[rep |-> r, sequence |-> 1, block |-> 2] : r \in Rep \ Own}

OneThread == INSTANCE Elections WITH
    Own <- {r3}, Votes <- OneChanges, Thread <- {t1}, MaxElections <- 1

ThreadsSpec ==
    /\ part = "threads" /\ Init
    /\ [][Next /\ UNCHANGED part]_<<part, vars>>
    /\ \A t \in Thread : WF_vars(vote_step(t))
    /\ WF_vars(announce_votes) /\ WF_vars(process_forced)

ElectionInit ==
    \/ part = "threads" /\ Init
    \/ part = "votes" /\ OneThread!Init
ElectionNext ==
    \/ part = "threads" /\ Next /\ UNCHANGED part
    \/ part = "votes" /\ OneThread!Next /\ UNCHANGED part

\* Every call returns, the announcement timer keeps firing, and the block
\* processor drains its queue.
ElectionFairness ==
    /\ \A t \in Thread : WF_vars(part = "threads" /\ vote_step(t))
    /\ WF_vars(part = "threads" /\ announce_votes)
    /\ WF_vars(part = "votes" /\ OneThread!vote_step(t1))
    /\ WF_vars(part = "votes" /\ OneThread!announce_votes)
    /\ WF_vars(part \in {"threads", "votes"} /\ process_forced)

\* Once enough weight has voted, the node's winner is a block that leads the
\* tally of the votes it has recorded, when votes are handled one by one.
OneThreadWinnerLeads == part = "votes" => OneThread!WinnerLeads

\* `Confirm this block if quorum is met': the block that confirm_once confirms
\* leads every other block by more than delta in the tally of the thread that
\* confirms it, when votes are handled one by one and online_weight_minimum is
\* not above delta.
OneThreadConfirmsByQuorum == [][part = "votes" => OneThread!ByQuorum]_vars
=============================================================================
