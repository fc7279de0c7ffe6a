--------------------------- MODULE VoteProcessor ----------------------------
(***************************************************************************)
(* rai::vote_processor::vote (rai/node/node.cpp) at several nodes: how a   *)
(* vote of one representative is classified, and the answer that brings a  *)
(* representative that lost its sequence number back.  A handler first     *)
(* takes the highest known vote (block_store::vote_max), and after that    *)
(* lets the election see the vote; handlers of one node interleave.  The   *)
(* network delivers in any order, and may deliver twice.                   *)
(***************************************************************************)
EXTENDS Integers

CONSTANTS
    Node,          \* nodes
    Rep,           \* the node with the representative's key
    Hash,          \* hashes of two blocks with one root, as numbers
    Gap,           \* 10000 in the code
    Modulus,       \* 2^64 in the code
    MaxVotes,      \* bound on the votes the representative makes
    MaxTwice       \* bound on messages delivered twice

Sequence == 0..Modulus - 1
Vote == [sequence : Sequence, hash : Hash]
NoVote == [sequence |-> 0, hash |-> 0]
Message == [to : Node, from : Node, vote : Vote]

VARIABLES
    known,       \* node -> what vote_current returns; NoVote is none
    electing,    \* nodes with an election for the root
    last,        \* node -> the election's last_votes entry; NoVote is none
    network,     \* messages on their way
    working,     \* messages being handled, with what vote_max returned
    result,      \* the last result of vote_processor::vote
    votes,       \* how many votes the representative made
    twice        \* how many messages were delivered twice

vars == <<known, electing, last, network, working, result, votes, twice>>

Code == {"none", "replay", "vote"}
Result == [code : Code, vote : Vote \cup {NoVote}, max : Vote \cup {NoVote}, reply : BOOLEAN]

\* vote_max
higher(current, vote) == IF current.sequence > vote.sequence THEN current ELSE vote

\* vote_info::operator<
before(l, v) == l.sequence < v.sequence \/ (l.sequence = v.sequence /\ l.hash < v.hash)

\* A vote the network duplicates stays on its way.
vote_begin(m) ==
    /\ m \in network
    /\ \/ network' = network \ {m} /\ twice' = twice
       \/ twice < MaxTwice /\ network' = network /\ twice' = twice + 1
    /\ LET max == higher(known[m.to], m.vote) IN
        /\ known' = [known EXCEPT ![m.to] = max]
        /\ working' = working \cup {[message |-> m, max |-> max]}
    /\ UNCHANGED <<electing, last, result, votes>>

\* active.vote: TRUE is a replay.  The cooldown may hold a newer vote back.
active_vote(n, vote, replay) ==
    \/ /\ n \notin electing
       /\ ~replay /\ last' = last
    \/ /\ n \in electing
       /\ replay = (last[n] # NoVote /\ ~before(last[n], vote))
       /\ \/ ~replay /\ last' = [last EXCEPT ![n] = vote]
          \/ last[n] # NoVote /\ last' = last

code(replay, max, vote) == IF ~replay \/ max.sequence > vote.sequence THEN "vote" ELSE "replay"

\* The sum is a uint64_t.
answers(max, vote) == max.sequence > (vote.sequence + Gap) % Modulus

\* The rest of vote, for a vote whose signature is right.
vote_end(w) ==
    LET m == w.message
        reply == answers(w.max, m.vote)
    IN  /\ w \in working
        /\ working' = working \ {w}
        /\ \E replay \in BOOLEAN :
               /\ active_vote(m.to, m.vote, replay)
               /\ result' = [code |-> code(replay, w.max, m.vote), vote |-> m.vote, max |-> w.max, reply |-> reply]
        /\ network' = IF reply THEN network \cup {[to |-> m.from, from |-> m.to, vote |-> w.max]} ELSE network
        /\ UNCHANGED <<known, electing, votes, twice>>

\* confirm_block: the representative votes with vote_generate and sends to its
\* peers, few enough for list_fanout to name them all.
confirm_block(hash) ==
    /\ votes < MaxVotes
    /\ LET vote == [sequence |-> (known[Rep].sequence + 1) % Modulus, hash |-> hash] IN
        /\ known' = [known EXCEPT ![Rep] = vote]
        /\ network' = network \cup {[to |-> n, from |-> Rep, vote |-> vote] : n \in Node \ {Rep}}
    /\ votes' = votes + 1
    /\ UNCHANGED <<electing, last, working, result, twice>>

start_election(n) ==
    /\ n \notin electing
    /\ electing' = electing \cup {n}
    /\ last' = [last EXCEPT ![n] = NoVote]
    /\ UNCHANGED <<known, network, working, result, votes, twice>>

erase_election(n) ==
    /\ n \in electing
    /\ electing' = electing \ {n}
    /\ last' = [last EXCEPT ![n] = NoVote]
    /\ UNCHANGED <<known, network, working, result, votes, twice>>

\* The representative starts with a fresh store or an old one; the others may
\* know votes of an earlier life.
Init ==
    /\ known \in {k \in [Node -> Vote \cup {NoVote}] : k[Rep] = NoVote \/ \E n \in Node \ {Rep} : k[n].sequence >= k[Rep].sequence}
    /\ electing = {}
    /\ last = [n \in Node |-> NoVote]
    /\ network = {}
    /\ working = {}
    /\ result = [code |-> "none", vote |-> NoVote, max |-> NoVote, reply |-> FALSE]
    /\ votes = 0
    /\ twice = 0

Next ==
    \/ \E m \in network : vote_begin(m)
    \/ \E w \in working : vote_end(w)
    \/ \E hash \in Hash : confirm_block(hash)
    \/ \E n \in Node : start_election(n) \/ erase_election(n)

Spec == Init /\ [][Next]_vars

-----------------------------------------------------------------------------
\* Votes, messages and results are well formed.
TypeOK ==
    /\ known \in [Node -> Vote \cup {NoVote}]
    /\ electing \subseteq Node
    /\ last \in [Node -> Vote \cup {NoVote}]
    /\ network \subseteq Message
    /\ working \subseteq [message : Message, max : Vote]
    /\ result \in Result
    /\ votes \in 0..MaxVotes
    /\ twice \in 0..MaxTwice

\* A number to which the gap cannot be added in 64 bits.
Wraps(vote) == vote.sequence + Gap >= Modulus

\* Nobody knows such a number.
InRange == \A n \in Node : ~Wraps(known[n])

\* "Only do this if the sequence number is significantly different": vote answers
\* only a vote that is more than the gap behind, with a vote of a higher number.
\* The exception is a vote whose number wraps: it is answered even if it is the
\* highest known.
AnswersOnlyOld ==
    result.reply => result.max.sequence - result.vote.sequence > Gap \/ Wraps(result.vote)

\* "We're sending out a confirm_ack in response to a confirm_ack": answers are
\* not answered back and forth for ever between nodes that know different votes;
\* once the representative makes no more votes, the traffic ends.  (Two nodes that
\* know a number that wraps answer each other for ever.)
AllSettled == InRange => network = {} /\ working = {}

\* "This tries to assist rep nodes that have lost track of their highest sequence
\* number": a representative with a fresh or old store, all of whose votes
\* arrive, is brought to within the gap of what every other node knows.
CaughtUp == InRange => \A n \in Node : known[n].sequence - known[Rep].sequence <= Gap
=============================================================================
