------------------------------ MODULE GapVotes ------------------------------
(***************************************************************************)
(* The votes in rai::gap_cache (rai/node/node.cpp): a block whose          *)
(* predecessor or source is missing waits in the cache, votes for it are   *)
(* tallied, and when they weigh enough an alarm looks five seconds later   *)
(* whether the block got into the ledger, and bootstraps if it did not.    *)
(* The cache drops its oldest entry, with its votes, when it is full.      *)
(***************************************************************************)
EXTENDS Integers, FiniteSetsExt, SequencesExt

CONSTANTS
    Hash,        \* blocks
    Rep,         \* representatives
    Heavy,       \* those of weight 2; the others have weight 1
    threshold,   \* what bootstrap_threshold returns
    max          \* gap_cache::max

VARIABLES
    blocks,      \* the entries by arrival, the oldest first
    votes,       \* entry -> the representatives that voted for it
    stored,      \* the blocks in the ledger
    alarms,      \* the blocks whose closure is in the alarm
    attempts,    \* history: the blocks a bootstrap was started for
    enough       \* history: the blocks whose tally went above the threshold
                 \* while they were in the cache

vars == <<blocks, votes, stored, alarms, attempts, enough>>

weight(r) == IF r \in Heavy THEN 2 ELSE 1
tally(reps) == FoldSet(LAMBDA r, sum : sum + weight(r), 0, reps)
Without(h) == SelectSeq(blocks, LAMBDA x : x # h)

over(n) == n > max

\* A block with a gap is processed (again): a known entry is renewed, and keeps
\* its votes.
add(h) ==
    /\ h \notin stored
    /\ LET entries == Append(Without(h), h) IN
           /\ blocks' = IF over(Len(entries)) THEN Tail(entries) ELSE entries
           /\ votes' = [x \in Hash |-> IF x \in ToSet(blocks') THEN votes[x] ELSE {}]
    /\ UNCHANGED <<stored, alarms, attempts, enough>>

\* mutant
far_above(sum) == sum > threshold + 1
above(sum) == sum > threshold

\* Every further vote adds an alarm as well; one closure for a block does what
\* several do.
vote(r, h) ==
    /\ h \in ToSet(blocks)
    /\ votes' = [votes EXCEPT ![h] = @ \cup {r}]
    /\ alarms' = IF above(tally(votes[h] \cup {r})) THEN alarms \cup {h} ELSE alarms
    /\ enough' = IF tally(votes[h] \cup {r}) > threshold THEN enough \cup {h} ELSE enough
    /\ UNCHANGED <<blocks, stored, attempts>>

\* The block is processed with success and its entry erased.
progress(h) ==
    /\ h \notin stored
    /\ stored' = stored \cup {h}
    /\ blocks' = Without(h)
    /\ votes' = [votes EXCEPT ![h] = {}]
    /\ UNCHANGED <<alarms, attempts, enough>>

missing(h) == h \notin stored

\* The alarm.  bootstrap does nothing while an attempt runs, which is then the one
\* for this block too.
look(h) ==
    /\ h \in alarms
    /\ alarms' = alarms \ {h}
    /\ attempts' = IF missing(h) THEN attempts \cup {h} ELSE attempts
    /\ UNCHANGED <<blocks, votes, stored, enough>>

Init ==
    /\ blocks = <<>>
    /\ votes = [h \in Hash |-> {}]
    /\ stored = {} /\ alarms = {} /\ attempts = {} /\ enough = {}

Next ==
    \/ \E h \in Hash : add(h) \/ progress(h) \/ look(h)
    \/ \E r \in Rep, h \in Hash : vote(r, h)

Spec == Init /\ [][Next]_vars

-----------------------------------------------------------------------------
\* Entries and votes are well formed, the cache is within its limit, and only its
\* entries have votes.
TypeOK ==
    /\ blocks \in Seq(Hash) /\ IsInjective(blocks) /\ Len(blocks) <= max
    /\ votes \in [Hash -> SUBSET Rep]
    /\ \A h \in Hash : votes[h] # {} => h \in ToSet(blocks)
    /\ stored \subseteq Hash /\ alarms \subseteq Hash
    /\ attempts \subseteq Hash /\ enough \subseteq Hash

\* A bootstrap is started only for a block that is missing when the alarm looks
\* and that representatives above the threshold voted for during one stay in the
\* cache; repeated votes of few do not add up.
OnlyForMissing == attempts' \subseteq attempts \cup (enough \ stored)
=============================================================================
