--------------------------- MODULE ElectionsProofs --------------------------
(***************************************************************************)
(* Elections for any representatives, weights, votes, threads and bounds:  *)
(* type correctness, that an election confirms one block once, and that    *)
(* its winner leads when one thread handles the votes.                     *)
(***************************************************************************)
EXTENDS Elections, TLAPS

Choice == Blocks \cup {NoBlock}
Election == [first : Blocks, rep_votes : [Rep -> Choice],
             last_votes : [Rep -> [sequence : Nat, block : Choice]],
             winner : Blocks, confirmed : BOOLEAN]

\* A call is idle, or in an election that exists with what its next step uses.
CallOK(c) ==
    \/ c = Idle
    \/ /\ c.step \in {"record", "tally", "switch", "confirm"}
       /\ c.election \in 1..Len(elections)
       /\ c.step = "record" => c.vote \in Vote
       /\ c.step = "switch" => c.leader \in Blocks

\* Type correctness with the parts of an election and of a call that TypeOK
\* leaves out.
Types ==
    /\ elections \in Seq(Election) /\ Len(elections) <= MaxElections
    /\ active \in 0..Len(elections)
    /\ announcements \in 0..AnnouncementMin
    /\ calls = [t \in Thread |-> calls[t]] /\ \A t \in Thread : CallOK(calls[t])
    /\ broadcasts \subseteq (1..Len(elections)) \X Own
    /\ ledger \in Choice
    /\ root_exists \in BOOLEAN
    /\ forced \in Seq(Blocks)
    /\ confirmations \in Seq([election : 1..MaxElections, block : Blocks])

\* The bounds are numbers, and own representatives are representatives.
LEMMA Constants ==
    /\ {Stake, Minimum, Quorum, MaxSequence, MaxElections, AnnouncementMin} \subseteq Nat
    /\ Own \subseteq Rep /\ Blocks \subseteq Nat \ {0} /\ Votes \subseteq Vote
  BY ElectionValues, Zenon

\* The stronger type invariant of the proofs implies the one the runs check.
LEMMA TypesImplyTypeOK == Types => TypeOK
<1> SUFFICES ASSUME Types PROVE TypeOK
  BY Zenon
<1>1. \A i \in DOMAIN elections : elections[i] \in Election /\ i \in 1..Len(elections)
  BY DEF Types
<1>2. \A i \in DOMAIN elections :
          /\ elections[i].rep_votes \in [Rep -> Blocks \cup {NoBlock}]
          /\ elections[i].winner \in Blocks
          /\ elections[i].confirmed \in BOOLEAN
  BY <1>1, Zenon DEF Election, Choice
<1>3. \A t \in Thread : calls[t].step # "idle" => calls[t].election \in DOMAIN elections
  BY DEF Types, CallOK, Idle
<1>4. broadcasts \subseteq (1..MaxElections) \X Own
  <2>1. Len(elections) \in Nat /\ MaxElections \in Nat /\ Len(elections) <= MaxElections
    BY Constants DEF Types
  <2>2. 1..Len(elections) \subseteq 1..MaxElections
    BY <2>1
  <2> QED
    BY <2>2, Zenon DEF Types
<1> QED
  BY <1>2, <1>3, <1>4, Zenon DEF TypeOK, Types, Choice

\* The node starts without elections, with every field of its type.
LEMMA InitTypes == Init => Types
<1> SUFFICES ASSUME Init PROVE Types
  BY Zenon
<1>1. root_exists \in BOOLEAN
  BY Zenon DEF Init
<1>2. calls = [t \in Thread |-> calls[t]] /\ \A t \in Thread : CallOK(calls[t])
  BY Zenon DEF Init, CallOK
<1>3. elections \in Seq(Election) /\ Len(elections) = 0 /\ broadcasts = {} /\ forced \in Seq(Blocks)
      /\ confirmations \in Seq([election : 1..MaxElections, block : Blocks])
  BY DEF Init
<1> QED
  BY <1>1, <1>2, <1>3, Constants DEF Init, Types, Choice

-----------------------------------------------------------------------------
\* Replacing an element of a sequence keeps its type and length.
LEMMA ReplaceElement ==
  ASSUME NEW S, NEW s \in Seq(S), NEW i \in 1..Len(s), NEW x \in S
  PROVE  [s EXCEPT ![i] = x] \in Seq(S) /\ Len([s EXCEPT ![i] = x]) = Len(s)
  OBVIOUS

\* A call that a thread is put in keeps the calls well formed.
LEMMA CallsKept ==
  ASSUME Types, NEW t \in Thread,
         calls' = [calls EXCEPT ![t] = calls'[t]],
         Len(elections') = Len(elections),
         CallOK(calls[t])'
  PROVE  calls' = [x \in Thread |-> calls'[x]] /\ \A x \in Thread : CallOK(calls[x])'
<1>1. calls' = [x \in Thread |-> calls'[x]]
  BY Zenon DEF Types
<1>2. ASSUME NEW x \in Thread PROVE CallOK(calls[x])'
  <2>1. CASE x = t
    BY <2>1, Zenon DEF Types
  <2>2. CASE x # t
    <3>1. calls'[x] = calls[x] /\ CallOK(calls[x])
      BY <2>2, Zenon DEF Types
    <3> QED
      BY <3>1, Zenon DEF CallOK
  <2> QED
    BY <2>1, <2>2, Zenon
<1> QED
  BY <1>1, <1>2, Zenon

\* The candidates of an election are blocks, and so are the leaders.
LEMMA LeadersAreBlocks ==
  ASSUME NEW e \in Election, NEW b \in Leaders(Totals(e))
  PROVE  b \in Blocks
  BY Zenon DEF Leaders, Totals, Candidates, Election, Choice

\* Taking a step as a thread: only the thread's call and the fields named in the
\* step of Types change.
LEMMA IdleIsOK == CallOK(Idle)
  BY Zenon DEF CallOK

\* A vote that is handed to election::vote leaves the thread idle or in a call
\* of the active election.
LEMMA CalledTypes ==
  ASSUME Types, NEW t \in Thread, NEW v \in Vote,
         calls[t] = Idle, calls' = Called(t, v), UNCHANGED elections
  PROVE  calls' = [x \in Thread |-> calls'[x]] /\ \A x \in Thread : CallOK(calls[x])'
<1>1. CASE calls' = calls
  BY <1>1, Zenon DEF Types, CallOK
<1>2. CASE calls' = [calls EXCEPT ![t] = [step |-> "record", election |-> active, vote |-> v]] /\ active # 0
  <2>1. calls'[t] = [step |-> "record", election |-> active, vote |-> v]
    BY <1>2, Zenon DEF Types
  <2>2. active \in 1..Len(elections')
    BY <1>2 DEF Types
  <2>3. CallOK(calls[t])'
    BY <2>1, <2>2 DEF CallOK
  <2>4. calls' = [calls EXCEPT ![t] = calls'[t]]
    BY <1>2, <2>1, Zenon
  <2> QED
    BY <2>3, <2>4, CallsKept, Zenon
<1> QED
  BY <1>1, <1>2 DEF Called

\* A vote that arrives is handed to a thread; nothing else changes.
LEMMA VoteTypes == ASSUME Types, NEW t \in Thread, NEW v \in Votes, vote(t, v) PROVE Types'
<1>1. calls' = [x \in Thread |-> calls'[x]] /\ \A x \in Thread : CallOK(calls[x])'
  BY CalledTypes, Constants, Zenon DEF vote
<1> QED
  BY <1>1, Zenon DEF Types, vote

\* broadcast_winner hands a thread the vote of an own representative.
LEMMA BroadcastTypes ==
  ASSUME Types, NEW t \in Thread, NEW p \in broadcasts, broadcast_winner(t, p[1], p[2])
  PROVE  Types'
<1> DEFINE w == elections[p[1]].winner
<1>1. p[1] \in 1..Len(elections) /\ p[2] \in Own
  BY Zenon DEF Types
<1>2. p[2] \in Rep /\ w \in Blocks
  <2>1. elections[p[1]] \in Election
    BY <1>1 DEF Types
  <2> QED
    BY <1>1, <2>1, Constants, Zenon DEF Election
<1>3. PICK sequence \in 1..MaxSequence :
         calls' = Called(t, [rep |-> p[2], sequence |-> sequence, block |-> w])
  BY Zenon DEF broadcast_winner
<1> DEFINE v == [rep |-> p[2], sequence |-> sequence, block |-> w]
<1>4. v \in Vote
  BY <1>2, <1>3, Zenon DEF Vote
<1>5. calls[t] = Idle /\ UNCHANGED elections /\ calls' = Called(t, v)
  BY <1>3, Zenon DEF broadcast_winner
<1>6. calls' = [x \in Thread |-> calls'[x]] /\ \A x \in Thread : CallOK(calls[x])'
  <2> HIDE DEF v
  <2> QED
    BY <1>4, <1>5, CalledTypes, Zenon
<1> QED
  BY <1>6, Zenon DEF Types, broadcast_winner

\* Recording a vote writes one entry of last_votes of one election.
LEMMA RecordTypes == ASSUME Types, NEW t \in Thread, vote_record(t) PROVE Types'
<1> DEFINE n == calls[t].election
           v == calls[t].vote
           e == elections[n]
           f == [e EXCEPT !.last_votes[v.rep] = [sequence |-> v.sequence, block |-> v.block],
                          !.rep_votes[v.rep] = v.block]
<1>1. calls[t].step = "record" /\ n \in 1..Len(elections) /\ v \in Vote
  BY DEF vote_record, Types, CallOK, Idle
<1>2. e \in Election /\ v.rep \in Rep /\ v.block \in Blocks
  BY <1>1 DEF Types, Vote
<1>3. v.sequence \in Nat
  BY <1>1, Constants DEF Vote
<1>4. f \in Election
  <2> HIDE DEF v, e
  <2> QED
    BY <1>2, <1>3, Zenon DEF Election, Choice
<1>5. elections' = [elections EXCEPT ![n] = f]
  BY <1>1, <1>2, Zenon DEF vote_record, Types, Election
<1>6. elections' \in Seq(Election) /\ Len(elections') = Len(elections)
  <2> HIDE DEF f, n
  <2> QED
    BY <1>1, <1>4, <1>5 DEF Types
<1>7. calls' = [calls EXCEPT ![t] = calls'[t]] /\ CallOK(calls[t])'
  BY <1>1, <1>6, Zenon DEF vote_record, Types, CallOK
<1>8. calls' = [x \in Thread |-> calls'[x]] /\ \A x \in Thread : CallOK(calls[x])'
  BY <1>6, <1>7, CallsKept, Zenon
<1> QED
  BY <1>6, <1>8, Zenon DEF Types, vote_record

\* A replay, or a vote within the cooldown, is dropped and its thread is idle again.
LEMMA DropTypes == ASSUME Types, NEW t \in Thread, vote_drop(t) PROVE Types'
<1>1. calls' = [calls EXCEPT ![t] = calls'[t]] /\ CallOK(calls[t])'
  BY Zenon DEF vote_drop, Types, CallOK
<1>2. calls' = [x \in Thread |-> calls'[x]] /\ \A x \in Thread : CallOK(calls[x])'
  BY <1>1, CallsKept, Zenon DEF vote_drop
<1> QED
  BY <1>2, Zenon DEF Types, vote_drop

\* The tally that a thread takes away with it is of the right type.
LEMMA TallyTypes == ASSUME Types, NEW t \in Thread, vote_tally(t) PROVE Types'
<1> DEFINE n == calls[t].election
           totals == Totals(elections[n])
<1>1. calls[t].step = "tally" /\ n \in 1..Len(elections)
  BY DEF vote_tally, Types, CallOK, Idle
<1>2. PICK b \in Leaders(totals) :
          calls' = [calls EXCEPT ![t] = [step |-> "switch", election |-> n, totals |-> totals, leader |-> b]]
  BY Zenon DEF vote_tally
<1>3. b \in Blocks
  BY <1>1, LeadersAreBlocks DEF Types
<1>4. calls' = [calls EXCEPT ![t] = calls'[t]] /\ CallOK(calls[t])'
  <2> HIDE DEF totals
  <2> QED
    BY <1>1, <1>2, <1>3, Zenon DEF vote_tally, Types, CallOK
<1>5. calls' = [x \in Thread |-> calls'[x]] /\ \A x \in Thread : CallOK(calls[x])'
  BY <1>4, CallsKept, Zenon DEF vote_tally
<1> QED
  BY <1>5, Zenon DEF Types, vote_tally

\* Switching the winner, or keeping it, keeps the election well-formed.
LEMMA SwitchTypes == ASSUME Types, NEW t \in Thread, vote_switch(t) PROVE Types'
<1> DEFINE n == calls[t].election
           f == [elections[n] EXCEPT !.winner = calls[t].leader]
<1>1. calls[t].step = "switch" /\ n \in 1..Len(elections) /\ calls[t].leader \in Blocks
  BY DEF vote_switch, Types, CallOK, Idle
<1>2. f \in Election
  <2>1. elections[n] \in Election
    BY <1>1 DEF Types
  <2> QED
    BY <1>1, <2>1, Zenon DEF Election
<1>3. elections' = elections \/ elections' = [elections EXCEPT ![n] = f]
  BY Zenon DEF vote_switch
<1>4. elections' \in Seq(Election) /\ Len(elections') = Len(elections)
  <2>1. [elections EXCEPT ![n] = f] \in Seq(Election) /\ Len([elections EXCEPT ![n] = f]) = Len(elections)
    BY <1>1, <1>2, ReplaceElement DEF Types
  <2>2. elections \in Seq(Election)
    BY Zenon DEF Types
  <2> HIDE DEF f, n
  <2> QED
    BY <1>3, <2>1, <2>2, Zenon
<1>5. forced' \in Seq(Blocks)
  BY <1>1 DEF vote_switch, Types
<1>6. calls' = [calls EXCEPT ![t] = calls'[t]] /\ CallOK(calls[t])'
  BY <1>1, <1>4, Zenon DEF vote_switch, Types, CallOK
<1>7. calls' = [x \in Thread |-> calls'[x]] /\ \A x \in Thread : CallOK(calls[x])'
  BY <1>4, <1>6, CallsKept
<1> QED
  BY <1>4, <1>5, <1>7, Zenon DEF Types, vote_switch

\* Confirming sets the election's flag and records the confirmation.
LEMMA ConfirmTypes == ASSUME Types, NEW t \in Thread, vote_confirm(t) PROVE Types'
<1> DEFINE n == calls[t].election
           f == [elections[n] EXCEPT !.confirmed = TRUE]
           c == [election |-> n, block |-> elections[n].winner]
<1>1. calls[t].step = "confirm" /\ n \in 1..Len(elections)
  BY DEF vote_confirm, Types, CallOK, Idle
<1>2. elections[n] \in Election
  BY <1>1 DEF Types
<1>3. f \in Election
  BY <1>2, Zenon DEF Election
<1>4. n \in 1..MaxElections
  BY <1>1, Constants, SMTT(30) DEF Types
<1>5. c \in [election : 1..MaxElections, block : Blocks]
  BY <1>2, <1>4, Zenon DEF Election
<1>6. \/ elections' = elections /\ confirmations' = confirmations
      \/ elections' = [elections EXCEPT ![n] = f] /\ confirmations' = Append(confirmations, c)
  BY Zenon DEF vote_confirm
<1>7. elections' \in Seq(Election) /\ Len(elections') = Len(elections)
  <2>1. [elections EXCEPT ![n] = f] \in Seq(Election) /\ Len([elections EXCEPT ![n] = f]) = Len(elections)
    BY <1>1, <1>3, ReplaceElement DEF Types
  <2>2. elections \in Seq(Election)
    BY DEF Types
  <2> HIDE DEF f, n, c
  <2> QED
    BY <1>6, <2>1, <2>2, Zenon
<1>8. confirmations' \in Seq([election : 1..MaxElections, block : Blocks])
  <2> DEFINE C == [election : 1..MaxElections, block : Blocks]
  <2>1. confirmations \in Seq(C) /\ c \in C
    BY <1>5, Zenon DEF Types
  <2> HIDE DEF f, n, c, C
  <2>2. Append(confirmations, c) \in Seq(C)
    BY <2>1
  <2>3. confirmations' \in Seq(C)
    BY <1>6, <2>1, <2>2, Zenon
  <2> QED
    BY <2>3, Zenon DEF C
<1>9. calls' = [calls EXCEPT ![t] = calls'[t]] /\ CallOK(calls[t])'
  BY Zenon DEF vote_confirm, Types, CallOK
<1>10. calls' = [x \in Thread |-> calls'[x]] /\ \A x \in Thread : CallOK(calls[x])'
  BY <1>7, <1>9, CallsKept
<1> QED
  BY <1>7, <1>8, <1>10, Zenon DEF Types, vote_confirm

\* active_transactions::start adds an election that is well-formed.
LEMMA StartTypes == ASSUME Types, start PROVE Types'
<1>1. ledger \in Blocks
  BY Zenon DEF start, startable, Types, Choice
<1>2. NewElection(ledger) \in Election
  <2>1. NoVote \in [sequence : Nat, block : Choice]
    BY Zenon DEF NoVote, Choice
  <2>2. FALSE \in BOOLEAN
    BY Zenon
  <2> QED
    BY <1>1, <2>1, <2>2, Zenon DEF NewElection, Election, Choice
<1>3. elections' = Append(elections, NewElection(ledger)) /\ Len(elections) < MaxElections
  BY Zenon DEF start
<1>4. elections' \in Seq(Election) /\ Len(elections') = Len(elections) + 1
  BY <1>2, <1>3 DEF Types
<1>5. Len(elections') <= MaxElections /\ active' \in 0..Len(elections') /\ 1..Len(elections) \subseteq 1..Len(elections')
  BY <1>3, <1>4, Constants, SMTT(30) DEF start, Types
<1>6. \A x \in Thread : CallOK(calls[x])'
  BY <1>5, Zenon DEF start, Types, CallOK
<1>7. broadcasts' \subseteq (1..Len(elections')) \X Own
  BY <1>5, Zenon DEF start, Types
<1>8. announcements' \in 0..AnnouncementMin
  BY Constants DEF start
<1> QED
  BY <1>4, <1>5, <1>6, <1>7, <1>8, Zenon DEF start, Types

\* The announcement loop counts, confirms and erases elections.
LEMMA AnnounceTypes == ASSUME Types, announce_votes PROVE Types'
<1>1. announcements' \in 0..AnnouncementMin /\ active' \in 0..Len(elections)
  BY Constants, SMTT(30) DEF announce_votes, Types
<1>2. broadcasts' \subseteq (1..Len(elections)) \X Own
  <2>1. active \in 1..Len(elections)
    BY DEF announce_votes, Types
  <2> QED
    BY <2>1 DEF announce_votes, Types
<1>3. \A x \in Thread : CallOK(calls[x])'
  BY Zenon DEF announce_votes, Types, CallOK
<1> QED
  BY <1>1, <1>2, <1>3, Zenon DEF announce_votes, Types

\* The forced winner is processed; the elections stay.
LEMMA ForcedTypes == ASSUME Types, process_forced PROVE Types'
<1>1. forced' \in Seq(Blocks) /\ ledger' \in Choice
  BY DEF process_forced, Types, Choice
<1>2. \A x \in Thread : CallOK(calls[x])'
  BY Zenon DEF process_forced, Types, CallOK
<1> QED
  BY <1>1, <1>2, Zenon DEF process_forced, Types

\* When the block below is rolled back, the ledger has no choice for the root.
LEMMA RolledBackTypes == ASSUME Types, root_rolled_back PROVE Types'
<1>1. root_exists' \in BOOLEAN /\ ledger' \in Choice
  BY Zenon DEF root_rolled_back, Choice
<1>2. \A x \in Thread : CallOK(calls[x])'
  BY Zenon DEF root_rolled_back, Types, CallOK
<1> QED
  BY <1>1, <1>2, Zenon DEF root_rolled_back, Types

\* Every step keeps the types.
LEMMA NextTypes == Types /\ [Next]_vars => Types'
<1> SUFFICES ASSUME Types, [Next]_vars PROVE Types'
  BY Zenon
<1>1. CASE UNCHANGED vars
  BY <1>1, Zenon DEF vars, Types, CallOK
<1>2. ASSUME NEW t \in Thread, vote_step(t) PROVE Types'
  BY <1>2, RecordTypes, DropTypes, TallyTypes, SwitchTypes, ConfirmTypes, Zenon DEF vote_step
<1> QED
  BY <1>1, <1>2, VoteTypes, BroadcastTypes, StartTypes, AnnounceTypes, ForcedTypes, RolledBackTypes, Zenon DEF Next

\* The types hold in every state.
LEMMA TypesHold == Spec => []Types
  BY InitTypes, NextTypes, PTL DEF Spec

\* Elections, calls, queues and confirmations are well formed whatever the
\* threads, the weights and the votes are.
THEOREM TypeCorrect == Spec => []TypeOK
  BY TypesHold, TypesImplyTypeOK, PTL

-----------------------------------------------------------------------------
\* A confirmation names an election that was started: without this, a new
\* election could be born with a confirmation.
Started == \A i \in DOMAIN confirmations : confirmations[i].election \in DOMAIN elections

Once == Types /\ ConfirmedOnce /\ Started

\* A step that neither confirms nor starts an election.
LEMMA ConfirmedKept ==
  ASSUME Types, ConfirmedOnce, UNCHANGED confirmations,
         DOMAIN elections' = DOMAIN elections,
         \A n \in DOMAIN elections : elections'[n].confirmed = elections[n].confirmed
  PROVE  ConfirmedOnce'
  BY Zenon DEF ConfirmedOnce

\* The thread that finds the flag down raises it and hands over the winner; every
\* other one finds it up.
LEMMA ConfirmOnce == ASSUME Types, ConfirmedOnce, NEW t \in Thread, vote_confirm(t) PROVE ConfirmedOnce'
<1> DEFINE n == calls[t].election
           f == [elections[n] EXCEPT !.confirmed = TRUE]
           c == [election |-> n, block |-> elections[n].winner]
<1>1. n \in DOMAIN elections
  BY DEF vote_confirm, Types, CallOK, Idle
<1>2. CASE elections' = elections /\ confirmations' = confirmations
  BY <1>2, ConfirmedKept, Zenon
<1>3. CASE /\ ~elections[n].confirmed
           /\ elections' = [elections EXCEPT ![n] = f]
           /\ confirmations' = Append(confirmations, c)
  <2>1. \A i \in DOMAIN confirmations : confirmations[i].election # n
    BY <1>1, <1>3, Zenon DEF ConfirmedOnce
  <2>2. /\ DOMAIN confirmations = 1..Len(confirmations)
        /\ Len(confirmations) \in Nat
        /\ DOMAIN confirmations' = 1..(Len(confirmations) + 1)
        /\ \A i \in DOMAIN confirmations : confirmations'[i] = confirmations[i]
        /\ confirmations'[Len(confirmations) + 1] = c
    <3> HIDE DEF c
    <3> QED
      BY <1>3 DEF Types
  <2>3. c.election = n
    BY Zenon
  <2>4. /\ DOMAIN elections' = DOMAIN elections
        /\ elections'[n].confirmed = TRUE
        /\ \A m \in DOMAIN elections \ {n} : elections'[m] = elections[m]
    <3>1. elections[n] \in Election
      BY <1>1 DEF Types
    <3>2. f.confirmed = TRUE
      BY <3>1, Zenon DEF Election
    <3> HIDE DEF f, n
    <3> QED
      BY <1>1, <1>3, <3>2, Zenon DEF Types
  <2>5. ASSUME NEW i \in DOMAIN confirmations', NEW j \in DOMAIN confirmations',
               confirmations'[i].election = confirmations'[j].election
        PROVE  i = j
    <3> HIDE DEF c, n
    <3> QED
      BY <2>1, <2>2, <2>3, <2>5 DEF ConfirmedOnce
  <2>6. ASSUME NEW m \in DOMAIN elections'
        PROVE  elections'[m].confirmed <=> \E i \in DOMAIN confirmations' : confirmations'[i].election = m
    <3>1. CASE m = n
      <4> HIDE DEF c, n
      <4> QED
        BY <2>2, <2>3, <2>4, <3>1
    <3>2. CASE m # n
      <4>1. elections[m].confirmed <=> \E i \in DOMAIN confirmations : confirmations[i].election = m
        BY <2>4, Zenon DEF ConfirmedOnce
      <4> HIDE DEF c, n
      <4> QED
        BY <2>2, <2>3, <2>4, <3>2, <4>1
    <3> QED
      BY <3>1, <3>2, Zenon
  <2> QED
    BY <2>5, <2>6, Zenon DEF ConfirmedOnce
<1> QED
  BY <1>2, <1>3, Zenon DEF vote_confirm, confirm_once

\* A new election is not confirmed, and no confirmation names it.
LEMMA StartOnce == ASSUME Types, ConfirmedOnce, Started, start PROVE ConfirmedOnce'
<1> DEFINE n == Len(elections) + 1
<1>1. /\ Len(elections) \in Nat /\ DOMAIN elections = 1..Len(elections)
      /\ DOMAIN elections' = 1..n
      /\ \A m \in DOMAIN elections : elections'[m] = elections[m]
      /\ elections'[n] = NewElection(ledger)
  BY DEF start, Types
<1>2. ~elections'[n].confirmed
  BY <1>1 DEF NewElection
<1>3. \A i \in DOMAIN confirmations : confirmations[i].election # n
  BY <1>1 DEF Started
<1> QED
  BY <1>1, <1>2, <1>3 DEF ConfirmedOnce, start

\* Elections are never forgotten, and a confirmation names the election of a call.
LEMMA NextStarted == Types /\ Started /\ [Next]_vars => Started'
<1> SUFFICES ASSUME Types, Started, [Next]_vars PROVE Started'
  BY Zenon
<1>1. ASSUME UNCHANGED confirmations, DOMAIN elections \subseteq DOMAIN elections' PROVE Started'
  BY <1>1, Zenon DEF Started
<1>2. ASSUME NEW t \in Thread, vote_confirm(t) PROVE Started'
  <2> DEFINE n == calls[t].election
             c == [election |-> n, block |-> elections[n].winner]
  <2>1. n \in DOMAIN elections
    BY <1>2 DEF vote_confirm, Types, CallOK, Idle
  <2>2. DOMAIN elections' = DOMAIN elections
    BY <1>2, Zenon DEF vote_confirm, Types
  <2>3. confirmations' = confirmations \/ confirmations' = Append(confirmations, c)
    BY <1>2, Zenon DEF vote_confirm
  <2>4. c.election = n
    BY Zenon
  <2> HIDE DEF c, n
  <2>5. CASE confirmations' = Append(confirmations, c)
    <3>1. \A i \in DOMAIN confirmations' : confirmations'[i] = c \/ (i \in DOMAIN confirmations /\ confirmations'[i] = confirmations[i])
      BY <2>5 DEF Types
    <3> QED
      BY <2>1, <2>2, <2>4, <3>1, Zenon DEF Started
  <2> QED
    BY <1>1, <2>2, <2>3, <2>5, Zenon
<1>3. CASE start
  <2>1. DOMAIN elections \subseteq DOMAIN elections'
    BY <1>3 DEF start, Types
  <2> QED
    BY <1>1, <1>3, <2>1, Zenon DEF start
<1>4. ASSUME NEW t \in Thread, vote_record(t) \/ vote_switch(t) PROVE Started'
  <2>1. DOMAIN elections' = DOMAIN elections /\ UNCHANGED confirmations
    BY <1>4, Zenon DEF vote_record, vote_switch, Types
  <2> QED
    BY <1>1, <2>1, Zenon
<1>5. ASSUME UNCHANGED <<elections, confirmations>> PROVE Started'
  BY <1>1, <1>5, Zenon
<1> QED
  BY <1>2, <1>3, <1>4, <1>5
 , Zenon DEF Next, vote_step, vars, vote, vote_drop, vote_tally, announce_votes, broadcast_winner,
      process_forced, root_rolled_back

\* Every step keeps the strengthened form of ConfirmedOnce.
LEMMA NextOnce == Once /\ [Next]_vars => Once'
<1> SUFFICES ASSUME Types, ConfirmedOnce, Started, [Next]_vars PROVE ConfirmedOnce'
  BY NextTypes, NextStarted, Zenon DEF Once
<1>1. ASSUME NEW t \in Thread, vote_record(t) PROVE ConfirmedOnce'
  <2> DEFINE n == calls[t].election
  <2>1. n \in DOMAIN elections
    <3>1. calls[t].step = "record" /\ CallOK(calls[t])
      BY <1>1, Zenon DEF vote_record, Types
    <3>2. n \in 1..Len(elections)
      BY <3>1 DEF CallOK, Idle
    <3> QED
      BY <3>2 DEF Types
  <2>2. \A m \in DOMAIN elections : elections[m] \in Election
    BY DEF Types
  <2>3. DOMAIN elections' = DOMAIN elections /\ UNCHANGED confirmations
    BY <1>1, Zenon DEF vote_record, Types
  <2>4. \A m \in DOMAIN elections : elections'[m].confirmed = elections[m].confirmed
    <3> DEFINE v == calls[t].vote
               f == [elections[n] EXCEPT !.last_votes[v.rep] = [sequence |-> v.sequence, block |-> v.block],
                                         !.rep_votes[v.rep] = v.block]
    <3>1. f.confirmed = elections[n].confirmed
      BY <2>1, <2>2, Zenon DEF Election
    <3>2. elections' = [elections EXCEPT ![n] = f]
      BY <1>1, <2>1, <2>2, Zenon DEF vote_record, Types, Election
    <3> HIDE DEF f, n
    <3> QED
      BY <2>1, <3>1, <3>2, Zenon DEF Types
  <2> QED
    BY <2>3, <2>4, ConfirmedKept, Zenon
<1>2. ASSUME NEW t \in Thread, vote_switch(t) PROVE ConfirmedOnce'
  <2>1. \A m \in DOMAIN elections : elections[m] \in Election
    BY DEF Types
  <2>2. DOMAIN elections' = DOMAIN elections /\ UNCHANGED confirmations
    BY <1>2, Zenon DEF vote_switch, Types
  <2>3. \A m \in DOMAIN elections : elections'[m].confirmed = elections[m].confirmed
    BY <1>2, <2>1, Zenon DEF vote_switch, Types, Election
  <2> QED
    BY <2>2, <2>3, ConfirmedKept
<1>3. ASSUME UNCHANGED <<elections, confirmations>> PROVE ConfirmedOnce'
  BY <1>3, ConfirmedKept, Zenon
<1> QED
  BY <1>1, <1>2, <1>3, ConfirmOnce, StartOnce
 , Zenon DEF Next, vote_step, vars, vote, vote_drop, vote_tally, announce_votes, broadcast_winner,
      process_forced, root_rolled_back

\* However many threads run election::vote on it at once, an election hands over
\* one block, once, and has done so exactly when it is marked confirmed.
THEOREM ElectionsConfirmOnce == Spec => []ConfirmedOnce
<1>1. Init => Once
  BY InitTypes DEF Init, Once, ConfirmedOnce, Started
<1>2. Once => ConfirmedOnce
  BY Zenon DEF Once
<1> QED
  BY <1>1, <1>2, NextOnce, PTL DEF Spec

-----------------------------------------------------------------------------
\* The votes of an election are handled by one thread.
OneByOne == \A s, t \in Thread : s = t

\* Once enough weight has voted, the winner of an election leads its tally.
Right(e) == Counted(Totals(e)) >= Minimum => e.winner \in Leaders(Totals(e))

\* A call is between recording a vote in the election and switching its winner.
Counting(c, n) == c.step \in {"tally", "switch"} /\ c.election = n

\* The tally that a call works with is the tally of its election.
Fresh(c) == c.step = "switch" => c.totals = Totals(elections[c.election]) /\ c.leader \in Leaders(c.totals)

\* The winner is right except while a vote is being counted, and the call that
\* counts it has an up-to-date tally.
Leading ==
    /\ \A n \in DOMAIN elections : (\A t \in Thread : ~Counting(calls[t], n)) => Right(elections[n])
    /\ \A t \in Thread : Fresh(calls[t])

LeadInv == Types /\ OneByOne /\ Leading

\* The sum over no representatives is 0.
LEMMA EmptySum == SumFunctionOnSet(Weight, {}) = 0
<1> DEFINE Iterates(g) == g = [s \in SUBSET {} |-> IF s = {} THEN 0 ELSE Weight[CHOOSE x \in s : TRUE] + g[s \ {CHOOSE x \in s : TRUE}]]
           iter == CHOOSE g : Iterates(g)
<1>1. SumFunctionOnSet(Weight, {}) = iter[{}]
  BY Zenon DEF SumFunctionOnSet, FoldFunctionOnSet, MapThenFoldSet
<1>2. \A s \in SUBSET {} : s = {}
  BY Zenon
<1>3. Iterates([s \in SUBSET {} |-> 0])
  BY <1>2, Zenon
<1>4. Iterates(iter)
  <2> HIDE DEF Iterates
  <2> QED
    BY <1>3, Zenon
<1>5. iter[{}] = 0
  <2> HIDE DEF iter
  <2> QED
    BY <1>4, Zenon
<1> QED
  BY <1>1, <1>5, Zenon

\* A new election has one candidate, the block it was started with.
LEMMA NewIsRight == ASSUME NEW b \in Blocks PROVE Right(NewElection(b))
<1> DEFINE e == NewElection(b)
<1>1. e.first = b /\ e.winner = b /\ \A r \in Rep : e.rep_votes[r] = NoBlock
  BY Zenon DEF NewElection
<1>2. b # NoBlock
  BY Constants, Zenon DEF NoBlock
<1> HIDE DEF e
<1>3. Candidates(e) = {b}
  BY <1>1, Zenon DEF Candidates
<1>4. {r \in Rep : e.rep_votes[r] = b} = {}
  BY <1>1, <1>2, Zenon
<1>5. Total(e, b) = 0
  BY <1>4, EmptySum, Zenon DEF Total
<1>6. b \in Leaders(Totals(e))
  BY <1>3, <1>5 DEF Leaders, Totals
<1> QED
  BY <1>1, <1>6, Zenon DEF Right, e

\* What an election is tallied to depends on its votes only.
LEMMA TallyDepends ==
  ASSUME NEW e, NEW f, f.first = e.first, f.rep_votes = e.rep_votes
  PROVE  Totals(f) = Totals(e)
<1>1. Candidates(f) = Candidates(e) /\ \A b : Total(f, b) = Total(e, b)
  BY Zenon DEF Candidates, Total
<1> QED
  BY <1>1, Zenon DEF Totals

\* A step that changes no election, and after which a call counts only if it
\* counted before.
LEMMA LeadingKept ==
  ASSUME Leading, UNCHANGED elections,
         \A t \in Thread : calls'[t] = calls[t] \/ (\A n : ~Counting(calls[t], n) /\ ~Counting(calls'[t], n))
  PROVE  Leading'
<1>1. ASSUME NEW n \in DOMAIN elections', \A t \in Thread : ~Counting(calls'[t], n) PROVE Right(elections'[n])
  BY <1>1, Zenon DEF Leading
<1>2. ASSUME NEW t \in Thread PROVE Fresh(calls[t])'
  BY Zenon DEF Leading, Fresh, Counting
<1> QED
  BY <1>1, <1>2, Zenon DEF Leading

\* A thread takes a vote only when it is idle, and does not count yet.
LEMMA CalledLeads ==
  ASSUME LeadInv, NEW t \in Thread, NEW v, calls[t] = Idle, calls' = Called(t, v), UNCHANGED elections
  PROVE  Leading'
<1>1. \A x \in Thread : x # t => calls'[x] = calls[x]
  BY Zenon DEF Called, LeadInv, Types
<1>2. calls'[t] = calls[t] \/ calls'[t].step = "record"
  BY Zenon DEF Called, LeadInv, Types
<1>3. \A n : ~Counting(calls[t], n)
  BY DEF Counting, Idle
<1>4. calls'[t] = calls[t] \/ \A n : ~Counting(calls'[t], n)
  BY <1>2, Zenon DEF Counting
<1> QED
  BY <1>1, <1>3, <1>4, LeadingKept, Zenon DEF LeadInv

\* A vote that is dropped is not counted.
LEMMA DropLeads == ASSUME LeadInv, NEW t \in Thread, vote_drop(t) PROVE Leading'
<1>1. /\ \A x \in Thread : x # t => calls'[x] = calls[x]
      /\ calls[t].step = "record" /\ calls'[t] = Idle /\ UNCHANGED elections
  BY Zenon DEF vote_drop, LeadInv, Types
<1>2. \A n : ~Counting(calls[t], n) /\ ~Counting(calls'[t], n)
  BY <1>1 DEF Counting, Idle
<1> QED
  BY <1>1, <1>2, LeadingKept, Zenon DEF LeadInv

\* A vote is recorded in one election, and the call goes on to count it.
LEMMA RecordLeads == ASSUME LeadInv, NEW t \in Thread, vote_record(t) PROVE Leading'
<1> DEFINE n == calls[t].election
           v == calls[t].vote
           f == [elections[n] EXCEPT !.last_votes[v.rep] = [sequence |-> v.sequence, block |-> v.block],
                                     !.rep_votes[v.rep] = v.block]
<1>1. /\ calls[t].step = "record" /\ n \in DOMAIN elections
      /\ DOMAIN elections' = DOMAIN elections
      /\ \A m \in DOMAIN elections \ {n} : elections'[m] = elections[m]
      /\ calls'[t].step = "tally" /\ calls'[t].election = n
  <2>1. calls[t].step = "record" /\ CallOK(calls[t])
    BY Zenon DEF vote_record, LeadInv, Types
  <2>2. n \in 1..Len(elections)
    BY <2>1 DEF CallOK, Idle
  <2>3. elections \in Seq(Election)
    BY Zenon DEF LeadInv, Types
  <2>4. n \in DOMAIN elections /\ elections[n] \in Election
    BY <2>2, <2>3
  <2>5. elections' = [elections EXCEPT ![n] = f]
    BY <2>4, Zenon DEF vote_record, Election
  <2>6. calls' = [calls EXCEPT ![t] = [step |-> "tally", election |-> n]]
    BY Zenon DEF vote_record
  <2>7. t \in DOMAIN calls
    BY Zenon DEF LeadInv, Types
  <2> HIDE DEF n, f
  <2>8. calls'[t].step = "tally" /\ calls'[t].election = n
    BY <2>6, <2>7, Zenon
  <2>9. DOMAIN elections' = DOMAIN elections /\ \A m \in DOMAIN elections \ {n} : elections'[m] = elections[m]
    BY <2>5, Zenon
  <2> QED
    BY <2>1, <2>4, <2>8, <2>9, Zenon
<1> HIDE DEF n
<1>2. \A x \in Thread : x = t
  BY Zenon DEF LeadInv, OneByOne
<1>3. ASSUME NEW m \in DOMAIN elections', \A x \in Thread : ~Counting(calls'[x], m) PROVE Right(elections'[m])
  <2>1. m # n
    BY <1>1, <1>3, Zenon DEF Counting
  <2>2. \A x \in Thread : ~Counting(calls[x], m)
    BY <1>1, <1>2, Zenon DEF Counting
  <2>3. Right(elections[m]) /\ elections'[m] = elections[m]
    BY <1>1, <2>1, <2>2, Zenon DEF LeadInv, Leading
  <2> QED
    BY <2>3, Zenon
<1>4. ASSUME NEW x \in Thread PROVE Fresh(calls[x])'
  BY <1>1, <1>2, Zenon DEF Fresh
<1> QED
  BY <1>3, <1>4, Zenon DEF Leading

\* The tally that a call takes is the tally of its election, and the leader one
\* of those that lead it.
LEMMA TallyLeads == ASSUME LeadInv, NEW t \in Thread, vote_tally(t) PROVE Leading'
<1> DEFINE n == calls[t].election
           totals == Totals(elections[n])
<1>1. /\ calls[t].step = "tally" /\ UNCHANGED elections
      /\ \E b \in Leaders(totals) :
            calls' = [calls EXCEPT ![t] = [step |-> "switch", election |-> n, totals |-> totals, leader |-> b]]
  BY Zenon DEF vote_tally
<1> HIDE DEF n, totals
<1>2. calls'[t].step = "switch" /\ calls'[t].election = n /\ calls'[t].totals = totals /\ calls'[t].leader \in Leaders(totals)
  BY <1>1 DEF LeadInv, Types
<1>3. \A x \in Thread : x = t
  BY DEF LeadInv, OneByOne
<1>4. ASSUME NEW m \in DOMAIN elections', \A x \in Thread : ~Counting(calls'[x], m) PROVE Right(elections'[m])
  <2>1. m # n
    BY <1>2, <1>4, Zenon DEF Counting
  <2>2. \A x \in Thread : ~Counting(calls[x], m)
    BY <1>3, <2>1, Zenon DEF Counting, n
  <2>3. m \in DOMAIN elections /\ elections'[m] = elections[m]
    BY <1>1, Zenon
  <2> QED
    BY <2>2, <2>3, Zenon DEF LeadInv, Leading
<1>5. ASSUME NEW x \in Thread PROVE Fresh(calls[x])'
  BY <1>1, <1>2, <1>3, Zenon DEF Fresh, totals
<1> QED
  BY <1>4, <1>5, Zenon DEF Leading

\* Switching to the leader of an up-to-date tally makes the winner right.
LEMMA SwitchLeads == ASSUME LeadInv, NEW t \in Thread, vote_switch(t) PROVE Leading'
<1> DEFINE n == calls[t].election
           totals == calls[t].totals
           leader == calls[t].leader
           e == elections[n]
<1>1. /\ calls[t].step = "switch" /\ n \in DOMAIN elections /\ e \in Election
      /\ totals = Totals(e) /\ leader \in Leaders(totals)
  BY DEF vote_switch, LeadInv, Leading, Fresh, Types, CallOK, Idle
<1>2. IF Overtakes(totals, leader, e.winner) THEN elections' = [elections EXCEPT ![n].winner = leader]
                                             ELSE elections' = elections
  BY Zenon DEF vote_switch
<1>3. calls'[t].step = "confirm"
  BY Zenon DEF vote_switch, LeadInv, Types
<1> HIDE DEF n, totals, leader
<1>4. /\ DOMAIN elections' = DOMAIN elections
      /\ \A m \in DOMAIN elections \ {n} : elections'[m] = elections[m]
      /\ elections'[n].first = e.first /\ elections'[n].rep_votes = e.rep_votes
      /\ elections'[n].winner = IF Overtakes(totals, leader, e.winner) THEN leader ELSE e.winner
  BY <1>1, <1>2 DEF LeadInv, Types, Election
<1> HIDE DEF e
<1>5. Totals(elections'[n]) = totals
  BY <1>1, <1>4, TallyDepends, Zenon
<1>6. Right(elections'[n])
  BY <1>1, <1>4, <1>5, Zenon DEF Right, Overtakes
<1>7. \A x \in Thread : x = t
  BY DEF LeadInv, OneByOne
<1>8. ASSUME NEW m \in DOMAIN elections' PROVE Right(elections'[m])
  <2>1. CASE m # n
    <3>1. \A x \in Thread : ~Counting(calls[x], m)
      BY <1>7, <2>1, Zenon DEF Counting, n
    <3>2. Right(elections[m]) /\ elections'[m] = elections[m]
      BY <1>4, <2>1, <3>1, Zenon DEF LeadInv, Leading
    <3> QED
      BY <3>2
  <2> QED
    BY <1>6, <2>1, Zenon
<1>9. ASSUME NEW x \in Thread PROVE Fresh(calls[x])'
  BY <1>3, <1>7, Zenon DEF Fresh
<1> QED
  BY <1>8, <1>9, Zenon DEF Leading

\* Confirming changes neither the votes nor the winner.
LEMMA ConfirmLeads == ASSUME LeadInv, NEW t \in Thread, vote_confirm(t) PROVE Leading'
<1> DEFINE n == calls[t].election
           f == [elections[n] EXCEPT !.confirmed = TRUE]
<1>1. /\ calls[t].step = "confirm" /\ calls'[t] = Idle
      /\ elections' = elections \/ elections' = [elections EXCEPT ![n] = f]
  BY Zenon DEF vote_confirm, LeadInv, Types
<1>2. /\ DOMAIN elections' = DOMAIN elections
      /\ \A m \in DOMAIN elections :
            /\ elections'[m].first = elections[m].first /\ elections'[m].rep_votes = elections[m].rep_votes
            /\ elections'[m].winner = elections[m].winner
  <2>1. \A m \in DOMAIN elections : elections[m] \in Election
    BY DEF LeadInv, Types
  <2>2. n \in DOMAIN elections => f.first = elections[n].first /\ f.rep_votes = elections[n].rep_votes /\ f.winner = elections[n].winner
    BY <2>1, Zenon DEF Election
  <2> HIDE DEF n, f
  <2>3. DOMAIN elections' = DOMAIN elections /\ \A m \in DOMAIN elections : elections'[m] = elections[m] \/ (m = n /\ elections'[m] = f)
    BY <1>1, Zenon
  <2> QED
    BY <2>2, <2>3, Zenon
<1>3. \A x \in Thread : x = t
  BY DEF LeadInv, OneByOne
<1>4. ASSUME NEW m \in DOMAIN elections' PROVE Right(elections'[m])
  <2>1. \A x \in Thread : ~Counting(calls[x], m)
    BY <1>1, <1>3, Zenon DEF Counting
  <2>2. Right(elections[m])
    BY <1>2, <2>1, Zenon DEF LeadInv, Leading
  <2>3. Totals(elections'[m]) = Totals(elections[m])
    BY <1>2, TallyDepends, Zenon
  <2> QED
    BY <1>2, <2>2, <2>3, Zenon DEF Right
<1>5. ASSUME NEW x \in Thread PROVE Fresh(calls[x])'
  BY <1>1, <1>3 DEF Fresh, Idle
<1> QED
  BY <1>4, <1>5, Zenon DEF Leading

\* A new election starts with its only candidate as the winner.
LEMMA StartLeads == ASSUME LeadInv, start PROVE Leading'
<1> DEFINE n == Len(elections) + 1
<1>1. /\ DOMAIN elections = 1..Len(elections) /\ Len(elections) \in Nat
      /\ DOMAIN elections' = 1..n
      /\ \A m \in DOMAIN elections : elections'[m] = elections[m]
      /\ elections'[n] = NewElection(ledger)
      /\ UNCHANGED calls
  BY DEF start, LeadInv, Types
<1>2. ledger \in Blocks
  BY Zenon DEF start, startable, LeadInv, Types, Choice
<1>3. Right(elections'[n])
  BY <1>1, <1>2, NewIsRight, Zenon
<1>4. ASSUME NEW m \in DOMAIN elections', \A x \in Thread : ~Counting(calls'[x], m) PROVE Right(elections'[m])
  <2>1. CASE m \in DOMAIN elections
    <3>1. Right(elections[m]) /\ elections'[m] = elections[m]
      BY <1>1, <1>4, <2>1, Zenon DEF LeadInv, Leading
    <3> QED
      BY <3>1, Zenon
  <2>2. m \in DOMAIN elections \/ m = n
    BY <1>1
  <2> QED
    BY <1>3, <2>1, <2>2, Zenon
<1>5. ASSUME NEW x \in Thread PROVE Fresh(calls[x])'
  <2>1. calls[x].step = "switch" => calls[x].election \in DOMAIN elections
    BY <1>1 DEF LeadInv, Types, CallOK, Idle
  <2>2. Fresh(calls[x])
    BY Zenon DEF LeadInv, Leading
  <2> QED
    BY <1>1, <2>1, <2>2, Zenon DEF Fresh
<1> QED
  BY <1>4, <1>5, Zenon DEF Leading

\* Every step keeps the winner right when one thread handles the votes.
LEMMA NextLeads == LeadInv /\ [Next]_vars => LeadInv'
<1> SUFFICES ASSUME LeadInv, [Next]_vars PROVE Leading'
  BY NextTypes, Zenon DEF LeadInv, OneByOne
<1>1. ASSUME NEW t \in Thread, vote_step(t) PROVE Leading'
  BY <1>1, RecordLeads, DropLeads, TallyLeads, SwitchLeads, ConfirmLeads, Zenon DEF vote_step
<1>2. ASSUME NEW t \in Thread, NEW v \in Votes, vote(t, v) PROVE Leading'
  BY <1>2, CalledLeads, Zenon DEF vote
<1>3. ASSUME NEW t \in Thread, NEW p \in broadcasts, broadcast_winner(t, p[1], p[2]) PROVE Leading'
  BY <1>3, CalledLeads, Zenon DEF broadcast_winner
<1>4. ASSUME UNCHANGED <<elections, calls>> PROVE Leading'
  BY <1>4, LeadingKept, Zenon DEF LeadInv
<1>5. CASE UNCHANGED vars \/ announce_votes \/ process_forced \/ root_rolled_back
  BY <1>4, <1>5, Zenon DEF vars, announce_votes, process_forced, root_rolled_back
<1> QED
  BY <1>1, <1>2, <1>3, <1>5, StartLeads, Zenon DEF Next

\* When one thread handles the votes, the winner of an election leads the tally
\* of the votes that were recorded once enough weight has voted, in every state
\* in which no vote is being handled.  With more threads it need not: a stale
\* tally may be applied after a newer one.
THEOREM OneThreadsWinnerLeads == OneByOne /\ Spec => []WinnerLeads
<1>1. OneByOne /\ Init => LeadInv
  BY InitTypes DEF Init, LeadInv, Leading, Fresh, Idle
<1>2. LeadInv => WinnerLeads
  BY DEF LeadInv, Leading, WinnerLeads, Right, Counting, Idle
<1> QED
  BY <1>1, <1>2, NextLeads, PTL DEF Spec
=============================================================================
