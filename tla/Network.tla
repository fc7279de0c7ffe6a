------------------------------ MODULE Network ------------------------------
(***************************************************************************)
(* The UDP side of a node (rai::network, rai/node/node.cpp): the chain of  *)
(* receives that fills one buffer, receive_action on the threads of the io *)
(* service, network_message_visitor, and stop.  A handler that has checked *)
(* `on' may still be running when the socket is closed.  Every operation   *)
(* on the closed socket completes with an error.                           *)
(*                                                                         *)
(* Which texts are messages is in Messages, the block processor in         *)
(* ProcessorQueue and BlockProcessor, the numbers of votes in VoteStore.   *)
(* The peers container and the expiry of arrivals are not modelled.        *)
(***************************************************************************)
EXTENDS Naturals, Sequences, FiniteSets

CONSTANTS
    Thread,             \* threads that run the io service
    Block, root,        \* blocks, and the root of each
    Representative,     \* TRUE: a wallet holds a representative and voting is enabled
    MaxPackets,         \* bound on the packets and errors that come in
    None

ASSUME NetworkAssumption == /\ root \in [Block -> STRING] /\ Representative \in BOOLEAN
                            /\ MaxPackets \in Nat /\ None \notin Block

VARIABLES
    on, open,           \* network::on, and whether the socket is open
    receives,           \* calls of async_receive_from that have not completed
    completions,        \* completed ones that no thread has taken: [error, packet]
    timers,             \* alarms that will call receive
    buffer,             \* network::buffer and network::remote
    handler,            \* what each thread does: [pc, packet], the packet that completed its receive
    packets,            \* packets and errors so far
    arrival, queue,     \* block_arrival, and the blocks added to the block processor
    votes,              \* blocks of the votes added to the vote processor
    ledger,             \* blocks in the ledger
    replaced,           \* history: blocks that forced winners have put out of the ledger
    acks                \* blocks that the node has confirmed to those who asked

loop == <<on, open, receives, completions, timers, buffer, packets>>
effects == <<arrival, queue, votes, ledger, replaced, acks>>
vars == <<loop, handler, effects>>

(* The sender is "reserved" too when it is the node itself.  A packet with *)
(* kind "bad" is not a message.                                            *)
Packet == [kind : {"publish", "confirm_req", "confirm_ack"}, block : Block, sender : {"peer"}]
          \cup [kind : {"keepalive", "bad"}, block : {None}, sender : {"peer"}]
          \cup [kind : {"publish"}, block : Block, sender : {"reserved"}]

Nothing == [kind |-> "none", block |-> None, sender |-> "none"]
Idle == [pc |-> "idle", packet |-> Nothing]

Running == {t \in Thread : handler[t].pc # "idle"}

TypeOK == /\ {on, open} \subseteq BOOLEAN
          /\ receives \in 0..1 /\ timers \in 0..1 /\ Len(completions) <= 1
          /\ buffer \in Packet \cup {Nothing}
          /\ handler \in [Thread -> [pc : {"idle", "parse", "vote", "answer", "receive"}, packet : Packet \cup {Nothing}]]
          /\ packets \in 0..MaxPackets
          /\ \A s \in {arrival, queue, votes, ledger, replaced, acks} : s \subseteq Block

-----------------------------------------------------------------------------
(* network::receive, with the completions `c'.                             *)
receive(c) == IF open THEN receives' = receives + 1 /\ completions' = c
                      ELSE receives' = receives /\ completions' = Append(c, [error |-> TRUE, packet |-> Nothing])

(* node::start.                                                            *)
Init == /\ on = TRUE /\ open = TRUE
        /\ receives = 1 /\ completions = <<>> /\ timers = 0
        /\ buffer = Nothing
        /\ handler = [t \in Thread |-> Idle]
        /\ packets = 0
        /\ arrival = {} /\ queue = {} /\ votes = {} /\ ledger = {} /\ replaced = {} /\ acks = {}

(* A packet comes in, and is put in the buffer.                            *)
deliver(p) ==
    /\ receives > 0 /\ open /\ packets < MaxPackets
    /\ packets' = packets + 1
    /\ buffer' = p
    /\ receives' = receives - 1
    /\ completions' = Append(completions, [error |-> FALSE, packet |-> p])
    /\ UNCHANGED <<on, open, timers, handler, effects>>

(* A receive fails.                                                        *)
fail ==
    /\ receives > 0 /\ open /\ packets < MaxPackets
    /\ packets' = packets + 1
    /\ receives' = receives - 1
    /\ completions' = Append(completions, [error |-> TRUE, packet |-> Nothing])
    /\ UNCHANGED <<on, open, timers, buffer, handler, effects>>

\* mutant: an error ends the chain of receives
receive_action_ends(t) ==
    /\ handler[t].pc = "idle" /\ completions # <<>>
    /\ LET c == Head(completions)
       IN  handler' = IF ~c.error /\ on THEN [handler EXCEPT ![t] = [pc |-> "parse", packet |-> c.packet]] ELSE handler
    /\ completions' = Tail(completions)
    /\ UNCHANGED <<on, open, receives, timers, buffer, packets, effects>>

\* mutant: the alarm is set whether the network is on or not
receive_action_always(t) ==
    /\ handler[t].pc = "idle" /\ completions # <<>>
    /\ LET c == Head(completions)
       IN  IF ~c.error /\ on
           THEN handler' = [handler EXCEPT ![t] = [pc |-> "parse", packet |-> c.packet]] /\ UNCHANGED timers
           ELSE timers' = timers + 1 /\ UNCHANGED handler
    /\ completions' = Tail(completions)
    /\ UNCHANGED <<on, open, receives, buffer, packets, effects>>

(* receive_action, up to the parser: after an error the next receive is    *)
(* started by the alarm, and none is once the network is off.              *)
receive_action(t) ==
    /\ handler[t].pc = "idle" /\ completions # <<>>
    /\ LET c == Head(completions)
       IN  IF ~c.error /\ on
           THEN handler' = [handler EXCEPT ![t] = [pc |-> "parse", packet |-> c.packet]] /\ UNCHANGED timers
           ELSE timers' = (IF on THEN timers + 1 ELSE timers) /\ UNCHANGED handler
    /\ completions' = Tail(completions)
    /\ UNCHANGED <<on, open, receives, buffer, packets, effects>>

(* node::process_active.                                                   *)
process_active(b) == /\ arrival' = arrival \cup {b}
                     /\ queue' = IF b \in arrival THEN queue ELSE queue \cup {b}

(* The visitor takes the message from the buffer: the block of each kind   *)
(* of message but a keepalive goes to the block processor.                 *)
\* mutant: a block that comes with a vote is not processed
visit_vote_only(t) ==
    /\ handler[t].pc = "parse"
    /\ LET p == buffer
           taken == p.sender = "peer" /\ p.kind # "bad"
       IN  /\ IF taken /\ p.kind \in {"publish", "confirm_req"} THEN process_active(p.block) ELSE UNCHANGED <<arrival, queue>>
           /\ handler' = [handler EXCEPT ![t].pc = IF taken /\ p.kind = "confirm_ack" THEN "vote"
                                                   ELSE IF taken /\ p.kind = "confirm_req" THEN "answer" ELSE "receive"]
    /\ UNCHANGED <<loop, votes, ledger, replaced, acks>>

visit(t) ==
    /\ handler[t].pc = "parse"
    /\ LET p == buffer
           taken == p.sender = "peer" /\ p.kind # "bad"
       IN  /\ IF taken /\ p.kind # "keepalive" THEN process_active(p.block) ELSE UNCHANGED <<arrival, queue>>
           /\ handler' = [handler EXCEPT ![t].pc = IF taken /\ p.kind = "confirm_ack" THEN "vote"
                                                   ELSE IF taken /\ p.kind = "confirm_req" THEN "answer" ELSE "receive"]
    /\ UNCHANGED <<loop, votes, ledger, replaced, acks>>

(* confirm_ack, after process_active: the vote goes to the vote processor. *)
confirm_ack(t) ==
    /\ handler[t].pc = "vote"
    /\ votes' = votes \cup {handler[t].packet.block}
    /\ handler' = [handler EXCEPT ![t].pc = "receive"]
    /\ UNCHANGED <<loop, arrival, queue, ledger, replaced, acks>>

successor(b) == {c \in ledger : root[c] = root[b]}

(* confirm_req, after process_active: the node's representatives confirm   *)
(* the block that the ledger has at that root.                             *)
confirm_req(t) ==
    /\ handler[t].pc = "answer"
    /\ acks' = IF Representative THEN acks \cup successor(handler[t].packet.block) ELSE acks
    /\ handler' = [handler EXCEPT ![t].pc = "receive"]
    /\ UNCHANGED <<loop, arrival, queue, votes, ledger, replaced>>

(* The end of receive_action.                                              *)
receive_again(t) ==
    /\ handler[t].pc = "receive"
    /\ receive(completions)
    /\ handler' = [handler EXCEPT ![t] = Idle]
    /\ UNCHANGED <<on, open, timers, buffer, packets, effects>>

(* The alarm, five seconds after an error.                                 *)
alarm ==
    /\ timers > 0
    /\ timers' = timers - 1
    /\ receive(completions)
    /\ UNCHANGED <<on, open, buffer, handler, packets, effects>>

(* The block processor; of two blocks with one root the first stays.       *)
process(b) ==
    /\ b \in queue
    /\ queue' = queue \ {b}
    /\ ledger' = IF successor(b) # {} THEN ledger ELSE ledger \cup {b}
    /\ UNCHANGED <<loop, handler, arrival, votes, replaced, acks>>

(* The block processor with a forced block, the winner of an election,     *)
(* which a vote has named: the block in its place is rolled back with the  *)
(* blocks that depend on it.  The winner itself may be a gap or invalid.   *)
force(b) ==
    /\ b \in votes
    /\ \E dependent \in SUBSET ledger, stored \in SUBSET {b} :
          LET gone == IF successor(b) \subseteq {b} THEN {} ELSE successor(b) \cup dependent
          IN  /\ ledger' = (ledger \ gone) \cup (IF successor(b) = {b} THEN {b} ELSE stored)
              /\ replaced' = replaced \cup gone
    /\ UNCHANGED <<loop, handler, arrival, queue, votes, acks>>

(* network::stop.                                                          *)
stop ==
    /\ on
    /\ on' = FALSE
    /\ UNCHANGED <<open, receives, completions, timers, buffer, handler, packets, effects>>

close ==
    /\ ~on /\ open
    /\ open' = FALSE
    /\ receives' = 0
    /\ completions' = completions \o [i \in 1..receives |-> [error |-> TRUE, packet |-> Nothing]]
    /\ UNCHANGED <<on, timers, buffer, handler, packets, effects>>

Handler(t) == receive_action(t) \/ visit(t) \/ confirm_ack(t) \/ confirm_req(t) \/ receive_again(t)

Next == \/ \E p \in Packet : deliver(p)
        \/ fail
        \/ \E t \in Thread : Handler(t)
        \/ alarm
        \/ \E b \in Block : process(b) \/ force(b)
        \/ stop \/ close

Spec == Init /\ [][Next]_vars

-----------------------------------------------------------------------------
(* The one buffer is not written while a handler has still to parse it: a  *)
(* handler parses the packet that completed its receive.                   *)
ParsesItsPacket == \A t \in Thread : handler[t].pc = "parse" => buffer = handler[t].packet

(* There is one chain of receives: at every moment the next step is one    *)
(* receive, one completion, one handler or one alarm, and it is lost only  *)
(* when the network is off.                                                *)
OneChain == LET n == receives + Len(completions) + timers + Cardinality(Running)
            IN  n <= 1 /\ (on => n = 1)

(* The block of a vote is given to the block processor before the vote     *)
(* is: the election may look for it in the ledger.                         *)
VotedBlockArrived == votes \subseteq arrival

(* confirm_req answers with ledger::successor: the node confirms two       *)
(* blocks with one root only when the winner of an election has put one of *)
(* them out of the ledger.                                                 *)
AnswersAgree == \A b, c \in acks : root[b] = root[c] => b = c \/ {b, c} \cap replaced # {}

=============================================================================
