------------------------------ MODULE Messages ------------------------------
(***************************************************************************)
(* The wire format of the node's messages (src/rai/node/common.cpp) and of *)
(* the blocks and votes inside them (src/rai/lib/blocks.cpp,               *)
(* src/rai/common.cpp): serialize, the deserializing constructors, and     *)
(* message_parser, which decides what a UDP datagram is and whether the    *)
(* visitor sees it.                                                        *)
(*                                                                         *)
(* A buffer is a sequence of units.  The header is one unit per field; a   *)
(* field of the body takes as many units as the constants say, so that a   *)
(* reader and a writer that disagree about a field's place or length do    *)
(* read each other's neighbours.  A message is a record with the header    *)
(* fields the sender sets and a function from field names to values.       *)
(***************************************************************************)
EXTENDS Integers, Sequences, FiniteSets, SequencesExt

CONSTANTS
    Size,        \* field name -> its length in units
    MaxDamage    \* bound: changes a datagram suffers between two nodes

VARIABLES
    sent,      \* the message a node serialized
    wire,      \* the buffer
    damage,    \* changes the buffer suffered
    got,       \* the messages the visitor saw
    rest,      \* what the reader left unread
    status,    \* message_parser::status
    step       \* "made", "sent" or "read"

vars == <<sent, wire, damage, got, rest, status, step>>

Magic == 7
Keepalive == 2
Publish == 3
ConfirmReq == 4
ConfirmAck == 5
BulkPull == 6
BulkPush == 7
FrontierReq == 8
BulkPullBlocks == 9

Send == 2
Receive == 3
Opening == 4
Change == 5
State == 6
BlockTypes == Send .. State

-----------------------------------------------------------------------------
(***************************************************************************)
(* The order in which the fields are written ...                           *)
(***************************************************************************)
send_block_serialize == <<"previous", "destination", "balance", "signature", "work">>
receive_block_serialize == <<"previous", "source", "signature", "work">>

\* mutant
open_block_swapped == <<"source", "account", "representative", "signature", "work">>

open_block_serialize == <<"source", "representative", "account", "signature", "work">>
change_block_serialize == <<"previous", "representative", "signature", "work">>
state_block_serialize ==
    <<"account", "previous", "representative", "balance", "link", "signature", "work">>

block_serialize(type) ==
    CASE type = Send    -> send_block_serialize
      [] type = Receive -> receive_block_serialize
      [] type = Opening -> open_block_serialize
      [] type = Change  -> change_block_serialize
      [] type = State   -> state_block_serialize

vote_serialize == <<"voter", "vote_signature", "sequence">>
keepalive_serialize == <<"peers">>
frontier_req_serialize == <<"start", "age", "count">>
bulk_pull_serialize == <<"start", "end">>
bulk_pull_blocks_serialize == <<"min_hash", "max_hash", "mode", "max_count">>
bulk_push_serialize == <<>>

(***************************************************************************)
(* ... and the order in which the constructors read them: the hashed part  *)
(* of a block first, then its signature and work.                          *)
(***************************************************************************)
send_hashables == <<"previous", "destination", "balance">>
receive_hashables == <<"previous", "source">>
open_hashables == <<"source", "representative", "account">>
change_hashables == <<"previous", "representative">>
state_hashables == <<"account", "previous", "representative", "balance", "link">>

deserialize_block(type) ==
    CASE type = Send    -> send_hashables \o <<"signature", "work">>
      [] type = Receive -> receive_hashables \o <<"signature", "work">>
      [] type = Opening -> open_hashables \o <<"signature", "work">>
      [] type = Change  -> change_hashables \o <<"signature", "work">>
      [] type = State   -> state_hashables \o <<"signature", "work">>

vote_deserialize == <<"voter", "vote_signature", "sequence">>
keepalive_deserialize == <<"peers">>
frontier_req_deserialize == <<"start", "age", "count">>
bulk_pull_deserialize == <<"start", "end">>
bulk_pull_blocks_deserialize == <<"min_hash", "max_hash", "mode", "max_count">>
bulk_push_deserialize == <<>>

(***************************************************************************)
(* The header.  The type of the block is in bits 8 to 11 of the extensions *)
(* and the low bits are flags.                                             *)
(***************************************************************************)
block_type(extensions) == (extensions \div 256) % 16

block_type_set(extensions, type) == extensions - 256 * block_type(extensions) + 256 * type

HasBlock == {Publish, ConfirmReq, ConfirmAck}

publish_serialize(h) == block_serialize(block_type(h.extensions))
confirm_req_serialize(h) == block_serialize(block_type(h.extensions))
confirm_ack_serialize(h) == vote_serialize \o block_serialize(block_type(h.extensions))

publish_deserialize(h) == deserialize_block(block_type(h.extensions))
confirm_req_deserialize(h) == deserialize_block(block_type(h.extensions))
confirm_ack_deserialize(h) == vote_deserialize \o deserialize_block(block_type(h.extensions))

\* The fields that follow the header, as written ...
Written(m) ==
    CASE m.type = Keepalive      -> keepalive_serialize
      [] m.type = Publish        -> publish_serialize(m)
      [] m.type = ConfirmReq     -> confirm_req_serialize(m)
      [] m.type = ConfirmAck     -> confirm_ack_serialize(m)
      [] m.type = FrontierReq    -> frontier_req_serialize
      [] m.type = BulkPull       -> bulk_pull_serialize
      [] m.type = BulkPush       -> bulk_push_serialize
      [] m.type = BulkPullBlocks -> bulk_pull_blocks_serialize

\* ... and as read, once the header m is known.
Announced(m) ==
    CASE m.type = Keepalive      -> keepalive_deserialize
      [] m.type = Publish        -> publish_deserialize(m)
      [] m.type = ConfirmReq     -> confirm_req_deserialize(m)
      [] m.type = ConfirmAck     -> confirm_ack_deserialize(m)
      [] m.type = FrontierReq    -> frontier_req_deserialize
      [] m.type = BulkPull       -> bulk_pull_deserialize
      [] m.type = BulkPush       -> bulk_push_deserialize
      [] m.type = BulkPullBlocks -> bulk_pull_blocks_deserialize

\* A state block writes its work in big-endian order, all others as it is.
IsBigEndian(h, field) == field = "work" /\ block_type(h.extensions) = State

encode(h, field, value) == IF IsBigEndian(h, field) THEN Reverse(value) ELSE value

\* The converse, on reading.
decode(h, field, value) == IF IsBigEndian(h, field) THEN Reverse(value) ELSE value

HeaderUnits(h) == <<Magic, h.version_max, h.version_using, h.version_min, h.type, h.extensions>>
HeaderSize == 6

serialize(m) ==
    HeaderUnits(m) \o FlattenSeq([i \in DOMAIN Written(m) |->
                                     encode(m, Written(m)[i], m.body[Written(m)[i]])])

-----------------------------------------------------------------------------
(***************************************************************************)
(* Reading: each constructor reads field by field and stops at the first   *)
(* one the stream is too short for.                                        *)
(***************************************************************************)
Error == [type |-> 0]

header_deserialize(b) ==
    IF Len(b) < HeaderSize \/ b[1] # Magic THEN Error
    ELSE [version_max |-> b[2], version_using |-> b[3], version_min |-> b[4],
          type |-> b[5], extensions |-> b[6]]

SizeOf(fields) == SumFunction([i \in DOMAIN fields |-> Size[fields[i]]])

\* Where field i of the announced fields begins in the buffer.
Offset(h, i) == HeaderSize + SizeOf(SubSeq(Announced(h), 1, i - 1))

BodyEnd(h) == Offset(h, Len(Announced(h)) + 1)

Body(h, b) ==
    [f \in ToSet(Announced(h)) |->
        LET i == CHOOSE j \in DOMAIN Announced(h) : Announced(h)[j] = f
        IN decode(h, f, SubSeq(b, Offset(h, i) + 1, Offset(h, i) + Size[f]))]

\* deserialize_block knows no such type.
UnknownBlock(h) == h.type \in HasBlock /\ block_type(h.extensions) \notin BlockTypes

\* It is called for the block of a vote only when the vote was there.
AssertFails(h, b) ==
    UnknownBlock(h) /\ (h.type = ConfirmAck => HeaderSize + SizeOf(vote_deserialize) <= Len(b))

\* deserialize of the message a good header announces: an error when the block
\* type is none or the buffer ends early.
deserialize(h, b) ==
    IF UnknownBlock(h) \/ BodyEnd(h) > Len(b) THEN Error
    ELSE [version_max |-> h.version_max, version_using |-> h.version_using,
          version_min |-> h.version_min, type |-> h.type, extensions |-> h.extensions,
          body |-> Body(h, b)]

at_end(h, b) == BodyEnd(h) = Len(b)

\* rai::work_validate, of the block inside: a work of all zeros is not enough.
work_validate(m) == \E i \in DOMAIN m.body["work"] : m.body["work"][i] # 0

-----------------------------------------------------------------------------
(***************************************************************************)
(* The messages a node makes: two values per field, one of which reads     *)
(* differently backwards.                                                  *)
(***************************************************************************)
Value(f, marked) == [i \in 1 .. Size[f] |-> IF marked /\ i = 1 THEN 1 ELSE 0]

Bodies(h) ==
    {[f \in ToSet(Written(h)) |-> Value(f, f \in marked)] : marked \in SUBSET ToSet(Written(h))}

\* message_header, with the flag ipv4_only or without it, and the block type
\* the constructors of publish, confirm_req and confirm_ack set.
Headers ==
    {[version_max |-> 7, version_using |-> 7, version_min |-> 1, type |-> t,
      extensions |-> block_type_set(flags, IF t \in HasBlock THEN b ELSE 0)] :
        t \in Keepalive .. BulkPullBlocks, b \in BlockTypes, flags \in {0, 2}}

Init ==
    /\ \E h \in Headers : \E b \in Bodies(h) :
          sent = [version_max |-> h.version_max, version_using |-> h.version_using,
                  version_min |-> h.version_min, type |-> h.type,
                  extensions |-> h.extensions, body |-> b]
    /\ wire = <<>>
    /\ damage = 0
    /\ got = {}
    /\ rest = <<>>
    /\ status = "success"
    /\ step = "made"

SendIt ==
    /\ step = "made"
    /\ wire' = serialize(sent)
    /\ step' = "sent"
    /\ UNCHANGED <<sent, damage, got, rest, status>>

\* The datagram is cut short, grows, or comes from a node that means another
\* type, another kind of block or another network.
Damage ==
    /\ step = "sent"
    /\ damage < MaxDamage
    /\ damage' = damage + 1
    /\ \/ wire # <<>> /\ wire' = Front(wire)
       \/ wire' = Append(wire, 0)
       \/ Len(wire) >= HeaderSize /\ wire' = [wire EXCEPT ![1] = 0]
       \/ Len(wire) >= HeaderSize /\ \E t \in 0 .. BulkPullBlocks + 1 : wire' = [wire EXCEPT ![5] = t]
       \/ Len(wire) >= HeaderSize
          /\ \E t \in 0 .. State + 1 : wire' = [wire EXCEPT ![6] = block_type_set(@, t)]
    /\ UNCHANGED <<sent, got, rest, status, step>>

Refuse(reason) == status' = reason /\ UNCHANGED <<got, rest>>

Deliver(m, left) == got' = got \cup {m} /\ rest' = left /\ status' = "success"

\* message_parser::deserialize_buffer, on a datagram.  deserialize_block asserts
\* that it knows the type of the block: a failed assertion ends the process, or
\* nothing where assertions are compiled out and no block is an error.
Datagrams == {Keepalive, Publish, ConfirmReq, ConfirmAck}

deserialize_buffer ==
    LET h == header_deserialize(wire)
        d == IF h.type \notin Datagrams THEN Error ELSE deserialize(h, wire)
    IN /\ step = "sent"
       /\ step' = "read"
       /\ \/ h = Error /\ Refuse("invalid_header")
          \/ h # Error /\ h.type \notin Datagrams /\ Refuse("invalid_message_type")
          \/ h.type \in Datagrams /\ AssertFails(h, wire) /\ Refuse("assertion_failed")
          \/ h.type \in Datagrams
             /\ IF d = Error \/ ~at_end(h, wire) THEN Refuse("invalid_message")
                ELSE IF h.type \in HasBlock /\ ~work_validate(d) THEN Refuse("insufficient_work")
                ELSE Deliver(d, <<>>)
       /\ UNCHANGED <<sent, wire, damage>>

\* The bootstrap server reads a header off the connection, then the body the
\* header announces, and leaves what follows for the next message.
deserialize_stream ==
    LET h == header_deserialize(wire)
        d == IF h.type \notin BulkPull .. BulkPullBlocks THEN Error ELSE deserialize(h, wire)
    IN /\ step = "sent"
       /\ h.type \in BulkPull .. BulkPullBlocks
       /\ step' = "read"
       /\ IF d = Error THEN Refuse("invalid_message")
          ELSE Deliver(d, SubSeq(wire, BodyEnd(h) + 1, Len(wire)))
       /\ UNCHANGED <<sent, wire, damage>>

Next == SendIt \/ Damage \/ deserialize_buffer \/ deserialize_stream

Spec == Init /\ [][Next]_vars

-----------------------------------------------------------------------------
(***************************************************************************)
(* Properties                                                              *)
(***************************************************************************)

\* Types of the variables: one message is made, one buffer travels and at most
\* one message is seen.
TypeOK ==
    /\ wire \in Seq(Nat)
    /\ damage \in 0 .. MaxDamage
    /\ Cardinality(got) <= 1
    /\ status \in {"success", "invalid_header", "invalid_message_type", "invalid_message",
                   "insufficient_work", "assertion_failed"}
    /\ step \in {"made", "sent", "read"}

\* A message that arrives as it was sent is read as it was sent, field by
\* field and with its header, unless its block lacks work: the constructors
\* read what serialize wrote, for every kind of message and of block, and none of
\* them meets the assertion of deserialize_block.
ReadIsWritten ==
    step = "read" /\ damage = 0 =>
        \/ got = {sent}
        \/ sent.type \in HasBlock /\ ~work_validate(sent) /\ status = "insufficient_work"
        \/ sent.type \notin Datagrams /\ status = "invalid_message_type"

\* Whatever happened to a buffer, a message the visitor sees accounts for all
\* of it: written again it gives back the very units that were read, and of a
\* datagram nothing is left over (at_end).  So no two datagrams mean the same
\* message and no datagram means two.
NothingLeftOver ==
    \A m \in got :
        /\ serialize(m) \o rest = wire
        /\ m.type \in Datagrams => rest = <<>>
=============================================================================
