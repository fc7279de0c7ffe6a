----------------------------- MODULE BlockJson -----------------------------
(***************************************************************************)
(* Blocks as JSON text (rai/lib/blocks.cpp): what serialize_json writes,   *)
(* the two readers every block type has (the constructor, which            *)
(* deserialize_block_json calls, and the member deserialize_json), the     *)
(* bytes the hash is taken over, and operator==.  The binary format is in  *)
(* Messages.                                                               *)
(*                                                                         *)
(* A text has a form and a value: hexadecimal digits padded with zeros, an *)
(* account with its prefix and checksum, a decimal number, nothing at all, *)
(* or something that is none of these.  The digits of a decimal number are *)
(* hexadecimal ones too, of another value from 10 on.                      *)
(***************************************************************************)
EXTENDS Naturals, Sequences

CONSTANT
    Value               \* the values of a field, below 100

VARIABLES
    block,              \* a block
    other,              \* the block it is compared with
    tree,               \* the JSON of `block', as it comes to the reader
    constructed,        \* what deserialize_block_json makes of it
    deserialized,       \* what deserialize_json makes of it
    step                \* "compared", or how far the text has come

vars == <<block, other, tree, constructed, deserialized, step>>

Nothing == [type |-> "none"]

-----------------------------------------------------------------------------
(* The types of block. *)
send_block == [type : {"send"}, previous : Value, destination : Value, balance : Value, signature : Value, work : Value]
receive_block == [type : {"receive"}, previous : Value, source : Value, signature : Value, work : Value]
open_block == [type : {"open"}, source : Value, representative : Value, account : Value, signature : Value, work : Value]
change_block == [type : {"change"}, previous : Value, representative : Value, signature : Value, work : Value]
state_block == [type : {"state"}, account : Value, previous : Value, representative : Value, balance : Value, link : Value,
                signature : Value, work : Value]

Block == UNION {send_block, receive_block, open_block, change_block, state_block}

-----------------------------------------------------------------------------
(* The texts, and what each decoder makes of them: a set of one value, or  *)
(* of none when it refuses the text.                                       *)
encode_hex(v) == <<"hex", v>>
to_account(v) == <<"account", v>>
to_string_dec(v) == <<"dec", v>>
Empty == <<"empty", 0>>
Junk == <<"junk", 0>>

InHex(v) == 16 * (v \div 10) + (v % 10)

Digits(x) == CASE x[1] = "hex" -> {x[2]} [] x[1] = "dec" -> {InHex(x[2])} [] OTHER -> {}

(* Of 256 bits, and the work: an empty text is refused.                    *)
decode_hex(x) == Digits(x)

(* Of 128 and 512 bits: the stream is at its end at once, and the number 0.*)
decode_hex_128(x) == IF x = Empty THEN {0} ELSE Digits(x)
decode_hex_512(x) == IF x = Empty THEN {0} ELSE Digits(x)

(* A hexadecimal text starts with a zero, which decode_dec refuses.        *)
decode_dec(x) == IF x = Empty THEN {0} ELSE IF x[1] = "dec" THEN {x[2]} ELSE {}
decode_account(x) == IF x[1] = "account" THEN {x[2]} ELSE {}
decode_link(x) == IF decode_account(x) # {} THEN decode_account(x) ELSE decode_hex(x)

decode(as, x) == CASE as = "hex"     -> decode_hex(x)
                   [] as = "amount"  -> decode_hex_128(x)
                   [] as = "signed"  -> decode_hex_512(x)
                   [] as = "dec"     -> decode_dec(x)
                   [] as = "account" -> decode_account(x)
                   [] as = "link"    -> decode_link(x)

(* A reader gets the fields of a tree, each by its decoder; it fails when  *)
(* one is missing or is not decoded.                                       *)
Read(type, fields, t) ==
    IF \A f \in DOMAIN fields : f \in DOMAIN t /\ decode(fields[f], t[f]) # {}
    THEN [f \in DOMAIN fields \cup {"type"} |->
             IF f = "type" THEN type ELSE CHOOSE v \in decode(fields[f], t[f]) : TRUE]
    ELSE Nothing

-----------------------------------------------------------------------------
(* serialize_json: without the type, which the tree keeps as it is.        *)
send_serialize_json(b) ==
    [previous |-> encode_hex(b.previous), destination |-> to_account(b.destination), balance |-> encode_hex(b.balance),
     work |-> encode_hex(b.work), signature |-> encode_hex(b.signature)]
receive_serialize_json(b) ==
    [previous |-> encode_hex(b.previous), source |-> encode_hex(b.source), work |-> encode_hex(b.work),
     signature |-> encode_hex(b.signature)]
open_serialize_json(b) ==
    [source |-> encode_hex(b.source), representative |-> to_account(b.representative), account |-> to_account(b.account),
     work |-> encode_hex(b.work), signature |-> encode_hex(b.signature)]
change_serialize_json(b) ==
    [previous |-> encode_hex(b.previous), representative |-> to_account(b.representative), work |-> encode_hex(b.work),
     signature |-> encode_hex(b.signature)]

state_serialize_json(b) ==
    [account |-> to_account(b.account), previous |-> encode_hex(b.previous), representative |-> to_account(b.representative),
     balance |-> to_string_dec(b.balance), link |-> encode_hex(b.link), link_as_account |-> to_account(b.link),
     signature |-> encode_hex(b.signature), work |-> encode_hex(b.work)]

to_json(b) == CASE b.type = "send" -> send_serialize_json(b)
                [] b.type = "receive" -> receive_serialize_json(b)
                [] b.type = "open" -> open_serialize_json(b)
                [] b.type = "change" -> change_serialize_json(b)
                [] b.type = "state" -> state_serialize_json(b)

(* The constructors: the hashables, then signature and work.               *)
send_hashables == [previous |-> "hex", destination |-> "account", balance |-> "amount",
                      signature |-> "signed", work |-> "hex"]
receive_hashables == [previous |-> "hex", source |-> "hex", signature |-> "signed", work |-> "hex"]
open_hashables == [source |-> "hex", representative |-> "account", account |-> "account",
                      signature |-> "signed", work |-> "hex"]
change_hashables == [previous |-> "hex", representative |-> "account", signature |-> "signed",
                        work |-> "hex"]
state_hashables == [account |-> "account", previous |-> "hex", representative |-> "account",
                       balance |-> "dec", link |-> "link", signature |-> "signed",
                       work |-> "hex"]

deserialize_block_json(type, t) ==
    Read(type, CASE type = "send" -> send_hashables
                 [] type = "receive" -> receive_hashables
                 [] type = "open" -> open_hashables
                 [] type = "change" -> change_hashables
                 [] type = "state" -> state_hashables, t)
(* The members.  Those of open and change blocks decode the accounts as    *)
(* hexadecimal numbers.                                                    *)
send_deserialize_json == [previous |-> "hex", destination |-> "account", balance |-> "amount",
                          work |-> "hex", signature |-> "signed"]
receive_deserialize_json == [previous |-> "hex", source |-> "hex", work |-> "hex", signature |-> "signed"]
open_deserialize_json == [source |-> "hex", representative |-> "hex", account |-> "hex",
                          work |-> "hex", signature |-> "signed"]
change_deserialize_json == [previous |-> "hex", representative |-> "hex", work |-> "hex",
                            signature |-> "signed"]

state_deserialize_json == [account |-> "account", previous |-> "hex", representative |-> "account",
                           balance |-> "dec", link |-> "link", work |-> "hex",
                           signature |-> "signed"]

deserialize_json(type, t) ==
    Read(type, CASE type = "send" -> send_deserialize_json
                 [] type = "receive" -> receive_deserialize_json
                 [] type = "open" -> open_deserialize_json
                 [] type = "change" -> change_deserialize_json
                 [] type = "state" -> state_deserialize_json, t)

-----------------------------------------------------------------------------
(***************************************************************************)
(* The bytes that are hashed, in units of the length of a balance: a hash  *)
(* or an account has two.                                                  *)
(***************************************************************************)
Wide(v) == <<0, v>>

send_hash(b) == Wide(b.previous) \o Wide(b.destination) \o <<b.balance>>
receive_hash(b) == Wide(b.previous) \o Wide(b.source)
open_hash(b) == Wide(b.source) \o Wide(b.representative) \o Wide(b.account)
change_hash(b) == Wide(b.previous) \o Wide(b.representative)

(* With the type of the block, 6, before the fields.                       *)
state_hash(b) == Wide(6) \o Wide(b.account) \o Wide(b.previous) \o Wide(b.representative) \o <<b.balance>> \o Wide(b.link)

hash(b) == CASE b.type = "send" -> send_hash(b)
             [] b.type = "receive" -> receive_hash(b)
             [] b.type = "open" -> open_hash(b)
             [] b.type = "change" -> change_hash(b)
             [] b.type = "state" -> state_hash(b)

(* operator==: by type first, then field by field.                         *)
send_equal(a, b) == a.destination = b.destination /\ a.previous = b.previous /\ a.balance = b.balance
                    /\ a.work = b.work /\ a.signature = b.signature
receive_equal(a, b) == a.previous = b.previous /\ a.source = b.source /\ a.work = b.work /\ a.signature = b.signature

open_equal(a, b) == a.source = b.source /\ a.representative = b.representative /\ a.account = b.account
                    /\ a.work = b.work /\ a.signature = b.signature
change_equal(a, b) == a.previous = b.previous /\ a.representative = b.representative
                      /\ a.work = b.work /\ a.signature = b.signature
state_equal(a, b) == a.account = b.account /\ a.previous = b.previous /\ a.representative = b.representative
                     /\ a.balance = b.balance /\ a.link = b.link /\ a.signature = b.signature /\ a.work = b.work

blocks_equal(a, b) == /\ a.type = b.type
                      /\ CASE a.type = "send" -> send_equal(a, b)
                           [] a.type = "receive" -> receive_equal(a, b)
                           [] a.type = "open" -> open_equal(a, b)
                           [] a.type = "change" -> change_equal(a, b)
                           [] a.type = "state" -> state_equal(a, b)

-----------------------------------------------------------------------------
Init == /\ block \in Block
        /\ other \in Block
        /\ tree = to_json(block)
        /\ constructed = Nothing
        /\ deserialized = Nothing
        /\ step \in {"compared", "written"}
        /\ step = "written" => other = block

(* A text that a user wrote may lack a field, hold something else in it,   *)
(* or spell it in another form.                                            *)
edit == /\ step = "written"
        /\ \E f \in DOMAIN tree :
              \/ tree' = [g \in DOMAIN tree \ {f} |-> tree[g]]
              \/ \E form \in {"hex", "account", "dec"} : tree' = [tree EXCEPT ![f] = <<form, tree[f][2]>>]
              \/ \E x \in {Empty, Junk} : tree' = [tree EXCEPT ![f] = x]
        /\ step' = "edited"
        /\ UNCHANGED <<block, other, constructed, deserialized>>

read == /\ step \in {"written", "edited"}
        /\ constructed' = deserialize_block_json(block.type, tree)
        /\ deserialized' = deserialize_json(block.type, tree)
        /\ step' = "read"
        /\ UNCHANGED <<block, other, tree>>

Next == edit \/ read

Spec == Init /\ [][Next]_vars

-----------------------------------------------------------------------------
(* What serialize_json writes is read back as the same block.  A text that *)
(* was edited is refused, or read as the block but for the edited field,   *)
(* which is another one in two cases: a decimal number where hexadecimal   *)
(* digits are read, and a balance or signature that was left empty.        *)
Misread(f) ==
    /\ tree[f] # to_json(block)[f]
    /\ \/ tree[f][1] = "dec" /\ constructed[f] = InHex(block[f])
       \/ tree[f] = Empty /\ f \in {"balance", "signature"} /\ constructed[f] = 0

ReadIsWritten ==
    step = "read" =>
        /\ tree = to_json(block) => constructed = block
        /\ constructed # Nothing => \A f \in DOMAIN block : constructed[f] = block[f] \/ Misread(f)

(* The two readers of send, receive and state blocks agree about every     *)
(* text.  No text is read by both readers of an open or change block:      *)
(* deserialize_json takes the accounts of serialize_json for hexadecimal.  *)
ReadersAgree ==
    step = "read" => IF block.type \in {"send", "receive", "state"} THEN deserialized = constructed
                     ELSE Nothing \in {deserialized, constructed}

(* Two blocks with the same hash differ in signature and work only, with   *)
(* one exception: a receive block and a change block, whose source and     *)
(* representative are the same bytes at the same place.                    *)
HashIdentifies ==
    hash(block) = hash(other) =>
       \/ block.type = other.type /\ \A f \in DOMAIN block \ {"signature", "work"} : block[f] = other[f]
       \/ {block.type, other.type} = {"receive", "change"}

(* Blocks are equal when they have the same type and the same text.        *)
EqualIsSameText == blocks_equal(block, other) <=> block.type = other.type /\ to_json(block) = to_json(other)

=============================================================================
