------------------------------ MODULE BulkPull -------------------------------
(***************************************************************************)
(* bulk_pull_server (rai/node/bootstrap.cpp): the blocks of one account    *)
(* are sent from its head down, each read from the store when the one      *)
(* before it has been written, while the ledger changes.                   *)
(***************************************************************************)
EXTENDS Integers, Sequences, SequencesExt

CONSTANTS Account, Label, MaxHeight, MaxChanges

VARIABLES
    heads,       \* the server's ledger: account -> path of its head
    asked,       \* the request as it came
    request,     \* [start, end] after set_current_end, or NoRequest
    current,
    wire,        \* what has been written and not read
    changes      \* how often the ledger changed since the request
vars == <<heads, asked, request, current, wire, changes>>

-----------------------------------------------------------------------------
(* Account chains: a hash determines its block and, through previous, every  *)
(* block below it, so a hash is the account with the path of choices from    *)
(* its open block, and a ledger is the head path of every account.           *)

Zero == [account |-> 0, path |-> <<>>]

Hash(a, path) == IF path = <<>> THEN Zero ELSE [account |-> a, path |-> path]

\* block::previous, zero for the first block of an account
previous(h) == Hash(h.account, Front(h.path))

\* block_store::block_exists
block_exists(ledger, h) == h # Zero /\ IsPrefix(h.path, ledger[h.account])

\* block_store::account_get: the head, of an account that is in the table
known(ledger, a) == ledger[a] # <<>>
head(ledger, a) == Hash(a, ledger[a])

\* The chain of an account, from its head down to above `end'.
RECURSIVE Down(_, _)
Down(h, end) == IF h = end \/ h = Zero THEN <<>> ELSE <<h>> \o Down(previous(h), end)

Paths(labels, n) == UNION {[1..k -> labels] : k \in 0..n}

-----------------------------------------------------------------------------

NoRequest == [start |-> 0, end |-> Zero]
NotABlock == [account |-> 0, path |-> <<0>>]
Ledgers == [Account -> Paths(Label, MaxHeight)]
Hashes == {Hash(a, p) : a \in Account, p \in Paths(Label, MaxHeight)}

Init ==
    /\ heads \in Ledgers
    /\ asked = NoRequest /\ request = NoRequest /\ current = Zero /\ wire = <<>> /\ changes = 0

\* The end of the request, cleared when the server has no such block.
known_end(end) == IF block_exists(heads, end) THEN end ELSE Zero

\* mutant
first_of_any(a, end) == IF known(heads, a) THEN head(heads, a) ELSE end
first_block(a, end) ==
    IF known(heads, a) /\ (end = Zero \/ end.account = a) THEN head(heads, a) ELSE end

set_current_end(a, end) ==
    /\ request = NoRequest /\ a \in Account
    /\ request' = [start |-> a, end |-> known_end(end)]
    /\ current' = first_block(a, known_end(end))
    /\ asked' = [start |-> a, end |-> end]
    /\ changes' = 0
    /\ UNCHANGED <<heads, wire>>

\* The next block to read: the end stands for the zero below an open block.
step_down(h) == IF previous(h) = Zero THEN request.end ELSE previous(h)

more == current # request.end /\ block_exists(heads, current)

answering == request # NoRequest

\* get_next, and the write of its block or of the mark that ends the stream.
send_next ==
    /\ answering
    /\ IF more
       THEN /\ wire' = Append(wire, current)
            /\ current' = step_down(current)
            /\ UNCHANGED <<request, asked>>
       ELSE /\ wire' = Append(wire, NotABlock)
            /\ current' = request.end
            /\ request' = NoRequest
            /\ UNCHANGED asked
    /\ UNCHANGED <<heads, changes>>

\* The block processor and rollbacks go on meanwhile.
ledger_changes(a) ==
    /\ changes < MaxChanges
    /\ changes' = changes + 1
    /\ \/ /\ Len(heads[a]) < MaxHeight
          /\ \E l \in Label : heads' = [heads EXCEPT ![a] = Append(@, l)]
       \/ /\ known(heads, a)
          /\ heads' = [heads EXCEPT ![a] = Front(@)]
    /\ UNCHANGED <<asked, request, current, wire>>

Next ==
    \/ \E a \in Account, end \in Hashes : wire = <<>> /\ set_current_end(a, end)
    \/ send_next
    \/ \E a \in Account : request # NoRequest /\ ledger_changes(a)

Spec == Init /\ [][Next]_vars

-----------------------------------------------------------------------------
\* A request in progress has an account and an end the server had; a
\* response is at most a chain and its mark.
TypeOK ==
    /\ heads \in Ledgers
    /\ request.start \in Account \cup {0} /\ request.end \in Hashes \cup {Zero}
    /\ current \in Hashes \cup {Zero}
    /\ \A i \in DOMAIN wire : wire[i] \in Hashes \cup {NotABlock}
    /\ Len(wire) <= MaxHeight + 1
    /\ changes \in 0..MaxChanges

Sent == SelectSeq(wire, LAMBDA h : h # NotABlock)
Finished == request = NoRequest /\ wire # <<>>

\* The comment above set_current_end: the final block to send is the "end" member
\* (of a request whose end the server has, in the account that is asked for).
EndIsSent ==
    Finished /\ changes = 0 /\ block_exists(heads, asked.end) /\ asked.end.account = asked.start =>
        Sent # <<>> /\ Last(Sent) = asked.end

\* get_next: whatever is rolled back or added during a pull, the blocks sent
\* are blocks of the account, each the previous of the one before, and end above
\* the end of the request (as the test bulk_pull.none has it, against EndIsSent).
SentIsAChain ==
    \A i \in DOMAIN Sent :
        /\ Sent[i].account = asked.start
        /\ Sent[i] # asked.end
        /\ i > 1 => Sent[i] = previous(Sent[i - 1])

\* What a pull of account a down to `end' has to contain.
Wanted(a, end) ==
    IF block_exists(heads, end)
    THEN IF end.account = a THEN Down(head(heads, a), end) ELSE <<>>
    ELSE Down(head(heads, a), Zero)

\* set_current_end, get_next: with a ledger that stays as it is the pull has
\* the blocks above `end' and no other; all of them when `end' is unknown, none
\* when it belongs to another account.
SendsTheRange == Finished /\ changes = 0 => Sent = Wanted(asked.start, asked.end)

=============================================================================
