---------------------------- MODULE BootstrapSync -----------------------------
(***************************************************************************)
(* One bootstrap against one peer, end to end: frontier_req_client merges  *)
(* the account tables with what frontier_req_server sends, bulk_pull_      *)
(* client pulls what is missing from bulk_pull_server, bulk_push_client    *)
(* pushes what the peer misses to bulk_push_server (rai/node/              *)
(* bootstrap.cpp).  Both ledgers may change meanwhile and a connection may *)
(* fail during a pull.  How bootstrap_attempt runs several of these over   *)
(* several connections is BootstrapAttempt.                                *)
(***************************************************************************)
EXTENDS Integers, Sequences, SequencesExt, FiniteSets, FiniteSetsExt

CONSTANTS
    Account,         \* account numbers, a subset of Nat \ {0}
    Label, MaxHeight,
    CostLimit,       \* bulk_push_cost_limit
    RetryLimit,      \* bootstrap_frontier_retry_limit
    MaxChanges,      \* bound on ledger changes by others during the bootstrap
    MaxFailures,     \* bound on connections lost during pulls
    MaxWire          \* what TCP holds between the two nodes

VARIABLES
    heads,           \* the client's ledger
    peer,            \* the server's ledger
    phase, wire,
    served,          \* frontier_req_server: current and info.head
    current, info, bulk_push_cost, pulls, targets,   \* frontier_req_client, bootstrap_attempt
    pull, expected,  \* bulk_pull_client
    asked, request, server_current,                  \* bulk_pull_server
    target,          \* bulk_push_client::current_target
    received, peer_received,   \* blocks in the two block processors
    changes, touched, failures, got   \* history and bounds
client_vars == <<current, info, bulk_push_cost>>
pull_vars == <<pull, expected, got>>
server_vars == <<asked, request, server_current>>
bound_vars == <<changes, touched, failures>>
queues == <<received, peer_received>>
vars == <<heads, peer, phase, wire, served, client_vars, pulls, targets, pull_vars,
          server_vars, target, queues, bound_vars>>

Server == INSTANCE BulkPull WITH
    heads <- peer, current <- server_current, MaxChanges <- 0, changes <- 0

Zero == Server!Zero
previous(h) == Server!previous(h)
block_exists(ledger, h) == Server!block_exists(ledger, h)
known(ledger, a) == Server!known(ledger, a)
head(ledger, a) == Server!head(ledger, a)
Down(h, end) == Server!Down(h, end)

NoAccount == [account |-> 0, head |-> Zero]
NoPull == [account |-> 0, head |-> Zero, end |-> Zero, first |-> Zero, attempts |-> 0]
NoTarget == [first |-> Zero, second |-> Zero]

\* latest_begin (current + 1): the next account of the table, 0 after the last.
next(ledger, a) ==
    LET above == {b \in Account : b > a /\ known(ledger, b)}
    IN  IF above = {} THEN NoAccount
        ELSE [account |-> Min(above), head |-> head(ledger, Min(above))]

Init ==
    /\ heads \in Server!Ledgers /\ peer \in Server!Ledgers
    /\ phase = "frontier" /\ wire = <<>>
    /\ served = next(peer, 0)
    /\ current = next(heads, 0).account /\ info = next(heads, 0).head
    /\ bulk_push_cost = 0 /\ pulls = <<>> /\ targets = <<>>
    /\ pull = NoPull /\ expected = Zero /\ got = {}
    /\ asked = Server!NoRequest /\ request = Server!NoRequest /\ server_current = Zero
    /\ target = NoTarget /\ received = {} /\ peer_received = {}
    /\ changes = 0 /\ touched = {} /\ failures = 0

-----------------------------------------------------------------------------
\* The frontier request.

next_frontier(ledger, f) == next(ledger, f.account)

\* frontier_req_server::send_next, send_finished
server_send_frontier ==
    /\ phase = "frontier" /\ Len(wire) < MaxWire
    /\ NoAccount \notin ToSet(wire)
    /\ wire' = Append(wire, served)
    /\ served' = IF served = NoAccount THEN NoAccount ELSE next_frontier(peer, served)
    /\ UNCHANGED <<heads, peer, phase, client_vars, pulls, targets, pull_vars, server_vars,
                   target, queues, bound_vars>>

\* The state of the merge, which unsynced and next change.
Merge == [current |-> current, info |-> info, cost |-> bulk_push_cost, targets |-> targets]
Target(m, end) == [first |-> m.info, second |-> end]
\* unsynced: the target is kept while the cost is below the limit.
unsynced(m, end) ==
    IF m.cost < CostLimit
    THEN [m EXCEPT !.targets = Append(@, Target(m, end)), !.cost = @ + IF end = Zero THEN 2 ELSE 1]
    ELSE m
advance(m) ==
    LET n == next(heads, m.current) IN [m EXCEPT !.current = n.account, !.info = n.head]

\* The accounts below a, or all for a = 0, that the peer does not have.
RECURSIVE pass(_, _)
pass(m, a) ==
    IF m.current # 0 /\ (a = 0 \/ m.current < a)
    THEN pass(advance(unsynced(m, Zero)), a)
    ELSE m

Merged(m, more_pulls) ==
    /\ current' = m.current /\ info' = m.info
    /\ bulk_push_cost' = m.cost /\ targets' = m.targets
    /\ pulls' = pulls \o more_pulls

Pull(a, h, end) == [account |-> a, head |-> h, end |-> end, first |-> h, attempts |-> 0]

\* Either we are behind or there is a fork we differ on.
behind(latest) == ~block_exists(heads, latest)

received_frontier ==
    /\ phase = "frontier" /\ wire # <<>>
    /\ wire' = Tail(wire)
    /\ LET f == Head(wire)
           m == pass(Merge, f.account)
       IN  IF f = NoAccount
           THEN Merged(m, <<>>) /\ phase' = "pull"
           ELSE /\ UNCHANGED phase
                /\ CASE m.current # f.account ->
                          Merged(m, <<Pull(f.account, f.head, Zero)>>)
                     [] m.current = f.account /\ f.head = m.info ->
                          Merged(advance(m), <<>>)
                     [] m.current = f.account /\ f.head # m.info /\ behind(f.head) ->
                          Merged(advance([m EXCEPT !.cost = @ + 5]),
                                 <<Pull(f.account, f.head, m.info)>>)
                     [] m.current = f.account /\ f.head # m.info /\ ~behind(f.head) ->
                          Merged(advance(unsynced(m, f.head)), <<>>)
    /\ UNCHANGED <<heads, peer, served, pull_vars, server_vars, target, queues, bound_vars>>

-----------------------------------------------------------------------------
\* Pulls.

\* bulk_pull_client, request
request_pull ==
    /\ phase = "pull" /\ pull = NoPull /\ pulls # <<>>
    /\ pull' = Head(pulls) /\ pulls' = Tail(pulls)
    /\ expected' = Head(pulls).head
    /\ Server!set_current_end(Head(pulls).account, Head(pulls).end)
    /\ UNCHANGED <<heads, phase, served, client_vars, targets, target, queues, changes,
                   touched, failures, got>>

server_send_block ==
    /\ phase = "pull" /\ Len(wire) < MaxWire
    /\ Server!send_next
    /\ UNCHANGED <<heads, phase, served, client_vars, pulls, targets, pull_vars, target,
                   queues, bound_vars>>

expected_after(h) == IF h = expected THEN previous(h) ELSE expected

\* received_type, received_block
received_block ==
    /\ phase = "pull" /\ pull # NoPull /\ wire # <<>> /\ Head(wire) # Server!NotABlock
    /\ wire' = Tail(wire)
    /\ expected' = expected_after(Head(wire))
    /\ received' = received \cup {Head(wire)}
    /\ got' = got \cup {Head(wire)}
    /\ UNCHANGED <<heads, peer, phase, served, client_vars, pulls, targets, pull, server_vars,
                   target, peer_received, bound_vars>>

\* mutant
requeue_whole == [pull EXCEPT !.head = pull.end, !.attempts = @ + 1]
from_expected == [pull EXCEPT !.head = expected, !.attempts = @ + 1]

\* ~bulk_pull_client and requeue_pull: what has not come is asked for again, at
\* the front of the queue, until the retries are used up.
requeued ==
    IF expected = pull.end \/ pull.attempts = RetryLimit THEN <<>> ELSE <<from_expected>>

client_gone ==
    /\ pull' = NoPull /\ expected' = Zero /\ wire' = <<>>
    /\ pulls' = requeued \o pulls
    /\ UNCHANGED <<heads, peer, phase, served, client_vars, targets, target, queues, got,
                   changes, touched>>

\* not_a_block
pull_ends ==
    /\ phase = "pull" /\ pull # NoPull /\ wire # <<>> /\ Head(wire) = Server!NotABlock
    /\ client_gone /\ UNCHANGED <<server_vars, failures>>

\* The connection is lost; the server's objects go with it.
connection_lost ==
    /\ phase = "pull" /\ pull # NoPull /\ failures < MaxFailures
    /\ failures' = failures + 1
    /\ request' = Server!NoRequest /\ server_current' = Zero /\ asked' = Server!NoRequest
    /\ client_gone

\* The block processor: blocks on top of the head of their chain are
\* stored, the others wait for their previous block or are forks.
RECURSIVE absorbed(_, _)
absorbed(ledger, blocks) ==
    LET ready == {b \in blocks : previous(b) = head(ledger, b.account)}
    IN  IF ready = {} THEN ledger
        ELSE LET b == CHOOSE x \in ready : TRUE
             IN  absorbed([ledger EXCEPT ![b.account] = b.path], blocks \ {b})

waiting(ledger, blocks) ==
    {b \in blocks : ~block_exists(ledger, b) /\ previous(b) # Zero
                    /\ ~block_exists(ledger, previous(b))}

process_blocks ==
    /\ \/ /\ heads' = absorbed(heads, received)
          /\ received' = waiting(heads', received)
          /\ received' # received /\ UNCHANGED <<peer, peer_received>>
       \/ /\ peer' = absorbed(peer, peer_received)
          /\ peer_received' = waiting(peer', peer_received)
          /\ peer_received' # peer_received /\ UNCHANGED <<heads, received>>
    /\ UNCHANGED <<phase, wire, served, client_vars, pulls, targets, pull_vars, server_vars,
                   target, bound_vars>>

-----------------------------------------------------------------------------
\* The push.

pulls_done ==
    /\ phase = "pull" /\ pull = NoPull /\ pulls = <<>>
    /\ phase' = "push"
    /\ UNCHANGED <<heads, peer, wire, served, client_vars, pulls, targets, pull_vars, server_vars,
                   target, queues, bound_vars>>

push_from(p) == previous(p.first)

\* bulk_push_client::push: the next block of the target, or of the first target
\* (from the back) whose head is stored; the targets passed over are dropped.
RECURSIVE push_target(_, _)
push_target(t, rest) ==
    IF t.first # Zero /\ t.first # t.second /\ block_exists(heads, t.first)
    THEN [target |-> t, rest |-> rest]
    ELSE IF rest = <<>> THEN [target |-> NoTarget, rest |-> <<>>]
         ELSE push_target(Last(rest), Front(rest))

push_block ==
    /\ phase = "push" /\ Len(wire) < MaxWire
    /\ LET p == push_target(target, targets)
       IN  /\ targets' = p.rest
           /\ IF p.target = NoTarget
              THEN /\ wire' = Append(wire, Server!NotABlock)
                   /\ target' = NoTarget /\ phase' = "pushed"
              ELSE /\ wire' = Append(wire, p.target.first)
                   /\ target' = [p.target EXCEPT !.first = push_from(p.target)]
                   /\ UNCHANGED phase
    /\ UNCHANGED <<heads, peer, served, client_vars, pulls, pull_vars, server_vars, queues,
                   bound_vars>>

\* bulk_push_server::received_type, received_block
push_received ==
    /\ phase \in {"push", "pushed"} /\ wire # <<>>
    /\ wire' = Tail(wire)
    /\ IF Head(wire) = Server!NotABlock
       THEN phase' = "done" /\ UNCHANGED peer_received
       ELSE peer_received' = peer_received \cup {Head(wire)} /\ UNCHANGED phase
    /\ UNCHANGED <<heads, peer, served, client_vars, pulls, targets, pull_vars, server_vars,
                   target, received, bound_vars>>

-----------------------------------------------------------------------------
\* Blocks that the two nodes get, or roll back, on their own.
Changed(ledger, a) ==
    {[ledger EXCEPT ![a] = Append(@, l)] : l \in {x \in Label : Len(ledger[a]) < MaxHeight}}
    \cup {[ledger EXCEPT ![a] = Front(@)] : b \in {x \in {a} : known(ledger, x)}}

ledgers_change(a) ==
    /\ phase # "done" /\ changes < MaxChanges
    /\ changes' = changes + 1 /\ touched' = touched \cup {a}
    /\ \/ heads' \in Changed(heads, a) /\ UNCHANGED peer
       \/ peer' \in Changed(peer, a) /\ UNCHANGED heads
    /\ UNCHANGED <<phase, wire, served, client_vars, pulls, targets, pull_vars, server_vars,
                   target, queues, failures>>

Protocol ==
    \/ server_send_frontier \/ received_frontier
    \/ request_pull \/ server_send_block \/ received_block \/ pull_ends
    \/ process_blocks \/ pulls_done
    \/ push_block \/ push_received

Next == Protocol \/ connection_lost \/ \E a \in Account : ledgers_change(a)

Spec == Init /\ [][Next]_vars

-----------------------------------------------------------------------------
\* The queues and cursors have their types.
TypeOK ==
    /\ heads \in Server!Ledgers /\ peer \in Server!Ledgers
    /\ phase \in {"frontier", "pull", "push", "pushed", "done"} /\ Len(wire) <= MaxWire
    /\ current \in Account \cup {0} /\ expected \in Server!Hashes
    /\ bulk_push_cost \in 0..CostLimit + 5 * Cardinality(Account)
    /\ \A i \in DOMAIN targets : targets[i].first \in Server!Hashes \ {Zero}
    /\ \A i \in DOMAIN pulls : pulls[i].attempts \in 0..RetryLimit
    /\ received \cup peer_received \subseteq Server!Hashes

\* Accounts that no other thread of either node has changed.
Steady == Account \ touched

\* The pulls and the push targets that an exact comparison of account a yields.
PullsFor(a) ==
    IF ~known(peer, a) \/ block_exists(heads, head(peer, a)) THEN <<>>
    ELSE <<Pull(a, head(peer, a), head(heads, a))>>
TargetsFor(a) ==
    IF heads[a] # peer[a] /\ IsPrefix(peer[a], heads[a])
    THEN <<[first |-> head(heads, a), second |-> head(peer, a)]>> ELSE <<>>
MergeEnds == phase = "frontier" /\ phase' = "pull"

\* received_frontier, next: both tables are walked by key while other threads
\* change them; an account that did not change itself is compared once, and is
\* pulled from the peer's head down to ours exactly when we miss that head.
PullsWhatDiffers ==
    MergeEnds => \A a \in Steady :
        SelectSeq(pulls', LAMBDA p : p.account = a) = PullsFor(a)

\* unsynced: an account that the peer misses, or has less of, is pushed once down
\* to the peer's head; targets are left out only at the cost limit.
PushesWhatIsMissing ==
    MergeEnds => \A a \in Steady :
        LET mine == SelectSeq(targets', LAMBDA t : t.first.account = a)
        IN  mine = TargetsFor(a) \/ (mine = <<>> /\ bulk_push_cost' >= CostLimit)

\* received_block, ~bulk_pull_client: `expected' moves only past blocks that have
\* come, over all tries of a pull, so a pull that counts as complete has every
\* block from the head it was made for down to its end.
PullIsContiguous ==
    pull # NoPull => ToSet(Down(pull.first, expected)) \subseteq got

\* The whole exchange: when it is over and the processors are done, an account
\* that both nodes had one chain of has all the peer's blocks here, and all our
\* blocks there unless the push was cut at its cost limit; a lost connection
\* changes nothing of it.
Converged ==
    phase = "done" /\ absorbed(heads, received) = heads /\ absorbed(peer, peer_received) = peer =>
        \A a \in Steady :
            \/ heads[a] = peer[a]
            \/ IsPrefix(peer[a], heads[a]) /\ bulk_push_cost >= CostLimit
            \/ ~IsPrefix(peer[a], heads[a]) /\ ~IsPrefix(heads[a], peer[a])

=============================================================================
