---------------------------- MODULE WalletActions ----------------------------
(***************************************************************************)
(* The thread of rai::wallets and the actions it runs (rai/node/           *)
(* wallet.cpp): sends with an id, receives, changes and the work cache, on *)
(* one account that the wallet has the key of; its chain also changes by   *)
(* the network and by elections, and survives a crash or a stop of the     *)
(* node.                                                                   *)
(*                                                                         *)
(* A block is the path of contents from the first block of the account to  *)
(* it (blocks with the same previous and the same content are the same     *)
(* block), so the ledger is the path of the head.                          *)
(***************************************************************************)
EXTENDS Naturals, Sequences, SequencesExt, FiniteSets

CONSTANTS
    Id,            \* ids a user gives to sends; all of them send the same amount
    Receivable,    \* confirmed sends to the account
    Large,         \* those of a larger amount than the others
    Balance,       \* how many sends the balance allows
    MaxRequests, MaxForeign, MaxRollbacks, MaxCrashes, MayStop

None == <<>>
NoBlock == [path |-> None, work |-> None]
Nothing == [type |-> "none"]
Generate(root) == [type |-> "generate", root |-> root]
Send(id) == [type |-> "send", id |-> id]
Receive(r) == [type |-> "receive", send |-> r]
Change == [type |-> "change"]

VARIABLES
    actions,         \* wallets::actions, a bag kept as a sequence
    current,         \* the action that runs
    stage,           \* "idle", "begun", "built", "added", "flushed"
    block,           \* its block and the root its work is for
    head,            \* the ledger
    send_action_ids, \* the table of ids
    work,            \* the root of the work cached in the wallet entry
    blocks, active,  \* block_processor::blocks, and the block it works on
    known,           \* blocks the network has seen
    processor_stopped, stopped,
    rejected,        \* the ledger did not take some block
    answered,        \* requests whose callback was called
    resent,          \* some id was given to a second block
    restored,        \* and after that an election put a block of the wallet back
    requests, foreigns, rollbacks, crashes
ledger == <<head, send_action_ids, work>>
history == <<resent, restored>>
counts == <<requests, foreigns, rollbacks, crashes>>
vars == <<actions, current, stage, block, head, send_action_ids, work, blocks, active, known,
          processor_stopped, stopped, rejected, answered, resent, restored,
          requests, foreigns, rollbacks, crashes>>

Init ==
    /\ actions = <<>> /\ current = Nothing /\ stage = "idle" /\ block = NoBlock
    /\ head = <<"open">> /\ send_action_ids = [id \in Id |-> None] /\ work = None
    /\ blocks = <<>> /\ active = NoBlock /\ known = {}
    /\ processor_stopped = FALSE /\ stopped = FALSE
    /\ rejected = FALSE /\ answered = 0 /\ resent = FALSE /\ restored = FALSE
    /\ requests = 0 /\ foreigns = 0 /\ rollbacks = 0 /\ crashes = 0

block_exists(b) == IsPrefix(b, head)
sends(path) == Cardinality({i \in DOMAIN path : path[i] = "send"})

-----------------------------------------------------------------------------
(* The queue.                                                              *)

priority(a) ==
    CASE a.type = "generate" -> 1000
      [] a.type \in {"send", "change"} -> 999
      [] OTHER -> IF a.send \in Large THEN 2 ELSE 1

\* queue_wallet_action by send_async, receive_async or change_async
queue_wallet_action(a) ==
    /\ requests < MaxRequests
    /\ requests' = requests + 1
    /\ actions' = Append(actions, a)
    /\ UNCHANGED <<current, stage, block, ledger, blocks, active, known, processor_stopped, stopped,
                   rejected, answered, history, foreigns, rollbacks, crashes>>

\* The first of the multimap: the highest priority, in order of arrival
first(i) ==
    /\ \A j \in DOMAIN actions : priority(actions[j]) <= priority(actions[i])
    /\ \A j \in 1 .. i - 1 : priority(actions[j]) < priority(actions[i])

\* do_wallet_actions takes an action, unless it is told to stop
take_action ==
    /\ ~stopped /\ stage = "idle"
    /\ \E i \in DOMAIN actions :
           first(i) /\ current' = actions[i] /\ actions' = RemoveAt(actions, i)
    /\ stage' = "begun"
    /\ UNCHANGED <<block, ledger, blocks, active, known, processor_stopped, stopped, rejected,
                   answered, history, counts>>

-----------------------------------------------------------------------------
(* send_action, receive_action and change_action: a transaction reads the  *)
(* head and makes the block; then its work is checked, it is given to the  *)
(* block processor, and the action waits for it.                           *)

\* mutant
never_cached(id) == FALSE
cached_block(id) == send_action_ids[id] # None /\ block_exists(send_action_ids[id])

\* What the account's next block would contain, if the action can make it
Content(a) ==
    CASE a.type = "send" -> IF ~cached_block(a.id) /\ sends(head) < Balance THEN {"send"} ELSE {}
      [] a.type = "receive" -> {a.send} \ ToSet(head)
      [] OTHER -> {"change"}

Begun(types) == stage = "begun" /\ current.type \in types

\* The transaction that makes no block: the callback is called at once.
no_block ==
    /\ Begun({"send", "receive", "change"})
    /\ Content(current) = {}
    /\ stage' = "idle" /\ current' = Nothing /\ answered' = answered + 1
    /\ UNCHANGED <<actions, block, ledger, blocks, active, known, processor_stopped, stopped,
                   rejected, history, counts>>

id_recorded(b) ==
    IF current.type = "send" THEN [send_action_ids EXCEPT ![current.id] = b] ELSE send_action_ids

make_block ==
    /\ Begun({"send", "receive", "change"})
    /\ \E content \in Content(current) :
           LET b == Append(head, content)
           IN  /\ block' = [path |-> b, work |-> work]
               /\ send_action_ids' = id_recorded(b)
    /\ stage' = "built"
    /\ resent' = (resent \/ \E id \in Id : send_action_ids[id] \notin {None, send_action_ids'[id]})
    /\ UNCHANGED <<actions, current, head, work, blocks, active, known, processor_stopped, stopped,
                   rejected, answered, restored, counts>>

\* work_validate, else work_generate_blocking
valid_work(b) == Front(b.path)

process_active ==
    /\ stage = "built"
    /\ stage' = "added"
    /\ block' = [block EXCEPT !.work = valid_work(block)]
    /\ blocks' = <<block'>> \o blocks
    /\ UNCHANGED <<actions, current, ledger, active, known, processor_stopped, stopped, rejected,
                   answered, history, counts>>

flushed == processor_stopped \/ (blocks = <<>> /\ active = NoBlock)

ensured(b) == b.path

\* flush returns; work_ensure, and the callback
finish ==
    /\ stage = "added"
    /\ flushed
    /\ actions' = Append(actions, Generate(ensured(block)))
    /\ stage' = "idle" /\ current' = Nothing /\ block' = NoBlock /\ answered' = answered + 1
    /\ UNCHANGED <<ledger, blocks, active, known, processor_stopped, stopped, rejected, history, counts>>

\* work_cache_blocking: the work, and then a write transaction
work_generate ==
    /\ Begun({"generate"})
    /\ stage' = "flushed"
    /\ UNCHANGED <<actions, current, block, ledger, blocks, active, known, processor_stopped,
                   stopped, rejected, answered, history, counts>>

work_update ==
    /\ stage = "flushed"
    /\ work' = IF current.root = head THEN current.root ELSE work
    /\ stage' = "idle" /\ current' = Nothing
    /\ UNCHANGED <<actions, block, head, send_action_ids, blocks, active, known,
                   processor_stopped, stopped, rejected, answered, history, counts>>

-----------------------------------------------------------------------------
(* The rest of the node.                                                   *)

\* The block processor takes a block, publishes it when it fits, and then its
\* transaction is committed.
process_take ==
    /\ ~processor_stopped /\ active = NoBlock /\ blocks # <<>>
    /\ active' = Head(blocks) /\ blocks' = Tail(blocks)
    /\ known' = IF Front(active'.path) = head THEN known \cup {active'.path} ELSE known
    /\ UNCHANGED <<actions, current, stage, block, ledger, processor_stopped, stopped, rejected,
                   answered, history, counts>>

process_commit ==
    /\ active # NoBlock
    /\ IF Front(active.path) = head
       THEN head' = active.path /\ UNCHANGED rejected
       ELSE /\ UNCHANGED head
            /\ rejected' = (rejected \/ ~block_exists(active.path))
    /\ active' = NoBlock
    /\ UNCHANGED <<actions, current, stage, block, send_action_ids, work, blocks, known,
                   processor_stopped, stopped, answered, history, counts>>

\* The network delivers a block it knows, or one another holder of the key made.
foreign_block ==
    /\ foreigns < MaxForeign /\ ~processor_stopped
    /\ foreigns' = foreigns + 1
    /\ \E b \in known \cup {Append(head, "foreign")} :
           blocks' = <<[path |-> b, work |-> Front(b)]>> \o blocks
    /\ UNCHANGED <<actions, current, stage, block, ledger, active, known, processor_stopped, stopped,
                   rejected, answered, history, requests, rollbacks, crashes>>

\* The processor is forced to take the winner of an election: it rolls back the
\* block in its place, and those after it, and processes the winner, which may be
\* a block of the wallet that an earlier election or a crash took away.
Winners ==
    LET places == {SubSeq(head, 1, n) : n \in 1 .. Len(head) - 1}
    IN {Append(p, "foreign") : p \in places} \cup {b \in known : Front(b) \in places}

force_winner ==
    /\ rollbacks < MaxRollbacks /\ ~processor_stopped /\ active = NoBlock
    /\ rollbacks' = rollbacks + 1
    /\ \E winner \in {b \in Winners : ~block_exists(b)} :
           /\ head' = winner
           /\ restored' = (restored \/ (resent /\ Last(winner) # "foreign"))
    /\ UNCHANGED <<actions, current, stage, block, send_action_ids, work, blocks, active, known,
                   processor_stopped, stopped, rejected, answered, resent, requests, foreigns, crashes>>

\* node::stop: the block processor first, the wallets last
stop_processor ==
    /\ MayStop /\ ~processor_stopped /\ active = NoBlock
    /\ processor_stopped' = TRUE
    /\ UNCHANGED <<actions, current, stage, block, ledger, blocks, active, known, stopped, rejected,
                   answered, history, counts>>
stop_wallets ==
    /\ processor_stopped /\ ~stopped
    /\ stopped' = TRUE
    /\ UNCHANGED <<actions, current, stage, block, ledger, blocks, active, known, processor_stopped,
                   rejected, answered, history, counts>>

\* The process ends, at any step, and starts again.
restart ==
    /\ crashes < MaxCrashes
    /\ crashes' = crashes + 1
    /\ actions' = <<>> /\ current' = Nothing /\ stage' = "idle" /\ block' = NoBlock
    /\ blocks' = <<>> /\ active' = NoBlock /\ processor_stopped' = FALSE /\ stopped' = FALSE
    /\ UNCHANGED <<ledger, known, rejected, answered, history, requests, foreigns, rollbacks>>

Request == \E a \in {Send(id) : id \in Id} \cup {Receive(r) : r \in Receivable} \cup {Change} : queue_wallet_action(a)
ThreadStep == take_action \/ no_block \/ make_block \/ process_active \/ finish \/ work_generate \/ work_update
Processor == process_take \/ process_commit
Next == Request \/ ThreadStep \/ Processor \/ foreign_block \/ force_winner \/ stop_processor \/ stop_wallets \/ restart

Spec == Init /\ [][Next]_vars

-----------------------------------------------------------------------------
\* The thread has one action at a time, and a block only between making it and
\* the end of its flush.
TypeOK ==
    /\ stage \in {"idle", "begun", "built", "added", "flushed"}
    /\ (stage = "idle") = (current = Nothing)
    /\ (block # NoBlock) = (stage \in {"built", "added"})
    /\ \A id \in Id : send_action_ids[id] = None \/ Last(send_action_ids[id]) = "send"

\* block_processor::add asserts valid work: the work of every block is for its
\* root, though cached work may be for a head the account no longer has.
AddedWorkIsValid == \A i \in DOMAIN blocks : blocks[i].work = Front(blocks[i].path)

\* send_action (test send_idempotent): requests with one id, repeated after any
\* crash, stop, fork or election, add up to one send at most: the chain has no
\* more sends than ids.  The table keeps the last block of an id only, so this ends
\* when an election puts back a block of the wallet after an id was sent again: a
\* further request with the id then sends once more.
OneSendForAnId ==
    \/ sends(head) <= Cardinality({id \in Id : send_action_ids[id] # None})
    \/ restored

\* flush (test send_race): when nobody else writes to the account, every block
\* the wallet makes is taken by the ledger.
BlocksAreTaken == ~rejected

\* work_ensure, work_update: when the thread has nothing left to do after a
\* block of its own, the cached work is for the head.
WorkIsReady ==
    stage = "idle" /\ actions = <<>> /\ Len(head) > 1 => work = head

=============================================================================
