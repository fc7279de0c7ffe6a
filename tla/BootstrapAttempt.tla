-------------------------- MODULE BootstrapAttempt --------------------------
(***************************************************************************)
(* One bootstrap_attempt (rai/node/bootstrap.cpp): the thread in run, the  *)
(* alarm that repopulates connections, the frontier, bulk pull and bulk    *)
(* push clients on the io threads, and stop from the initiator.            *)
(*                                                                         *)
(* The attempt's mutex is held by run wherever pc is in Locked; every      *)
(* other step that takes the mutex waits for it.  A step between two       *)
(* releases of the mutex is one action.  populate_connections writes       *)
(* `stopped' without the mutex, so run's test of a predicate and its wait  *)
(* on the condition are two steps.                                         *)
(*                                                                         *)
(* A pull counts the blocks between its head and its end that have not     *)
(* been received in order; 0 is expected == pull.end.                      *)
(***************************************************************************)
EXTENDS Integers, Sequences, FiniteSets, SequencesExt

CONSTANTS
    Account,         \* accounts the frontier peer may report, in their order 1..n
    Report,          \* what its frontiers may say of an account: "same", "pull" or "push"
    Connection,      \* slots for bootstrap_client objects: bounds the ones alive at once
    Chain,           \* blocks in each pull
    RetryLimit,      \* bootstrap_frontier_retry_limit
    Base,            \* config.bootstrap_connections
    Most,            \* config.bootstrap_connections_max
    Scale,           \* bootstrap_connection_scale_target_blocks
    MaxNew,          \* bootstrap_max_new_connections
    MaxConnects,     \* bound on the peers the peer container offers
    MaxTargets,      \* bound on the push targets, which a failed frontier request leaves behind
    Given            \* the endpoint bootstrap (endpoint) was called with: a slot, or NoConnection

NoConnection == 0

VARIABLES
    pc,              \* where run is
    woken,           \* run waits on the condition and has been notified
    stopped,
    asked,           \* stop () has been called
    completed,       \* pull_completed
    pulls,           \* the pull_info queue
    idle,            \* the idle connections, front first
    clients,         \* slot -> the bootstrap_client in it
    posted,          \* bulk_pull_clients to be made by a background closure
    pullers,         \* bulk_pull_clients
    pulling,
    fconn,           \* connection_frontier_request, a weak pointer
    frontier,        \* the frontier_req_client
    targets,         \* bulk_push_targets
    pusher,          \* the bulk_push_client
    populate,        \* where populate_connections is
    unhandled,       \* an exception has left a handler of the io service
    outcome,         \* history: account -> what became of its pull
    tries            \* history: account -> how often its pull was requested

run_vars == <<pc, woken, completed>>
pull_vars == <<pulls, posted, pullers, pulling, outcome, tries>>
conn_vars == <<idle, clients>>
client_vars == <<fconn, frontier, targets, pusher, unhandled>>
vars == <<run_vars, stopped, asked, pull_vars, conn_vars, client_vars, populate>>

Pull == [account : Account, left : 0..Chain, attempts : 0..RetryLimit + 1]
BootstrapClient == [state : {"none", "connecting", "open"}, listed : BOOLEAN, pending_stop : BOOLEAN, hard_stop : BOOLEAN]

Sleeping == {"frontier_sleep", "conn_sleep", "pull_sleep", "full_sleep"}
Locked == {"frontier", "fconn", "frontier_block", "pull", "conn", "conn_block", "pull_block", "outer", "push", "end"}
Unlocked == pc \notin Locked

\* condition.notify_all: of no effect on a thread that is not waiting yet.
Notify == woken' = (woken \/ pc \in Sleeping)

-----------------------------------------------------------------------------
(* Lifetimes: a bootstrap_client lives while something refers to it *)

NoObject == [state |-> "none", listed |-> FALSE, pending_stop |-> FALSE, hard_stop |-> FALSE]
NewObject == [NoObject EXCEPT !.state = "connecting"]

Alive(c) == clients[c].state # "none"
connections == Cardinality({c \in Connection : Alive(c)})

\* The objects that hold a shared pointer to a connection.
Users == {p.conn : p \in posted \cup pullers} \cup ToSet(idle)
         \cup (IF frontier.alive THEN {frontier.conn} ELSE {})
         \cup (IF pusher.alive THEN {pusher.conn} ELSE {})

\* After a step that lets go of connections the ones without a user are
\* destroyed, and connection_frontier_request expires with its connection.
release ==
    /\ clients' = [c \in Connection |-> IF clients[c].state = "open" /\ c \notin Users' THEN NoObject ELSE clients[c]]
    /\ fconn' = IF fconn # NoConnection /\ fconn \notin Users' THEN NoConnection ELSE fconn

NoClient == [alive |-> FALSE, conn |-> NoConnection, at |-> 0, promise |-> "unset"]
\* A client that is gone leaves its promise, set or broken, to the future in run.
Gone(promise, label) == IF pc = label THEN [NoClient EXCEPT !.promise = promise] ELSE NoClient

Init ==
    /\ pc = "populate" /\ woken = FALSE /\ completed = FALSE
    /\ stopped = FALSE /\ asked = FALSE
    /\ pulls = <<>> /\ posted = {} /\ pullers = {} /\ pulling = 0
    /\ idle = <<>>
    /\ clients = [c \in Connection |-> IF c = Given THEN NewObject ELSE NoObject]
    /\ fconn = NoConnection /\ frontier = NoClient /\ pusher = NoClient
    /\ targets = 0 /\ unhandled = FALSE
    /\ populate = [step |-> "first", todo |-> 0, made |-> 0]
    /\ outcome = [a \in Account |-> "none"] /\ tries = [a \in Account |-> 0]

-----------------------------------------------------------------------------
(* bootstrap_client::run *)

pool_connection(c) == idle' = <<c>> \o idle /\ Notify

connected(c) ==
    /\ clients[c].state = "connecting" /\ Unlocked
    /\ clients' = [clients EXCEPT ![c].state = "open"]
    /\ pool_connection(c)
    /\ UNCHANGED <<pc, completed, stopped, asked, pull_vars, client_vars, populate>>

connect_failed(c) ==
    /\ clients[c].state = "connecting"
    /\ clients' = [clients EXCEPT ![c] = NoObject]
    /\ UNCHANGED <<run_vars, stopped, asked, pull_vars, idle, client_vars, populate>>

-----------------------------------------------------------------------------
(* bootstrap_attempt::populate_connections, first called by run and then by the alarm *)

\* roundf (sqrtf (target - 2)) for an integer target of at least 2
Drop(target) == CHOOSE d \in 0..target : (2 * d - 1) * (2 * d - 1) <= 4 * (target - 2) /\ 4 * (target - 2) < (2 * d + 1) * (2 * d + 1)
MinOf(a, b) == IF a < b THEN a ELSE b
MaxOf(a, b) == IF a < b THEN b ELSE a

\* The double is rounded to the nearest, halves up.
target_connections(remaining) ==
    IF Base >= Most THEN MaxOf(1, Most)
    ELSE MaxOf(1, Base + (2 * (Most - Base) * MinOf(remaining, Scale) + Scale) \div (2 * Scale))

\* Slow peers (any of the listed clients: rates are not modelled) are told to
\* stop at once, and the slowest of the warm ones after their pull.
populate_scan ==
    /\ populate.step \in {"first", "armed"} /\ Unlocked
    /\ LET listed == {c \in Connection : Alive(c) /\ clients[c].listed}
           target == target_connections(Len(pulls))
       IN  /\ \E slow \in SUBSET listed, warm \in SUBSET listed :
                 \E drop \in SUBSET warm :
                   /\ Cardinality(drop) = IF target >= 4 /\ Cardinality(warm) >= (target * 2) \div 3 THEN Drop(target) ELSE 0
                   /\ clients' = [c \in Connection |->
                         [clients[c] EXCEPT !.pending_stop = @ \/ c \in slow \cup drop, !.hard_stop = @ \/ c \in slow]]
           /\ populate' = [populate EXCEPT !.step = "connect",
                    !.todo = IF connections < target THEN MinOf((target - connections) * 2, MaxNew) ELSE 0]
    /\ UNCHANGED <<run_vars, stopped, asked, pull_vars, idle, client_vars>>

\* A peer to connect to; the slots bound how many connections there are.
populate_connect(c) ==
    /\ populate.step = "connect" /\ populate.todo > 0 /\ Unlocked
    /\ populate.made < MaxConnects /\ ~Alive(c)
    /\ clients' = [clients EXCEPT ![c] = [NewObject EXCEPT !.listed = TRUE]]
    /\ populate' = [populate EXCEPT !.todo = @ - 1, !.made = @ + 1]
    /\ UNCHANGED <<run_vars, stopped, asked, pull_vars, idle, client_vars>>

\* No peer: with no connection left the attempt is stopped, without the mutex.
populate_no_peer ==
    /\ populate.step = "connect" /\ populate.todo > 0
    /\ populate' = [populate EXCEPT !.todo = @ - 1]
    /\ \/ connections = 0 /\ stopped' = TRUE /\ Notify
       \/ connections # 0 /\ UNCHANGED <<stopped, woken>>
    /\ UNCHANGED <<pc, completed, asked, pull_vars, conn_vars, client_vars>>

\* The alarm calls again in a second, unless the attempt was stopped.
populate_end ==
    /\ populate.step = "connect" /\ populate.todo = 0
    /\ populate' = [populate EXCEPT !.step = IF stopped THEN "off" ELSE "armed"]
    /\ UNCHANGED <<run_vars, stopped, asked, pull_vars, conn_vars, client_vars>>

-----------------------------------------------------------------------------
(* bootstrap_attempt::run up to the frontiers *)

Goto(label) == pc' = label /\ woken' = FALSE

run_populated ==
    /\ pc = "populate" /\ populate.step \in {"armed", "off"}
    /\ Goto("frontier")
    /\ UNCHANGED <<completed, stopped, asked, pull_vars, conn_vars, client_vars, populate>>

\* connection (): the connection at the back of idle.
TakeIdle == idle' = Front(idle)

\* The loop of run and request_frontier: `frontier' is the loop's test, `fconn'
\* the test of connection () after a wait.  A connection that is idle is used
\* even when the attempt has been stopped meanwhile.
run_frontier ==
    /\ \/ /\ pc = "frontier" /\ stopped
          /\ Goto("outer")
          /\ UNCHANGED <<idle, fconn, frontier>>
       \/ /\ pc = "fconn" /\ stopped /\ idle = <<>>
          /\ fconn' = NoConnection
          /\ Goto("outer")
          /\ UNCHANGED <<idle, frontier>>
       \/ /\ pc \in {"frontier", "fconn"} /\ ~stopped /\ idle = <<>>
          /\ Goto("frontier_block")
          /\ UNCHANGED <<idle, fconn, frontier>>
       \/ /\ (pc = "frontier" /\ ~stopped) \/ pc = "fconn"
          /\ idle # <<>>
          /\ TakeIdle
          /\ fconn' = Last(idle)
          /\ frontier' = [alive |-> TRUE, conn |-> Last(idle), at |-> 0, promise |-> "unset"]
          /\ Goto("frontier_future")
    /\ UNCHANGED <<completed, stopped, asked, pull_vars, clients, targets, pusher, unhandled, populate>>

\* The future is ready when the promise is set or its owner is gone.
Shuffles(s) == {[i \in DOMAIN s |-> s[f[i]]] : f \in {g \in [DOMAIN s -> DOMAIN s] : \A i, j \in DOMAIN s : g[i] = g[j] => i = j}}

run_frontier_result ==
    /\ pc = "frontier_future" /\ (frontier.promise # "unset" \/ ~frontier.alive)
    /\ \/ /\ frontier.promise = "false"
          /\ pulls' \in Shuffles(pulls)
          /\ Goto("outer")
          /\ UNCHANGED outcome
       \/ /\ frontier.promise # "false"
          /\ pulls' = <<>>
          /\ outcome' = [a \in Account |-> "none"]
          /\ Goto("frontier")
    /\ frontier' = IF frontier.alive THEN frontier ELSE NoClient
    /\ UNCHANGED <<completed, stopped, asked, posted, pullers, pulling, tries, conn_vars, fconn, targets, pusher, unhandled, populate>>

-----------------------------------------------------------------------------
(* frontier_req_client *)

promise_set(value) == IF frontier.promise = "unset" THEN value ELSE frontier.promise

\* received_frontier for an account: in sync, a pull, or something to push.
frontier_account ==
    /\ frontier.alive /\ frontier.at < Cardinality(Account) /\ Unlocked
    /\ frontier' = [frontier EXCEPT !.at = @ + 1]
    /\ LET a == frontier.at + 1
       IN  \/ /\ "same" \in Report
              /\ UNCHANGED <<pulls, outcome, targets, woken>>
           \/ /\ "pull" \in Report
              /\ pulls' = Append(pulls, [account |-> a, left |-> Chain, attempts |-> 0])
              /\ outcome' = [outcome EXCEPT ![a] = "wanted"]
              /\ Notify
              /\ UNCHANGED targets
           \/ /\ "push" \in Report
              /\ targets' = MinOf(targets + 1, MaxTargets)
              /\ UNCHANGED <<pulls, outcome, woken>>
    /\ UNCHANGED <<pc, completed, stopped, asked, posted, pullers, pulling, tries, conn_vars, fconn, pusher, unhandled, populate>>

\* The peer is too slow: set_value without a handler for a promise already set.
frontier_slow ==
    /\ frontier.alive /\ frontier.at \in 1..Cardinality(Account)
    /\ frontier' = Gone(promise_set("true"), "frontier_future")
    /\ unhandled' = (unhandled \/ frontier.promise # "unset")
    /\ UNCHANGED <<run_vars, stopped, asked, pull_vars, idle, targets, pusher, populate>>
    /\ release

\* The last, zero account: the promise is set before the connection is pooled.
frontier_end ==
    /\ frontier.alive /\ frontier.at = Cardinality(Account)
    /\ frontier' = [frontier EXCEPT !.at = @ + 1, !.promise = promise_set("false")]
    /\ UNCHANGED <<run_vars, stopped, asked, pull_vars, conn_vars, fconn, targets, pusher, unhandled, populate>>

frontier_pool ==
    /\ frontier.alive /\ frontier.at > Cardinality(Account) /\ Unlocked
    /\ frontier' = Gone(frontier.promise, "frontier_future")
    /\ pool_connection(frontier.conn)
    /\ UNCHANGED <<pc, completed, stopped, asked, pull_vars, clients, fconn, targets, pusher, unhandled, populate>>

frontier_error ==
    /\ frontier.alive /\ frontier.at <= Cardinality(Account)
    /\ frontier' = Gone(frontier.promise, "frontier_future")
    /\ UNCHANGED <<run_vars, stopped, asked, pull_vars, idle, targets, pusher, unhandled, populate>>
    /\ release

-----------------------------------------------------------------------------
(* bootstrap_attempt::run from the pulls on *)

still_pulling == ~stopped /\ (pulls # <<>> \/ pulling > 0)

\* The outer loop, at first and after block_processor.flush () has returned.
run_outer ==
    /\ pc \in {"outer", "flush"}
    /\ \/ still_pulling /\ Goto("pull") /\ UNCHANGED completed
       \/ ~still_pulling /\ Goto("push") /\ completed' = ~stopped
    /\ UNCHANGED <<stopped, asked, pull_vars, conn_vars, client_vars, populate>>

run_pull ==
    /\ pc = "pull"
    /\ \/ ~still_pulling /\ Goto("flush")
       \/ still_pulling /\ pulls # <<>> /\ Goto("conn")
       \/ still_pulling /\ pulls # <<>> /\ Goto("full_sleep")     \* block_processor.full ()
       \/ still_pulling /\ pulls = <<>> /\ Goto("pull_block")
    /\ UNCHANGED <<completed, stopped, asked, pull_vars, conn_vars, client_vars, populate>>

\* connection () and request_pull
run_conn ==
    /\ pc = "conn"
    /\ \/ /\ idle # <<>>
          /\ TakeIdle
          /\ posted' = posted \cup {[conn |-> Last(idle), pull |-> Head(pulls)]}
          /\ pulls' = Tail(pulls)
          /\ Goto("pull")
       \/ /\ idle = <<>> /\ ~stopped
          /\ Goto("conn_block")
          /\ UNCHANGED <<idle, posted, pulls>>
       \/ /\ idle = <<>> /\ stopped
          /\ Goto("pull")
          /\ UNCHANGED <<idle, posted, pulls>>
    /\ UNCHANGED <<completed, stopped, asked, pullers, pulling, outcome, tries, clients, client_vars, populate>>

\* condition.wait releases the mutex; a waiting thread goes back to its test.
run_wait ==
    /\ \/ pc = "frontier_block" /\ Goto("frontier_sleep")
       \/ pc = "conn_block" /\ Goto("conn_sleep")
       \/ pc = "pull_block" /\ Goto("pull_sleep")
    /\ UNCHANGED <<completed, stopped, asked, pull_vars, conn_vars, client_vars, populate>>

run_wake ==
    /\ \/ pc = "frontier_sleep" /\ woken /\ Goto("fconn")
       \/ pc = "conn_sleep" /\ woken /\ Goto("conn")
       \/ pc = "pull_sleep" /\ woken /\ Goto("pull")
       \/ pc = "full_sleep" /\ Goto("pull")                        \* or after 15 seconds
    /\ UNCHANGED <<completed, stopped, asked, pull_vars, conn_vars, client_vars, populate>>

\* request_push, and the end of run when there is nobody to push to
run_push ==
    /\ pc = "push"
    /\ \/ /\ fconn # NoConnection
          /\ pusher' = [alive |-> TRUE, conn |-> fconn, at |-> 0, promise |-> "unset"]
          /\ Goto("push_future")
       \/ fconn = NoConnection /\ Goto("end") /\ UNCHANGED pusher
    /\ UNCHANGED <<completed, stopped, asked, pull_vars, conn_vars, fconn, frontier, targets, unhandled, populate>>

run_push_result ==
    /\ pc = "push_future" /\ (pusher.promise # "unset" \/ ~pusher.alive)
    /\ Goto("end")
    /\ pusher' = IF pusher.alive THEN pusher ELSE NoClient
    /\ UNCHANGED <<completed, stopped, asked, pull_vars, conn_vars, fconn, frontier, targets, unhandled, populate>>

run_end ==
    /\ pc = "end"
    /\ stopped' = TRUE
    /\ idle' = <<>>
    /\ Goto("done")
    /\ UNCHANGED <<completed, asked, pull_vars, frontier, targets, pusher, unhandled, populate>>
    /\ release

-----------------------------------------------------------------------------
(* bulk_pull_client *)

\* The background closure makes the client, which sends its request.
pull_begin(q) ==
    /\ q \in posted /\ Unlocked
    /\ posted' = posted \ {q}
    /\ pullers' = pullers \cup {[conn |-> q.conn, pull |-> q.pull, expected |-> q.pull.left, step |-> "receive"]}
    /\ pulling' = pulling + 1
    /\ tries' = [tries EXCEPT ![q.pull.account] = @ + 1]
    /\ Notify
    /\ UNCHANGED <<pc, completed, stopped, asked, pulls, outcome, conn_vars, client_vars, populate>>

Becomes(k, l) == pullers' = (pullers \ {k}) \cup {l}

\* received_block: the next block of the chain, or another one.  A connection
\* that was told to stop hard is not read again.
pull_block(k) ==
    /\ k \in pullers /\ k.step = "receive"
    /\ \E expected \in {k.expected} \cup (IF k.expected > 0 THEN {k.expected - 1} ELSE {}) :
          Becomes(k, [k EXCEPT !.expected = expected, !.step = IF clients[k.conn].hard_stop THEN "destroy" ELSE "receive"])
    /\ UNCHANGED <<run_vars, stopped, asked, pulls, posted, pulling, outcome, tries, conn_vars, client_vars, populate>>

reusable(k) == ~clients[k.conn].pending_stop /\ k.expected = 0

\* received_type: not_a_block
pull_not_a_block(k) ==
    /\ k \in pullers /\ k.step = "receive"
    /\ Becomes(k, [k EXCEPT !.step = "destroy"])
    /\ \/ reusable(k) /\ Unlocked /\ pool_connection(k.conn)
       \/ ~reusable(k) /\ UNCHANGED <<idle, woken>>
    /\ UNCHANGED <<pc, completed, stopped, asked, pulls, posted, pulling, outcome, tries, clients, client_vars, populate>>

\* The write or a read fails, or an invalid block comes.
pull_error(k) ==
    /\ k \in pullers /\ k.step = "receive"
    /\ Becomes(k, [k EXCEPT !.step = "destroy"])
    /\ UNCHANGED <<run_vars, stopped, asked, pulls, posted, pulling, outcome, tries, conn_vars, client_vars, populate>>

\* requeue_pull
retry(k) == k.pull.attempts + 1 < RetryLimit

last_retry(k) == k.pull.attempts + 1 = RetryLimit

\* mutant: nothing is put back once the attempt is stopped
requeue_while_running(k) ==
    /\ UNCHANGED <<posted, outcome>>
    /\ IF stopped THEN UNCHANGED <<pulls, woken>>
       ELSE pulls' = <<[k.pull EXCEPT !.left = k.expected, !.attempts = 0]>> \o pulls /\ Notify
requeue_pull(k) ==
    \/ /\ retry(k)
       /\ pulls' = <<[k.pull EXCEPT !.left = k.expected, !.attempts = @ + 1]>> \o pulls
       /\ Notify
       /\ UNCHANGED <<posted, outcome>>
    \/ /\ last_retry(k) /\ fconn # NoConnection
       /\ posted' = posted \cup {[conn |-> fconn, pull |-> [k.pull EXCEPT !.left = k.expected, !.attempts = @ + 2]]}
       /\ UNCHANGED <<pulls, outcome, woken>>
    \/ /\ ~retry(k) /\ (last_retry(k) => fconn = NoConnection)
       /\ outcome' = [outcome EXCEPT ![k.pull.account] = "given_up"]
       /\ UNCHANGED <<pulls, posted, woken>>

\* ~bulk_pull_client: first requeue, then the count.
pull_requeue(k) ==
    /\ k \in pullers /\ k.step = "destroy" /\ Unlocked
    /\ Becomes(k, [k EXCEPT !.step = "decrement"])
    /\ \/ k.expected # 0 /\ requeue_pull(k)
       \/ /\ k.expected = 0
          /\ outcome' = [outcome EXCEPT ![k.pull.account] = "delivered"]
          /\ UNCHANGED <<pulls, posted, woken>>
    /\ UNCHANGED <<pc, completed, stopped, asked, pulling, tries, conn_vars, client_vars, populate>>

pull_decrement(k) ==
    /\ k \in pullers /\ k.step = "decrement" /\ Unlocked
    /\ pullers' = pullers \ {k}
    /\ pulling' = pulling - 1
    /\ Notify
    /\ UNCHANGED <<pc, completed, stopped, asked, pulls, posted, outcome, tries, idle, frontier, targets, pusher, unhandled, populate>>
    /\ release

-----------------------------------------------------------------------------
(* bulk_push_client: each step pushes a target down to its end *)

push_target ==
    /\ pusher.alive /\ targets > 0 /\ Unlocked
    /\ targets' = targets - 1
    /\ UNCHANGED <<run_vars, stopped, asked, pull_vars, conn_vars, fconn, frontier, pusher, unhandled, populate>>

push_end ==
    /\ pusher.alive /\ targets = 0
    /\ pusher' = Gone(IF pusher.promise = "unset" THEN "false" ELSE pusher.promise, "push_future")
    /\ UNCHANGED <<run_vars, stopped, asked, pull_vars, idle, frontier, targets, unhandled, populate>>
    /\ release

push_error ==
    /\ pusher.alive
    /\ pusher' = Gone(pusher.promise, "push_future")
    /\ UNCHANGED <<run_vars, stopped, asked, pull_vars, idle, frontier, targets, unhandled, populate>>
    /\ release

-----------------------------------------------------------------------------
(* bootstrap_attempt::stop: the sockets it closes fail their operations, which
   operations may do at any time here *)

break_promise(client) == IF client.alive /\ client.promise = "unset" THEN [client EXCEPT !.promise = "true"] ELSE client

stop ==
    /\ ~asked /\ Unlocked
    /\ asked' = TRUE
    /\ stopped' = TRUE
    /\ frontier' = break_promise(frontier)
    /\ pusher' = break_promise(pusher)
    /\ Notify
    /\ UNCHANGED <<pc, completed, pull_vars, conn_vars, fconn, targets, unhandled, populate>>

-----------------------------------------------------------------------------
run == run_populated \/ run_frontier \/ run_frontier_result \/ run_outer \/ run_pull \/ run_conn
       \/ run_wait \/ run_wake \/ run_push \/ run_push_result \/ run_end
populate_connections == populate_scan \/ (\E c \in Connection : populate_connect(c)) \/ populate_no_peer \/ populate_end
frontier_req_client == frontier_account \/ frontier_slow \/ frontier_end \/ frontier_pool \/ frontier_error
bulk_push_client == push_target \/ push_end \/ push_error
bulk_pull_client(k) == pull_block(k) \/ pull_not_a_block(k) \/ pull_error(k) \/ pull_requeue(k) \/ pull_decrement(k)

Next ==
    \/ run \/ populate_connections \/ frontier_req_client \/ bulk_push_client \/ stop
    \/ \E c \in Connection : connected(c) \/ connect_failed(c)
    \/ \E q \in posted : pull_begin(q)
    \/ \E k \in pullers : bulk_pull_client(k)

Spec == Init /\ [][Next]_vars

-----------------------------------------------------------------------------
Client == [alive : BOOLEAN, conn : Connection \cup {NoConnection}, at : 0..Cardinality(Account) + 1,
           promise : {"unset", "false", "true"}]

\* The state has the types of bootstrap.hpp; pulling is unsigned and counts the
\* clients, attempts stays within the retry limit and its last try.
TypeOK ==
    /\ pc \in Sleeping \cup Locked \cup {"populate", "frontier_future", "flush", "push_future", "done"}
    /\ {woken, stopped, asked, completed, unhandled} \subseteq BOOLEAN
    /\ pulls \in Seq(Pull) /\ idle \in Seq(Connection) /\ clients \in [Connection -> BootstrapClient]
    /\ posted \subseteq [conn : Connection, pull : Pull]
    /\ pullers \subseteq [conn : Connection, pull : Pull, expected : 0..Chain, step : {"receive", "destroy", "decrement"}]
    /\ pulling = Cardinality(pullers)
    /\ fconn \in Connection \cup {NoConnection} /\ frontier \in Client /\ pusher \in Client
    /\ targets \in 0..MaxTargets
    /\ populate.step \in {"first", "connect", "armed", "off"} /\ populate.todo \in 0..MaxNew /\ populate.made \in 0..MaxConnects
    /\ outcome \in [Account -> {"none", "wanted", "delivered", "given_up"}]
    /\ tries \in [Account -> Nat]

\* Where the pull of an account is: the queue, a closure, or a client that has not handed it back.
Queued(a) == {i \in DOMAIN pulls : pulls[i].account = a}
Held(a) == {q \in posted : q.pull.account = a} \cup {k \in pullers : k.pull.account = a /\ k.step # "decrement"}

\* run, request_pull, requeue_pull and ~bulk_pull_client: a pull that the
\* frontiers asked for is in exactly one place until it is delivered or given
\* up, whatever connection fails at whatever moment, and then it is nowhere.
NoPullLost ==
    \A a \in Account : Cardinality(Queued(a)) + Cardinality(Held(a)) = IF outcome[a] = "wanted" THEN 1 ELSE 0

\* requeue_pull: a pull is given up only after it was requested from as many
\* peers as the retry limit says, and the frontier peer is asked once more at most.
GivenUpAfterRetries ==
    \A a \in Account : tries[a] <= RetryLimit + 1 /\ (outcome[a] = "given_up" => tries[a] >= RetryLimit)

\* connection, run: the waits without a time limit.  While run sleeps in one and
\* has not been notified, no connection that it waits for is idle, the pulls it
\* waits for are with clients that will notify it, and stop () was not called.
\* What run can sleep through is the end that populate_connections puts to the
\* attempt when there are no peers: it writes `stopped' and notifies without the
\* mutex, between run's test and its wait.  That happens only where run waits for
\* a connection, and then there is no connection but the ones still to be made.
Slept == pc \in Sleeping \ {"full_sleep"} /\ ~woken
StopMissed == Slept /\ stopped
NoMissedWakeup ==
    /\ Slept => ~asked /\ IF pc = "pull_sleep" THEN pulls = <<>> /\ pullers # {} ELSE idle = <<>>
    /\ StopMissed => /\ pc \in {"conn_sleep", "frontier_sleep"}
                     /\ populate.step \in {"connect", "off"}
                     /\ \A c \in Connection : Alive(c) => clients[c].state = "connecting"

\* run: when the attempt says that it completed its pulls, none is queued and no
\* client is receiving one or about to give one back.  A pull whose client is
\* still to be made by a background closure is not counted in `pulling', so such
\* pulls, and only they, may be outstanding.
CompletedIsQuiet ==
    completed' /\ ~completed =>
        /\ pulls = <<>> /\ pullers = {}
        /\ \A a \in Account : outcome[a] = "wanted" => \E q \in posted : q.pull.account = a

=============================================================================
