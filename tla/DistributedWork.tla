--------------------------- MODULE DistributedWork --------------------------
(***************************************************************************)
(* distributed_work (rai/node/node.cpp): work for one root is asked of the *)
(* configured work peers at once; the first valid answer wins, and when    *)
(* the last peer has failed the node's own pool is used, or everything is  *)
(* tried again later.                                                      *)
(*                                                                         *)
(* A reply first removes its address under the mutex and learns whether it *)
(* was the last; what it does with that comes later, when other replies    *)
(* may have come between.  A retry is a new object: replies to the old one *)
(* find its flag `completed' set and do nothing.                           *)
(***************************************************************************)
EXTENDS Integers

CONSTANTS
    Host,          \* config.work_peers
    Address,       \* what the hosts resolve to
    MaxBackoff     \* the longest pause, 60 * 5

Outcome == {"work", "wrong", "error"}
Idle == [step |-> "none", outcome |-> "error", last |-> FALSE]

VARIABLES
    local,         \* config.work_threads # 0, or a device
    need_resolve,
    outstanding,
    replies,       \* address -> where its request is: step, outcome, last
    phase,         \* "resolve", "work", "pool" or "pause"
    completed,     \* the flag of the object
    backoff,
    delivered      \* calls of the callback

vars == <<local, need_resolve, outstanding, replies, phase, completed, backoff, delivered>>

\* start: a host resolves to addresses, or to none when that fails.
resolve(h, found) ==
    /\ phase = "resolve"
    /\ h \in need_resolve
    /\ need_resolve' = need_resolve \ {h}
    /\ outstanding' = outstanding \cup found
    /\ UNCHANGED <<local, replies, phase, completed, backoff, delivered>>

\* handle_failure: only the first that sets the flag goes on.
failed(last) == last /\ ~completed

next_backoff == IF backoff * 2 < MaxBackoff THEN backoff * 2 ELSE MaxBackoff

handle_failure(last) ==
    IF failed(last)
    THEN /\ completed' = TRUE
         /\ phase' = IF local THEN "pool" ELSE "pause"
    ELSE UNCHANGED <<completed, phase>>

start_work ==
    /\ phase = "resolve"
    /\ need_resolve = {}
    /\ IF outstanding = {}
       THEN handle_failure(TRUE) /\ UNCHANGED replies
       ELSE /\ replies' = [a \in Address |-> IF a \in outstanding THEN [Idle EXCEPT !.step = "asked"] ELSE Idle]
            /\ phase' = "work"
            /\ UNCHANGED completed
    /\ UNCHANGED <<local, need_resolve, outstanding, backoff, delivered>>

\* remove: stop may have cleared the rest.
last_after(a) == outstanding \ {a} = {}

\* success or failure of a request: the address is removed under the mutex.
remove(a, outcome) ==
    /\ replies[a].step = "asked"
    /\ outstanding' = outstanding \ {a}
    /\ replies' = [replies EXCEPT ![a] = [step |-> "removed", outcome |-> outcome, last |-> last_after(a)]]
    /\ UNCHANGED <<local, need_resolve, phase, completed, backoff, delivered>>

\* completed.test_and_set
set_once == ~completed

success(a) ==
    /\ replies[a].step = "removed" /\ replies[a].outcome = "work"
    /\ delivered' = IF set_once THEN delivered + 1 ELSE delivered
    /\ completed' = TRUE
    /\ replies' = [replies EXCEPT ![a].step = "stop"]
    /\ UNCHANGED <<local, need_resolve, outstanding, phase, backoff>>

\* stop: nobody waits for the other peers any more, though they still reply.
stop(a) ==
    /\ replies[a].step = "stop"
    /\ outstanding' = {}
    /\ replies' = [replies EXCEPT ![a] = Idle]
    /\ UNCHANGED <<local, need_resolve, phase, completed, backoff, delivered>>

failure(a) ==
    /\ replies[a].step = "removed" /\ replies[a].outcome # "work"
    /\ handle_failure(replies[a].last)
    /\ replies' = [replies EXCEPT ![a] = Idle]
    /\ UNCHANGED <<local, need_resolve, outstanding, backoff, delivered>>

\* work_pool::generate answers; a cancelled request is answered by nobody here,
\* for its callback throws and stays in the pool (WorkPool).
pool ==
    /\ phase = "pool"
    /\ phase' = "done"
    /\ delivered' = delivered + 1
    /\ UNCHANGED <<local, need_resolve, outstanding, replies, completed, backoff>>

\* The alarm makes a new object with the same callback.
retry ==
    /\ phase = "pause"
    /\ phase' = "resolve"
    /\ need_resolve' = Host
    /\ outstanding' = {}
    /\ replies' = [a \in Address |-> Idle]
    /\ completed' = FALSE
    /\ backoff' = next_backoff
    /\ UNCHANGED <<local, delivered>>

Init ==
    /\ local \in BOOLEAN
    /\ need_resolve = Host
    /\ outstanding = {}
    /\ replies = [a \in Address |-> Idle]
    /\ phase = "resolve"
    /\ completed = FALSE
    /\ backoff = 1
    /\ delivered = 0

reply(a) == \E outcome \in Outcome : remove(a, outcome)
handle(a) == success(a) \/ stop(a) \/ failure(a)
resolves == \E h \in Host, found \in SUBSET Address : resolve(h, found)

Next ==
    \/ resolves
    \/ start_work
    \/ \E a \in Address : reply(a) \/ handle(a)
    \/ pool
    \/ retry

Spec == Init /\ [][Next]_vars

-----------------------------------------------------------------------------
\* Addresses, replies and the pause are well formed; the pause stays between one
\* second and five minutes.
TypeOK ==
    /\ local \in BOOLEAN
    /\ need_resolve \subseteq Host
    /\ outstanding \subseteq Address
    /\ replies \in [Address -> [step : {"none", "asked", "removed", "stop"}, outcome : Outcome, last : BOOLEAN]]
    /\ phase \in {"resolve", "work", "pool", "pause", "done"}
    /\ completed \in BOOLEAN
    /\ backoff \in 1..MaxBackoff
    /\ delivered \in Nat

\* The callback, which sets a promise, is called once: the peers' answers, the
\* node's own pool and the retries exclude each other.
DeliveredOnce == delivered <= 1

\* Some thread always has the request in hand: while nothing is delivered, a name
\* is being resolved, a reply is awaited or handled, the pool works or the alarm
\* is set.  The last of the replies, in whatever order they are handled, goes on.
SomebodyWorks ==
    delivered = 0 =>
        \/ phase \in {"resolve", "pool", "pause"}
        \/ \E a \in Address :
              \/ replies[a].step = "asked"
              \/ replies[a].step = "removed" /\ (replies[a].last \/ replies[a].outcome = "work")

=============================================================================
