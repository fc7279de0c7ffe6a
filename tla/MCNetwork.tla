----------------------------- MODULE MCNetwork ------------------------------
(***************************************************************************)
(* The connections of a node.  A behaviour is one of ten parts: the UDP    *)
(* side, whose constants the configuration gives ("network"); a bootstrap  *)
(* attempt with one account and every frontier, and one with two accounts  *)
(* ("attempt", "pulls"); the bootstrap initiator ("initiator"); a socket   *)
(* of a bootstrap client and one of a server ("socket", "duplex"); a whole *)
(* exchange of two nodes, with few and with long chains ("sync", "chain"); *)
(* a bulk pull while the ledger changes ("range"); and the queue of a      *)
(* bootstrap server ("server").  All but the first keep their variables in *)
(* s1, s2, ..., and Network's variables then stay as they are.             *)
(***************************************************************************)
EXTENDS Network

VARIABLES
    part, s1, s2, s3, s4, s5, s6, s7, s8, s9, s10, s11,
    s12, s13, s14, s15, s16, s17, s18, s19, s20, s21, s22

\* Two blocks with one root, and a block with another.
MCroot == [b \in {"b1", "b2", "c"} |-> IF b = "c" THEN "s" ELSE "r"]

from20 == <<s20, s21, s22>>
from8 == <<s8, s9, s10, s11, s12, s13, s14, s15, s16, s17, s18, s19, from20>>
from7 == <<s7, from8>>
slots == <<s1, s2, s3, s4, s5, s6, from7>>
all == <<part, vars, slots>>

Idle20 == s20 = 0 /\ s21 = 0 /\ s22 = 0
Idle8 == /\ s8 = 0 /\ s9 = 0 /\ s10 = 0 /\ s11 = 0 /\ s12 = 0 /\ s13 = 0 /\ s14 = 0 /\ s15 = 0
         /\ s16 = 0 /\ s17 = 0 /\ s18 = 0 /\ s19 = 0 /\ Idle20
Idle7 == s7 = 0 /\ Idle8
IdleSlots == s1 = 0 /\ s2 = 0 /\ s3 = 0 /\ s4 = 0 /\ s5 = 0 /\ s6 = 0 /\ Idle7

-----------------------------------------------------------------------------
Attempt == INSTANCE BootstrapAttempt WITH
    Account <- {1}, Report <- {"same", "pull", "push"}, Connection <- {1, 2}, Chain <- 1,
    RetryLimit <- 2, Base <- 2, Most <- 4, Scale <- 1, MaxNew <- 1, MaxConnects <- 2,
    MaxTargets <- 1, Given <- 0,
    pc <- s1, woken <- s2, stopped <- s3, asked <- s4, completed <- s5, pulls <- s6, idle <- s7,
    clients <- s8, posted <- s9, pullers <- s10, pulling <- s11, fconn <- s12, frontier <- s13,
    targets <- s14, pusher <- s15, populate <- s16, unhandled <- s17, outcome <- s18, tries <- s19
Pulls == INSTANCE BootstrapAttempt WITH
    Account <- {1, 2}, Report <- {"pull"}, Connection <- {1, 2}, Chain <- 1,
    RetryLimit <- 1, Base <- 2, Most <- 4, Scale <- 1, MaxNew <- 1, MaxConnects <- 0,
    MaxTargets <- 0, Given <- 1,
    pc <- s1, woken <- s2, stopped <- s3, asked <- s4, completed <- s5, pulls <- s6, idle <- s7,
    clients <- s8, posted <- s9, pullers <- s10, pulling <- s11, fconn <- s12, frontier <- s13,
    targets <- s14, pusher <- s15, populate <- s16, unhandled <- s17, outcome <- s18, tries <- s19
Initiator == INSTANCE BootstrapInitiator WITH
    Caller <- {"c1", "c2"}, MaxAttempts <- 3,
    attempt <- s1, made <- s2, attempt_stopped <- s3, stopped <- s4, thread <- s5, calls <- s6,
    woken <- s7
OneWay == INSTANCE Socket WITH
    Operation <- {"op"}, Logging <- FALSE, MaxTicket <- 6,
    ticket <- s1, outstanding <- s2, timers <- s3, expired <- s4, open <- s5, late <- s6,
    unhandled <- s7
Duplex == INSTANCE Socket WITH
    Operation <- {"read", "write"}, Logging <- FALSE, MaxTicket <- 6,
    ticket <- s1, outstanding <- s2, timers <- s3, expired <- s4, open <- s5, late <- s6,
    unhandled <- s7
Sync == INSTANCE BootstrapSync WITH
    Account <- {1, 2}, Label <- {1, 2}, MaxHeight <- 1, CostLimit <- 3, RetryLimit <- 1,
    MaxChanges <- 1, MaxFailures <- 1, MaxWire <- 2,
    heads <- s1, peer <- s2, phase <- s3, wire <- s4, served <- s5, current <- s6, info <- s7,
    bulk_push_cost <- s8, pulls <- s9, targets <- s10, pull <- s11, expected <- s12, asked <- s13,
    request <- s14, server_current <- s15, target <- s16, received <- s17, peer_received <- s18,
    changes <- s19, touched <- s20, failures <- s21, got <- s22
Chain == INSTANCE BootstrapSync WITH
    Account <- {1}, Label <- {1, 2}, MaxHeight <- 3, CostLimit <- 3, RetryLimit <- 1,
    MaxChanges <- 1, MaxFailures <- 1, MaxWire <- 1,
    heads <- s1, peer <- s2, phase <- s3, wire <- s4, served <- s5, current <- s6, info <- s7,
    bulk_push_cost <- s8, pulls <- s9, targets <- s10, pull <- s11, expected <- s12, asked <- s13,
    request <- s14, server_current <- s15, target <- s16, received <- s17, peer_received <- s18,
    changes <- s19, touched <- s20, failures <- s21, got <- s22
Range == INSTANCE BulkPull WITH
    Account <- {1, 2}, Label <- {1, 2}, MaxHeight <- 2, MaxChanges <- 2,
    heads <- s1, asked <- s2, request <- s3, current <- s4, wire <- s5, changes <- s6
Server == INSTANCE BootstrapServer WITH
    MaxRequests <- 4,
    requests <- s1, reader <- s2, reading <- s3, response <- s4, arrived <- s5, answered <- s6

-----------------------------------------------------------------------------
MCInit ==
    /\ Init
    /\ \/ part = "network" /\ IdleSlots
       \/ part = "attempt" /\ Attempt!Init /\ Idle20
       \/ part = "pulls" /\ Pulls!Init /\ Idle20
       \/ part = "initiator" /\ Initiator!Init /\ Idle8
       \/ part = "socket" /\ OneWay!Init /\ Idle8
       \/ part = "duplex" /\ Duplex!Init /\ Idle8
       \/ part = "sync" /\ Sync!Init
       \/ part = "chain" /\ Chain!Init
       \/ part = "range" /\ Range!Init /\ Idle7
       \/ part = "server" /\ Server!Init /\ Idle7
MCNext ==
    \/ part = "network" /\ Next /\ UNCHANGED <<part, slots>>
    \/ part = "attempt" /\ Attempt!Next /\ UNCHANGED <<part, vars, from20>>
    \/ part = "pulls" /\ Pulls!Next /\ UNCHANGED <<part, vars, from20>>
    \/ part = "initiator" /\ Initiator!Next /\ UNCHANGED <<part, vars, from8>>
    \/ part = "socket" /\ OneWay!Next /\ UNCHANGED <<part, vars, from8>>
    \/ part = "duplex" /\ Duplex!Next /\ UNCHANGED <<part, vars, from8>>
    \/ part = "sync" /\ Sync!Next /\ UNCHANGED <<part, vars>>
    \/ part = "chain" /\ Chain!Next /\ UNCHANGED <<part, vars>>
    \/ part = "range" /\ Range!Next /\ UNCHANGED <<part, vars, from7>>
    \/ part = "server" /\ Server!Next /\ UNCHANGED <<part, vars, from7>>

RangeSpec ==
    /\ Init /\ part = "range" /\ Range!Init /\ Idle7
    /\ [][Range!Next /\ UNCHANGED <<part, vars, from7>>]_all

\* The threads of the io service run what is ready, the alarm rings, stop goes on
\* to close the socket, and the threads of the attempt and the initiator go on.  A
\* socket operation may stay without answer until its timer closes the socket,
\* and an attempt returns once it was stopped (which "attempt" shows).
MCSpec ==
    /\ MCInit /\ [][MCNext]_all
    /\ WF_vars(part = "network" /\ \E t \in Thread : Handler(t))
    /\ WF_vars(part = "network" /\ (alarm \/ close))
    /\ WF_(Attempt!vars)(part = "attempt" /\ Attempt!run)
    /\ WF_(Attempt!vars)(part = "attempt" /\ Attempt!populate_connections)
    /\ WF_(Attempt!vars)(part = "attempt" /\ Attempt!frontier_req_client)
    /\ WF_(Attempt!vars)(part = "attempt" /\ Attempt!bulk_push_client)
    /\ WF_(Initiator!vars)(part = "initiator" /\ (Initiator!thread_test \/ Initiator!thread_wake))
    /\ WF_(Initiator!vars)(part = "initiator" /\ s5.running \in s3 /\ Initiator!thread_returned)
    /\ \A c \in {"c1", "c2"} :
          /\ WF_(Initiator!vars)(part = "initiator" /\ s6[c] = "wait" /\ Initiator!bootstrap_wait(c))
          /\ WF_(Initiator!vars)(part = "initiator" /\ s6[c] = "wait" /\ Initiator!bootstrap_make(c))
    /\ WF_(OneWay!vars)(part = "socket" /\ \E t \in 1..6 : OneWay!timeout(t) \/ OneWay!timeout_close(t))
    /\ WF_(OneWay!vars)(part = "socket" /\ ~s5 /\ OneWay!complete("op"))
    /\ WF_(Duplex!vars)(part = "duplex" /\ \E t \in 1..6 : Duplex!timeout(t) \/ Duplex!timeout_close(t))
    /\ WF_(Duplex!vars)(part = "duplex" /\ ~s5 /\ \E o \in {"read", "write"} : Duplex!complete(o))
    /\ WF_(Sync!vars)(part = "sync" /\ Sync!Protocol)
    /\ WF_(Range!vars)(part = "range" /\ Range!send_next)
    /\ WF_(Server!vars)(part = "server" /\ Server!finish_request)

-----------------------------------------------------------------------------
\* run, request_pull, requeue_pull and ~bulk_pull_client: a pull that the
\* frontiers asked for is in exactly one place until it is delivered or given up
\* after the retries, whatever connection fails at whatever moment.  The attempt
\* sleeps through no connection, no pull and no stop (); what it can miss is the
\* end for want of peers, which populate_connections notifies without the mutex.
\* When it says that its pulls are complete none is queued or with a client; the
\* ones a background closure has still to begin are not counted.
NoPullLost ==
    /\ [](part = "attempt" => /\ Attempt!TypeOK /\ Attempt!NoPullLost
                              /\ Attempt!NoMissedWakeup /\ Attempt!GivenUpAfterRetries)
    /\ [](part = "pulls" => Pulls!TypeOK /\ Pulls!NoPullLost /\ Pulls!NoMissedWakeup)
    /\ [][/\ part = "attempt" => Attempt!CompletedIsQuiet
          /\ part = "pulls" => Pulls!CompletedIsQuiet]_all

\* The receiving of packets goes on whatever packet or error came, until stop, and
\* then ends.  After stop () a bootstrap attempt returns, wherever it is waiting,
\* and so does the initiator's thread; a caller of bootstrap gets its attempt.
\* (The callers are interchangeable, so c1 stands for each.)
Ended == ~on /\ receives = 0 /\ completions = <<>> /\ timers = 0 /\ Running = {}
StopEnds ==
    /\ (\/ part = "network"
        \/ part = "attempt" /\ s4
        \/ part = "initiator" /\ (s4 \/ s6["c1"] = "wait"))
       ~> (\/ part = "network" /\ ((on /\ receives > 0) \/ Ended)
           \/ part = "attempt" /\ s1 = "done"
           \/ part = "initiator" /\ (s5.at = "done" \/ (~s4 /\ s6["c1"] = "returned")))
    /\ [][part = "network" /\ Ended => Ended']_all
    /\ [](part = "network" => TypeOK)
    /\ [](part = "initiator" => /\ Initiator!TypeOK
                                /\ Initiator!RunsTheCurrent /\ Initiator!NoAttemptOverlooked)

\* socket::start, stop: a timer that finds its ticket current belongs to an
\* operation that has not ended.  An operation whose peer stays silent ends all
\* the same; of a server's read and write, which share the ticket and disarm each
\* other's timer, at least one does.
SilentPeerIsDropped ==
    /\ [](part = "socket" => OneWay!TypeOK /\ OneWay!TimeoutIsForItsOperation)
    /\ [](part = "duplex" => Duplex!TypeOK /\ Duplex!TimeoutIsForItsOperation)
    /\ (\/ part = "socket" /\ s2["op"] # 0
        \/ part = "duplex" /\ s2["read"] # 0 /\ s2["write"] # 0)
       ~> (\/ part = "socket" /\ s2["op"] = 0
           \/ part = "duplex" /\ (s2["read"] = 0 \/ s2["write"] = 0))

\* frontier_req_client, bulk_pull_client, bulk_push_client: when the exchange of
\* two nodes is over, an account that nobody else changed has one chain on both
\* sides, unless they forked or the push was cut at its cost limit; a lost
\* connection changes nothing of it.  The merge of the two account tables asks for
\* exactly what differs, a pull has no hole, and the exchange ends.
Converged ==
    /\ [](part = "sync" => Sync!TypeOK /\ Sync!Converged /\ Sync!PullIsContiguous)
    /\ [](part = "chain" => Chain!TypeOK /\ Chain!Converged /\ Chain!PullIsContiguous)
    /\ [][part = "sync" => Sync!PullsWhatDiffers /\ Sync!PushesWhatIsMissing]_all
    /\ <>(part = "sync" => s3 = "done")

\* bulk_pull_server, bootstrap_server: a pull sends a chain of the account, with a
\* steady ledger exactly the range that was asked for, and ends also when blocks
\* are rolled back under it.  The requests of a connection are answered in order,
\* each once, though they are read while others are answered; while a push waits
\* or runs nobody else reads the socket.
ServesTheRequest ==
    /\ [](part = "range" => Range!TypeOK /\ Range!SentIsAChain /\ Range!SendsTheRange)
    /\ [](part = "server" => /\ Server!TypeOK /\ Server!QueueIsServed
                             /\ Server!InOrder /\ Server!PushHasTheSocket)
    /\ (\/ part = "range" /\ s3 # Range!NoRequest
        \/ part = "server" /\ Len(s6) < Len(s5))
       ~> (\/ part = "range" /\ s3 = Range!NoRequest
           \/ part = "server" /\ (Len(s6) = Len(s5) \/ Server!Failed))

\* The comment on set_current_end, "the final block to send is the "end" member":
\* the last block of an answer, when the ledger is steady, is the end of a request
\* whose end is a block of the account.
EndIsSent == part = "range" => Range!EndIsSent
=============================================================================
