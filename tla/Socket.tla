------------------------------- MODULE Socket --------------------------------
(***************************************************************************)
(* rai::socket (rai/node/bootstrap.cpp): asynchronous operations on one    *)
(* TCP socket, each guarded by a timer of the alarm.  Every start and      *)
(* every end of an operation takes a new ticket, and a timer closes the    *)
(* socket when the ticket is still the one it was armed with.              *)
(*                                                                         *)
(* The bootstrap clients have one operation at a time on a socket; a       *)
(* bootstrap_server reads the next request while it writes a response.     *)
(* Handlers run on several io threads, so a timer's test and its close     *)
(* are two steps.                                                          *)
(***************************************************************************)
EXTENDS Integers, FiniteSets

CONSTANTS
    Operation,       \* the operations that may be outstanding at once
    Logging,         \* config.logging.bulk_pull_logging
    MaxTicket        \* bound on the tickets taken

VARIABLES
    ticket,
    outstanding,     \* operation -> the ticket it was started with, 0 when it is not outstanding
    timers,          \* tickets of the timers in the alarm
    expired,         \* timers that have found their ticket current and are about to close
    open,            \* the socket is open
    late,            \* history: a timer passed its test with its operation already ended
    unhandled        \* an exception has left a handler
vars == <<ticket, outstanding, timers, expired, open, late, unhandled>>

Init ==
    /\ ticket = 0 /\ outstanding = [o \in Operation |-> 0]
    /\ timers = {} /\ expired = {} /\ open = TRUE
    /\ late = FALSE /\ unhandled = FALSE

start == ticket' = ticket + 1 /\ timers' = timers \cup {ticket + 1}

\* async_connect, async_read, async_write: start, then the operation.  On a
\* closed socket the operation is started too and fails.
async(o) ==
    /\ outstanding[o] = 0 /\ ticket + 1 <= MaxTicket
    /\ start
    /\ outstanding' = [outstanding EXCEPT ![o] = ticket + 1]
    /\ UNCHANGED <<expired, open, late, unhandled>>

\* mutant
stop_nothing == UNCHANGED ticket
stop == ticket' = ticket + 1

\* The handler of an operation: stop, then the callback, which may start
\* another operation.  It runs with an error when the socket is closed.
complete(o) ==
    /\ outstanding[o] # 0
    /\ stop
    /\ outstanding' = [outstanding EXCEPT ![o] = 0]
    /\ UNCHANGED <<timers, expired, open, late, unhandled>>

current(t) == ticket = t

timeout(t) ==
    /\ t \in timers
    /\ timers' = timers \ {t}
    /\ IF current(t)
       THEN /\ expired' = expired \cup {t}
            /\ late' = (late \/ \A o \in Operation : outstanding[o] # t)
       ELSE UNCHANGED <<expired, late>>
    /\ UNCHANGED <<ticket, outstanding, open, unhandled>>

\* close, and remote_endpoint of the closed socket for the log, which throws.
timeout_close(t) ==
    /\ t \in expired
    /\ expired' = expired \ {t}
    /\ open' = FALSE
    /\ unhandled' = (unhandled \/ Logging)
    /\ UNCHANGED <<ticket, outstanding, timers, late>>

\* socket::close, from bootstrap_attempt::stop and bootstrap_listener::stop
close ==
    /\ open
    /\ open' = FALSE
    /\ UNCHANGED <<ticket, outstanding, timers, expired, late, unhandled>>

Next ==
    \/ \E o \in Operation : async(o) \/ complete(o)
    \/ \E t \in 1..MaxTicket : timeout(t) \/ timeout_close(t)
    \/ close

Spec == Init /\ [][Next]_vars

-----------------------------------------------------------------------------
\* Tickets only grow, and each is held by one operation.
TypeOK ==
    /\ ticket \in 0..MaxTicket + Cardinality(Operation)
    /\ outstanding \in [Operation -> 0..ticket]
    /\ \A o, p \in Operation : outstanding[o] = outstanding[p] /\ outstanding[o] # 0 => o = p
    /\ timers \subseteq 1..ticket /\ expired \subseteq 1..ticket
    /\ {open, late, unhandled} \subseteq BOOLEAN

\* socket::start: a timer that finds its ticket current belongs to an operation
\* that has not ended; the timer of an operation that has ended does nothing,
\* however many operations came after it.
TimeoutIsForItsOperation == ~late

=============================================================================
