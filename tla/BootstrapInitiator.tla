------------------------- MODULE BootstrapInitiator -------------------------
(***************************************************************************)
(* bootstrap_initiator (rai/node/bootstrap.cpp): the bootstrap thread, the *)
(* threads that ask for an attempt, and stop.  Every section under the     *)
(* initiator's mutex is one action; run_bootstrap leaves it for            *)
(* attempt->run.                                                           *)
(*                                                                         *)
(* Of an attempt there is what BootstrapAttempt shows: run may return at   *)
(* any time, and does so once stop has been called.                        *)
(***************************************************************************)
EXTENDS Integers, FiniteSets

CONSTANTS
    Caller,          \* threads that call bootstrap (endpoint)
    MaxAttempts      \* bound on the attempts after which bootstrap () makes no more

NoAttempt == 0

VARIABLES
    attempt,         \* the number of the current attempt, or NoAttempt
    made,            \* attempts made so far
    attempt_stopped, \* the attempts that were told to stop
    stopped,
    thread,          \* where run_bootstrap is, and the attempt it runs
    calls,           \* caller -> where its bootstrap (endpoint) is
    woken            \* the waiting threads that were notified
vars == <<attempt, made, attempt_stopped, stopped, thread, calls, woken>>

RunThread == "thread"
Waiting == {c \in Caller : calls[c] = "wait"} \cup (IF thread.at = "wait" THEN {RunThread} ELSE {})

Init ==
    /\ attempt = NoAttempt /\ made = 0 /\ attempt_stopped = {} /\ stopped = FALSE
    /\ thread = [at |-> "test", running |-> NoAttempt]
    /\ calls = [c \in Caller |-> "idle"]
    /\ woken = {}

\* Make a new attempt and notify everyone who waits on the condition.
make_attempt == attempt' = made + 1 /\ made' = made + 1 /\ woken' = Waiting

attempt_stop == attempt_stopped' = attempt_stopped \cup {attempt}

-----------------------------------------------------------------------------
(* run_bootstrap *)

thread_test ==
    /\ thread.at = "test"
    /\ thread' = IF stopped THEN [thread EXCEPT !.at = "done"]
                 ELSE IF attempt # NoAttempt THEN [at |-> "run", running |-> attempt]
                 ELSE [thread EXCEPT !.at = "wait"]
    /\ UNCHANGED <<attempt, made, attempt_stopped, stopped, calls, woken>>

thread_wake ==
    /\ thread.at = "wait" /\ RunThread \in woken
    /\ thread' = [thread EXCEPT !.at = "test"]
    /\ woken' = woken \ {RunThread}
    /\ UNCHANGED <<attempt, made, attempt_stopped, stopped, calls>>

\* attempt->run () has returned; the observers are called with the mutex held.
thread_returned ==
    /\ thread.at = "run"
    /\ thread' = [at |-> "test", running |-> NoAttempt]
    /\ attempt' = NoAttempt
    /\ woken' = woken \cup Waiting
    /\ UNCHANGED <<made, attempt_stopped, stopped, calls>>

-----------------------------------------------------------------------------
free == attempt = NoAttempt

\* bootstrap ()
bootstrap ==
    /\ ~stopped /\ free /\ made < MaxAttempts
    /\ make_attempt
    /\ UNCHANGED <<attempt_stopped, stopped, thread, calls>>

\* bootstrap (endpoint): stopped is tested once, the loop tests the attempt only.
Called(c) == calls[c] = "idle" \/ (calls[c] = "wait" /\ c \in woken)

bootstrap_wait(c) ==
    /\ Called(c) /\ (calls[c] = "idle" => ~stopped)
    /\ attempt # NoAttempt
    /\ attempt_stop
    /\ calls' = [calls EXCEPT ![c] = "wait"]
    /\ woken' = woken \ {c}
    /\ UNCHANGED <<attempt, made, stopped, thread>>

bootstrap_make(c) ==
    /\ Called(c) /\ (calls[c] = "idle" => ~stopped)
    /\ free
    /\ attempt' = made + 1 /\ made' = made + 1
    /\ calls' = [calls EXCEPT ![c] = "returned"]
    /\ woken' = (woken \cup Waiting) \ {c}
    /\ UNCHANGED <<attempt_stopped, stopped, thread>>

stop ==
    /\ ~stopped
    /\ stopped' = TRUE
    /\ attempt_stopped' = attempt_stopped \cup ({attempt} \ {NoAttempt})
    /\ woken' = woken \cup Waiting
    /\ UNCHANGED <<attempt, made, thread, calls>>

-----------------------------------------------------------------------------
Next ==
    \/ thread_test \/ thread_wake \/ thread_returned
    \/ bootstrap \/ stop
    \/ \E c \in Caller : bootstrap_wait(c) \/ bootstrap_make(c)

Spec == Init /\ [][Next]_vars

-----------------------------------------------------------------------------
\* The types of bootstrap.hpp; only attempts that were made are stopped, and a
\* thread is notified only while it waits.
TypeOK ==
    /\ attempt \in 0..made /\ made \in 0..MaxAttempts + Cardinality(Caller) /\ attempt_stopped \subseteq 1..made
    /\ stopped \in BOOLEAN
    /\ thread \in [at : {"test", "wait", "run", "done"}, running : 0..made]
    /\ calls \in [Caller -> {"idle", "wait", "returned"}]
    /\ woken \subseteq Waiting

\* run_bootstrap, bootstrap: the attempt that is running is the current one, so
\* stop and bootstrap (endpoint) reach it, and no second one is started beside it.
RunsTheCurrent == thread.at = "run" => thread.running = attempt /\ attempt # NoAttempt

\* bootstrap, run_bootstrap: an attempt that was made is not overlooked by the
\* waiting thread.
NoAttemptOverlooked == attempt # NoAttempt /\ thread.at = "wait" => RunThread \in woken

=============================================================================
