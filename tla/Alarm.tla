------------------------------- MODULE Alarm --------------------------------
(***************************************************************************)
(* rai::alarm (rai/node/node.cpp): one thread posts operations to the io   *)
(* service when their time comes, always the one with the earliest time    *)
(* first.  The thread holds the mutex except while it waits, so others add *)
(* only then.  A wait ends by a notification, by its deadline, or for no   *)
(* reason.                                                                 *)
(***************************************************************************)
EXTENDS Integers

CONSTANTS
    Operation,    \* what is added, each once
    MaxTime       \* bound on the clock

VARIABLES
    now,          \* steady_clock::now
    operations,   \* the queue: a set of [wakeup, function]
    thread,       \* "running" with the mutex, "waiting" or "done"
    deadline,     \* what wait_until waits for; Never for wait
    woken,        \* the thread was notified since it began to wait
    posted,       \* operation -> when it was posted, or Never
    closed        \* when the destructor was called, or Never

vars == <<now, operations, thread, deadline, woken, posted, closed>>

Time == 0..MaxTime
Never == MaxTime + 1
\* The empty function the destructor adds.
Null == "null"

\* priority_queue::top: any of those with the earliest time.
top == {o \in operations : \A p \in operations : o.wakeup <= p.wakeup}

\* mutant
notify_if_first(o) == woken \/ (thread = "waiting" /\ operations = {})
notify_all(o) == woken \/ thread = "waiting"

push(wakeup, function) ==
    /\ thread # "running"
    /\ operations' = operations \cup {[wakeup |-> wakeup, function |-> function]}
    /\ woken' = notify_all(function)

\* Callers compute a time from a clock they read earlier.
add(wakeup, function) ==
    /\ closed = Never
    /\ \A o \in operations : o.function # function
    /\ posted[function] = Never
    /\ push(wakeup, function)
    /\ UNCHANGED <<now, thread, deadline, posted, closed>>

due(o) == o.wakeup <= now

\* One turn of the loop in run.
run_post(o) ==
    /\ thread = "running"
    /\ o \in top /\ o.function # Null /\ due(o)
    /\ posted' = [posted EXCEPT ![o.function] = now]
    /\ operations' = operations \ {o}
    /\ UNCHANGED <<now, thread, deadline, woken, closed>>

wait(until) ==
    /\ thread' = "waiting"
    /\ deadline' = until
    /\ woken' = FALSE
    /\ UNCHANGED <<now, operations, posted, closed>>

run_wait_until(o) ==
    /\ thread = "running"
    /\ o \in top /\ o.function # Null /\ ~due(o)
    /\ wait(o.wakeup)

run_wait ==
    /\ thread = "running"
    /\ operations = {}
    /\ wait(Never)

run_done(o) ==
    /\ thread = "running"
    /\ o \in top /\ o.function = Null
    /\ thread' = "done"
    /\ UNCHANGED <<now, operations, deadline, woken, posted, closed>>

run == run_wait \/ \E o \in operations : run_post(o) \/ run_wait_until(o) \/ run_done(o)

wakes == woken \/ now >= deadline

resume ==
    /\ thread = "waiting"
    /\ thread' = "running"
    /\ UNCHANGED <<now, operations, deadline, woken, posted, closed>>

\* The destructor; nobody adds after it.
destroy ==
    /\ closed = Never
    /\ closed' = now
    /\ push(now, Null)
    /\ UNCHANGED <<now, thread, deadline, posted>>

tick ==
    /\ now < MaxTime
    /\ now' = now + 1
    /\ UNCHANGED <<operations, thread, deadline, woken, posted, closed>>

Init ==
    /\ now = 0
    /\ operations = {}
    /\ thread = "running"
    /\ deadline = Never
    /\ woken = FALSE
    /\ posted = [o \in Operation |-> Never]
    /\ closed = Never

Next ==
    \/ \E wakeup \in Time, o \in Operation : add(wakeup, o)
    \/ run
    \/ resume
    \/ destroy
    \/ tick

Spec == Init /\ [][Next]_vars

-----------------------------------------------------------------------------
\* The queue, the thread and the times are well formed.
TypeOK ==
    /\ now \in Time
    /\ operations \subseteq [wakeup : Time, function : Operation \cup {Null}]
    /\ thread \in {"running", "waiting", "done"}
    /\ deadline \in Time \cup {Never}
    /\ woken \in BOOLEAN
    /\ posted \in [Operation -> Time \cup {Never}]
    /\ closed \in Time \cup {Never}

\* run posts an operation at its time or later, and before every operation with
\* a later time that waits with it.
PostedInOrder ==
    \A o \in operations : o.function # Null /\ o \notin operations' =>
        o.wakeup <= now /\ \A p \in operations : o.wakeup <= p.wakeup

\* The thread never sleeps past the time of an operation: whatever add puts in
\* the queue while the thread waits, the thread was notified of it or wakes up by
\* itself in time.
WakesInTime == thread = "waiting" /\ ~woken => \A o \in operations : deadline <= o.wakeup

\* What was due before the destructor was called is posted before the thread ends.
EndsAfterDue == thread = "done" => \A o \in operations : o.function # Null => o.wakeup >= closed
=============================================================================
