------------------------------ MODULE WorkPool ------------------------------
(***************************************************************************)
(* work_pool (rai/lib/work.cpp): threads that all search work for the      *)
(* request at the front.  A thread reads the front and the ticket under    *)
(* the mutex and searches without it; whoever finds work first finds the   *)
(* ticket unchanged, changes it, pops the front and calls the callback it  *)
(* has copied.                                                             *)
(*                                                                         *)
(* Requests are numbered as they come; the list `pending' is the set of    *)
(* the numbers that wait, its front the lowest.                            *)
(***************************************************************************)
EXTENDS Integers, TLAPS

CONSTANTS
    Thread,
    Root,
    Opencl,        \* a device is tried before the threads
    MaxRequests,   \* bound on calls of generate
    MaxCancels     \* bound on calls of cancel

Id == 1..MaxRequests
\* How a callback takes boost::none: rpc handlers test it, the callback of
\* distributed_work throws.
Kind == {"tests", "throws"}
None == "none"
\* What the callbacks of a request that waits got so far.
Unanswered == "unanswered"

ASSUME WorkPoolValues ==
    /\ MaxRequests \in Nat
    /\ MaxCancels \in Nat
    /\ Root # {} /\ None \notin Root /\ Unanswered \notin Root
    /\ Opencl \in BOOLEAN

VARIABLES
    count,      \* calls of generate so far
    root,       \* request -> root
    kind,       \* request -> Kind
    pending,
    ticket,
    done,
    at,         \* thread -> "loop", "wait", "search", "answer" or "exit"
    current,    \* thread -> the request it copied, current_l
    seen,       \* thread -> the ticket it copied, ticket_l
    found,      \* thread -> the root it has work for, or None
    answers,    \* request -> times its callback was called
    work,       \* request -> the root of the work it got, None or Unanswered
    cancels     \* calls of cancel so far

vars == <<count, root, kind, pending, ticket, done, at, current, seen, found, answers, work, cancels>>

Front(i) == i \in pending /\ \A j \in pending : i <= j

\* producer_condition.notify_all
notified == [t \in Thread |-> IF at[t] = "wait" THEN "loop" ELSE at[t]]

called(i, w) ==
    /\ answers' = [answers EXCEPT ![i] = @ + 1]
    /\ work' = [work EXCEPT ![i] = w]

\* The users of the pool are gone when it is stopped.
requested(r, k) ==
    /\ ~done
    /\ count < MaxRequests
    /\ count' = count + 1
    /\ root' = [root EXCEPT ![count + 1] = r]
    /\ kind' = [kind EXCEPT ![count + 1] = k]

generate(r, k) ==
    /\ requested(r, k)
    /\ pending' = pending \cup {count + 1}
    /\ at' = notified
    /\ UNCHANGED <<ticket, done, current, seen, found, answers, work, cancels>>

generate_opencl(r, k) ==
    /\ Opencl
    /\ requested(r, k)
    /\ called(count + 1, r)
    /\ UNCHANGED <<pending, ticket, done, at, current, seen, found, cancels>>

-----------------------------------------------------------------------------
(* loop *)

\* current_l and ticket_l are copied under one lock.
loop_search(t, i) ==
    /\ at[t] = "loop"
    /\ Front(i)
    /\ at' = [at EXCEPT ![t] = "search"]
    /\ current' = [current EXCEPT ![t] = i]
    /\ seen' = [seen EXCEPT ![t] = ticket]
    /\ found' = [found EXCEPT ![t] = None]
    /\ UNCHANGED <<count, root, kind, pending, ticket, done, answers, work, cancels>>

\* mutant
ending == done
ends == done /\ pending = {}
loop_idle(t) ==
    /\ at[t] = "loop"
    /\ pending = {} \/ ends
    /\ at' = [at EXCEPT ![t] = IF ends THEN "exit" ELSE "wait"]
    /\ UNCHANGED <<count, root, kind, pending, ticket, done, current, seen, found, answers, work, cancels>>

\* The search succeeds: an output above the threshold for current_l's root.
search(t) ==
    /\ at[t] = "search"
    /\ found[t] = None
    /\ found' = [found EXCEPT ![t] = root[current[t]]]
    /\ UNCHANGED <<count, root, kind, pending, ticket, done, at, current, seen, answers, work, cancels>>

first(t) == ticket = seen[t]

next_ticket == ticket + 1

\* The mutex again: we are the ones that found the solution.
pop(t, i) ==
    /\ at[t] = "search"
    /\ first(t) /\ found[t] # None
    /\ Front(i)
    /\ ticket' = next_ticket
    /\ pending' = pending \ {i}
    /\ at' = [at EXCEPT ![t] = "answer"]
    /\ UNCHANGED <<count, root, kind, done, current, seen, found, answers, work, cancels>>

\* A different thread found a solution, or the request was cancelled.
give_up(t) ==
    /\ at[t] = "search"
    /\ ~first(t)
    /\ at' = [at EXCEPT ![t] = "loop"]
    /\ UNCHANGED <<count, root, kind, pending, ticket, done, current, seen, found, answers, work, cancels>>

\* The callback runs without the mutex.
answer(t) ==
    /\ at[t] = "answer"
    /\ called(current[t], found[t])
    /\ at' = [at EXCEPT ![t] = "loop"]
    /\ UNCHANGED <<count, root, kind, pending, ticket, done, current, seen, found, cancels>>

step(t) ==
    \/ \E i \in pending : loop_search(t, i) \/ pop(t, i)
    \/ loop_idle(t)
    \/ search(t)
    \/ give_up(t)
    \/ answer(t)

-----------------------------------------------------------------------------
(* cancel: remove_if calls the callbacks one by one, and ends at one that throws *)

cancelled(r) == {i \in pending : root[i] = r /\ \A j \in pending : j <= i /\ root[j] = r => kind[j] = "tests"}

\* mutant
ticket_moves_never(r) == FALSE
ticket_moves(r) == \E i \in pending : Front(i) /\ root[i] = r

cancel(r) ==
    /\ cancels < MaxCancels
    /\ cancels' = cancels + 1
    /\ ticket' = IF ticket_moves(r) THEN ticket + 1 ELSE ticket
    /\ pending' = pending \ cancelled(r)
    /\ answers' = [i \in Id |-> IF i \in cancelled(r) THEN answers[i] + 1 ELSE answers[i]]
    /\ work' = [i \in Id |-> IF i \in cancelled(r) THEN None ELSE work[i]]
    /\ UNCHANGED <<count, root, kind, done, at, current, seen, found>>

stop ==
    /\ ~done
    /\ done' = TRUE
    /\ at' = notified
    /\ UNCHANGED <<count, root, kind, pending, ticket, current, seen, found, answers, work, cancels>>

Init ==
    /\ count = 0
    /\ root = [i \in Id |-> CHOOSE r \in Root : TRUE]
    /\ kind = [i \in Id |-> "tests"]
    /\ pending = {}
    /\ ticket = 0
    /\ done = FALSE
    /\ at = [t \in Thread |-> "loop"]
    /\ current = [t \in Thread |-> 0]
    /\ seen = [t \in Thread |-> 0]
    /\ found = [t \in Thread |-> None]
    /\ answers = [i \in Id |-> 0]
    /\ work = [i \in Id |-> Unanswered]
    /\ cancels = 0

Next ==
    \/ \E r \in Root, k \in Kind : generate(r, k) \/ generate_opencl(r, k)
    \/ \E t \in Thread : step(t)
    \/ \E r \in Root : cancel(r)
    \/ stop

Spec == Init /\ [][Next]_vars

-----------------------------------------------------------------------------
\* Requests, threads and answers are well formed.
TypeOK ==
    /\ count \in 0..MaxRequests
    /\ root \in [Id -> Root]
    /\ kind \in [Id -> Kind]
    /\ pending \subseteq 1..count
    /\ ticket \in Nat
    /\ done \in BOOLEAN
    /\ at \in [Thread -> {"loop", "wait", "search", "answer", "exit"}]
    /\ current \in [Thread -> 0..count]
    /\ seen \in [Thread -> Nat]
    /\ found \in [Thread -> Root \cup {None}]
    /\ answers \in [Id -> Nat]
    /\ work \in [Id -> Root \cup {None, Unanswered}]
    /\ cancels \in 0..MaxCancels

\* `If the ticket matches what we started with, we're the ones that found the
\* solution': a thread whose ticket is current works on the front of the list, so
\* the request it pops is the one whose callback it calls, whatever is cancelled
\* and solved meanwhile.
SearchesFront == \A t \in Thread : at[t] = "search" /\ seen[t] = ticket => Front(current[t])

\* No request is lost or answered twice: its callback was called once, or it
\* waits, or the one thread that popped it is about to call it.
AnsweredOnce ==
    \A i \in 1..count :
        /\ answers[i] <= 1
        /\ answers[i] = 1 <=> i \notin pending /\ \A t \in Thread : at[t] = "answer" => current[t] # i
        /\ \A t, u \in Thread : at[t] = "answer" /\ at[u] = "answer" /\ current[t] = i /\ current[u] = i => t = u

\* A callback that gets work gets work for its own root, and one that cannot take
\* boost::none never gets it.
WorkIsForRoot ==
    \A i \in 1..count : work[i] # Unanswered => work[i] = root[i] \/ (work[i] = None /\ kind[i] = "tests")

-----------------------------------------------------------------------------
(* For any number of threads, roots and requests: a thread whose ticket is *)
(* current works on the front of the list, and every request is answered   *)
(* once, with work for its root.                                           *)

\* No thread has a ticket from the future: a changed ticket stays changed.
Bounded == \A t \in Thread : at[t] = "search" => seen[t] <= ticket

\* What a thread has found is work for the request it copied.
Solved ==
    \A t \in Thread :
        at[t] \in {"search", "answer"} =>
            /\ current[t] \in 1..count
            /\ found[t] # None => found[t] = root[current[t]]
            /\ at[t] = "answer" => found[t] # None

\* A thread that is about to call a callback has popped its request.
Popped == \A t \in Thread : at[t] = "answer" => current[t] \notin pending

\* Requests that were not made have no answers.
Fresh == \A i \in Id : i > count => answers[i] = 0 /\ work[i] = Unanswered

IInv == TypeOK /\ Bounded /\ SearchesFront /\ Solved /\ Popped /\ Fresh /\ AnsweredOnce /\ WorkIsForRoot

\* The pool starts with no requests and no tickets.
LEMMA InitImpliesIInv == Init => IInv
<1> SUFFICES ASSUME Init PROVE IInv
  BY Zenon
<1>1. TypeOK
  <2>1. (CHOOSE r \in Root : TRUE) \in Root
    BY WorkPoolValues, Zenon
  <2>2. root \in [Id -> Root] /\ kind \in [Id -> Kind]
    BY <2>1, Zenon DEF Init, Kind
  <2>3. /\ at \in [Thread -> {"loop", "wait", "search", "answer", "exit"}]
        /\ found \in [Thread -> Root \cup {None}]
        /\ work \in [Id -> Root \cup {None, Unanswered}]
        /\ done \in BOOLEAN
    BY Zenon DEF Init
  <2>4. /\ count \in 0..MaxRequests /\ cancels \in 0..MaxCancels
        /\ pending \subseteq 1..count /\ current \in [Thread -> 0..count]
        /\ ticket \in Nat /\ seen \in [Thread -> Nat] /\ answers \in [Id -> Nat]
    BY WorkPoolValues DEF Init
  <2>q. QED
    BY <2>2, <2>3, <2>4, Zenon DEF TypeOK
<1>2. Bounded /\ SearchesFront /\ Solved /\ Popped
  BY Zenon DEF Init, Bounded, SearchesFront, Solved, Popped
<1>3. Fresh /\ AnsweredOnce /\ WorkIsForRoot
  BY WorkPoolValues DEF Init, Fresh, AnsweredOnce, WorkIsForRoot
<1>q. QED
  BY <1>1, <1>2, <1>3, Zenon DEF IInv

\* Every step of the threads, of the callers and of stop keeps the invariant.
\* The steps that matter: pop changes the ticket, so the other threads that work
\* on the popped request have an old one; cancel changes it if it removes the
\* front.
LEMMA StepKeepsIInv == IInv /\ [Next]_vars => IInv'
<1> SUFFICES ASSUME IInv, [Next]_vars PROVE IInv'
  BY Zenon
<1> USE DEF IInv
<1>1. CASE \E r \in Root, k \in Kind : generate(r, k)
  <2>0. PICK r \in Root, k \in Kind : generate(r, k)
    BY <1>1, Zenon
  <2>1. TypeOK'
    BY <2>0, WorkPoolValues DEF TypeOK, generate, requested, notified, Id, Kind
  <2>2. Bounded'
    BY <2>0, WorkPoolValues, Zenon DEF TypeOK, generate, requested, notified, Bounded
  <2>3. SearchesFront'
    BY <2>0, WorkPoolValues DEF TypeOK, generate, requested, notified, SearchesFront, Front
  <2>4. Solved'
    BY <2>0, WorkPoolValues DEF TypeOK, generate, requested, notified, Solved, Id
  <2>5. Popped'
    BY <2>0, WorkPoolValues DEF TypeOK, generate, requested, notified, Popped, Solved
  <2>6. Fresh'
    BY <2>0, WorkPoolValues DEF TypeOK, generate, requested, notified, Fresh, Id
  <2>7. AnsweredOnce'
    BY <2>0, WorkPoolValues DEF TypeOK, generate, requested, notified, AnsweredOnce, Fresh, Solved, Id
  <2>8. WorkIsForRoot'
    BY <2>0, WorkPoolValues DEF TypeOK, generate, requested, notified, WorkIsForRoot, Fresh, Id
  <2>q. QED
    BY <2>1, <2>2, <2>3, <2>4, <2>5, <2>6, <2>7, <2>8, Zenon
<1>2. CASE \E r \in Root, k \in Kind : generate_opencl(r, k)
  <2>0. PICK r \in Root, k \in Kind : generate_opencl(r, k)
    BY <1>2
  <2>1. TypeOK'
    BY <2>0, WorkPoolValues DEF TypeOK, generate_opencl, requested, called, Id, Kind
  <2>2. Bounded'
    BY <2>0, WorkPoolValues, Zenon DEF TypeOK, generate_opencl, requested, called, Bounded
  <2>3. SearchesFront'
    BY <2>0, WorkPoolValues, Zenon DEF TypeOK, generate_opencl, requested, called, SearchesFront, Front
  <2>4. Solved'
    BY <2>0, WorkPoolValues DEF TypeOK, generate_opencl, requested, called, Solved, Id
  <2>5. Popped'
    BY <2>0, WorkPoolValues, Zenon DEF TypeOK, generate_opencl, requested, called, Popped
  <2>6. Fresh'
    BY <2>0, WorkPoolValues DEF TypeOK, generate_opencl, requested, called, Fresh, Id
  <2>7. AnsweredOnce'
    BY <2>0, WorkPoolValues DEF TypeOK, generate_opencl, requested, called, AnsweredOnce, Fresh, Solved, Id
  <2>8. WorkIsForRoot'
    BY <2>0, WorkPoolValues DEF TypeOK, generate_opencl, requested, called, WorkIsForRoot, Fresh, Id
  <2>q. QED
    BY <2>1, <2>2, <2>3, <2>4, <2>5, <2>6, <2>7, <2>8
<1>3. CASE \E t \in Thread : \E i \in pending : loop_search(t, i)
  <2>0. PICK t \in Thread, i \in pending : loop_search(t, i)
    BY <1>3, Zenon
  <2>1. TypeOK'
    BY <2>0 DEF TypeOK, loop_search
  <2>2. Bounded'
    BY <2>0 DEF TypeOK, loop_search, Bounded
  <2>3. SearchesFront'
    BY <2>0, Zenon DEF TypeOK, loop_search, SearchesFront, Front
  <2>4. Solved'
    BY <2>0, Zenon DEF TypeOK, loop_search, Solved
  <2>5. Popped'
    BY <2>0, Zenon DEF TypeOK, loop_search, Popped
  <2>6. Fresh'
    BY <2>0, Zenon DEF TypeOK, loop_search, Fresh
  <2>7. AnsweredOnce'
    <3>1. \A u \in Thread : at'[u] = "answer" <=> at[u] = "answer"
      BY <2>0, Zenon DEF loop_search, TypeOK
    <3>2. \A u \in Thread : at[u] = "answer" => current'[u] = current[u]
      BY <2>0, Zenon DEF loop_search, TypeOK
    <3>3. answers' = answers /\ pending' = pending /\ count' = count
      BY <2>0, Zenon DEF loop_search
    <3>q. QED
      BY <3>1, <3>2, <3>3 DEF AnsweredOnce
  <2>8. WorkIsForRoot'
    BY <2>0, Zenon DEF TypeOK, loop_search, WorkIsForRoot
  <2>q. QED
    BY <2>1, <2>2, <2>3, <2>4, <2>5, <2>6, <2>7, <2>8, Zenon
<1>4. CASE \E t \in Thread : \E i \in pending : pop(t, i)
  <2>0. PICK t \in Thread, i \in pending : pop(t, i)
    BY <1>4
  <2>a. i = current[t]
    BY <2>0 DEF pop, first, SearchesFront, Front, TypeOK
  <2>1. TypeOK'
    <3>1. ticket' \in Nat
      BY <2>0 DEF pop, next_ticket, TypeOK
    <3>q. QED
      BY <2>0, <3>1, Zenon DEF pop, TypeOK
  <2>2. Bounded'
    BY <2>0, WorkPoolValues, <2>a DEF TypeOK, pop, next_ticket, Bounded
  <2>3. SearchesFront'
    BY <2>0, WorkPoolValues, <2>a DEF TypeOK, pop, next_ticket, SearchesFront, Bounded
  <2>4. Solved'
    BY <2>0, WorkPoolValues, <2>a, Zenon DEF TypeOK, pop, next_ticket, Solved
  <2>5. Popped'
    BY <2>0, <2>a, Zenon DEF TypeOK, pop, Popped
  <2>6. Fresh'
    BY <2>0, WorkPoolValues, <2>a, Zenon DEF TypeOK, pop, next_ticket, Fresh
  <2>7. AnsweredOnce'
    <3>1. ASSUME NEW u \in Thread, at'[u] = "answer" PROVE u = t \/ at[u] = "answer"
      BY <2>0, <3>1, Zenon DEF pop, TypeOK
    <3>2. answers[current[t]] = 0
      BY <2>0, <2>a, WorkPoolValues DEF AnsweredOnce, TypeOK, Id
    <3>3. at'[t] = "answer"
      BY <2>0, Zenon DEF pop, TypeOK
    <3>4. \A u \in Thread : at[u] = "answer" => at'[u] = "answer" /\ current[u] # current[t]
      BY <2>0, <2>a, Zenon DEF pop, TypeOK, Popped
    <3>5. pending' = pending \ {current[t]} /\ answers' = answers /\ current' = current /\ count' = count
      BY <2>0, <2>a, Zenon DEF pop
    <3>q. QED
      BY <3>1, <3>2, <3>3, <3>4, <3>5 DEF AnsweredOnce
  <2>8. WorkIsForRoot'
    BY <2>0, WorkPoolValues, <2>a, Zenon DEF TypeOK, pop, next_ticket, WorkIsForRoot
  <2>q. QED
    BY <2>1, <2>2, <2>3, <2>4, <2>5, <2>6, <2>7, <2>8
<1>5. CASE \E t \in Thread : loop_idle(t)
  <2>0. PICK t \in Thread : loop_idle(t)
    BY <1>5, Zenon
  <2>1. TypeOK'
    BY <2>0, Zenon DEF TypeOK, loop_idle
  <2>2. Bounded'
    BY <2>0, Zenon DEF TypeOK, loop_idle, Bounded
  <2>3. SearchesFront'
    BY <2>0, Zenon DEF TypeOK, loop_idle, SearchesFront, Front
  <2>4. Solved'
    BY <2>0, Zenon DEF TypeOK, loop_idle, Solved
  <2>5. Popped'
    BY <2>0, Zenon DEF TypeOK, loop_idle, Popped
  <2>6. Fresh'
    BY <2>0, Zenon DEF TypeOK, loop_idle, Fresh
  <2>7. AnsweredOnce'
    BY <2>0 DEF TypeOK, loop_idle, AnsweredOnce
  <2>8. WorkIsForRoot'
    BY <2>0, Zenon DEF TypeOK, loop_idle, WorkIsForRoot
  <2>q. QED
    BY <2>1, <2>2, <2>3, <2>4, <2>5, <2>6, <2>7, <2>8, Zenon
<1>6. CASE \E t \in Thread : search(t)
  <2>0. PICK t \in Thread : search(t)
    BY <1>6
  <2>1. TypeOK'
    <3>1. root[current[t]] \in Root
      BY <2>0, WorkPoolValues DEF search, Solved, TypeOK, Id
    <3>q. QED
      BY <2>0, <3>1, Zenon DEF search, TypeOK
  <2>2. Bounded'
    BY <2>0, Zenon DEF TypeOK, search, Bounded
  <2>3. SearchesFront'
    BY <2>0, Zenon DEF TypeOK, search, SearchesFront, Front
  <2>4. Solved'
    BY <2>0, Zenon DEF TypeOK, search, Solved
  <2>5. Popped'
    BY <2>0, Zenon DEF TypeOK, search, Popped
  <2>6. Fresh'
    BY <2>0, Zenon DEF TypeOK, search, Fresh
  <2>7. AnsweredOnce'
    BY <2>0 DEF TypeOK, search, AnsweredOnce
  <2>8. WorkIsForRoot'
    BY <2>0, Zenon DEF TypeOK, search, WorkIsForRoot
  <2>q. QED
    BY <2>1, <2>2, <2>3, <2>4, <2>5, <2>6, <2>7, <2>8
<1>7. CASE \E t \in Thread : give_up(t)
  <2>0. PICK t \in Thread : give_up(t)
    BY <1>7
  <2>1. TypeOK'
    BY <2>0, Zenon DEF TypeOK, give_up
  <2>2. Bounded'
    BY <2>0, Zenon DEF TypeOK, give_up, Bounded
  <2>3. SearchesFront'
    BY <2>0, Zenon DEF TypeOK, give_up, SearchesFront, Front
  <2>4. Solved'
    BY <2>0, Zenon DEF TypeOK, give_up, Solved
  <2>5. Popped'
    BY <2>0, Zenon DEF TypeOK, give_up, Popped
  <2>6. Fresh'
    BY <2>0, Zenon DEF TypeOK, give_up, Fresh
  <2>7. AnsweredOnce'
    BY <2>0 DEF TypeOK, give_up, AnsweredOnce
  <2>8. WorkIsForRoot'
    BY <2>0, Zenon DEF TypeOK, give_up, WorkIsForRoot
  <2>q. QED
    BY <2>1, <2>2, <2>3, <2>4, <2>5, <2>6, <2>7, <2>8
<1>8. CASE \E t \in Thread : answer(t)
  <2>0. PICK t \in Thread : answer(t)
    BY <1>8
  <2>1. TypeOK'
    BY <2>0, WorkPoolValues DEF TypeOK, answer, called, Solved, Id
  <2>2. Bounded'
    BY <2>0, WorkPoolValues, Zenon DEF TypeOK, answer, called, Bounded
  <2>3. SearchesFront'
    BY <2>0, WorkPoolValues, Zenon DEF TypeOK, answer, called, SearchesFront, Front
  <2>4. Solved'
    BY <2>0, WorkPoolValues, Zenon DEF TypeOK, answer, called, Solved
  <2>5. Popped'
    BY <2>0, WorkPoolValues, Zenon DEF TypeOK, answer, called, Popped
  <2>6. Fresh'
    BY <2>0, WorkPoolValues DEF TypeOK, answer, called, Fresh, Solved, Id
  <2>7. AnsweredOnce'
    BY <2>0, WorkPoolValues DEF TypeOK, answer, called, AnsweredOnce, Popped, Solved, Id
  <2>8. WorkIsForRoot'
    BY <2>0, WorkPoolValues DEF TypeOK, answer, called, WorkIsForRoot, Solved, Id
  <2>q. QED
    BY <2>1, <2>2, <2>3, <2>4, <2>5, <2>6, <2>7, <2>8
<1>9. CASE \E r \in Root : cancel(r)
  <2>0. PICK r \in Root : cancel(r)
    BY <1>9
  <2>1. TypeOK'
    <3>1. answers' \in [Id -> Nat] /\ work' \in [Id -> Root \cup {None, Unanswered}]
      BY <2>0 DEF cancel, TypeOK
    <3>2. ticket' \in Nat /\ cancels' \in 0..MaxCancels
      BY <2>0, WorkPoolValues DEF cancel, TypeOK
    <3>q. QED
      BY <2>0, <3>1, <3>2, Zenon DEF cancel, TypeOK
  <2>2. Bounded'
    BY <2>0, WorkPoolValues DEF TypeOK, cancel, Bounded
  <2>3. SearchesFront'
    BY <2>0, WorkPoolValues DEF TypeOK, cancel, SearchesFront, Bounded, Front, cancelled, ticket_moves
  <2>4. Solved'
    BY <2>0, WorkPoolValues, Zenon DEF TypeOK, cancel, Solved
  <2>5. Popped'
    BY <2>0, WorkPoolValues, Zenon DEF TypeOK, cancel, Popped
  <2>6. Fresh'
    <3>1. \A i \in Id : i > count => i \notin cancelled(r)
      BY WorkPoolValues DEF cancelled, TypeOK, Id
    <3>q. QED
      BY <2>0, <3>1, Zenon DEF cancel, Fresh, TypeOK
  <2>7. AnsweredOnce'
    BY <2>0, WorkPoolValues DEF TypeOK, cancel, AnsweredOnce, Popped, cancelled, Id
  <2>8. WorkIsForRoot'
    BY <2>0, WorkPoolValues DEF TypeOK, cancel, WorkIsForRoot, cancelled, Id
  <2>q. QED
    BY <2>1, <2>2, <2>3, <2>4, <2>5, <2>6, <2>7, <2>8
<1>10. CASE stop
  <2>1. TypeOK'
    BY <1>10, Zenon DEF TypeOK, stop, notified
  <2>2. Bounded'
    BY <1>10, Zenon DEF TypeOK, stop, notified, Bounded
  <2>3. SearchesFront'
    BY <1>10, Zenon DEF TypeOK, stop, notified, SearchesFront, Front
  <2>4. Solved'
    BY <1>10, Zenon DEF TypeOK, stop, notified, Solved
  <2>5. Popped'
    BY <1>10, Zenon DEF TypeOK, stop, notified, Popped
  <2>6. Fresh'
    BY <1>10, Zenon DEF TypeOK, stop, notified, Fresh
  <2>7. AnsweredOnce'
    BY <1>10 DEF TypeOK, stop, notified, AnsweredOnce
  <2>8. WorkIsForRoot'
    BY <1>10, Zenon DEF TypeOK, stop, notified, WorkIsForRoot
  <2>q. QED
    BY <2>1, <2>2, <2>3, <2>4, <2>5, <2>6, <2>7, <2>8, Zenon
<1>11. CASE UNCHANGED vars
  <2>1. TypeOK'
    BY <1>11, Zenon DEF TypeOK, vars
  <2>2. Bounded'
    BY <1>11, Zenon DEF TypeOK, vars, Bounded
  <2>3. SearchesFront'
    BY <1>11, Zenon DEF TypeOK, vars, SearchesFront, Front
  <2>4. Solved'
    BY <1>11, Zenon DEF TypeOK, vars, Solved
  <2>5. Popped'
    BY <1>11, Zenon DEF TypeOK, vars, Popped
  <2>6. Fresh'
    BY <1>11, Zenon DEF TypeOK, vars, Fresh
  <2>7. AnsweredOnce'
    BY <1>11 DEF TypeOK, vars, AnsweredOnce
  <2>8. WorkIsForRoot'
    BY <1>11, Zenon DEF TypeOK, vars, WorkIsForRoot
  <2>q. QED
    BY <2>1, <2>2, <2>3, <2>4, <2>5, <2>6, <2>7, <2>8
<1>q. QED
  BY <1>1, <1>2, <1>3, <1>4, <1>5, <1>6, <1>7, <1>8, <1>9, <1>10, <1>11, Zenon DEF Next, step

\* The invariant holds in every reachable state.
LEMMA IInvHolds == Spec => []IInv
BY InitImpliesIInv, StepKeepsIInv, PTL DEF Spec

\* `If the ticket matches what we started with, we're the ones that found the
\* solution': a thread whose ticket is current works on the front of the list.
THEOREM TicketGuardsFront == Spec => []SearchesFront
<1>1. IInv => SearchesFront
  BY Zenon DEF IInv
<1>q. QED
  BY <1>1, IInvHolds, PTL

\* work_pool calls the callback of a request once, and loses none.
THEOREM RequestsAreAnsweredOnce == Spec => []AnsweredOnce
<1>1. IInv => AnsweredOnce
  BY Zenon DEF IInv
<1>q. QED
  BY <1>1, IInvHolds, PTL

\* Work that is handed out is work for the root of the request, and boost::none
\* goes only to callbacks that test for it.
THEOREM WorkFitsRequest == Spec => []WorkIsForRoot
<1>1. IInv => WorkIsForRoot
  BY Zenon DEF IInv
<1>q. QED
  BY <1>1, IInvHolds, PTL

\* Every reachable state of the pool is well typed.
THEOREM TypeCorrect == Spec => []TypeOK
<1>1. IInv => TypeOK
  BY Zenon DEF IInv
<1>q. QED
  BY <1>1, IInvHolds, PTL
=============================================================================
