---------------------------- MODULE PaymentWait ----------------------------
(***************************************************************************)
(* payment_wait of the RPC server (src/rai/node/rpc.cpp).  A request waits *)
(* until an account holds an amount, or until its time is over.  It makes  *)
(* a payment_observer, arms an alarm for it, enters it in                  *)
(* rpc.payment_observers under its account, and looks once itself; every   *)
(* confirmed block on the account looks again.                             *)
(*                                                                         *)
(* Three kinds of thread call the observer: the handler of the request,    *)
(* the alarm, and the node's block observers.  Each is an actor with its   *)
(* place in the code; a section under rpc.mutex is one step.               *)
(*                                                                         *)
(* The amount asked for is 1.                                              *)
(***************************************************************************)
EXTENDS Integers, Sequences, FiniteSets, SequencesExt

CONSTANTS
    Request,      \* payment_wait requests
    NoRequest,    \* the absent observer
    Account,      \* the accounts waited for
    MaxBlocks     \* bound: blocks on the accounts

VARIABLES
    account,      \* request -> the account it asked for (meaningless when idle)
    armed,        \* request -> its alarm is yet to fire
    completed,    \* request -> payment_observer::completed
    answers,      \* request -> the responses sent to it
    observers,    \* rpc.payment_observers: account -> request
    actor,        \* thread -> its place, the account it looks at, its observer
    balance,      \* account -> the balance in the ledger
    unconfirmed,  \* account -> blocks in the ledger and not confirmed yet
    queue,        \* confirmed blocks whose observers are yet to run (accounts)
    blocks        \* blocks so far

vars == <<account, armed, completed, answers, observers, actor, balance, unconfirmed,
          queue, blocks>>
ledger == <<balance, unconfirmed, queue, blocks>>

Handler(r) == <<"handler", r>>
Timer(r) == <<"timer", r>>
Notifier == <<"notifier", NoRequest>>
Actor == {Handler(r) : r \in Request} \cup {Timer(r) : r \in Request} \cup {Notifier}

Idle == [at |-> "idle", observer |-> NoRequest]
At(t, place) == actor[t].at = place
Move(t, place) == actor' = [actor EXCEPT ![t].at = place]
Finish(t) == actor' = [actor EXCEPT ![t] = Idle]

Asked == {r \in Request : ~At(Handler(r), "new")}
Answered(r) == answers[r] # <<>>

Init ==
    /\ account \in {[r \in Request |-> CHOOSE a \in Account : TRUE]}
    /\ armed = [r \in Request |-> FALSE]
    /\ completed = [r \in Request |-> FALSE]
    /\ answers = [r \in Request |-> <<>>]
    /\ observers = [a \in Account |-> NoRequest]
    /\ actor = [t \in Actor |-> IF \E r \in Request : t = Handler(r)
                                THEN [Idle EXCEPT !.at = "new"] ELSE Idle]
    /\ balance = [a \in Account |-> 0]
    /\ unconfirmed = [a \in Account |-> 0]
    /\ queue = <<>>
    /\ blocks = 0

-----------------------------------------------------------------------------

\* payment_wait makes the observer and arms the alarm.
payment_wait(r, a) ==
    /\ At(Handler(r), "new")
    /\ \A q \in Asked : account[q] = a => Answered(q)
    /\ account' = [account EXCEPT ![r] = a]
    /\ armed' = [armed EXCEPT ![r] = TRUE]
    /\ Move(Handler(r), "register")
    /\ UNCHANGED <<completed, answers, observers, ledger>>

\* Under the mutex it enters the observer, in the place of any earlier one.
register(r) ==
    /\ At(Handler(r), "register")
    /\ observers' = [observers EXCEPT ![account[r]] = r]
    /\ Move(Handler(r), "look")
    /\ UNCHANGED <<account, armed, completed, answers, ledger>>

\* observer_action (a): the observer of the account, if any, is to look.
observer_action(t, a) ==
    /\ At(t, "look")
    /\ actor' = [actor EXCEPT ![t] =
                    IF observers[a] = NoRequest THEN Idle
                    ELSE [at |-> "observe", observer |-> observers[a]]]
    /\ UNCHANGED <<account, armed, completed, answers, observers>>

handler_looks(r) == observer_action(Handler(r), account[r]) /\ UNCHANGED ledger

\* payment_observer::observe reads the balance.
observe(t) ==
    /\ At(t, "observe")
    /\ actor' = [actor EXCEPT ![t] =
                    IF balance[account[actor[t].observer]] >= 1
                    THEN [@ EXCEPT !.at = "success"] ELSE Idle]
    /\ UNCHANGED <<account, armed, completed, answers, observers, ledger>>

\* payment_observer::complete: the first to set the flag answers ...
complete(t, status) ==
    LET r == actor[t].observer IN
    /\ At(t, status)
    /\ completed' = [completed EXCEPT ![r] = TRUE]
    /\ IF completed[r]
       THEN Finish(t) /\ UNCHANGED answers
       ELSE Move(t, "erase") /\ answers' = [answers EXCEPT ![r] = Append(@, status)]
    /\ UNCHANGED <<account, armed, observers, ledger>>

\* ... and then, under the mutex, erases what the account has.
erase(t) ==
    LET a == account[actor[t].observer] IN
    /\ At(t, "erase")
    /\ observers' = [observers EXCEPT ![a] = NoRequest]
    /\ Finish(t)
    /\ UNCHANGED <<account, armed, completed, answers, ledger>>

\* The alarm fires.
timeout(r) ==
    /\ armed[r]
    /\ armed' = [armed EXCEPT ![r] = FALSE]
    /\ actor' = [actor EXCEPT ![Timer(r)] = [at |-> "nothing", observer |-> r]]
    /\ UNCHANGED <<account, completed, answers, observers, ledger>>

-----------------------------------------------------------------------------
\* A block on account a enters the ledger and changes its balance.
process(a) ==
    /\ blocks < MaxBlocks
    /\ blocks' = blocks + 1
    /\ balance' = [balance EXCEPT ![a] = 1 - @]
    /\ unconfirmed' = [unconfirmed EXCEPT ![a] = @ + 1]
    /\ UNCHANGED <<queue, account, armed, completed, answers, observers, actor>>

\* It is confirmed, and its observers are scheduled.
process_confirmed(a) ==
    /\ unconfirmed[a] > 0
    /\ unconfirmed' = [unconfirmed EXCEPT ![a] = @ - 1]
    /\ queue' = Append(queue, a)
    /\ UNCHANGED <<balance, blocks, account, armed, completed, answers, observers, actor>>

\* The observer that rpc::start added runs for the next confirmed block.
notify ==
    /\ At(Notifier, "idle")
    /\ queue # <<>>
    /\ actor' = [actor EXCEPT ![Notifier].at = "look"]
    /\ UNCHANGED <<balance, unconfirmed, queue, blocks, account, armed, completed, answers,
                   observers>>

notifier_looks ==
    /\ observer_action(Notifier, Head(queue))
    /\ queue' = Tail(queue)
    /\ UNCHANGED <<balance, unconfirmed, blocks>>

Threads ==
    \/ \E r \in Request : register(r) \/ handler_looks(r)
    \/ notify
    \/ notifier_looks
    \/ \E t \in Actor : observe(t) \/ complete(t, "success") \/ complete(t, "nothing") \/ erase(t)
    \/ \E r \in Request : timeout(r)

Next ==
    \/ \E r \in Request, a \in Account : payment_wait(r, a)
    \/ Threads
    \/ \E a \in Account : process(a) \/ process_confirmed(a)

Spec == Init /\ [][Next]_vars

-----------------------------------------------------------------------------
(***************************************************************************)
(* Properties                                                              *)
(***************************************************************************)

\* Types of the variables: the observer table, the threads' places and the
\* answers sent.
TypeOK ==
    /\ account \in [Request -> Account]
    /\ armed \in [Request -> BOOLEAN]
    /\ completed \in [Request -> BOOLEAN]
    /\ \A r \in Request : answers[r] \in BoundedSeq({"success", "nothing"}, 1)
    /\ observers \in [Account -> Request \cup {NoRequest}]
    /\ \A t \in Actor :
          /\ actor[t].at \in {"new", "register", "idle", "look", "observe", "success",
                              "nothing", "erase"}
          /\ actor[t].observer \in Request \cup {NoRequest}
    /\ balance \in [Account -> 0 .. 1]

\* The handler, the alarm and the block observers race to complete one
\* request, and it is never answered twice, since the HTTP response can be
\* written only once (payment_observer::complete).
AnsweredOnce == \A r \in Request : Len(answers[r]) <= 1

\* Every request is answered in the end whatever the ledger does, since the
\* alarm answers if nobody else did.
AllAnswered == \A r \in Asked : Answered(r)

Looks(a) ==
    \/ unconfirmed[a] > 0
    \/ \E i \in DOMAIN queue : queue[i] = a
    \/ \E r \in Request : account[r] = a /\ actor[Handler(r)].at \in {"register", "look"}
    \/ \E t \in Actor : /\ actor[t].at \in {"observe", "success"}
                        /\ account[actor[t].observer] = a

\* No payment is overlooked: while the only request for an account waits and the
\* account holds the amount, some thread is yet to look at that account for it or has
\* looked and is about to answer.  It rests on registering the observer before
\* the request's own look (payment_wait), so that a block falling between the
\* two is seen by one of them.
PaymentIsNoticed ==
    \A r \in Asked :
        (\A q \in Asked \ {r} : account[q] # account[r]) /\ ~completed[r] /\ balance[account[r]] >= 1
            => Looks(account[r])

=============================================================================
