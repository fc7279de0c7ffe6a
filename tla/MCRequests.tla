----------------------------- MODULE MCRequests -----------------------------
(***************************************************************************)
(* What the users of a node ask of it.  A behaviour is one of the parts of *)
(* MCStorage, or one of nine: the work pool, whose constants the           *)
(* configuration gives ("pool"), and one with an OpenCL device ("opencl"); *)
(* work asked of peers ("peers"); the alarm ("alarm"); a client that waits *)
(* for a payment and asks again once it was answered ("payment"); a        *)
(* request of the RPC server ("rpc"); the wallet's actions while nobody    *)
(* else writes to the account ("wallet"), with rollbacks, forced winners,  *)
(* a stop and a crash between repeated requests ("ids"), and with blocks   *)
(* of another wallet with the same key too ("foreign").  All but the first *)
(* keep their variables in s1, s2, ..., and WorkPool's variables then stay *)
(* as they are.                                                            *)
(***************************************************************************)
EXTENDS WorkPool, MCStorage

all == <<part, vars, slots>>

-----------------------------------------------------------------------------
Device == INSTANCE WorkPool WITH
    Opencl <- TRUE, MaxRequests <- 2,
    count <- s1, root <- s2, kind <- s3, pending <- s4, ticket <- s5, done <- s6, at <- s7,
    current <- s8, seen <- s9, found <- s10, answers <- s11, work <- s12, cancels <- s13
Peers == INSTANCE DistributedWork WITH
    Host <- {1, 2}, Address <- {1, 2, 3}, MaxBackoff <- 5,
    local <- s1, need_resolve <- s2, outstanding <- s3, replies <- s4, phase <- s5,
    completed <- s6, backoff <- s7, delivered <- s8
Alarm == INSTANCE Alarm WITH
    Operation <- {"o1", "o2"}, MaxTime <- 3,
    now <- s1, operations <- s2, thread <- s3, deadline <- s4, woken <- s5, posted <- s6,
    closed <- s7
Payment == INSTANCE PaymentWait WITH
    Request <- {1, 2}, NoRequest <- 0, Account <- {1}, MaxBlocks <- 3,
    account <- s1, armed <- s2, completed <- s3, answers <- s4, observers <- s5, actor <- s6,
    balance <- s7, unconfirmed <- s8, queue <- s9, blocks <- s10
Rpc == INSTANCE RpcServer WITH
    MaxElement <- 2,
    listening <- s1, control <- s2, phase <- s3, action <- s4, todo <- s5, elements <- s6,
    answers <- s7, res <- s8, effects <- s9, written <- s10
Wallet == INSTANCE WalletActions WITH
    Id <- {"i1", "i2"}, Receivable <- {"r1", "r2"}, Large <- {"r1"}, Balance <- 2,
    MaxRequests <- 4, MaxForeign <- 0, MaxRollbacks <- 0, MaxCrashes <- 0, MayStop <- FALSE,
    actions <- s1, current <- s2, stage <- s3, block <- s4, head <- s5, send_action_ids <- s6,
    work <- s7, blocks <- s8, active <- s9, known <- s10, processor_stopped <- s11, stopped <- s12,
    rejected <- s13, answered <- s14, resent <- s15, restored <- s16, requests <- s17,
    foreigns <- s18, rollbacks <- s19, crashes <- s20
Ids == INSTANCE WalletActions WITH
    Id <- {"i1", "i2"}, Receivable <- {}, Large <- {}, Balance <- 3,
    MaxRequests <- 3, MaxForeign <- 0, MaxRollbacks <- 2, MaxCrashes <- 1, MayStop <- TRUE,
    actions <- s1, current <- s2, stage <- s3, block <- s4, head <- s5, send_action_ids <- s6,
    work <- s7, blocks <- s8, active <- s9, known <- s10, processor_stopped <- s11, stopped <- s12,
    rejected <- s13, answered <- s14, resent <- s15, restored <- s16, requests <- s17,
    foreigns <- s18, rollbacks <- s19, crashes <- s20
Foreign == INSTANCE WalletActions WITH
    Id <- {"i1", "i2"}, Receivable <- {}, Large <- {}, Balance <- 3,
    MaxRequests <- 2, MaxForeign <- 1, MaxRollbacks <- 1, MaxCrashes <- 1, MayStop <- FALSE,
    actions <- s1, current <- s2, stage <- s3, block <- s4, head <- s5, send_action_ids <- s6,
    work <- s7, blocks <- s8, active <- s9, known <- s10, processor_stopped <- s11, stopped <- s12,
    rejected <- s13, answered <- s14, resent <- s15, restored <- s16, requests <- s17,
    foreigns <- s18, rollbacks <- s19, crashes <- s20

-----------------------------------------------------------------------------
MCInit ==
    /\ Init
    /\ \/ part = "pool" /\ IdleSlots
       \/ part = "opencl" /\ Device!Init /\ Idle14
       \/ part = "peers" /\ Peers!Init /\ Idle9
       \/ part = "alarm" /\ Alarm!Init /\ Idle8
       \/ part = "payment" /\ Payment!Init /\ Idle11
       \/ part = "rpc" /\ Rpc!Init /\ Idle11
       \/ part = "wallet" /\ Wallet!Init
       \/ part = "ids" /\ Ids!Init
       \/ part = "foreign" /\ Foreign!Init
       \/ StorageInit
MCNext ==
    \/ part = "pool" /\ Next /\ UNCHANGED <<part, slots>>
    \/ part = "opencl" /\ Device!Next /\ UNCHANGED <<part, vars, from14>>
    \/ part = "peers" /\ Peers!Next /\ UNCHANGED <<part, vars, from9>>
    \/ part = "alarm" /\ Alarm!Next /\ UNCHANGED <<part, vars, from8>>
    \/ part = "payment" /\ Payment!Next /\ UNCHANGED <<part, vars, from11>>
    \/ part = "rpc" /\ Rpc!Next /\ UNCHANGED <<part, vars, from11>>
    \/ part = "wallet" /\ Wallet!Next /\ UNCHANGED <<part, vars>>
    \/ part = "ids" /\ Ids!Next /\ UNCHANGED <<part, vars>>
    \/ part = "foreign" /\ Foreign!Next /\ UNCHANGED <<part, vars>>
    \/ StorageNext /\ UNCHANGED vars

RpcSpec ==
    /\ Init /\ part = "rpc" /\ Rpc!Init /\ Idle11
    /\ [][Rpc!Next /\ UNCHANGED <<part, vars, from11>>]_all

PaymentThread(t) ==
    \/ Payment!observe(t) \/ Payment!complete(t, "success") \/ Payment!complete(t, "nothing")
    \/ Payment!erase(t)
    \/ \E r \in {1, 2} : /\ t = Payment!Handler(r)
                         /\ Payment!register(r) \/ Payment!handler_looks(r)
    \/ \E r \in {1, 2} : t = Payment!Timer(r) /\ Payment!timeout(r)

\* Every thread is scheduled.  A thread of the work pool finds work in the end,
\* the clock runs and an alarm that is armed fires, and the work pool, the
\* wallet's thread and the alarm call back the handler that left them its answer.
MCSpec ==
    /\ MCInit /\ [][MCNext]_all
    /\ \A t \in Thread : /\ WF_vars(part = "pool" /\ step(t))
                         /\ WF_(Device!vars)(part = "opencl" /\ Device!step(t))
    /\ WF_(Alarm!vars)(part = "alarm" /\ Alarm!tick)
    /\ WF_(Alarm!vars)(part = "alarm" /\ (Alarm!run \/ (Alarm!wakes /\ Alarm!resume)))
    /\ \A t \in Payment!Actor : WF_(Payment!vars)(part = "payment" /\ PaymentThread(t))
    /\ WF_(Rpc!vars)(part = "rpc" /\ (Rpc!Handle \/ Rpc!callback))
    /\ WF_(Wallet!vars)(part = "wallet" /\ Wallet!ThreadStep)
    /\ WF_(Wallet!vars)(part = "wallet" /\ Wallet!Processor)

-----------------------------------------------------------------------------
\* No answer is given twice, and none that is wrong.  work_pool: a request is
\* with one thread at most, and gets work for its own root.  distributed_work:
\* peers, pool and retries exclude each other.  payment_wait: handler, alarm and
\* block observers race for one answer.  RPC handlers: a second answer comes only
\* after an error and never replaces it, a request that was answered with an
\* error has changed nothing but what is listed, and without enable_control none
\* changes a wallet or the node.
AnswersAreRight ==
    /\ part = "pool" => TypeOK /\ AnsweredOnce /\ WorkIsForRoot
    /\ part = "opencl" => Device!TypeOK /\ Device!AnsweredOnce /\ Device!WorkIsForRoot
    /\ part = "peers" => Peers!TypeOK /\ Peers!DeliveredOnce
    /\ part = "payment" => Payment!TypeOK /\ Payment!AnsweredOnce
    /\ part = "rpc" => /\ Rpc!TypeOK /\ Rpc!OthersRespondOnce /\ Rpc!FirstAnswerStands
                      /\ Rpc!ErrorChangesNothing /\ Rpc!ControlIsNeeded

\* Nobody sleeps on something to do.  The alarm's thread wakes up for the
\* earliest operation, posts in order and before it ends; work that nobody
\* delivered yet is in somebody's hands; a payment is seen by some thread.
NothingIsOverlooked ==
    /\ [](part = "alarm" => Alarm!TypeOK /\ Alarm!WakesInTime /\ Alarm!EndsAfterDue)
    /\ [][part = "alarm" => Alarm!PostedInOrder]_all
    /\ [](part = "peers" => Peers!SomebodyWorks)
    /\ [](part = "payment" => Payment!PaymentIsNoticed)

\* Every request of work is answered, also those that wait when the pool stops,
\* and the threads of a stopped pool end; an operation whose time has come is
\* posted, and the alarm's thread ends after the destructor was called; a payment
\* that is waited for is answered, at the latest by the alarm; a handler of the
\* RPC server answers, except the three that README names; and the callback of
\* every wallet action is called.
AllAreAnswered ==
    (\/ part = "pool" /\ (done \/ \E i \in 1..count : answers[i] = 0)
     \/ part = "opencl" /\ (s6 \/ \E i \in 1..s1 : s11[i] = 0)
     \/ part = "alarm" /\ (s7 # Alarm!Never \/ \E o \in s2 : o.wakeup <= s1)
     \/ part = "payment" /\ ~Payment!AllAnswered
     \/ part = "rpc" /\ s3 = "running"
            /\ s4 \notin {"search_pending", "account_representative_set", "accounts_create"}
     \/ part = "wallet" /\ s14 # s17)
    ~> (\/ part = "pool" /\ (\A i \in 1..count : answers[i] > 0)
               /\ (done => \A t \in Thread : at[t] = "exit")
        \/ part = "opencl" /\ (\A i \in 1..s1 : s11[i] > 0) /\ (s6 => \A t \in Thread : s7[t] = "exit")
        \/ part = "alarm" /\ (s3 = "done" \/ (s7 = Alarm!Never /\ \A o \in s2 : o.wakeup > s1))
        \/ part = "payment" /\ Payment!AllAnswered
        \/ part = "rpc" /\ s7 # <<>>
        \/ part = "wallet" /\ s14 = s17)

\* The assertion of response and write_result, "RPC already responded and should
\* only respond once".
RespondsOnce == part = "rpc" => Rpc!RespondsOnce

\* send_action (tests send_idempotent, send_race): requests with one id, repeated
\* after any crash, stop, fork or rollback, add up to one send at most, until an
\* election puts back a block of the wallet after an id was sent again: the table
\* keeps the last block of an id only.  While nobody else writes to the account,
\* the ledger takes every block the wallet makes, and the cached work is for the
\* head when the thread is done; the work of an added block is always for its root.
OneSendForAnId ==
    /\ part = "ids" => Ids!TypeOK /\ Ids!OneSendForAnId /\ Ids!AddedWorkIsValid
    /\ part = "foreign" => Foreign!TypeOK /\ Foreign!OneSendForAnId /\ Foreign!AddedWorkIsValid
    /\ part = "wallet" => /\ Wallet!TypeOK /\ Wallet!OneSendForAnId /\ Wallet!AddedWorkIsValid
                         /\ Wallet!BlocksAreTaken /\ Wallet!WorkIsReady
=============================================================================
