----------------------- MODULE ProcessorQueueProofs -----------------------
(***************************************************************************)
(* flush of the block processor, for any number of blocks and callers and  *)
(* any size of a batch: whoever comes back from it finds what it queued in *)
(* the store.  A block that was added is in the queue, or in hand, or it   *)
(* or a competitor is in the ledger that the transaction shows; and while  *)
(* `active' is false that ledger is committed.                             *)
(***************************************************************************)
EXTENDS ProcessorQueue, SequenceTheorems, TLAPS

Hand == [block : Incoming, force : BOOLEAN]

Types ==
    /\ queued \in Seq(Incoming) /\ forced \in Seq(Fork)
    /\ added \subseteq Incoming
    /\ active \in BOOLEAN
    /\ thread = "one" => hand \in Hand /\ (hand.force => hand.block \in Fork)

Resting == {"top", "waiting", "ended"}

(* The blocks of a ledger hold the block or a competitor.                  *)
Settled(b, held) == ({b} \cup rivals(b)) \cap held # {}

Accounted == \A b \in added : \/ b \in Elements(queued)
                              \/ thread = "one" /\ ~hand.force /\ hand.block = b
                              \/ Settled(b, ledger)

Committed == /\ ~active => thread \in Resting
             /\ thread \in Resting \cup {"opening", "closing"} => stored = ledger

(* A caller waits only for blocks that were added.                         *)
Waiting == caller \in [Caller -> {"out", "top", "waiting"}] /\ before \in [Caller -> SUBSET added]

FlushInv == Types /\ Accounted /\ Committed /\ Waiting

-----------------------------------------------------------------------------
(* What is put in front of a queue is in it with all the others.           *)
LEMMA ElementsFront ==
    ASSUME NEW S, NEW s \in Seq(S), NEW e \in S
    PROVE  <<e>> \o s \in Seq(S) /\ Elements(<<e>> \o s) = {e} \cup Elements(s)
<1> DEFINE r == <<e>> \o s
<1>1. <<e>> \in Seq(S) /\ Len(<<e>>) = 1 /\ <<e>>[1] = e
  OBVIOUS
<1>2. /\ r \in Seq(S) /\ Len(r) = 1 + Len(s)
      /\ \A i \in 1..(1 + Len(s)) : r[i] = IF i <= 1 THEN e ELSE s[i - 1]
  BY <1>1, ConcatProperties
<1>3. DOMAIN r = 1..(1 + Len(s)) /\ DOMAIN s = 1..Len(s) /\ Len(s) \in Nat
  BY <1>2, LenProperties, Zenon
<1> HIDE DEF r
<1>4. \A x \in Elements(r) : x \in {e} \cup Elements(s)
  <2> SUFFICES ASSUME NEW i \in 1..(1 + Len(s)) PROVE r[i] \in {e} \cup Elements(s)
    BY <1>3, Zenon DEF Elements
  <2>1. CASE i <= 1
    BY <1>2, <2>1, Zenon
  <2>2. CASE i > 1
    <3>1. i - 1 \in DOMAIN s /\ r[i] = s[i - 1]
      BY <1>2, <1>3, <2>2
    <3> QED
      BY <3>1, Zenon DEF Elements
  <2> QED
    BY <2>1, <2>2
<1>5. e \in Elements(r)
  <2>1. 1 \in DOMAIN r /\ r[1] = e
    BY <1>2, <1>3
  <2> QED
    BY <2>1, Zenon DEF Elements
<1>6. \A x \in Elements(s) : x \in Elements(r)
  <2> SUFFICES ASSUME NEW i \in DOMAIN s PROVE s[i] \in Elements(r)
    BY Zenon DEF Elements
  <2>1. i + 1 \in DOMAIN r /\ r[i + 1] = s[i]
    BY <1>2, <1>3
  <2> QED
    BY <2>1, Zenon DEF Elements
<1> QED
  BY <1>2, <1>4, <1>5, <1>6, Zenon DEF r

(* What is taken from the front was the only thing that left the queue.    *)
LEMMA ElementsTaken ==
    ASSUME NEW S, NEW s \in Seq(S), s # <<>>
    PROVE  Head(s) \in S /\ Tail(s) \in Seq(S) /\ \A x \in Elements(s) : x = Head(s) \/ x \in Elements(Tail(s))
<1>1. Len(s) \in Nat \ {0} /\ DOMAIN s = 1..Len(s)
  BY EmptySeq, LenProperties, Zenon
<1>2. Head(s) \in S /\ Head(s) = s[1] /\ Tail(s) \in Seq(S) /\ Len(Tail(s)) = Len(s) - 1
  BY <1>1
<1>3. \A i \in 1..(Len(s) - 1) : Tail(s)[i] = s[i + 1]
  BY <1>1
<1>4. ASSUME NEW i \in DOMAIN s, i # 1 PROVE s[i] \in Elements(Tail(s))
  <2>1. i - 1 \in 1..(Len(s) - 1) /\ (i - 1) + 1 = i
    BY <1>1, <1>4
  <2>2. Tail(s)[i - 1] = s[i]
    BY <1>3, <2>1, Zenon
  <2>3. i - 1 \in DOMAIN Tail(s)
    BY <1>2, <2>1, LenProperties, Zenon
  <2> QED
    BY <2>2, <2>3, Zenon DEF Elements
<1> QED
  BY <1>2, <1>4, Zenon DEF Elements

(* A block that is settled stays so when another one is processed, and the *)
(* block that is processed is settled.                                     *)
LEMMA SettledKept ==
    ASSUME process_receive_one
    PROVE  /\ \A b \in Incoming : Settled(b, ledger) => Settled(b, ledger')
           /\ Settled(hand.block, ledger')
<1>1. ledger' = IF hand.force THEN (ledger \ rivals(hand.block)) \cup {hand.block}
                ELSE IF rivals(hand.block) \cap ledger # {} THEN ledger ELSE ledger \cup {hand.block}
  BY Zenon DEF process_receive_one
<1> QED
  BY <1>1, Zenon DEF Settled, rivals

-----------------------------------------------------------------------------
(* The processor starts with empty queues.                                 *)
LEMMA FlushInit == QueueInit => FlushInv
<1> SUFFICES ASSUME QueueInit PROVE FlushInv
  BY Zenon
<1>1. Types
  <2>1. queued \in Seq(Incoming) /\ forced \in Seq(Fork) /\ added \subseteq Incoming /\ thread # "one"
    BY DEF QueueInit
  <2>2. active \in BOOLEAN
    BY Zenon DEF QueueInit
  <2> QED
    BY <2>1, <2>2, Zenon DEF Types
<1>2. Accounted /\ Waiting
  BY Zenon DEF QueueInit, Accounted, Waiting
<1>3. Committed
  BY Zenon DEF QueueInit, Committed, Resting
<1> QED
  BY <1>1, <1>2, <1>3, Zenon DEF FlushInv

(* Every step of the processor and of its callers preserves the invariant. *)
LEMMA FlushStep == FlushInv /\ [ProcessorNext]_queue_vars => FlushInv'
<1> SUFFICES ASSUME FlushInv, [ProcessorNext]_queue_vars PROVE FlushInv'
  BY Zenon
<1> USE DEF FlushInv
<1>w. Woken("top") = "top" /\ \A p : Woken(p) = IF p = "waiting" THEN "top" ELSE p
  BY Zenon DEF Woken
<1>n. ASSUME notify_all, UNCHANGED <<hand, active, ledger, stored>>
      PROVE  /\ thread' = "one" <=> thread = "one"
             /\ Committed'
             /\ caller' \in [Caller -> {"out", "top", "waiting"}]
  BY <1>n, <1>w, Zenon DEF notify_all, Committed, Resting, Waiting
<1>a. ASSUME NEW b \in Incoming, add(b) PROVE FlushInv'
  <2>1. queued' = <<b>> \o queued /\ added' = added \cup {b} /\ notify_all
    BY <1>a, Zenon DEF add
  <2>2. UNCHANGED <<hand, active, ledger, stored, before, forced>>
    BY <1>a, Zenon DEF add, work
  <2>3. (thread' = "one" <=> thread = "one") /\ Committed' /\ caller' \in [Caller -> {"out", "top", "waiting"}]
    BY <2>1, <2>2, <1>n, Zenon
  <2>4. queued' \in Seq(Incoming) /\ Elements(queued') = {b} \cup Elements(queued)
    BY <2>1, ElementsFront, Zenon DEF Types
  <2>5. Types'
    BY <2>1, <2>2, <2>3, <2>4, Zenon DEF Types
  <2>6. Accounted'
    BY <2>1, <2>2, <2>3, <2>4, Zenon DEF Accounted, Settled, Elements
  <2> QED
    BY <2>1, <2>2, <2>3, <2>5, <2>6, Zenon DEF Waiting
<1>f. ASSUME NEW b \in Fork, force(b) PROVE FlushInv'
  <2>1. forced' = <<b>> \o forced /\ notify_all
    BY <1>f, Zenon DEF force
  <2>2. UNCHANGED <<hand, active, ledger, stored, before, queued, added>>
    BY <1>f, Zenon DEF force, work
  <2>3. (thread' = "one" <=> thread = "one") /\ Committed' /\ caller' \in [Caller -> {"out", "top", "waiting"}]
    BY <2>1, <2>2, <1>n, Zenon
  <2>4. forced' \in Seq(Fork)
    BY <2>1, ElementsFront, Zenon DEF Types
  <2> QED
    BY <2>2, <2>3, <2>4, Zenon DEF Types, Accounted, Settled, Waiting
<1>s. ASSUME stop PROVE FlushInv'
  <2>1. notify_all /\ UNCHANGED <<hand, active, ledger, stored, before, queued, added, forced>>
    BY <1>s, Zenon DEF stop, work, queues
  <2>2. (thread' = "one" <=> thread = "one") /\ Committed' /\ caller' \in [Caller -> {"out", "top", "waiting"}]
    BY <2>1, <1>n, Zenon
  <2> QED
    BY <2>1, <2>2, Zenon DEF Types, Accounted, Settled, Waiting
<1>b. ASSUME batch_begin PROVE FlushInv'
  BY <1>b, Zenon DEF batch_begin, queues, callers, Types, Accounted, Settled, Committed, Resting, Waiting
<1>i. ASSUME wait PROVE FlushInv'
  <2>1. Waiting'
    BY <1>i, Zenon DEF wait, queues, Waiting, Woken
  <2> QED
    BY <1>i, <2>1, Zenon DEF wait, queues, work, Types, Accounted, Settled, Committed, Resting
<1>e. ASSUME end PROVE FlushInv'
  BY <1>e, Zenon DEF end, queues, work, callers, Types, Accounted, Settled, Committed, Resting, Waiting
<1>o. ASSUME open PROVE FlushInv'
  BY <1>o, Zenon DEF open, queues, callers, Types, Accounted, Settled, Committed, Resting, Waiting
<1>t. ASSUME take PROVE FlushInv'
  <2>1. thread = "loop" /\ thread' = "one" /\ active = TRUE /\ UNCHANGED <<added, active, ledger, stored, caller, before>>
    BY <1>t, Zenon DEF take, callers, Committed, Resting, Types
  <2>2. Committed'
    BY <2>1, Zenon DEF Committed, Resting
  <2>3. CASE take_forced
    <3>1. Head(forced) \in Fork /\ forced' \in Seq(Fork) /\ queued' = queued
      BY <2>3, ElementsTaken, Zenon DEF take_forced, Types
    <3>2. hand' = [block |-> Head(forced), force |-> TRUE]
      BY <2>3, Zenon DEF take_forced
    <3>3. hand' \in Hand /\ hand'.block \in Fork /\ hand'.force
      BY <3>1, <3>2, ProcessorQueueValues, Zenon DEF Hand
    <3>4. Types'
      BY <2>1, <3>1, <3>3, Zenon DEF Types
    <3>5. Accounted'
      BY <2>1, <3>1, Zenon DEF Accounted, Settled
    <3> QED
      BY <2>1, <2>2, <3>4, <3>5, Zenon DEF Waiting
  <2>4. CASE take_queued
    <3>1. /\ Head(queued) \in Incoming /\ queued' \in Seq(Incoming) /\ forced' = forced
          /\ \A x \in Elements(queued) : x = Head(queued) \/ x \in Elements(queued')
      BY <2>4, ElementsTaken, Zenon DEF take_queued, Types
    <3>2. hand' = [block |-> Head(queued), force |-> FALSE]
      BY <2>4, Zenon DEF take_queued
    <3>3. hand' \in Hand /\ hand'.block = Head(queued) /\ ~hand'.force
      BY <3>1, <3>2, Zenon DEF Hand
    <3>4. Types'
      BY <2>1, <3>1, <3>3, Zenon DEF Types
    <3>5. Accounted'
      BY <2>1, <3>1, <3>3, Zenon DEF Accounted, Settled, Elements
    <3> QED
      BY <2>1, <2>2, <3>4, <3>5 DEF Waiting
  <2> QED
    BY <1>t, <2>3, <2>4, Zenon DEF take
<1>p. ASSUME process_receive_one PROVE FlushInv'
  <2>1. /\ thread = "one" /\ thread' = "loop" /\ active = TRUE
        /\ UNCHANGED <<queued, forced, added, active, stored, caller, before>>
    BY <1>p, Zenon DEF process_receive_one, queues, callers, Committed, Resting, Types
  <2>2. Types' /\ Committed'
    BY <2>1, Zenon DEF Types, Committed, Resting
  <2>3. Accounted'
    BY <1>p, <2>1, SettledKept, Zenon DEF Accounted, Types
  <2> QED
    BY <2>1, <2>2, <2>3, Zenon DEF Waiting
<1>c. ASSUME commit PROVE FlushInv'
  BY <1>c, Zenon DEF commit, queues, callers, Types, Accounted, Settled, Committed, Resting, Waiting
<1>d. ASSUME batch_end PROVE FlushInv'
  BY <1>d, Zenon DEF batch_end, queues, callers, Types, Accounted, Settled, Committed, Resting, Waiting
<1>u. ASSUME spurious PROVE FlushInv'
  <2>1. Waiting'
    BY <1>u, Zenon DEF spurious, queues, Waiting
  <2> QED
    BY <1>u, <2>1, Zenon DEF spurious, queues, work, Types, Accounted, Settled, Committed, Resting
<1>l. ASSUME NEW c \in Caller, flush(c) \/ flushing(c) PROVE FlushInv'
  <2>1. UNCHANGED <<queues, work, thread>>
    BY <1>l, Zenon DEF flush, flushing, flush_wait, flush_return
  <2>2. Waiting'
    BY <1>l, <2>1, Zenon DEF flush, flushing, flush_wait, flush_return, Waiting, queues
  <2> QED
    BY <2>1, <2>2, Zenon DEF queues, work, Types, Accounted, Settled, Committed
<1>v. CASE UNCHANGED queue_vars
  BY <1>v, Zenon DEF queue_vars, queues, work, callers, Types, Accounted, Settled, Committed, Waiting
<1> QED
  BY <1>a, <1>f, <1>s, <1>b, <1>i, <1>e, <1>o, <1>t, <1>p, <1>c, <1>d, <1>u, <1>l, <1>v
 , Zenon DEF ProcessorNext, QueueNext, process_blocks

(* Where every block that was added is, in every state.                    *)
THEOREM FlushInvariant == QueueSpec => []FlushInv
<1> QED
  BY FlushInit, FlushStep, PTL DEF QueueSpec

(* Someone who comes back from flush finds every block that was queued     *)
(* before the call, or a competitor of it, in the committed store, unless  *)
(* the processor was stopped.                                              *)
THEOREM FlushStores == QueueSpec => FlushedIsStored
<1> DEFINE A == \A c \in DOMAIN caller : caller[c] # "out" /\ caller'[c] = "out" =>
                    stopped \/ \A b \in before[c] : ({b} \cup rivals(b)) \cap stored # {}
<1>1. FlushInv /\ [ProcessorNext]_queue_vars => [A]_queue_vars
  <2>0. FlushInv => DOMAIN caller = Caller
    BY Zenon DEF FlushInv, Waiting
  <2> SUFFICES ASSUME FlushInv, ProcessorNext, NEW c \in Caller, caller[c] # "out", caller'[c] = "out", ~stopped,
                      NEW b \in before[c]
               PROVE  ({b} \cup rivals(b)) \cap stored # {}
    BY <2>0, Zenon
  <2>1. flush_return(c)
    <3>1. ~notify_all /\ ~wait /\ ~spurious
      BY Zenon DEF FlushInv, Waiting, notify_all, wait, spurious, Woken
    <3>2. ~UNCHANGED caller
      BY Zenon
    <3>3. ~process_blocks
      BY <3>1, <3>2, Zenon DEF process_blocks, batch_begin, end, open, take, process_receive_one, commit, batch_end, callers
    <3>4. PICK d \in Caller : flush(d) \/ flush_wait(d) \/ flush_return(d)
      BY <3>1, <3>3, Zenon DEF ProcessorNext, QueueNext, add, force, stop, flushing
    <3> QED
      BY <3>4, Zenon DEF FlushInv, Waiting, flush, flush_wait, flush_return
  <2>2. queued = <<>> /\ ~active
    BY <2>1, Zenon DEF flush_return, busy
  <2>3. thread \in Resting /\ stored = ledger
    BY <2>2, Zenon DEF FlushInv, Committed
  <2>4. b \in added /\ Elements(queued) = {}
    BY <2>2 DEF FlushInv, Elements, Waiting
  <2>5. Settled(b, ledger)
    BY <2>3, <2>4, Zenon DEF FlushInv, Accounted, Resting
  <2> QED
    BY <2>3, <2>5, Zenon DEF Settled
<1> QED
  BY <1>1, FlushInvariant, PTL DEF QueueSpec, FlushedIsStored

=============================================================================
