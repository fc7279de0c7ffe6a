--------------------------- MODULE NetworkProofs ---------------------------
(***************************************************************************)
(* The safety of the UDP side, for any number of threads, packets and      *)
(* blocks.  The chain of receives is one token that is a receive, a        *)
(* completion, an alarm or a running handler; from it follows that the     *)
(* buffer holds the packet of the completion or of the handler that has    *)
(* still to parse it, and from that the order of a block and its vote.     *)
(***************************************************************************)
EXTENDS Network, FiniteSetTheorems, SequenceTheorems, TLAPS

Completion == [error : BOOLEAN, packet : Packet \cup {Nothing}]

Types == /\ on \in BOOLEAN /\ open \in BOOLEAN
         /\ receives \in Nat /\ timers \in Nat
         /\ completions \in Seq(Completion)
         /\ buffer \in Packet \cup {Nothing}
         /\ handler \in [Thread -> [pc : {"idle", "parse", "vote", "answer", "receive"}, packet : Packet \cup {Nothing}]]

(* The token is in one place, and while the network is on it is somewhere. *)
Token == /\ receives + Len(completions) + timers <= 1
         /\ \A t, u \in Thread : handler[t].pc # "idle" /\ handler[u].pc # "idle" => t = u
         /\ \A t \in Thread : handler[t].pc # "idle" => receives + Len(completions) + timers = 0
         /\ on => receives + Len(completions) + timers = 1 \/ \E t \in Thread : handler[t].pc # "idle"

(* The buffer belongs to the completion that no thread has taken, and then *)
(* to the handler until it has parsed it.                                  *)
Buffered == /\ \A i \in DOMAIN completions : ~completions[i].error => completions[i].packet = buffer
            /\ ParsesItsPacket

(* The block of a vote has arrived when the visitor goes on to the vote.   *)
Ordered == /\ \A t \in Thread : handler[t].pc = "vote" => handler[t].packet.block \in arrival
           /\ VotedBlockArrived

(* The ledger has one block at a root, and a block that was confirmed is   *)
(* still there unless a forced winner has put it out.                      *)
Answers == /\ \A b, c \in ledger : root[b] = root[c] => b = c
           /\ acks \subseteq ledger \cup replaced

NetworkInv == Types /\ Token /\ Buffered /\ Ordered

-----------------------------------------------------------------------------
(* An answer is a block of the ledger at that root.  Of two blocks with    *)
(* one root the ledger takes the first, and a forced block only in the     *)
(* place of the one that is put out.                                       *)
THEOREM AnswersInvariant == Spec => []Answers
<1>1. Init => Answers
  BY Zenon DEF Init, Answers
<1>2. Answers /\ [Next]_vars => Answers'
  <2> SUFFICES ASSUME Answers, [Next]_vars PROVE Answers'
    BY Zenon
  <2>1. CASE \E t \in Thread : confirm_req(t)
    BY <2>1, Zenon DEF confirm_req, successor, Answers
  <2>2. CASE \E b \in Block : process(b)
    BY <2>2, Zenon DEF process, successor, Answers
  <2>3. ASSUME NEW b \in Block, force(b)
        PROVE  Answers'
    <3>1. PICK dependent \in SUBSET ledger, stored \in SUBSET {b} :
             LET gone == IF successor(b) \subseteq {b} THEN {} ELSE successor(b) \cup dependent
             IN  /\ ledger' = (ledger \ gone) \cup (IF successor(b) = {b} THEN {b} ELSE stored)
                 /\ replaced' = replaced \cup gone
      BY <2>3, Zenon DEF force
    <3> DEFINE gone == IF successor(b) \subseteq {b} THEN {} ELSE successor(b) \cup dependent
    <3>2. ledger' \subseteq (ledger \ gone) \cup {b}
      BY <3>1, Zenon
    <3>3. \A c \in ledger \ gone : root[c] = root[b] => c = b
      BY Zenon DEF successor
    <3>4. ledger \cup replaced \subseteq ledger' \cup replaced'
      BY <3>1, Zenon
    <3>5. acks' = acks
      BY <2>3, Zenon DEF force
    <3> HIDE DEF gone
    <3> QED
      BY <3>2, <3>3, <3>4, <3>5, Zenon DEF Answers
  <2>4. CASE UNCHANGED <<ledger, replaced, acks>>
    BY <2>4, Zenon DEF Answers
  <2>5. CASE UNCHANGED vars
    BY <2>4, <2>5, Zenon DEF vars, effects
  <2>6. ASSUME NEW t \in Thread, receive_action(t) \/ visit(t) \/ confirm_ack(t) \/ receive_again(t)
        PROVE  UNCHANGED <<ledger, replaced, acks>>
    BY <2>6, Zenon DEF receive_action, visit, confirm_ack, receive_again, effects
  <2>7. CASE fail \/ alarm \/ stop \/ close \/ \E p \in Packet : deliver(p)
    BY <2>4, <2>7, Zenon DEF fail, alarm, stop, close, deliver, effects
  <2> QED
    BY <2>1, <2>2, <2>3, <2>4, <2>5, <2>6, <2>7, Zenon DEF Next, Handler
<1> QED
  BY <1>1, <1>2, PTL DEF Spec

(* Whoever asks, and whatever blocks compete, the node confirms a second   *)
(* block with one root only when a forced winner has put one of the two    *)
(* out of the ledger (confirm_req answers with ledger::successor).         *)
THEOREM AnswersAgreeAlways == Spec => []AnswersAgree
<1>1. Answers => AnswersAgree
  BY Zenon DEF Answers, AnswersAgree
<1> QED
  BY <1>1, AnswersInvariant, PTL

-----------------------------------------------------------------------------
(* The network starts with one receive and no handler.                     *)
LEMMA InitInv == Init => NetworkInv
<1> SUFFICES ASSUME Init PROVE NetworkInv
  BY Zenon
<1>1. Idle \in [pc : {"idle", "parse", "vote", "answer", "receive"}, packet : Packet \cup {Nothing}]
  BY Zenon DEF Idle
<1>2. Types
  BY <1>1 DEF Init, Types
<1>3. \A t \in Thread : handler[t].pc = "idle"
  BY Zenon DEF Init, Idle
<1>4. Len(completions) = 0
  BY Zenon DEF Init
<1>5. Token
  BY <1>2, <1>3, <1>4 DEF Init, Types, Token
<1>6. Buffered /\ Ordered
  BY <1>3 DEF Init, Buffered, ParsesItsPacket, Ordered, VotedBlockArrived
<1> QED
  BY <1>2, <1>5, <1>6, Zenon DEF NetworkInv

(* What `receive' does to the token: a receive or a completion is there    *)
(* that was not, and a new completion is an error.                         *)
LEMMA ReceiveAddsOne ==
    ASSUME Types, Len(completions) = 0, receive(completions)
    PROVE  /\ receives' \in Nat /\ completions' \in Seq(Completion)
           /\ receives' + Len(completions') = receives + 1
           /\ \A i \in DOMAIN completions' : completions'[i].error
<1> DEFINE e == [error |-> TRUE, packet |-> Nothing]
<1>1. e \in Completion
  BY Zenon DEF Completion
<1> HIDE DEF e
<1>2. CASE open
  BY <1>2 DEF receive, Types
<1>3. CASE ~open
  <2>1. receives' = receives /\ completions' = Append(completions, e)
    BY <1>3, Zenon DEF receive, e
  <2>2. completions' \in Seq(Completion) /\ Len(completions') = 1 /\ completions'[1] = e
    BY <2>1, <1>1 DEF Types
  <2>3. DOMAIN completions' = 1..1
    BY <2>2
  <2>4. e.error
    BY Zenon DEF e
  <2> QED
    BY <2>1, <2>2, <2>3, <2>4 DEF Types
<1> QED
  BY <1>2, <1>3, Zenon

(* One step per action of the network preserves the invariant.             *)
LEMMA StepInv == NetworkInv /\ [Next]_vars => NetworkInv'
<1> SUFFICES ASSUME NetworkInv, [Next]_vars PROVE NetworkInv'
  OBVIOUS
<1> USE DEF NetworkInv
<1>d. ASSUME NEW p \in Packet, deliver(p) PROVE NetworkInv'
  <2>1. receives = 1 /\ Len(completions) = 0 /\ timers = 0
    BY <1>d DEF deliver, Token, Types
  <2>2. \A t \in Thread : handler[t].pc = "idle"
    BY <2>1 DEF Token
  <2> DEFINE c == [error |-> FALSE, packet |-> p]
  <2>3. c \in Completion
    BY Zenon DEF Completion
  <2>4. completions' = Append(completions, c) /\ receives' = 0
    BY <1>d, <2>1 DEF deliver
  <2>5. c.packet = p
    BY Zenon
  <2> HIDE DEF c
  <2>6. completions' \in Seq(Completion) /\ Len(completions') = 1 /\ completions'[1] = c /\ DOMAIN completions' = 1..1
    BY <2>1, <2>3, <2>4 DEF Types
  <2>7. Types'
    BY <1>d, <2>4, <2>6 DEF deliver, Types
  <2>8. Token'
    BY <1>d, <2>1, <2>2, <2>4, <2>6 DEF deliver, Token
  <2>9. Buffered'
    BY <1>d, <2>2, <2>5, <2>6 DEF deliver, Buffered, ParsesItsPacket
  <2>10. Ordered'
    BY <1>d, Zenon DEF deliver, effects, Ordered, VotedBlockArrived
  <2> QED
    BY <2>7, <2>8, <2>9, <2>10, Zenon
<1>f. ASSUME fail PROVE NetworkInv'
  <2>1. receives = 1 /\ Len(completions) = 0 /\ timers = 0
    BY <1>f DEF fail, Token, Types
  <2>2. \A t \in Thread : handler[t].pc = "idle"
    BY <2>1 DEF Token
  <2> DEFINE c == [error |-> TRUE, packet |-> Nothing]
  <2>3. c \in Completion /\ c.error
    BY Zenon DEF Completion
  <2>4. completions' = Append(completions, c) /\ receives' = 0
    BY <1>f, <2>1 DEF fail
  <2> HIDE DEF c
  <2>6. completions' \in Seq(Completion) /\ Len(completions') = 1 /\ completions'[1] = c /\ DOMAIN completions' = 1..1
    BY <2>1, <2>3, <2>4 DEF Types
  <2>7. Types'
    BY <1>f, <2>4, <2>6 DEF fail, Types
  <2>8. Token'
    BY <1>f, <2>1, <2>2, <2>4, <2>6 DEF fail, Token
  <2>9. Buffered'
    BY <1>f, <2>2, <2>3, <2>6 DEF fail, Buffered, ParsesItsPacket
  <2>10. Ordered'
    BY <1>f, Zenon DEF fail, effects, Ordered, VotedBlockArrived
  <2> QED
    BY <2>7, <2>8, <2>9, <2>10, Zenon
<1>r. ASSUME NEW t \in Thread, receive_action(t) PROVE NetworkInv'
  <2> DEFINE c == Head(completions)
             h == [pc |-> "parse", packet |-> c.packet]
  <2>1. completions # <<>> /\ Len(completions) = 1 /\ receives = 0 /\ timers = 0
    <3>1. completions # <<>> /\ completions \in Seq(Completion) /\ receives \in Nat /\ timers \in Nat
      BY <1>r, Zenon DEF receive_action, Types
    <3>2. Len(completions) \in Nat /\ Len(completions) # 0
      BY <3>1
    <3>3. receives + Len(completions) + timers <= 1
      BY Zenon DEF Token
    <3> DEFINE k == Len(completions)
    <3> HIDE DEF k
    <3>4. receives \in Nat /\ timers \in Nat /\ k \in Nat /\ k # 0 /\ receives + k + timers <= 1
      BY <3>1, <3>2, <3>3, Zenon DEF k
    <3>5. k = 1 /\ receives = 0 /\ timers = 0
      BY <3>4
    <3> QED
      BY <3>1, <3>5, Zenon DEF k
  <2>2. \A u \in Thread : handler[u].pc = "idle"
    BY <2>1 DEF Token
  <2>3. c = completions[1] /\ c \in Completion /\ 1 \in DOMAIN completions
    BY <2>1 DEF Types
  <2>4. completions' = Tail(completions) /\ completions' \in Seq(Completion) /\ Len(completions') = 0
    BY <1>r, <2>1 DEF receive_action, Types
  <2>5. c.error \in BOOLEAN /\ c.packet \in Packet \cup {Nothing}
    BY <2>3, Zenon DEF Completion
  <2>6. ~c.error => c.packet = buffer
    BY <2>3, Zenon DEF Buffered
  <2>7. CASE ~c.error /\ on
    <3>1. handler' = [handler EXCEPT ![t] = h] /\ timers' = 0
      BY <1>r, <2>1, <2>7, Zenon DEF receive_action
    <3>2. h \in [pc : {"idle", "parse", "vote", "answer", "receive"}, packet : Packet \cup {Nothing}]
      BY <2>5, Zenon
    <3>3. h.pc = "parse" /\ h.packet = buffer
      BY <2>6, <2>7, Zenon
    <3> HIDE DEF h, c
    <3>4. Types'
      BY <1>r, <2>1, <2>4, <3>1, <3>2, Zenon DEF receive_action, Types
    <3>5. handler'[t] = h /\ \A u \in Thread \ {t} : handler'[u] = handler[u]
      BY <3>1, Zenon DEF Types
    <3>6. Token'
      BY <1>r, <2>1, <2>2, <2>4, <3>1, <3>3, <3>5 DEF receive_action, Token
    <3>7. Buffered'
      BY <1>r, <2>2, <2>4, <3>3, <3>5 DEF receive_action, Buffered, ParsesItsPacket
    <3>8. Ordered'
      BY <1>r, <2>2, <3>3, <3>5, Zenon DEF receive_action, effects, Ordered, VotedBlockArrived
    <3> QED
      BY <3>4, <3>6, <3>7, <3>8, Zenon
  <2>8. CASE ~(~c.error /\ on)
    <3>1. handler' = handler /\ timers' = (IF on THEN 1 ELSE 0)
      BY <1>r, <2>1, <2>8 DEF receive_action
    <3> HIDE DEF h, c
    <3>2. Types'
      BY <1>r, <2>4, <3>1, Zenon DEF receive_action, Types
    <3>3. Token'
      BY <1>r, <2>1, <2>2, <2>4, <3>1 DEF receive_action, Token, Types
    <3>4. Buffered' /\ Ordered'
      BY <1>r, <2>2, <2>4, <3>1 DEF receive_action, effects, Buffered, ParsesItsPacket, Ordered, VotedBlockArrived
    <3> QED
      BY <3>2, <3>3, <3>4, Zenon
  <2> QED
    BY <2>7, <2>8, Zenon
<1>v. ASSUME NEW t \in Thread, visit(t) PROVE NetworkInv'
  <2> DEFINE q == IF buffer.sender = "peer" /\ buffer.kind # "bad" /\ buffer.kind = "confirm_ack" THEN "vote"
                  ELSE IF buffer.sender = "peer" /\ buffer.kind # "bad" /\ buffer.kind = "confirm_req" THEN "answer" ELSE "receive"
  <2>1. handler' = [handler EXCEPT ![t].pc = q]
    BY <1>v, Zenon DEF visit
  <2>2. handler'[t].pc = q /\ handler'[t].packet = handler[t].packet
    BY <2>1, Zenon DEF Types
  <2>3. \A u \in Thread \ {t} : handler'[u] = handler[u]
    BY <2>1, Zenon DEF Types
  <2>4. q \in {"vote", "answer", "receive"}
    BY Zenon
  <2>5. q = "vote" => buffer.block \in arrival'
    BY <1>v, Zenon DEF visit, process_active
  <2>6. arrival \subseteq arrival'
    BY <1>v, Zenon DEF visit, process_active
  <2>7. handler[t].packet = buffer /\ handler[t].pc = "parse"
    BY <1>v, Zenon DEF visit, Buffered, ParsesItsPacket
  <2> HIDE DEF q
  <2>8. Types'
    BY <1>v, <2>1, <2>4 DEF visit, loop, Types
  <2>9. Token'
    BY <1>v, <2>2, <2>3, <2>4, <2>7 DEF visit, loop, Token
  <2>10. Buffered'
    BY <1>v, <2>2, <2>3, <2>4, Zenon DEF visit, loop, Buffered, ParsesItsPacket
  <2>11. Ordered'
    BY <1>v, <2>2, <2>3, <2>5, <2>6, <2>7, Zenon DEF visit, Ordered, VotedBlockArrived
  <2> QED
    BY <2>8, <2>9, <2>10, <2>11
<1>k. ASSUME NEW t \in Thread, confirm_ack(t) PROVE NetworkInv'
  <2>1. handler' = [handler EXCEPT ![t].pc = "receive"] /\ handler[t].pc = "vote"
    BY <1>k, Zenon DEF confirm_ack
  <2>2. handler'[t].pc = "receive" /\ \A u \in Thread \ {t} : handler'[u] = handler[u]
    BY <2>1, Zenon DEF Types
  <2>3. Types'
    BY <1>k, <2>1, Zenon DEF confirm_ack, loop, Types
  <2>4. Token'
    BY <1>k, <2>1, <2>2 DEF confirm_ack, loop, Token
  <2>5. Buffered'
    BY <1>k, <2>2, Zenon DEF confirm_ack, loop, Buffered, ParsesItsPacket
  <2>6. Ordered'
    BY <1>k, <2>1, <2>2, Zenon DEF confirm_ack, Ordered, VotedBlockArrived
  <2> QED
    BY <2>3, <2>4, <2>5, <2>6
<1>q. ASSUME NEW t \in Thread, confirm_req(t) PROVE NetworkInv'
  <2>1. handler' = [handler EXCEPT ![t].pc = "receive"] /\ handler[t].pc = "answer"
    BY <1>q, Zenon DEF confirm_req
  <2>2. handler'[t].pc = "receive" /\ \A u \in Thread \ {t} : handler'[u] = handler[u]
    BY <2>1, Zenon DEF Types
  <2>3. Types'
    BY <1>q, <2>1, Zenon DEF confirm_req, loop, Types
  <2>4. Token'
    BY <1>q, <2>1, <2>2 DEF confirm_req, loop, Token
  <2>5. Buffered'
    BY <1>q, <2>2, Zenon DEF confirm_req, loop, Buffered, ParsesItsPacket
  <2>6. Ordered'
    BY <1>q, <2>1, <2>2, Zenon DEF confirm_req, Ordered, VotedBlockArrived
  <2> QED
    BY <2>3, <2>4, <2>5, <2>6
<1>g. ASSUME NEW t \in Thread, receive_again(t) PROVE NetworkInv'
  <2>1. handler[t].pc = "receive" /\ handler' = [handler EXCEPT ![t] = Idle] /\ receive(completions)
    BY <1>g, Zenon DEF receive_again
  <2>2. Len(completions) = 0 /\ receives = 0 /\ timers = 0
    BY <2>1 DEF Token, Types
  <2>3. \A u \in Thread : handler'[u].pc = "idle"
    <3>1. \A u \in Thread \ {t} : handler[u].pc = "idle"
      BY <2>1, Zenon DEF Token
    <3>2. handler'[t] = Idle /\ \A u \in Thread \ {t} : handler'[u] = handler[u]
      BY <2>1, Zenon DEF Types
    <3> QED
      BY <3>1, <3>2 DEF Idle
  <2>4. /\ receives' \in Nat /\ completions' \in Seq(Completion)
        /\ receives' + Len(completions') = 1
        /\ \A i \in DOMAIN completions' : completions'[i].error
    BY <2>1, <2>2, ReceiveAddsOne
  <2>5. Idle \in [pc : {"idle", "parse", "vote", "answer", "receive"}, packet : Packet \cup {Nothing}]
    BY Zenon DEF Idle
  <2>6. Types'
    BY <1>g, <2>1, <2>4, <2>5, Zenon DEF receive_again, Types
  <2>7. Token'
    BY <1>g, <2>2, <2>3, <2>4 DEF receive_again, Token
  <2>8. Buffered' /\ Ordered'
    BY <1>g, <2>3, <2>4, Zenon DEF receive_again, effects, Buffered, ParsesItsPacket, Ordered, VotedBlockArrived
  <2> QED
    BY <2>6, <2>7, <2>8
<1>a. ASSUME alarm PROVE NetworkInv'
  <2>1. timers = 1 /\ Len(completions) = 0 /\ receives = 0 /\ timers' = 0 /\ receive(completions)
    BY <1>a DEF alarm, Token, Types
  <2>2. \A u \in Thread : handler[u].pc = "idle"
    BY <2>1 DEF Token
  <2>3. /\ receives' \in Nat /\ completions' \in Seq(Completion)
        /\ receives' + Len(completions') = 1
        /\ \A i \in DOMAIN completions' : completions'[i].error
    BY <2>1, ReceiveAddsOne
  <2>4. Types'
    BY <1>a, <2>1, <2>3, Zenon DEF alarm, Types
  <2>5. Token'
    BY <1>a, <2>1, <2>2, <2>3 DEF alarm, Token
  <2>6. Buffered' /\ Ordered'
    BY <1>a, <2>2, <2>3, Zenon DEF alarm, effects, Buffered, ParsesItsPacket, Ordered, VotedBlockArrived
  <2> QED
    BY <2>4, <2>5, <2>6, Zenon
<1>p. ASSUME NEW b \in Block, process(b) PROVE NetworkInv'
  BY <1>p, Zenon DEF process, loop, Types, Token, Buffered, ParsesItsPacket, Ordered, VotedBlockArrived
<1>w. ASSUME NEW b \in Block, force(b) PROVE NetworkInv'
  <2>1. UNCHANGED <<loop, handler, arrival, votes>>
    BY <1>w, Zenon DEF force
  <2> QED
    BY <2>1, Zenon DEF loop, Types, Token, Buffered, ParsesItsPacket, Ordered, VotedBlockArrived
<1>s. ASSUME stop PROVE NetworkInv'
  <2>1. Types'
    BY <1>s, Zenon DEF stop, Types
  <2>2. Token'
    BY <1>s, Zenon DEF stop, Token
  <2>3. Buffered' /\ Ordered'
    BY <1>s, Zenon DEF stop, effects, Buffered, ParsesItsPacket, Ordered, VotedBlockArrived
  <2> QED
    BY <2>1, <2>2, <2>3
<1>c. ASSUME close PROVE NetworkInv'
  <2> DEFINE aborted == [i \in 1..receives |-> [error |-> TRUE, packet |-> Nothing]]
  <2>1. receives' = 0 /\ completions' = completions \o aborted /\ on = FALSE /\ on' = FALSE
    BY <1>c, Zenon DEF close, Types
  <2>2. aborted \in Seq(Completion) /\ Len(aborted) = receives
    <3>1. [error |-> TRUE, packet |-> Nothing] \in Completion
      BY Zenon DEF Completion
    <3> QED
      BY <3>1 DEF Types
  <2>3. \A i \in 1..receives : aborted[i].error
    BY Zenon
  <2> HIDE DEF aborted
  <2>4. completions' \in Seq(Completion) /\ Len(completions') = Len(completions) + receives
    <3>1. completions \in Seq(Completion)
      BY Zenon DEF Types
    <3> QED
      BY <2>1, <2>2, <3>1, ConcatProperties, Zenon
  <2>5. \A i \in DOMAIN completions' : ~completions'[i].error => completions'[i].packet = buffer
    <3> SUFFICES ASSUME NEW i \in 1..Len(completions'), ~completions'[i].error PROVE completions'[i].packet = buffer
      BY <2>4
    <3>1. CASE i <= Len(completions)
      <4>1. i \in DOMAIN completions /\ completions'[i] = completions[i]
        BY <3>1, <2>1, <2>2 DEF Types
      <4> QED
        BY <4>1, Zenon DEF Buffered
    <3>2. CASE i > Len(completions)
      <4>1. i - Len(completions) \in 1..receives /\ completions'[i] = aborted[i - Len(completions)]
        BY <3>2, <2>1, <2>2, <2>4 DEF Types
      <4> QED
        BY <4>1, <2>3, Zenon
    <3> QED
      BY <3>1, <3>2 DEF Types
  <2>6. Types'
    <3>1. on' \in BOOLEAN /\ open' \in BOOLEAN
      BY <1>c, Zenon DEF close, Types
    <3>2. receives' \in Nat
      BY <2>1, Zenon
    <3>3. timers' \in Nat /\ (buffer \in Packet \cup {Nothing})'
      BY <1>c, Zenon DEF close, Types
    <3>4. handler' = handler
      BY <1>c, Zenon DEF close
    <3> QED
      BY <2>4, <3>1, <3>2, <3>3, <3>4, Zenon DEF Types
  <2>7. Token'
    BY <1>c, <2>1, <2>4 DEF close, Token, Types
  <2>8. Buffered' /\ Ordered'
    BY <1>c, <2>5, Zenon DEF close, effects, Buffered, ParsesItsPacket, Ordered, VotedBlockArrived
  <2> QED
    BY <2>6, <2>7, <2>8
<1>u. CASE UNCHANGED vars
  BY <1>u, Zenon DEF vars, loop, effects, Types, Token, Buffered, ParsesItsPacket, Ordered, VotedBlockArrived
<1> QED
  BY <1>d, <1>f, <1>r, <1>v, <1>k, <1>q, <1>g, <1>a, <1>p, <1>w, <1>s, <1>c, <1>u, Zenon DEF Next, Handler

(* The token, the buffer and the order of block and vote, in every state.  *)
THEOREM NetworkInvariant == Spec => []NetworkInv
<1> QED
  BY InitInv, StepInv, PTL DEF Spec

(* Whatever comes in and however the threads are scheduled, a handler      *)
(* parses the packet that completed its receive: the next receive, which   *)
(* may overwrite the buffer, is not started before.                        *)
THEOREM BufferSafe == Spec => []ParsesItsPacket
<1>1. NetworkInv => ParsesItsPacket
  BY Zenon DEF NetworkInv, Buffered
<1> QED
  BY <1>1, NetworkInvariant, PTL

(* There is never more than one receive, completion, handler or alarm, and *)
(* always one while the network is on.                                     *)
THEOREM ChainOfReceives == Spec => []OneChain
<1>1. NetworkInv => OneChain
  <2> SUFFICES ASSUME NetworkInv PROVE OneChain
    BY Zenon
  <2> DEFINE n == receives + Len(completions) + timers
  <2>1. n \in Nat /\ n <= 1
    BY DEF NetworkInv, Types, Token
  <2>2. CASE Running = {}
    <3>1. Cardinality(Running) = 0
      BY <2>2, FS_EmptySet, Zenon
    <3>2. on => n = 1
      BY <2>2, Zenon DEF NetworkInv, Token, Running
    <3> QED
      BY <2>1, <3>1, <3>2 DEF OneChain
  <2>3. CASE Running # {}
    <3>1. PICK t \in Thread : Running = {t}
      BY <2>3 DEF NetworkInv, Token, Running
    <3>2. Cardinality(Running) = 1
      BY <3>1, FS_Singleton, Zenon
    <3>3. n = 0
      BY <3>1, Zenon DEF NetworkInv, Token, Running
    <3> QED
      BY <3>2, <3>3 DEF OneChain
  <2> QED
    BY <2>2, <2>3, Zenon
<1> QED
  BY <1>1, NetworkInvariant, PTL

(* The block of a vote is offered to the block processor before the vote   *)
(* is given to the vote processor.                                         *)
THEOREM BlockBeforeVote == Spec => []VotedBlockArrived
<1>1. NetworkInv => VotedBlockArrived
  BY Zenon DEF NetworkInv, Ordered
<1> QED
  BY <1>1, NetworkInvariant, PTL

=============================================================================
