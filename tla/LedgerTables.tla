---------------------------- MODULE LedgerTables ----------------------------
(***************************************************************************)
(* What the handlers of process and the visitors of a rollback do to the   *)
(* tables of Ledger: every handler adds its block to all the tables and    *)
(* moves the weight of its account, and every visitor takes a head out of  *)
(* them again.  The last lemmas say that the inductive invariant implies   *)
(* the properties.                                                         *)
(***************************************************************************)
EXTENDS LedgerLemmas

\* No balance and no pending amount exceeds the supply, nor does a balance with
\* a pending amount added to it.
LEMMA NoOverflow ==
    ASSUME Base
    PROVE  /\ \A a \in DOMAIN accounts : accounts[a].balance \in Amount
           /\ \A k \in DOMAIN pending : pending[k].amount \in Amount
           /\ \A a \in DOMAIN accounts, k \in DOMAIN pending : accounts[a].balance + pending[k].amount \in Amount
<1>1. /\ Balances \in [DOMAIN accounts -> Nat] /\ Amounts \in [DOMAIN pending -> Nat]
      /\ SumFunction(Balances) \in Nat /\ SumFunction(Amounts) \in Nat
      /\ \A a \in DOMAIN accounts : accounts[a].balance <= SumFunction(Balances)
      /\ \A k \in DOMAIN pending : pending[k].amount <= SumFunction(Amounts)
  BY SupplyBounds, BaseParts, Zenon
<1>2. SumFunction(Balances) + SumFunction(Amounts) = MaxAmount
  BY BaseParts, Zenon DEF SupplyIsConserved, Balances, Amounts
<1>3. /\ \A a \in DOMAIN accounts : accounts[a].balance \in Nat
      /\ \A k \in DOMAIN pending : pending[k].amount \in Nat
  BY <1>1, Zenon DEF Balances, Amounts
<1> QED
  BY <1>1, <1>2, <1>3, ValueFacts

\* The frontier table leads from the previous block of a legacy block to the
\* account whose head it is.
LEMMA OwnerFacts ==
    ASSUME Base, NEW p, frontier_get(p) # Zero
    PROVE  /\ p \in DOMAIN blocks /\ Block[p].signer = frontier_get(p) /\ Legacy(p) /\ p # Zero /\ p \in Hash
           /\ frontier_get(p) \in DOMAIN accounts /\ frontier_get(p) \in Account
           /\ account_get(frontier_get(p)) = accounts[frontier_get(p)]
           /\ accounts[frontier_get(p)].head = p /\ accounts[frontier_get(p)].rep_block = RepBlock[p]
           /\ accounts[frontier_get(p)].balance = BalanceAfter(p)
           /\ accounts[frontier_get(p)].block_count \in Nat
<1>1. p \in DOMAIN blocks /\ blocks[p] = Zero /\ Legacy(p) /\ frontier_get(p) = Block[p].signer
  BY BaseParts, Zenon DEF frontier_get, Headed
<1>2. Block[p].signer \in DOMAIN accounts /\ accounts[Block[p].signer].head = p
  BY <1>1, BaseParts, Zenon DEF Linked, BlockLinked
<1>3. AccountLinked(Block[p].signer)
  BY <1>2, BaseParts, Zenon DEF Owned
<1>4. p \in Hash /\ p # Zero /\ Block[p].signer \in Account /\ accounts[Block[p].signer].block_count \in Nat
  BY <1>1, <1>2, ValueFacts, BaseParts, Zenon DEF Tables
<1> QED
  BY <1>1, <1>2, <1>3, <1>4, Zenon DEF AccountLinked, account_get

\* The verdict on a state block, taken apart.
LEMMA StateVerdict ==
    ASSUME Base, NEW h \in Hash, Block[h].type = "state", state_code(h) = "progress"
    PROVE  LET b == Block[h]
               p == Block[h].previous
               a == Block[h].signer
           IN  /\ h \notin DOMAIN blocks /\ b.account = a /\ a \in Account
               /\ p = Zero => a \notin DOMAIN accounts /\ b.link # Zero
               /\ p # Zero => a \in DOMAIN accounts /\ p \in DOMAIN blocks /\ accounts[a].head = p
               /\ account_get(a).balance = BalanceAfter(p) /\ BalanceAfter(p) \in Amount
               /\ account_get(a).head = p /\ account_get(a).rep_block = RepBlock[p]
               /\ account_get(a).block_count + 1 = NewRecord(h).block_count
               /\ state_is_send(b) <=> IsSend(h)
               /\ ~IsSend(h) /\ b.link = Zero => b.balance = BalanceAfter(p)
               /\ ~IsSend(h) /\ b.link # Zero =>
                     <<a, b.link>> \in DOMAIN pending /\ pending[<<a, b.link>>].amount = b.balance - BalanceAfter(p)
<1> DEFINE b == Block[h]
           p == Block[h].previous
           a == Block[h].signer
<1>1. h \notin DOMAIN blocks /\ b.account = a /\ a # Zero
  BY Zenon DEF state_code, block_exists
<1>2. a \in Account /\ b.balance \in Amount
  BY <1>1, BlockFacts, Zenon DEF Address
<1>3. /\ a \in DOMAIN accounts => p # Zero /\ p \in DOMAIN blocks /\ p = account_get(a).head
      /\ a \notin DOMAIN accounts => p = Zero /\ b.link # Zero
  BY <1>1, Zenon DEF state_code, state_position, state_opening, block_exists
<1>4. ~state_is_send(b) => state_receiving(b, account_get(a)) = "progress"
  BY <1>1, Zenon DEF state_code
<1>5. /\ account_get(a).balance = BalanceAfter(p) /\ BalanceAfter(p) \in Amount
      /\ account_get(a).head = p /\ account_get(a).rep_block = RepBlock[p]
      /\ account_get(a).block_count + 1 = NewRecord(h).block_count
      /\ a \in DOMAIN accounts => accounts[a].head = p /\ accounts[a].balance = BalanceAfter(p)
  <2>1. CASE a \in DOMAIN accounts
    <3>1. AccountLinked(a) /\ accounts[a].balance \in Amount
      BY <2>1, NoOverflow, BaseParts, Zenon DEF Owned
    <3> QED
      BY <1>3, <2>1, <3>1, Zenon DEF AccountLinked, account_get, NewRecord
  <2>2. CASE a \notin DOMAIN accounts
    <3>1. BalanceAfter(Zero) = 0 /\ RepBlock[Zero] = Zero /\ 0 \in Amount
      BY MeaningFacts, RepFacts, ValueFacts
    <3> QED
      BY <1>3, <2>2, <3>1 DEF account_get, NoAccountInfo, NewRecord
  <2> QED
    BY <2>1, <2>2, Zenon
<1>6. state_is_send(b) <=> IsSend(h)
  <2>1. CASE a \in DOMAIN accounts
    BY <1>1, <1>5, <2>1, Zenon DEF state_is_send, IsSend
  <2>2. CASE a \notin DOMAIN accounts
    <3>1. BalanceAfter(p) = 0
      BY <1>3, <2>2, MeaningFacts, Zenon
    <3> QED
      BY <1>1, <1>2, <2>2, <3>1, ValueFacts DEF state_is_send, IsSend
  <2> QED
    BY <2>1, <2>2, Zenon
<1>7. ~IsSend(h) /\ b.link = Zero => b.balance = BalanceAfter(p)
  <2>1. ~IsSend(h) /\ b.link = Zero => b.balance - BalanceAfter(p) = 0
    BY <1>4, <1>5, <1>6, Zenon DEF state_receiving
  <2> QED
    BY <1>2, <1>5, <2>1, ValueFacts
<1>8. ~IsSend(h) /\ b.link # Zero =>
          <<a, b.link>> \in DOMAIN pending /\ pending[<<a, b.link>>].amount = b.balance - BalanceAfter(p)
  BY <1>1, <1>4, <1>5, <1>6, Zenon DEF state_receiving
<1> QED
  BY <1>1, <1>2, <1>3, <1>5, <1>6, <1>7, <1>8, Zenon

\* Moving an entry of the frontier table to a new legacy head.
LEMMA FrontierMoves ==
    ASSUME Headed, NEW from, NEW to, NEW owner, Block[to].signer = owner
    PROVE  /\ frontier_move(from, to, owner) = [x \in (DOMAIN frontiers \ {from}) \cup {to} |-> Block[x].signer]
           /\ Del(frontiers, from) = [x \in DOMAIN frontiers \ {from} |-> Block[x].signer]
           /\ Put(frontiers, to, owner) = [x \in DOMAIN frontiers \cup {to} |-> Block[x].signer]
<1>1. \A x \in DOMAIN frontiers : frontiers[x] = Block[x].signer
  BY Zenon DEF Headed
<1> QED
  BY <1>1, Zenon DEF frontier_move, Put, Del

\* What the tables say of a head that is not the genesis block.
LEMMA TopFacts ==
    ASSUME Base, NEW h, Top(h)
    PROVE  LET a == Block[h].signer
               p == Block[h].previous
           IN  /\ h \in Hash /\ h # Zero /\ a \in DOMAIN accounts /\ account_get(a) = accounts[a] /\ a \in Account
               /\ accounts[a].head = h /\ accounts[a].rep_block = RepBlock[h] /\ accounts[a].balance = BalanceAfter(h)
               /\ p # Zero => /\ p \in DOMAIN blocks \ {h} /\ p \in Hash /\ Block[p].signer = a /\ blocks[p] = h
                              /\ Legacy(h) => Legacy(p)
               /\ p = Zero => Block[h].type \in {"open", "state"}
               /\ Block[h].type = "state" => Block[h].account = a
               /\ BlockMeans(h)
<1> DEFINE a == Block[h].signer
           p == Block[h].previous
<1>1. BlockLinked(h) /\ BlockMeans(h) /\ blocks[h] = Zero /\ h \in Hash /\ h # Zero
  BY ValueFacts, BaseParts, Zenon DEF Top, Linked, Meant, Tables
<1>2. a \in DOMAIN accounts /\ accounts[a].head = h
  BY <1>1, Zenon DEF BlockLinked
<1>3. AccountLinked(a) /\ a \in Account
  BY <1>2, BaseParts, Zenon DEF Owned, Tables
<1>4. p # Zero => /\ p \in DOMAIN blocks \ {h} /\ p \in Hash /\ Block[p].signer = a /\ blocks[p] = h /\ (Legacy(h) => Legacy(p))
  BY <1>1, BaseParts, Zenon DEF BlockLinked, Tables
<1> QED
  BY <1>1, <1>2, <1>3, <1>4, Zenon DEF account_get, AccountLinked, BlockLinked

\* The head that a rollback has reached leaves all the tables, whatever its type:
\* the legacy handlers move its weight back too, the handler of a state block
\* has done so before.
LEMMA TopRemoves ==
    \A h :
        (/\ Base
         /\ Top(h))
        => (/\ /\ representation \in [Address -> Amount]
               /\ rollback_receive(h) \/ rollback_open(h) \/ rollback_change(h) \/ rollback_send(h)
               => Removes(h) /\ WeightMoves(h, Block[h].previous)
            /\ /\ rollback_state(h)
               /\ Head(rollbacks).balance = BalanceAfter(Block[h].previous)
               /\ Head(rollbacks).representative = RepBlock[Block[h].previous]
               => Removes(h) /\ representation' = representation)
\* change_latest puts the record of the account back.
<1>ChangeLatestRemoves.
  ASSUME Base, NEW h, Top(h), NEW rep, NEW left, NEW count,
         Block[h].previous # Zero => /\ rep = RepBlock[Block[h].previous] /\ left = BalanceAfter(Block[h].previous)
                                     /\ count = accounts[Block[h].signer].block_count - 1,
         change_latest(Block[h].signer, Block[h].previous, rep, left, count, FALSE, InfoBefore(h))
  PROVE  /\ accounts' = IF Block[h].previous = Zero THEN Del(accounts, Block[h].signer)
                        ELSE Put(accounts, Block[h].signer, OldRecord(h))
         /\ RemovesInfo(h)
         /\ Summed => checksum' = (checksum \ {h}) \cup ({Block[h].previous} \ {Zero})
  <2> USE <1>ChangeLatestRemoves
  <2> DEFINE a == Block[h].signer
             p == Block[h].previous
  <2>1. /\ h \in Hash /\ a \in DOMAIN accounts /\ account_get(a) = accounts[a] /\ accounts[a].head = h
        /\ p # Zero => p \in DOMAIN blocks \ {h} /\ Block[p].signer = a /\ blocks[p] = h /\ h # Zero
    BY TopFacts, Zenon
  <2>5. ASSUME Summed PROVE checksum' = (checksum \ {h}) \cup ({p} \ {Zero})
    <3>1. checksum = {x \in DOMAIN blocks : blocks[x] = Zero}
      BY <2>5, Zenon DEF Summed
    <3>2. checksum_update(checksum, account_get(a).head) = checksum \ {h}
      BY <2>1, <3>1, Zenon DEF checksum_update, Top
    <3>3. checksum' = IF p = Zero THEN checksum \ {h} ELSE checksum_update(checksum \ {h}, p)
      BY <2>1, <3>2, Zenon DEF change_latest
    <3>4. CASE p = Zero
      BY <3>3, <3>4, Zenon
    <3>5. CASE p # Zero
      <4>1. p \notin checksum
        BY <2>1, <3>1, <3>5, Zenon
      <4> QED
        BY <3>3, <3>5, <4>1, Zenon DEF checksum_update
    <3> QED
      BY <3>4, <3>5, Zenon
  <2>6. accounts' = IF p = Zero THEN Del(accounts, a) ELSE Put(accounts, a, OldRecord(h))
    <3>1. p # Zero => [head |-> p, rep_block |-> rep,
                       open_block |-> IF a \in DOMAIN accounts THEN account_get(a).open_block ELSE p,
                       balance |-> left, block_count |-> count] = OldRecord(h)
      BY <2>1, Zenon DEF OldRecord
    <3> QED
      BY <3>1, Zenon DEF change_latest
  <2>7. RemovesInfo(h)
    <3>1. block_info' = IF p # Zero /\ count % BlockInfoMax = 0 THEN Put(InfoBefore(h), p, [account |-> a, balance |-> left])
                        ELSE InfoBefore(h)
      BY Zenon DEF change_latest
    <3>2. p # Zero => [account |-> a, balance |-> left] = Info(p)
      BY <2>1, Zenon DEF Info
    <3> QED
      BY <3>1, <3>2, Zenon DEF RemovesInfo
  <2> QED
    BY <2>5, <2>6, <2>7, Zenon
\* block_successor_clear puts the previous block back on top.
<1>SuccessorClears.
  ASSUME Base, NEW h, Top(h), Block[h].previous # Zero
  PROVE  /\ block_successor_clear(Del(blocks, h), Block[h].previous)
              = [x \in DOMAIN blocks \ {h} |-> IF x = Block[h].previous THEN Zero ELSE blocks[x]]
         /\ Del(block_successor_clear(blocks, Block[h].previous), h)
              = [x \in DOMAIN blocks \ {h} |-> IF x = Block[h].previous THEN Zero ELSE blocks[x]]
  <2> USE <1>SuccessorClears
  <2> DEFINE p == Block[h].previous
             q == Block[p].previous
  <2>1. p \in DOMAIN blocks /\ p # h /\ blocks[p] = h /\ h \in DOMAIN blocks /\ p \in Hash
    BY TopFacts, Zenon DEF Top
  <2>2. q # Zero => q \in DOMAIN blocks /\ blocks[q] = p /\ q # p /\ q # h
    <3> SUFFICES ASSUME q # Zero PROVE q \in DOMAIN blocks /\ blocks[q] = p /\ q # p /\ q # h
      BY Zenon
    <3>1. q \in DOMAIN blocks /\ blocks[q] = p
      BY <2>1, BaseParts, Zenon DEF Linked, BlockLinked
    <3>2. p # Zero /\ blocks[h] = Zero
      BY Zenon DEF Top
    <3> QED
      BY <2>1, <3>1, <3>2, Zenon
  <2>3. CASE q = Zero
    BY <2>1, <2>3, Zenon DEF block_successor_clear, block_put, Put, Del
  <2>4. CASE q # Zero
    BY <2>1, <2>2, <2>4, Zenon DEF block_successor_clear, block_put, Put, Del
  <2> QED
    BY <2>3, <2>4, Zenon
\* A head whose amount was not received is not the source of any block.
<1>NoReceiver.
  ASSUME Base, NEW h, IsSend(h) => Key(h) \in DOMAIN pending
  PROVE  \A r \in DOMAIN blocks : SourceOf(r) # h \/ h = Zero
  <2> USE <1>NoReceiver
  <2> SUFFICES ASSUME NEW r \in DOMAIN blocks, SourceOf(r) = h, h # Zero PROVE FALSE
    BY Zenon
  <2>1. IsSend(h)
    BY BaseParts, Zenon DEF Meant, BlockMeans
  <2>2. Key(h) \in DOMAIN pending /\ Key(h)[2] = h
    BY <2>1, Zenon DEF Key
  <2> QED
    BY <2>2, BaseParts, Zenon DEF Settled
\* The parts of it that the handlers share.
<1>RemovesFrom.
  ASSUME Base, NEW h, Top(h), IsSend(h) => Key(h) \in DOMAIN pending, RemovesValue(h),
         blocks' = [x \in DOMAIN blocks \ {h} |-> IF x = Block[h].previous THEN Zero ELSE blocks[x]],
         accounts' = IF Block[h].previous = Zero THEN Del(accounts, Block[h].signer)
                     ELSE Put(accounts, Block[h].signer, OldRecord(h)),
         RemovesInfo(h), Summed => checksum' = (checksum \ {h}) \cup ({Block[h].previous} \ {Zero}),
         frontiers' = [x \in (DOMAIN frontiers \ {h})
                           \cup (IF Block[h].previous # Zero /\ Legacy(Block[h].previous) THEN {Block[h].previous} ELSE {})
                         |-> Block[x].signer]
  PROVE  Removes(h)
  <2> USE <1>RemovesFrom
  <2>1. h # Zero
    BY TopFacts, Zenon
  <2>2. \A r \in DOMAIN blocks : SourceOf(r) # h
    BY <2>1, <1>NoReceiver, Zenon
  <2>3. RemovesBlock(h)
    BY <2>2, Zenon DEF RemovesBlock, Top
  <2>4. RemovesHead(h)
    BY Zenon DEF RemovesHead
  <2> QED
    BY <2>3, <2>4, Zenon DEF Removes
\* rollback_visitor::receive_block takes the block out of every table.
<1>ReceiveRemoves.
  ASSUME Base, representation \in [Address -> Amount], NEW h, Top(h), rollback_receive(h)
  PROVE  Removes(h) /\ WeightMoves(h, Block[h].previous)
  <2> USE <1>ReceiveRemoves
  <2> DEFINE b == Block[h]
             p == Block[h].previous
             a == Block[h].signer
             s == Block[h].link
  <2>1. b.type = "receive"
    BY Zenon DEF rollback_receive, VisitHead
  <2>2. /\ h \in Hash /\ h # Zero /\ a \in DOMAIN accounts /\ account_get(a) = accounts[a] /\ BlockMeans(h)
        /\ p # Zero /\ p \in DOMAIN blocks /\ p \in Hash /\ Block[p].signer = a /\ Legacy(p) /\ Legacy(h) /\ h \in DOMAIN blocks
    BY <2>1, TopFacts, Zenon DEF Legacy, Top
  <2>3. ~IsSend(h) /\ SourceOf(h) = s /\ s # Zero /\ RepBlock[h] = RepBlock[p]
    BY <2>1, <2>2, KindFacts, RepFacts, Zenon DEF BlockMeans, NamesRepresentative, Top
  <2>4. s \in DOMAIN blocks /\ AmountOf(h) = AmountOf(s) /\ BalanceAfter(h) = BalanceAfter(p) + AmountOf(h) /\ AmountOf(h) \in Amount
    BY <2>2, <2>3, Zenon DEF BlockMeans
  <2>5. /\ account(h) = a /\ representative(h) = RepBlock[h] /\ representative(p) = RepBlock[p]
        /\ balance(p) = BalanceAfter(p) /\ amount(s) = AmountOf(h) /\ account(s) = Block[s].signer
    BY <2>2, <2>4, WalkFacts, Zenon
  <2>6. /\ representation' = representation_add(representation, RepBlock[h], Negate(AmountOf(h)))
        /\ change_latest(a, p, RepBlock[p], BalanceAfter(p), accounts[a].block_count - 1, FALSE, InfoDeleted(h, accounts[a]))
        /\ blocks' = block_successor_clear(Del(blocks, h), p)
        /\ pending' = pending_again(a, s, AmountOf(h))
        /\ frontiers' = frontier_move(h, p, a)
    BY <2>2, <2>5, Zenon DEF rollback_receive
  <2>7. InfoDeleted(h, accounts[a]) = InfoBefore(h)
    BY <2>2, Zenon DEF InfoDeleted, InfoBefore
  <2>8. /\ accounts' = IF p = Zero THEN Del(accounts, a) ELSE Put(accounts, a, OldRecord(h))
        /\ RemovesInfo(h)
        /\ Summed => checksum' = (checksum \ {h}) \cup ({p} \ {Zero})
    <3>1. change_latest(a, p, RepBlock[p], BalanceAfter(p), accounts[a].block_count - 1, FALSE, InfoBefore(h))
      BY <2>6, <2>7, Zenon
    <3> QED
      BY <3>1, <1>ChangeLatestRemoves, Zenon
  <2>9. blocks' = [x \in DOMAIN blocks \ {h} |-> IF x = p THEN Zero ELSE blocks[x]]
    BY <2>2, <2>6, <1>SuccessorClears, Zenon
  <2>10. frontiers' = [x \in (DOMAIN frontiers \ {h}) \cup (IF p # Zero /\ Legacy(p) THEN {p} ELSE {}) |-> Block[x].signer]
    <3>1. frontier_move(h, p, a) = [x \in (DOMAIN frontiers \ {h}) \cup {p} |-> Block[x].signer]
      <4>1. Block[p].signer = a /\ Headed
        BY <2>2, BaseParts, Zenon
      <4> HIDE DEF p, a
      <4> QED
        BY <4>1, FrontierMoves, ZenonT(40)
    <3> QED
      BY <2>2, <2>6, <3>1, Zenon
  <2>11. RemovesValue(h)
    BY <2>3, <2>5, <2>6, Zenon DEF RemovesValue, pending_again, Receipt
  <2>12. Removes(h)
    BY <2>3, <2>8, <2>9, <2>10, <2>11, <1>RemovesFrom, Zenon
  <2>13. BalanceAfter(h) - BalanceAfter(p) = AmountOf(h)
    BY <2>2, <2>4, MeaningFacts
  <2>14. RepBlock[h] \in Hash
    BY <2>2, RepStored, BaseParts, Zenon DEF Tables
  <2> QED
    BY <2>2, <2>3, <2>4, <2>6, <2>12, <2>13, <2>14, WeightTaken, Zenon
\* rollback_visitor::open_block takes the block and its account out of every
\* table.
<1>OpenRemoves.
  ASSUME Base, representation \in [Address -> Amount], NEW h, Top(h), rollback_open(h)
  PROVE  Removes(h) /\ WeightMoves(h, Block[h].previous)
  <2> USE <1>OpenRemoves
  <2> DEFINE b == Block[h]
             p == Block[h].previous
             a == Block[h].signer
             s == Block[h].link
  <2>1. b.type = "open"
    BY Zenon DEF rollback_open, VisitHead
  <2>2. /\ h \in Hash /\ h # Zero /\ a \in DOMAIN accounts /\ account_get(a) = accounts[a] /\ BlockMeans(h)
        /\ Legacy(h) /\ h \in DOMAIN blocks
    BY <2>1, TopFacts, Zenon DEF Legacy, Top
  <2>3. ~IsSend(h) /\ SourceOf(h) = s /\ s # Zero /\ RepBlock[h] = h /\ p = Zero
    BY <2>1, <2>2, KindFacts, RepFacts, BlockFacts, Zenon DEF BlockMeans, NamesRepresentative, Top
  <2>4. s \in DOMAIN blocks /\ AmountOf(h) = AmountOf(s) /\ BalanceAfter(h) = BalanceAfter(p) + AmountOf(h) /\ AmountOf(h) \in Amount
    BY <2>2, <2>3, Zenon DEF BlockMeans
  <2>5. /\ account(h) = a /\ representative(h) = h
        /\ amount(s) = AmountOf(h) /\ account(s) = Block[s].signer
    BY <2>2, <2>3, <2>4, WalkFacts, Zenon
  <2>6. /\ representation' = representation_add(representation, h, Negate(AmountOf(h)))
        /\ change_latest(a, Zero, Zero, 0, 0, FALSE, block_info)
        /\ blocks' = Del(blocks, h)
        /\ pending' = pending_again(a, s, AmountOf(h))
        /\ frontiers' = Del(frontiers, h)
    BY <2>5, Zenon DEF rollback_open
  <2>7. InfoBefore(h) = block_info
    BY <2>3, Zenon DEF InfoBefore
  <2>8. /\ accounts' = IF p = Zero THEN Del(accounts, a) ELSE Put(accounts, a, OldRecord(h))
        /\ RemovesInfo(h)
        /\ Summed => checksum' = (checksum \ {h}) \cup ({p} \ {Zero})
    <3>1. change_latest(a, p, Zero, 0, 0, FALSE, InfoBefore(h))
      BY <2>3, <2>6, <2>7, Zenon
    <3> QED
      BY <2>3, <3>1, <1>ChangeLatestRemoves, Zenon
  <2>9. blocks' = [x \in DOMAIN blocks \ {h} |-> IF x = p THEN Zero ELSE blocks[x]]
    <3>1. Zero \notin DOMAIN blocks
      BY ValueFacts, BaseParts, Zenon DEF Tables
    <3> QED
      BY <2>3, <2>6, <3>1, Zenon DEF Del
  <2>10. frontiers' = [x \in (DOMAIN frontiers \ {h}) \cup (IF p # Zero /\ Legacy(p) THEN {p} ELSE {}) |-> Block[x].signer]
    <3>1. Del(frontiers, h) = [x \in DOMAIN frontiers \ {h} |-> Block[x].signer]
      BY FrontierMoves, BaseParts, ZenonT(40)
    <3> QED
      BY <2>3, <2>6, <3>1, Zenon
  <2>11. RemovesValue(h)
    BY <2>3, <2>5, <2>6, Zenon DEF RemovesValue, pending_again, Receipt
  <2>12. Removes(h)
    BY <2>3, <2>8, <2>9, <2>10, <2>11, <1>RemovesFrom, Zenon
  <2>13. BalanceAfter(h) - BalanceAfter(p) = AmountOf(h)
    BY <2>2, <2>3, <2>4, MeaningFacts
  <2> QED
    BY <2>2, <2>3, <2>4, <2>6, <2>12, <2>13, WeightTaken, Zenon
\* rollback_visitor::change_block takes the block out of every table.
<1>ChangeRemoves.
  ASSUME Base, representation \in [Address -> Amount], NEW h, Top(h), rollback_change(h)
  PROVE  Removes(h) /\ WeightMoves(h, Block[h].previous)
  <2> USE <1>ChangeRemoves
  <2> DEFINE b == Block[h]
             p == Block[h].previous
             a == Block[h].signer
  <2>1. b.type = "change"
    BY Zenon DEF rollback_change, VisitHead
  <2>2. /\ h \in Hash /\ h # Zero /\ a \in DOMAIN accounts /\ account_get(a) = accounts[a] /\ BlockMeans(h)
        /\ p # Zero /\ p \in DOMAIN blocks /\ p \in Hash /\ Block[p].signer = a /\ Legacy(p) /\ Legacy(h) /\ h \in DOMAIN blocks
        /\ accounts[a].balance = BalanceAfter(h)
    BY <2>1, TopFacts, Zenon DEF Legacy, Top
  <2>3. ~IsSend(h) /\ SourceOf(h) = Zero /\ RepBlock[h] = h
    BY <2>1, <2>2, KindFacts, RepFacts, Zenon DEF NamesRepresentative
  <2>4. BalanceAfter(h) = BalanceAfter(p) /\ BalanceAfter(h) \in Amount
    BY <2>1, <2>2, MeaningFacts, Zenon DEF BlockMeans
  <2>5. account(p) = a /\ representative(p) = RepBlock[p] /\ balance(p) = BalanceAfter(p)
    BY <2>2, WalkFacts, Zenon
  <2>6. /\ representation' = representation_add(representation_add(representation, RepBlock[p], BalanceAfter(p)),
                                                RepBlock[h], Negate(BalanceAfter(h)))
        /\ change_latest(a, p, RepBlock[p], BalanceAfter(p), accounts[a].block_count - 1, FALSE, InfoDeleted(h, accounts[a]))
        /\ blocks' = block_successor_clear(Del(blocks, h), p)
        /\ pending' = pending
        /\ frontiers' = frontier_move(h, p, a)
    BY <2>2, <2>3, <2>4, <2>5, Zenon DEF rollback_change
  <2>7. InfoDeleted(h, accounts[a]) = InfoBefore(h)
    BY <2>2, Zenon DEF InfoDeleted, InfoBefore
  <2>8. /\ accounts' = IF p = Zero THEN Del(accounts, a) ELSE Put(accounts, a, OldRecord(h))
        /\ RemovesInfo(h)
        /\ Summed => checksum' = (checksum \ {h}) \cup ({p} \ {Zero})
    <3>1. change_latest(a, p, RepBlock[p], BalanceAfter(p), accounts[a].block_count - 1, FALSE, InfoBefore(h))
      BY <2>6, <2>7, ZenonT(40)
    <3> QED
      BY <3>1, <1>ChangeLatestRemoves, Zenon
  <2>9. blocks' = [x \in DOMAIN blocks \ {h} |-> IF x = p THEN Zero ELSE blocks[x]]
    BY <2>2, <2>6, <1>SuccessorClears, Zenon
  <2>10. frontiers' = [x \in (DOMAIN frontiers \ {h}) \cup (IF p # Zero /\ Legacy(p) THEN {p} ELSE {}) |-> Block[x].signer]
    <3>1. frontier_move(h, p, a) = [x \in (DOMAIN frontiers \ {h}) \cup {p} |-> Block[x].signer]
      <4>1. Block[p].signer = a /\ Headed
        BY <2>2, BaseParts, Zenon
      <4> HIDE DEF p, a
      <4> QED
        BY <4>1, FrontierMoves, Zenon
    <3> QED
      BY <2>2, <2>6, <3>1, Zenon
  <2>11. RemovesValue(h)
    BY <2>3, <2>6, Zenon DEF RemovesValue
  <2>12. Removes(h)
    BY <2>3, <2>8, <2>9, <2>10, <2>11, <1>RemovesFrom, Zenon
  <2>13. RepBlock[p] \in Hash /\ RepBlock[h] \in Hash
    BY <2>2, RepStored, BaseParts, Zenon DEF Tables
  <2> QED
    BY <2>2, <2>4, <2>6, <2>12, <2>13, WeightGivenTaken, Zenon
\* rollback_visitor::send_block, once the send is pending again, takes the
\* block out of every table.
<1>SendRemoves.
  ASSUME Base, representation \in [Address -> Amount], NEW h, Top(h), rollback_send(h)
  PROVE  Removes(h) /\ WeightMoves(h, Block[h].previous)
  <2> USE <1>SendRemoves
  <2> DEFINE b == Block[h]
             p == Block[h].previous
             a == Block[h].signer
  <2>1. b.type = "send" /\ Key(h) \in DOMAIN pending /\ VisitedKey(h) = Key(h)
    BY Zenon DEF rollback_send, VisitedKey, Key
  <2>2. /\ h \in Hash /\ h # Zero /\ a \in DOMAIN accounts /\ account_get(a) = accounts[a] /\ BlockMeans(h)
        /\ p # Zero /\ p \in DOMAIN blocks /\ p \in Hash /\ Block[p].signer = a /\ Legacy(p) /\ Legacy(h) /\ h \in DOMAIN blocks
        /\ accounts[a].rep_block = RepBlock[h]
    BY <2>1, TopFacts, Zenon DEF Legacy, Top
  <2>3. IsSend(h) /\ SourceOf(h) = Zero /\ RepBlock[h] = RepBlock[p]
    BY <2>1, <2>2, KindFacts, RepFacts, Zenon DEF NamesRepresentative
  <2>4. BalanceAfter(h) + AmountOf(h) = BalanceAfter(p) /\ AmountOf(h) \in Amount
    BY <2>2, <2>3, Zenon DEF BlockMeans
  <2>5. representative(h) = RepBlock[h] /\ balance(p) = BalanceAfter(p)
    BY <2>2, WalkFacts, Zenon
  <2>6. pending[Key(h)].source = a /\ pending[Key(h)].amount = AmountOf(h)
    <3>1. Key(h)[2] = h
      BY Zenon DEF Key
    <3>2. pending[Key(h)] = [source |-> Block[Key(h)[2]].signer, amount |-> AmountOf(Key(h)[2])]
      BY <2>1, BaseParts, Zenon DEF Settled
    <3> QED
      BY <3>1, <3>2
  <2>7. /\ representation' = representation_add(representation, RepBlock[h], AmountOf(h))
        /\ change_latest(a, p, RepBlock[p], BalanceAfter(p), accounts[a].block_count - 1, FALSE, InfoDeleted(h, accounts[a]))
        /\ blocks' = block_successor_clear(Del(blocks, h), p)
        /\ pending' = Del(pending, Key(h))
        /\ frontiers' = frontier_move(h, p, a)
    BY <2>1, <2>2, <2>3, <2>5, <2>6, Zenon DEF rollback_send
  <2>8. InfoDeleted(h, accounts[a]) = InfoBefore(h)
    BY <2>2, Zenon DEF InfoDeleted, InfoBefore
  <2>9. /\ accounts' = IF p = Zero THEN Del(accounts, a) ELSE Put(accounts, a, OldRecord(h))
        /\ RemovesInfo(h)
        /\ Summed => checksum' = (checksum \ {h}) \cup ({p} \ {Zero})
    <3>1. change_latest(a, p, RepBlock[p], BalanceAfter(p), accounts[a].block_count - 1, FALSE, InfoBefore(h))
      BY <2>7, <2>8, ZenonT(40)
    <3> QED
      BY <3>1, <1>ChangeLatestRemoves, Zenon
  <2>10. blocks' = [x \in DOMAIN blocks \ {h} |-> IF x = p THEN Zero ELSE blocks[x]]
    BY <2>2, <2>7, <1>SuccessorClears, Zenon
  <2>11. frontiers' = [x \in (DOMAIN frontiers \ {h}) \cup (IF p # Zero /\ Legacy(p) THEN {p} ELSE {}) |-> Block[x].signer]
    <3>1. frontier_move(h, p, a) = [x \in (DOMAIN frontiers \ {h}) \cup {p} |-> Block[x].signer]
      <4>1. Block[p].signer = a /\ Headed
        BY <2>2, BaseParts, Zenon
      <4> HIDE DEF p, a
      <4> QED
        BY <4>1, FrontierMoves, Zenon
    <3> QED
      BY <2>2, <2>7, <3>1, Zenon
  <2>12. RemovesValue(h)
    BY <2>1, <2>3, <2>7, Zenon DEF RemovesValue
  <2>13. Removes(h)
    BY <2>1, <2>9, <2>10, <2>11, <2>12, <1>RemovesFrom, Zenon
  <2>14. BalanceAfter(p) - BalanceAfter(h) = AmountOf(h)
    BY <2>2, <2>4, MeaningFacts
  <2>15. RepBlock[h] \in Hash
    BY <2>2, RepStored, BaseParts, Zenon DEF Tables
  <2> QED
    BY <2>2, <2>3, <2>4, <2>7, <2>13, <2>14, <2>15, WeightGiven, Zenon
\* The locals of a state block's visitor still hold when the block is taken away.
<1>StateRemoves.
  ASSUME Base, NEW h, Top(h), rollback_state(h),
         Head(rollbacks).balance = BalanceAfter(Block[h].previous),
         Head(rollbacks).representative = RepBlock[Block[h].previous]
  PROVE  Removes(h) /\ representation' = representation
  <2> USE <1>StateRemoves
  <2> DEFINE b == Block[h]
             p == Block[h].previous
             a == Block[h].signer
             s == Block[h].link
  <2>1. b.type = "state" /\ representation' = representation
    BY Zenon DEF rollback_state
  <2>2. /\ h \in Hash /\ h # Zero /\ a \in DOMAIN accounts /\ account_get(a) = accounts[a] /\ BlockMeans(h)
        /\ p # Zero => p \in DOMAIN blocks /\ p \in Hash /\ Block[p].signer = a
        /\ ~Legacy(h) /\ h \in DOMAIN blocks /\ b.account = a
    BY <2>1, TopFacts, Zenon DEF Legacy, Top
  <2>3. VisitedIsSend(h) <=> IsSend(h)
    BY <2>1, Zenon DEF VisitedIsSend, IsSend
  <2>4. SourceOf(h) = IF IsSend(h) THEN Zero ELSE s
    BY <2>1, <2>2, KindFacts, Zenon
  <2>5. block_exists(p) <=> p # Zero
    BY <2>2, ValueFacts, BaseParts, Zenon DEF block_exists, Tables
  <2>6. VisitedKey(h) = Key(h) /\ (IsSend(h) => Key(h) \in DOMAIN pending)
    BY <2>3, Zenon DEF VisitedKey, Key, rollback_state
  <2>7. /\ pending' = IF IsSend(h) THEN Del(pending, Key(h))
                      ELSE IF s = Zero THEN pending
                      ELSE pending_again(a, s, b.balance - BalanceAfter(p))
        /\ change_latest(a, p, RepBlock[p], BalanceAfter(p), accounts[a].block_count - 1, FALSE, block_info)
        /\ blocks' = Del(IF p # Zero THEN block_successor_clear(blocks, p) ELSE blocks, h)
        /\ frontiers' = IF p # Zero /\ Block[p].type \in LegacyType THEN Put(frontiers, p, a) ELSE frontiers
    BY <2>2, <2>3, <2>5, <2>6, Zenon DEF rollback_state
  <2>8. InfoBefore(h) = block_info
    BY <2>2, Zenon DEF InfoBefore
  <2>9. /\ accounts' = IF p = Zero THEN Del(accounts, a) ELSE Put(accounts, a, OldRecord(h))
        /\ RemovesInfo(h)
        /\ Summed => checksum' = (checksum \ {h}) \cup ({p} \ {Zero})
    <3>1. change_latest(a, p, RepBlock[p], BalanceAfter(p), accounts[a].block_count - 1, FALSE, InfoBefore(h))
      BY <2>7, <2>8, Zenon
    <3> QED
      BY <3>1, <1>ChangeLatestRemoves, Zenon
  <2>10. blocks' = [x \in DOMAIN blocks \ {h} |-> IF x = p THEN Zero ELSE blocks[x]]
    <3>1. CASE p # Zero
      BY <2>7, <3>1, <1>SuccessorClears, Zenon
    <3>2. CASE p = Zero
      <4>1. Zero \notin DOMAIN blocks
        BY ValueFacts, BaseParts, Zenon DEF Tables
      <4> QED
        BY <2>7, <3>2, <4>1, Zenon DEF Del
    <3> QED
      BY <3>1, <3>2, Zenon
  <2>11. frontiers' = [x \in (DOMAIN frontiers \ {h}) \cup (IF p # Zero /\ Legacy(p) THEN {p} ELSE {}) |-> Block[x].signer]
    <3>1. h \notin DOMAIN frontiers /\ frontiers = [x \in DOMAIN frontiers |-> Block[x].signer]
      BY <2>2, BaseParts, Zenon DEF Headed
    <3>2. p # Zero => (Block[p].type \in LegacyType <=> Legacy(p))
      BY <2>2, BlockFacts, Zenon DEF LegacyType, Legacy
    <3>3. CASE p # Zero /\ Legacy(p)
      <4>1. Put(frontiers, p, a) = [x \in DOMAIN frontiers \cup {p} |-> Block[x].signer]
        BY <2>2, <3>3, FrontierMoves, BaseParts, Zenon
      <4>2. DOMAIN frontiers \ {h} = DOMAIN frontiers
        BY <3>1, Zenon
      <4> QED
        BY <2>7, <3>2, <3>3, <4>1, <4>2, Zenon
    <3>4. CASE ~(p # Zero /\ Legacy(p))
      BY <2>7, <3>1, <3>2, <3>4, Zenon
    <3> QED
      BY <3>3, <3>4, Zenon
  <2>12. RemovesValue(h)
    <3>1. CASE IsSend(h)
      BY <2>4, <2>6, <2>7, <3>1, Zenon DEF RemovesValue
    <3>2. CASE ~IsSend(h) /\ s = Zero
      BY <2>4, <2>7, <3>2, Zenon DEF RemovesValue
    <3>3. CASE ~IsSend(h) /\ s # Zero
      <4>1. s \in DOMAIN blocks /\ BalanceAfter(h) = BalanceAfter(p) + AmountOf(h)
        BY <2>2, <2>4, <3>3, Zenon DEF BlockMeans
      <4>2. BalanceAfter(h) = b.balance /\ BalanceAfter(h) \in Int /\ AmountOf(h) \in Int /\ BalanceAfter(p) \in Int
        BY <2>1, <2>2, MeaningFacts
      <4>3. b.balance - BalanceAfter(p) = AmountOf(h)
        BY <4>1, <4>2
      <4>4. account(s) = Block[s].signer
        BY <4>1, WalkFacts, Zenon
      <4>5. pending' = Put(pending, <<a, s>>, [source |-> Block[s].signer, amount |-> AmountOf(h)])
        BY <2>7, <3>3, <4>3, <4>4, Zenon DEF pending_again
      <4> QED
        BY <2>4, <3>3, <4>5, Zenon DEF RemovesValue, Receipt
    <3> QED
      BY <3>1, <3>2, <3>3, Zenon
  <2>13. Removes(h)
    BY <2>6, <2>9, <2>10, <2>11, <2>12, <1>RemovesFrom, Zenon
  <2> QED
    BY <2>1, <2>13, Zenon
<1> SUFFICES
      ASSUME NEW h, Base, Top(h)
      PROVE  /\ /\ representation \in [Address -> Amount]
                /\ rollback_receive(h) \/ rollback_open(h) \/ rollback_change(h) \/ rollback_send(h)
                => Removes(h) /\ WeightMoves(h, Block[h].previous)
             /\ /\ rollback_state(h)
                /\ Head(rollbacks).balance = BalanceAfter(Block[h].previous)
                /\ Head(rollbacks).representative = RepBlock[Block[h].previous]
                => Removes(h) /\ representation' = representation
  BY Zenon
<1> QED
  BY <1>ReceiveRemoves, <1>OpenRemoves, <1>ChangeRemoves, <1>SendRemoves, <1>StateRemoves, Zenon

\* ledger::process, when it accepts a block, adds it to every table.
LEMMA ProcessAdds ==
    \A h \in Hash :
        (/\ Base
         /\ process(h))
        => (Adds(h) /\ rollbacks = <<>> /\ rollbacks' = <<>>)
\* change_latest gives the account of a new block its record, takes a snapshot
\* where one is due and replaces the head in the checksum.
<1>ChangeLatestAdds.
  ASSUME Base, NEW h \in Hash, h \notin DOMAIN blocks,
         Block[h].previous = Zero => Block[h].signer \notin DOMAIN accounts,
         Block[h].previous # Zero =>
            Block[h].signer \in DOMAIN accounts /\ accounts[Block[h].signer].head = Block[h].previous,
         change_latest(Block[h].signer, h, RepBlock[h], BalanceAfter(h), NewRecord(h).block_count, ~Legacy(h), block_info)
  PROVE  /\ accounts' = Put(accounts, Block[h].signer, NewRecord(h))
         /\ AddsInfo(h)
         /\ Summed => checksum' = (checksum \ {Block[h].previous}) \cup {h}
  <2> USE <1>ChangeLatestAdds
  <2> DEFINE a == Block[h].signer
             p == Block[h].previous
  <2>0. h # Zero /\ Zero \notin DOMAIN blocks
    BY ValueFacts, BaseParts, Zenon DEF Tables
  <2>1. accounts' = Put(accounts, a, [head |-> h, rep_block |-> RepBlock[h],
                    open_block |-> IF a \in DOMAIN accounts THEN account_get(a).open_block ELSE h,
                    balance |-> BalanceAfter(h), block_count |-> NewRecord(h).block_count])
    BY <2>0, Zenon DEF change_latest
  <2>2. [head |-> h, rep_block |-> RepBlock[h],
         open_block |-> IF a \in DOMAIN accounts THEN account_get(a).open_block ELSE h,
         balance |-> BalanceAfter(h), block_count |-> NewRecord(h).block_count] = NewRecord(h)
    BY Zenon DEF NewRecord, account_get
  <2>3. AddsInfo(h)
    BY <2>0, Zenon DEF change_latest, AddsInfo, Info
  <2>4. checksum' = checksum_update(IF a \in DOMAIN accounts THEN checksum_update(checksum, account_get(a).head) ELSE checksum, h)
    BY <2>0, Zenon DEF change_latest
  <2>5. ASSUME Summed PROVE checksum' = (checksum \ {p}) \cup {h}
    <3>1. checksum = {x \in DOMAIN blocks : blocks[x] = Zero}
      BY <2>5, Zenon DEF Summed
    <3>2. h \notin checksum /\ Zero \notin checksum
      BY <2>0, <3>1, Zenon
    <3>3. CASE p = Zero
      BY <2>4, <3>2, <3>3, Zenon DEF checksum_update
    <3>4. CASE p # Zero
      <4>1. p \in checksum
        BY <3>1, <3>4, BaseParts, Zenon DEF Owned, AccountLinked
      <4>2. checksum_update(checksum, account_get(a).head) = checksum \ {p}
        BY <3>4, <4>1, Zenon DEF checksum_update, account_get
      <4> QED
        BY <2>4, <3>2, <3>4, <4>2, Zenon DEF checksum_update
    <3> QED
      BY <3>3, <3>4, Zenon
  <2> QED
    BY <2>1, <2>2, <2>3, <2>5, Zenon
\* block_put puts a new block on top of its previous block.
<1>BlockPutAdds.
  ASSUME Tables, NEW h \in Hash, h \notin DOMAIN blocks, Block[h].previous \in DOMAIN blocks \cup {Zero}
  PROVE  block_put(blocks, h) = [x \in DOMAIN blocks \cup {h} |->
                  IF x = h THEN Zero ELSE IF x = Block[h].previous THEN h ELSE blocks[x]]
  <2> USE <1>BlockPutAdds
  <2>0. Zero \notin DOMAIN blocks /\ h # Zero
    BY ValueFacts, Zenon DEF Tables
  <2>1. CASE Block[h].previous = Zero
    BY <2>0, <2>1, Zenon DEF block_put, Put
  <2>2. CASE Block[h].previous # Zero
    BY <2>0, <2>2, Zenon DEF block_put, Put
  <2> QED
    BY <2>1, <2>2, Zenon
\* send_block adds the block to every table.
<1>SendAdds.
  ASSUME Base, NEW h \in Hash, send_block(h)
  PROVE  Adds(h)
  <2> USE <1>SendAdds
  <2> DEFINE b == Block[h]
             p == Block[h].previous
             a == Block[h].signer
             sent == accounts[a].balance - b.balance
  <2>1. /\ b.type = "send" /\ h \notin DOMAIN blocks /\ frontier_get(p) # Zero /\ a = frontier_get(p)
        /\ ~(account_get(a).balance < b.balance)
    BY Zenon DEF send_block, send_code, block_exists
  <2>2. /\ p \in DOMAIN blocks /\ Block[p].signer = a /\ Legacy(p) /\ p # Zero /\ p \in Hash
        /\ a \in DOMAIN accounts /\ a \in Account /\ account_get(a) = accounts[a]
        /\ accounts[a].head = p /\ accounts[a].rep_block = RepBlock[p]
        /\ accounts[a].balance = BalanceAfter(p)
        /\ accounts[a].block_count \in Nat
    BY <2>1, OwnerFacts
  <2>3. /\ blocks' = block_put(blocks, h)
        /\ change_latest(a, h, accounts[a].rep_block, b.balance, accounts[a].block_count + 1, FALSE, block_info)
        /\ pending' = Put(pending, <<b.link, h>>, [source |-> a, amount |-> sent])
        /\ frontiers' = frontier_move(p, h, a)
    BY <2>1, <2>2, Zenon DEF send_block
  <2>4. Legacy(h) /\ RepBlock[h] = RepBlock[p] /\ IsSend(h) /\ SourceOf(h) = Zero
    BY <2>1, RepFacts, KindFacts, Zenon DEF Legacy, NamesRepresentative
  <2>5. BalanceAfter(h) = b.balance /\ AmountOf(h) = Difference(BalanceAfter(p), b.balance) /\ b.balance \in Amount
    BY <2>1, MeaningFacts, BlockFacts, Zenon
  <2>6. BalanceAfter(p) \in Amount
    BY <2>2, NoOverflow, Zenon
  <2>7. AmountOf(h) = sent /\ AmountOf(h) \in Amount /\ BalanceAfter(h) + AmountOf(h) = BalanceAfter(p)
    BY <2>1, <2>2, <2>5, <2>6, ValueFacts DEF Difference
  <2>8. NewRecord(h).block_count = accounts[a].block_count + 1
    BY <2>2, Zenon DEF NewRecord
  <2>9. change_latest(a, h, RepBlock[h], BalanceAfter(h), NewRecord(h).block_count, ~Legacy(h), block_info)
    BY <2>2, <2>3, <2>4, <2>5, <2>8, ZenonT(40)
  <2>10. /\ accounts' = Put(accounts, a, NewRecord(h)) /\ AddsInfo(h)
         /\ Summed => checksum' = (checksum \ {p}) \cup {h}
    BY <2>1, <2>2, <2>9, <1>ChangeLatestAdds, Zenon
  <2>11. AddsBlock(h)
    <3>1. block_put(blocks, h) = [x \in DOMAIN blocks \cup {h} |->
                      IF x = h THEN Zero ELSE IF x = Block[h].previous THEN h ELSE blocks[x]]
      BY <2>1, <2>2, <1>BlockPutAdds, BaseParts, Zenon
    <3> QED
      BY <2>1, <2>2, <2>3, <2>5, <2>10, <3>1, Zenon DEF AddsBlock
  <2>12. AddsHead(h)
    <3>1. frontiers' = [x \in (DOMAIN frontiers \ {p}) \cup {h} |-> Block[x].signer]
      BY <2>3, FrontierMoves, BaseParts, ZenonT(40)
    <3> QED
      BY <2>4, <2>10, <3>1, Zenon DEF AddsHead
  <2>13. AddsValue(h)
    BY <2>1, <2>2, <2>3, <2>4, <2>7, Zenon DEF AddsValue, Key
  <2> QED
    BY <2>10, <2>11, <2>12, <2>13, Zenon DEF Adds
\* receive_block adds the block to every table; the sum of balance and
\* received amount does not wrap.
<1>ReceiveAdds.
  ASSUME Base, NEW h \in Hash, receive_block(h)
  PROVE  Adds(h)
  <2> USE <1>ReceiveAdds
  <2> DEFINE b == Block[h]
             p == Block[h].previous
             a == Block[h].signer
             k == <<a, b.link>>
             received == pending[k].amount
  <2>1. /\ b.type = "receive" /\ h \notin DOMAIN blocks /\ frontier_get(p) # Zero /\ a = frontier_get(p)
        /\ b.link \in DOMAIN blocks /\ k \in DOMAIN pending
    BY Zenon DEF receive_block, receive_code, block_exists
  <2>2. /\ p \in DOMAIN blocks /\ Block[p].signer = a /\ Legacy(p) /\ p # Zero /\ p \in Hash
        /\ a \in DOMAIN accounts /\ a \in Account /\ account_get(a) = accounts[a]
        /\ accounts[a].head = p /\ accounts[a].rep_block = RepBlock[p]
        /\ accounts[a].balance = BalanceAfter(p)
        /\ accounts[a].block_count \in Nat
    BY <2>1, OwnerFacts
  <2>3. /\ blocks' = block_put(blocks, h)
        /\ change_latest(a, h, accounts[a].rep_block, (accounts[a].balance + received) % Modulus,
                         accounts[a].block_count + 1, FALSE, block_info)
        /\ pending' = Del(pending, k)
        /\ frontiers' = frontier_move(p, h, a)
    BY <2>1, <2>2, Zenon DEF receive_block
  <2>4. Legacy(h) /\ RepBlock[h] = RepBlock[p] /\ ~IsSend(h) /\ SourceOf(h) = b.link /\ b.link # Zero /\ h # Genesis
    <3>1. b.link # Zero /\ h # Genesis
      BY <2>1, ValueFacts, BaseParts, Zenon DEF Tables
    <3> QED
      BY <2>1, <3>1, RepFacts, KindFacts, Zenon DEF Legacy, NamesRepresentative
  <2>5. received = AmountOf(b.link)
    BY <2>1, BaseParts DEF Settled
  <2>6. BalanceAfter(h) = BalanceAfter(p) + received /\ AmountOf(h) = received
    BY <2>1, <2>5, MeaningFacts, Zenon
  <2>7. received \in Amount /\ BalanceAfter(p) + received \in Amount
    BY <2>1, <2>2, NoOverflow, Zenon
  <2>8. (accounts[a].balance + received) % Modulus = BalanceAfter(h)
    BY <2>2, <2>6, <2>7, ValueFacts
  <2>9. NewRecord(h).block_count = accounts[a].block_count + 1
    BY <2>2 DEF NewRecord
  <2>10. change_latest(a, h, RepBlock[h], BalanceAfter(h), NewRecord(h).block_count, ~Legacy(h), block_info)
    BY <2>2, <2>3, <2>4, <2>8, <2>9, Zenon
  <2>11. /\ accounts' = Put(accounts, a, NewRecord(h)) /\ AddsInfo(h)
         /\ Summed => checksum' = (checksum \ {p}) \cup {h}
    BY <2>1, <2>2, <2>10, <1>ChangeLatestAdds, Zenon
  <2>12. AddsBlock(h)
    <3>1. block_put(blocks, h) = [x \in DOMAIN blocks \cup {h} |->
                      IF x = h THEN Zero ELSE IF x = Block[h].previous THEN h ELSE blocks[x]]
      BY <2>1, <2>2, <1>BlockPutAdds, BaseParts, SMTT(30)
    <3> QED
      BY <2>1, <2>2, <2>3, <2>6, <2>7, <2>11, <3>1, Zenon DEF AddsBlock
  <2>13. AddsHead(h)
    <3>1. frontiers' = [x \in (DOMAIN frontiers \ {p}) \cup {h} |-> Block[x].signer]
      BY <2>3, FrontierMoves, BaseParts, ZenonT(40)
    <3> QED
      BY <2>4, <2>11, <3>1, Zenon DEF AddsHead
  <2>14. AddsValue(h)
    BY <2>1, <2>3, <2>4, <2>6, <2>7, Zenon DEF AddsValue, Receipt
  <2> QED
    BY <2>11, <2>12, <2>13, <2>14 DEF Adds
\* open_block adds the block to every table.
<1>OpenAdds.
  ASSUME Base, NEW h \in Hash, open_block(h)
  PROVE  Adds(h)
  <2> USE <1>OpenAdds
  <2> DEFINE b == Block[h]
             p == Block[h].previous
             a == Block[h].signer
             k == <<a, b.link>>
             received == pending[k].amount
  <2>1. /\ b.type = "open" /\ h \notin DOMAIN blocks /\ b.account = a /\ a \notin DOMAIN accounts /\ a # Zero
        /\ b.link \in DOMAIN blocks /\ k \in DOMAIN pending
    BY Zenon DEF open_block, open_code, block_exists
  <2>2. p = Zero /\ a \in Account
    BY <2>1, BlockFacts, Zenon DEF Address
  <2>3. /\ blocks' = block_put(blocks, h)
        /\ change_latest(a, h, h, received, 1, FALSE, block_info)
        /\ pending' = Del(pending, k)
        /\ frontiers' = Put(frontiers, h, a)
    BY <2>1, Zenon DEF open_block
  <2>4. Legacy(h) /\ RepBlock[h] = h /\ ~IsSend(h) /\ SourceOf(h) = b.link /\ b.link # Zero /\ h # Genesis
    <3>1. b.link # Zero /\ h # Genesis
      BY <2>1, ValueFacts, BaseParts, Zenon DEF Tables
    <3> QED
      BY <2>1, <3>1, RepFacts, KindFacts, Zenon DEF Legacy, NamesRepresentative
  <2>5. received = AmountOf(b.link)
    BY <2>1, BaseParts DEF Settled
  <2>6. BalanceAfter(h) = BalanceAfter(p) + received /\ AmountOf(h) = received /\ BalanceAfter(p) = 0
    BY <2>1, <2>2, <2>5, MeaningFacts, Zenon
  <2>7. received \in Amount
    BY <2>1, NoOverflow, Zenon
  <2>8. BalanceAfter(h) = received
    BY <2>6, <2>7, ValueFacts
  <2>9. NewRecord(h).block_count = 1
    BY <2>2, Zenon DEF NewRecord
  <2>10. change_latest(a, h, RepBlock[h], BalanceAfter(h), NewRecord(h).block_count, ~Legacy(h), block_info)
    BY <2>3, <2>4, <2>8, <2>9, Zenon
  <2>11. /\ accounts' = Put(accounts, a, NewRecord(h)) /\ AddsInfo(h)
         /\ Summed => checksum' = (checksum \ {p}) \cup {h}
    BY <2>1, <2>2, <2>10, <1>ChangeLatestAdds, Zenon
  <2>12. AddsBlock(h)
    <3>1. block_put(blocks, h) = [x \in DOMAIN blocks \cup {h} |->
                      IF x = h THEN Zero ELSE IF x = Block[h].previous THEN h ELSE blocks[x]]
      BY <2>1, <2>2, <1>BlockPutAdds, BaseParts, Zenon
    <3> QED
      BY <2>1, <2>2, <2>3, <2>7, <2>8, <2>11, <3>1, Zenon DEF AddsBlock
  <2>13. AddsHead(h)
    <3>1. frontiers' = [x \in DOMAIN frontiers \cup {h} |-> Block[x].signer]
      BY <2>3, FrontierMoves, BaseParts, Zenon
    <3>2. p \notin DOMAIN frontiers
      BY <2>2, ValueFacts, BaseParts, Zenon DEF Headed, Tables
    <3>3. DOMAIN frontiers \cup {h} = (DOMAIN frontiers \ {p}) \cup {h}
      BY <3>2, Zenon
    <3> QED
      BY <2>4, <2>11, <3>1, <3>3, Zenon DEF AddsHead
  <2>14. AddsValue(h)
    BY <2>1, <2>3, <2>4, <2>6, <2>7, Zenon DEF AddsValue, Receipt
  <2> QED
    BY <2>11, <2>12, <2>13, <2>14 DEF Adds
\* change_block adds the block to every table.
<1>ChangeAdds.
  ASSUME Base, NEW h \in Hash, change_block(h)
  PROVE  Adds(h)
  <2> USE <1>ChangeAdds
  <2> DEFINE b == Block[h]
             p == Block[h].previous
             a == Block[h].signer
  <2>1. /\ b.type = "change" /\ h \notin DOMAIN blocks /\ frontier_get(p) # Zero /\ a = frontier_get(p)
    BY Zenon DEF change_block, change_code, block_exists
  <2>2. /\ p \in DOMAIN blocks /\ Block[p].signer = a /\ Legacy(p) /\ p # Zero /\ p \in Hash
        /\ a \in DOMAIN accounts /\ a \in Account /\ account_get(a) = accounts[a]
        /\ accounts[a].head = p /\ accounts[a].rep_block = RepBlock[p]
        /\ accounts[a].balance = BalanceAfter(p)
        /\ accounts[a].block_count \in Nat
    BY <2>1, OwnerFacts
  <2>3. /\ blocks' = block_put(blocks, h)
        /\ change_latest(a, h, h, accounts[a].balance, accounts[a].block_count + 1, FALSE, block_info)
        /\ pending' = pending
        /\ frontiers' = frontier_move(p, h, a)
    BY <2>1, <2>2, Zenon DEF change_block
  <2>4. Legacy(h) /\ RepBlock[h] = h /\ ~IsSend(h) /\ SourceOf(h) = Zero
    BY <2>1, RepFacts, KindFacts, Zenon DEF Legacy, NamesRepresentative
  <2>5. BalanceAfter(h) = BalanceAfter(p) /\ AmountOf(h) = 0
    BY <2>1, MeaningFacts, Zenon
  <2>6. BalanceAfter(p) \in Amount /\ AmountOf(h) \in Amount
    BY <2>2, <2>5, NoOverflow, ValueFacts
  <2>8. NewRecord(h).block_count = accounts[a].block_count + 1
    BY <2>2 DEF NewRecord
  <2>9. change_latest(a, h, RepBlock[h], BalanceAfter(h), NewRecord(h).block_count, ~Legacy(h), block_info)
    BY <2>2, <2>3, <2>4, <2>5, <2>8, ZenonT(40)
  <2>10. /\ accounts' = Put(accounts, a, NewRecord(h)) /\ AddsInfo(h)
         /\ Summed => checksum' = (checksum \ {p}) \cup {h}
    BY <2>1, <2>2, <2>9, <1>ChangeLatestAdds, Zenon
  <2>11. AddsBlock(h)
    <3>1. block_put(blocks, h) = [x \in DOMAIN blocks \cup {h} |->
                      IF x = h THEN Zero ELSE IF x = Block[h].previous THEN h ELSE blocks[x]]
      BY <2>1, <2>2, <1>BlockPutAdds, BaseParts, Zenon
    <3> QED
      BY <2>1, <2>2, <2>3, <2>5, <2>6, <2>10, <3>1, Zenon DEF AddsBlock
  <2>12. AddsHead(h)
    <3>1. frontiers' = [x \in (DOMAIN frontiers \ {p}) \cup {h} |-> Block[x].signer]
      BY <2>3, FrontierMoves, BaseParts, ZenonT(40)
    <3> QED
      BY <2>4, <2>10, <3>1, Zenon DEF AddsHead
  <2>13. AddsValue(h)
    BY <2>1, <2>2, <2>3, <2>4, <2>5, <2>6, Zenon DEF AddsValue
  <2> QED
    BY <2>10, <2>11, <2>12, <2>13 DEF Adds
\* state_block adds the block to every table, as a send, a receipt or a
\* change.
<1>StateAdds.
  ASSUME Base, NEW h \in Hash, state_block(h)
  PROVE  Adds(h)
  <2> USE <1>StateAdds
  <2> DEFINE b == Block[h]
             p == Block[h].previous
             a == Block[h].signer
  <2>1. b.type = "state" /\ state_code(h) = "progress"
    BY Zenon DEF state_block
  <2>2. /\ h \notin DOMAIN blocks /\ b.account = a /\ a \in Account
        /\ p = Zero => a \notin DOMAIN accounts /\ b.link # Zero
        /\ p # Zero => a \in DOMAIN accounts /\ p \in DOMAIN blocks /\ accounts[a].head = p
        /\ account_get(a).balance = BalanceAfter(p) /\ BalanceAfter(p) \in Amount
        /\ account_get(a).head = p /\ account_get(a).rep_block = RepBlock[p]
        /\ account_get(a).block_count + 1 = NewRecord(h).block_count
        /\ state_is_send(b) <=> IsSend(h)
        /\ ~IsSend(h) /\ b.link = Zero => b.balance = BalanceAfter(p)
        /\ ~IsSend(h) /\ b.link # Zero =>
              <<a, b.link>> \in DOMAIN pending /\ pending[<<a, b.link>>].amount = b.balance - BalanceAfter(p)
    BY <2>1, StateVerdict, Zenon
  <2>3. /\ blocks' = block_put(blocks, h)
        /\ change_latest(a, h, h, b.balance, NewRecord(h).block_count, TRUE, block_info)
        /\ frontiers' = Del(frontiers, p)
    BY <2>1, <2>2, Zenon DEF state_block
  <2>4. pending' = IF IsSend(h) THEN Put(pending, <<b.link, h>>, [source |-> a, amount |-> BalanceAfter(p) - b.balance])
                   ELSE IF b.link # Zero THEN Del(pending, <<a, b.link>>) ELSE pending
    <3>1. pending' = CASE state_is_send(b) ->
                               Put(pending, <<b.link, h>>, [source |-> b.account, amount |-> account_get(a).balance - b.balance])
                          [] ~state_is_send(b) /\ b.link # Zero -> Del(pending, <<b.account, b.link>>)
                          [] ~state_is_send(b) /\ b.link = Zero -> pending
      BY <2>2, Zenon DEF state_block
    <3>2. CASE IsSend(h)
      BY <2>2, <3>1, <3>2, Zenon
    <3>3. CASE ~IsSend(h) /\ b.link # Zero
      BY <2>2, <3>1, <3>3, Zenon
    <3>4. CASE ~IsSend(h) /\ b.link = Zero
      BY <2>2, <3>1, <3>4, Zenon
    <3> QED
      BY <3>2, <3>3, <3>4, Zenon
  <2>5. ~Legacy(h) /\ RepBlock[h] = h /\ SourceOf(h) = IF IsSend(h) THEN Zero ELSE b.link
    BY <2>1, RepFacts, KindFacts, Zenon DEF Legacy, NamesRepresentative
  <2>6. BalanceAfter(h) = b.balance /\ AmountOf(h) = Difference(BalanceAfter(p), b.balance) /\ b.balance \in Amount
    BY <2>1, MeaningFacts, BlockFacts, Zenon
  <2>7. /\ IsSend(h) => b.balance < BalanceAfter(p)
        /\ ~IsSend(h) => ~(b.balance < BalanceAfter(p))
    BY <2>1, Zenon DEF IsSend
  <2>8. /\ IsSend(h) => AmountOf(h) = BalanceAfter(p) - b.balance
        /\ ~IsSend(h) => AmountOf(h) = b.balance - BalanceAfter(p)
        /\ AmountOf(h) \in Amount
    BY <2>2, <2>6, <2>7, ValueFacts DEF Difference
  <2>9. /\ accounts' = Put(accounts, a, NewRecord(h)) /\ AddsInfo(h)
        /\ Summed => checksum' = (checksum \ {p}) \cup {h}
    <3>1. change_latest(a, h, RepBlock[h], BalanceAfter(h), NewRecord(h).block_count, ~Legacy(h), block_info)
      BY <2>3, <2>5, <2>6, ZenonT(40)
    <3> QED
      BY <2>2, <3>1, <1>ChangeLatestAdds, Zenon
  <2>11. AddsBlock(h)
    <3>1. block_put(blocks, h) = [x \in DOMAIN blocks \cup {h} |->
                      IF x = h THEN Zero ELSE IF x = Block[h].previous THEN h ELSE blocks[x]]
      BY <2>2, <1>BlockPutAdds, BaseParts, Zenon
    <3> QED
      BY <2>1, <2>2, <2>3, <2>5, <2>6, <2>9, <3>1, Zenon DEF AddsBlock
  <2>12. AddsHead(h)
    <3>1. frontiers' = [x \in DOMAIN frontiers \ {p} |-> Block[x].signer]
      BY <2>3, FrontierMoves, BaseParts, Zenon
    <3> QED
      BY <2>5, <2>9, <3>1, Zenon DEF AddsHead
  <2>13. AddsValue(h)
    <3>1. CASE IsSend(h)
      <4>1. p # Zero
        <5>1. b.balance >= 0 /\ BalanceAfter(Zero) = 0 /\ b.balance \in Int
          BY <2>6, MeaningFacts, ValueFacts
        <5> QED
          BY <2>7, <3>1, <5>1
      <4>2. BalanceAfter(h) + AmountOf(h) = BalanceAfter(p)
        BY <2>2, <2>6, <2>8, <3>1, ValueFacts
      <4> QED
        BY <2>1, <2>4, <2>5, <2>8, <3>1, <4>1, <4>2, Zenon DEF AddsValue, Key
    <3>2. CASE ~IsSend(h) /\ b.link # Zero
      <4>1. BalanceAfter(h) = BalanceAfter(p) + AmountOf(h)
        BY <2>2, <2>6, <2>8, <3>2, ValueFacts
      <4> QED
        BY <2>1, <2>2, <2>4, <2>5, <2>8, <3>2, <4>1, Zenon DEF AddsValue, Receipt
    <3>3. CASE ~IsSend(h) /\ b.link = Zero
      BY <2>1, <2>2, <2>4, <2>5, <2>6, <2>8, <3>3, Zenon DEF AddsValue
    <3> QED
      BY <3>1, <3>2, <3>3, Zenon
  <2> QED
    BY <2>9, <2>11, <2>12, <2>13 DEF Adds
<1> SUFFICES
      ASSUME Base, NEW h \in Hash, process(h)
      PROVE  Adds(h) /\ rollbacks = <<>> /\ rollbacks' = <<>>
  BY Zenon
<1> QED
  BY <1>SendAdds, <1>ReceiveAdds, <1>OpenAdds, <1>ChangeAdds, <1>StateAdds, Zenon DEF process

\* Every handler of process moves the weight of the account from the previous
\* block to the new one.
LEMMA ProcessWeighs ==
    ASSUME Base, representation \in [Address -> Amount], NEW h \in Hash,
           send_block(h) \/ receive_block(h) \/ open_block(h) \/ change_block(h) \/ state_block(h), Adds(h), Added(h)
    PROVE  WeightMoves(Block[h].previous, h)
<1> DEFINE b == Block[h]
           p == Block[h].previous
           a == Block[h].signer
<1>0. /\ p # Zero => p \in DOMAIN blocks /\ p \in Hash /\ RepBlock[p] \in Hash
      /\ p \in Hash \cup {Zero} /\ h \in Hash \cup {Zero} /\ h # Zero /\ h \notin DOMAIN blocks
  <2>1. p # Zero => p \in DOMAIN blocks /\ h # Zero /\ h \notin DOMAIN blocks
    BY Zenon DEF Added
  <2>2. p # Zero => RepBlock[p] \in DOMAIN blocks
    BY <2>1, RepStored, BaseParts, Zenon
  <2> QED
    BY <2>1, <2>2, BaseParts, Zenon DEF Tables, Added
<1>1. /\ BalanceAfter(h) \in Amount /\ AmountOf(h) \in Amount
      /\ IsSend(h) => BalanceAfter(p) - BalanceAfter(h) = AmountOf(h)
      /\ SourceOf(h) # Zero => BalanceAfter(h) - BalanceAfter(p) = AmountOf(h) /\ pending[Receipt(h)].amount = AmountOf(h)
      /\ ~IsSend(h) /\ SourceOf(h) = Zero => BalanceAfter(h) = BalanceAfter(p)
  <2>1. BalanceAfter(p) \in Int /\ BalanceAfter(h) \in Int /\ AmountOf(h) \in Int
    BY <1>0, MeaningFacts
  <2> QED
    BY <2>1 DEF Adds, AddsBlock, AddsValue
<1>2. BalanceAfter(p) \in Amount
  BY <1>0, MeaningFacts, ValueFacts, BaseParts DEF Meant, BlockMeans
<1>3. CASE send_block(h)
  <2>1. b.type = "send" /\ frontier_get(p) # Zero /\ a = frontier_get(p)
    BY <1>3, Zenon DEF send_block, send_code, block_exists
  <2>2. /\ p # Zero /\ account_get(a) = accounts[a] /\ accounts[a].rep_block = RepBlock[p] /\ accounts[a].balance = BalanceAfter(p)
    BY <2>1, OwnerFacts, Zenon
  <2>3. RepBlock[h] = RepBlock[p] /\ IsSend(h) /\ BalanceAfter(h) = b.balance
    BY <2>1, RepFacts, KindFacts, MeaningFacts, Zenon DEF NamesRepresentative
  <2>4. representation' = representation_add(representation, RepBlock[p], Negate(BalanceAfter(p) - BalanceAfter(h)))
    BY <1>3, <2>1, <2>2, <2>3, Zenon DEF send_block
  <2> QED
    BY <1>0, <1>1, <2>2, <2>3, <2>4, WeightTaken, Zenon
<1>4. CASE receive_block(h)
  <2>1. b.type = "receive" /\ frontier_get(p) # Zero /\ a = frontier_get(p)
    BY <1>4, Zenon DEF receive_block, receive_code, block_exists
  <2>2. /\ p # Zero /\ account_get(a) = accounts[a] /\ accounts[a].rep_block = RepBlock[p]
    BY <2>1, OwnerFacts, Zenon
  <2>3. RepBlock[h] = RepBlock[p]
    BY <2>1, RepFacts, Zenon DEF NamesRepresentative
  <2>4. SourceOf(h) # Zero /\ SourceOf(h) = b.link
    BY <2>1, KindFacts, Zenon DEF Adds, AddsValue
  <2>5. representation' = representation_add(representation, RepBlock[p], BalanceAfter(h) - BalanceAfter(p))
    BY <1>1, <1>4, <2>1, <2>2, <2>4, Zenon DEF receive_block, Receipt
  <2> QED
    BY <1>0, <1>1, <2>2, <2>3, <2>4, <2>5, WeightGiven, Zenon
<1>5. CASE open_block(h)
  <2>1. b.type = "open" /\ b.account = a
    BY <1>5, Zenon DEF open_block, open_code, block_exists
  <2>2. p = Zero /\ RepBlock[h] = h
    BY <2>1, RepFacts, BlockFacts, Zenon DEF NamesRepresentative
  <2>4. SourceOf(h) # Zero /\ SourceOf(h) = b.link
    BY <2>1, KindFacts, Zenon DEF Adds, AddsValue
  <2>5. representation' = representation_add(representation, h, BalanceAfter(h) - BalanceAfter(p))
    BY <1>1, <1>5, <2>1, <2>2, <2>4, Zenon DEF open_block, Receipt
  <2> QED
    BY <1>0, <1>1, <2>2, <2>4, <2>5, WeightGiven, Zenon
<1>6. CASE change_block(h)
  <2>1. b.type = "change" /\ frontier_get(p) # Zero /\ a = frontier_get(p)
    BY <1>6, Zenon DEF change_block, change_code, block_exists
  <2>2. /\ p # Zero /\ account_get(a) = accounts[a] /\ accounts[a].rep_block = RepBlock[p]
    BY <2>1, OwnerFacts, Zenon
  <2>3. RepBlock[h] = h /\ BalanceAfter(h) = BalanceAfter(p)
    BY <2>1, RepFacts, MeaningFacts, Zenon DEF NamesRepresentative
  <2>4. balance(p) = BalanceAfter(p)
    BY <1>0, <2>2, VisitorIsRight, BaseParts, Zenon
  <2>5. representation' = representation_add(representation_add(representation, RepBlock[h], BalanceAfter(h)),
                                             RepBlock[p], Negate(BalanceAfter(p)))
    BY <1>6, <2>1, <2>2, <2>3, <2>4, Zenon DEF change_block
  <2> QED
    BY <1>0, <1>1, <1>2, <2>2, <2>3, <2>5, WeightGivenTaken, Zenon
<1>7. CASE state_block(h)
  <2>1. b.type = "state" /\ state_code(h) = "progress"
    BY <1>7, Zenon DEF state_block
  <2>2. b.account = a /\ account_get(a).rep_block = RepBlock[p] /\ account_get(a).balance = BalanceAfter(p)
    BY <2>1, StateVerdict, Zenon
  <2>3. RepBlock[h] = h /\ BalanceAfter(h) = b.balance
    BY <2>1, RepFacts, MeaningFacts, Zenon DEF NamesRepresentative
  <2>4. RepBlock[p] = Zero <=> p = Zero
    BY <1>0, RepFacts, ValueFacts, Zenon
  <2> DEFINE w == IF p = Zero THEN representation ELSE representation_add(representation, RepBlock[p], Negate(BalanceAfter(p)))
  <2>5. representation' = representation_add(w, RepBlock[h], BalanceAfter(h))
    BY <1>7, <2>2, <2>3, <2>4, Zenon DEF state_block
  <2>6. representation' = IF h = Zero THEN w ELSE representation_add(w, RepBlock[h], BalanceAfter(h))
    BY <1>0, <2>5, Zenon
  <2>7. RepBlock[h] \in Hash
    BY <2>3, Zenon
  <2> QED
    BY <1>0, <1>1, <1>2, <2>6, <2>7, WeightTakenGiven, Zenon
<1> QED
  BY <1>3, <1>4, <1>5, <1>6, <1>7, Zenon

-----------------------------------------------------------------------------
(* The calls of rollback *)
\* The blocks of a chain up to y are ancestors of y.
LEMMA ChainAncestors ==
    ASSUME Tables, Linked, Ordered
    PROVE  \A x, y \in DOMAIN blocks : Block[x].signer = Block[y].signer /\ Age[x] <= Age[y] => x \in Ancestors[y]
<1> DEFINE Good(y) == \A x \in DOMAIN blocks : Block[x].signer = Block[y].signer /\ Age[x] <= Age[y] => x \in Ancestors[y]
           C == {n \in Nat : \A y \in DOMAIN blocks : Age[y] = n => Good(y)}
<1>0. DOMAIN blocks \subseteq Hash
  BY Zenon DEF Tables
<1>1. ASSUME NEW n \in Nat, \A m \in Nat : m < n => m \in C PROVE n \in C
  <2> SUFFICES ASSUME NEW y \in DOMAIN blocks, Age[y] = n, NEW x \in DOMAIN blocks,
                      Block[x].signer = Block[y].signer, Age[x] <= Age[y]
               PROVE  x \in Ancestors[y]
    BY Zenon
  <2>1. CASE x = y
    BY <1>0, <2>1, AncestorFacts, Zenon
  <2>2. CASE x # y
    <3> DEFINE p == Block[y].previous
    <3>1. Age[x] \in Nat /\ Age[y] \in Nat
      BY <1>0, BlockFacts, Zenon
    <3>2. Age[x] < Age[y]
      BY <2>2, <3>1 DEF Ordered
    <3>3. p # Zero /\ Age[x] <= Age[p]
      BY <3>2, Zenon DEF Ordered
    <3>4. p \in DOMAIN blocks /\ Block[p].signer = Block[y].signer
      BY <3>3, Zenon DEF Linked, BlockLinked
    <3>5. Age[p] < Age[y] /\ Age[p] \in Nat
      BY <1>0, <3>4, BlockFacts, Zenon
    <3>6. x \in Ancestors[p]
      BY <1>1, <3>3, <3>4, <3>5, Zenon
    <3>7. p \in Named(y)
      BY <1>0, <3>4, Zenon DEF Named
    <3> QED
      BY <1>0, <3>6, <3>7, AncestorFacts, Zenon
  <2> QED
    BY <2>1, <2>2, Zenon
<1>2. Nat \subseteq C
  <2> HIDE DEF C
  <2> QED
    BY <1>1, NatCourseOfValues, Zenon
<1> QED
  BY <1>0, <1>2, BlockFacts, Zenon

-----------------------------------------------------------------------------
(* What it implies *)
\* The heads are the blocks without a successor.
LEMMA HeadsAre == ASSUME Base PROVE Heads = {h \in DOMAIN blocks : blocks[h] = Zero}
<1>1. ASSUME NEW h \in Heads PROVE h \in DOMAIN blocks /\ blocks[h] = Zero
  BY BaseParts DEF Heads, Owned, AccountLinked
<1>2. ASSUME NEW h \in DOMAIN blocks, blocks[h] = Zero PROVE h \in Heads
  <2>1. Block[h].signer \in DOMAIN accounts /\ accounts[Block[h].signer].head = h
    BY <1>2, BaseParts, Zenon DEF Linked, BlockLinked
  <2> QED
    BY <2>1, Zenon DEF Heads
<1> QED
  BY <1>1, <1>2, Zenon

\* process keeps the invariant.
LEMMA ProcessKeeps ==
    ASSUME IInv, NEW h \in Hash, process(h)
    PROVE  IInv' /\ Added(h) /\ Adds(h) /\ rollbacks' = rollbacks
<1> DEFINE p == Block[h].previous
           a == Block[h].signer
<1>1. Adds(h) /\ rollbacks = <<>> /\ rollbacks' = <<>> /\ Base /\ Weighed /\ representation \in [Address -> Amount]
  BY ProcessAdds, Zenon DEF IInv, Weighed
<1>2. Base' /\ Added(h)
  BY <1>1, AddsKeepsBase, Zenon
<1>3. WeightMoves(p, h)
  <2>1. send_block(h) \/ receive_block(h) \/ open_block(h) \/ change_block(h) \/ state_block(h)
    BY Zenon DEF process
  <2> QED
    BY <1>1, <1>2, <2>1, ProcessWeighs, Zenon
<1>4. Visited = {} /\ Visited' = {}
  BY <1>1 DEF Visited
<1>5. \A c : WeighedHead(c) = accounts[c].head /\ WeighedHead(c)' = accounts'[c].head
  BY <1>4, Zenon DEF WeighedHead, Undone
<1>6. /\ DOMAIN accounts \ {a} = DOMAIN accounts' \ {a} /\ a \in DOMAIN accounts' /\ accounts'[a].head = h
      /\ \A c \in DOMAIN accounts \ {a} : accounts'[c] = accounts[c]
      /\ p = Zero => a \notin DOMAIN accounts
      /\ p # Zero => a \in DOMAIN accounts /\ accounts[a].head = p
  BY <1>2 DEF Added, NewRecord
<1>7. /\ p = IF a \in DOMAIN accounts THEN WeighedHead(a) ELSE Zero
      /\ h = IF a \in DOMAIN accounts' THEN WeighedHead(a)' ELSE Zero
      /\ \A c \in DOMAIN accounts \ {a} : WeighedHead(c)' = WeighedHead(c)
  BY <1>5, <1>6, Zenon
<1>8. Weighed'
  <2>1. Tables /\ Tables'
    BY <1>1, <1>2, Zenon DEF Base
  <2>2. DOMAIN accounts \ {a} = DOMAIN accounts' \ {a}
    BY <1>6, Zenon
  <2> HIDE DEF a, p
  <2> QED
    BY <1>1, <1>3, <1>7, <2>1, <2>2, WeightsFollow, Zenon
<1>9. Stacked'
  BY <1>1 DEF Stacked
<1> QED
  BY <1>1, <1>2, <1>8, <1>9, Zenon DEF IInv

\* With the checksum of all heads, the invariant implies that the tables describe
\* the same chains.
LEMMA TablesHold ==
        (/\ IInv /\ Summed)
        => (TablesAgree)
\* The invariant implies the type of every table.
<1>TypeHolds.
  ASSUME IInv, Summed PROVE TypeOK
  <2> USE <1>TypeHolds
  <2>1. /\ DOMAIN blocks \subseteq Hash /\ blocks \in [DOMAIN blocks -> Hash \cup {Zero}]
        /\ DOMAIN accounts \subseteq Account
        /\ accounts \in [DOMAIN accounts -> [head : Hash, rep_block : Hash, open_block : Hash, balance : Amount, block_count : Nat]]
    BY BaseParts, Zenon DEF IInv, Tables
  <2>2. \A h \in DOMAIN blocks : Block[h].signer \in Account /\ h \in Hash
    BY <2>1, BaseParts, Zenon DEF IInv, Linked, BlockLinked
  <2>3. DOMAIN frontiers \subseteq Hash /\ frontiers \in [DOMAIN frontiers -> Account]
    BY <2>2, BaseParts, Zenon DEF IInv, Headed
  <2>4. ASSUME NEW k \in DOMAIN pending PROVE k \in Link \X Hash /\ pending[k] \in [source : Account, amount : Amount]
    <3> DEFINE s == k[2]
    <3>1. s \in DOMAIN blocks /\ k = <<Block[s].link, s>> /\ pending[k] = [source |-> Block[s].signer, amount |-> AmountOf(s)]
      BY BaseParts, Zenon DEF IInv, Settled, Key
    <3>2. s \in Hash /\ Block[s].link \in Link /\ Block[s].signer \in Account /\ AmountOf(s) \in Amount
      BY <2>2, <3>1, BlockFacts, BaseParts, Zenon DEF IInv, Meant, BlockMeans
    <3> HIDE DEF s
    <3> QED
      BY <3>1, <3>2
  <2>5. pending \in [DOMAIN pending -> [source : Account, amount : Amount]] /\ DOMAIN pending \subseteq Link \X Hash
    BY <2>4, BaseParts, Zenon DEF IInv, Settled
  <2>6. DOMAIN block_info \subseteq Hash /\ block_info \in [DOMAIN block_info -> [account : Account, balance : Amount]]
    BY BaseParts DEF IInv, Snapshots, Info
  <2>7. representation \in [Address -> Amount] /\ rollbacks \in Seq(Frame) /\ checksum \subseteq Hash
    BY <2>1, Zenon DEF IInv, Weighed, Stacked, Summed
  <2> QED
    BY <2>1, <2>3, <2>5, <2>6, <2>7, Zenon DEF TypeOK
\* It is the last one of the chain, up to the block.
<1>RepLatest.
  ASSUME Tables, Linked, Ordered
  PROVE  \A h, y \in DOMAIN blocks :
            Block[y].signer = Block[h].signer /\ Age[y] <= Age[h] /\ NamesRepresentative(y) => Age[y] <= Age[RepBlock[h]]
  <2> USE <1>RepLatest
  <2> DEFINE Good(h) == \A y \in DOMAIN blocks :
                Block[y].signer = Block[h].signer /\ Age[y] <= Age[h] /\ NamesRepresentative(y) => Age[y] <= Age[RepBlock[h]]
             C == {n \in Nat : \A h \in DOMAIN blocks : Age[h] = n => Good(h)}
  <2>0. DOMAIN blocks \subseteq Hash
    BY Zenon DEF Tables
  <2>1. ASSUME NEW n \in Nat, \A m \in Nat : m < n => m \in C PROVE n \in C
    <3> SUFFICES ASSUME NEW h \in DOMAIN blocks, Age[h] = n, NEW y \in DOMAIN blocks,
                        Block[y].signer = Block[h].signer, Age[y] <= Age[h], NamesRepresentative(y)
                 PROVE  Age[y] <= Age[RepBlock[h]]
      BY Zenon
    <3>1. CASE NamesRepresentative(h)
      BY <2>0, <3>1, RepFacts, Zenon
    <3>2. CASE ~NamesRepresentative(h)
      <4> DEFINE p == Block[h].previous
      <4>1. Block[h].type \notin {"open", "state"}
        BY <3>2, Zenon DEF NamesRepresentative
      <4>2. p \in DOMAIN blocks /\ Block[p].signer = Block[h].signer
        BY <4>1, Zenon DEF Linked, BlockLinked
      <4>3. Age[p] < Age[h] /\ Age[p] \in Nat
        BY <2>0, <4>2, BlockFacts, Zenon
      <4>4. Good(p)
        BY <2>1, <4>2, <4>3, Zenon
      <4>5. RepBlock[h] = RepBlock[p]
        BY <2>0, <3>2, RepFacts, Zenon
      <4>6. y # h
        BY <3>2, Zenon
      <4>7. Age[y] \in Nat /\ Age[h] \in Nat
        BY <2>0, BlockFacts, Zenon
      <4>8. Age[y] < Age[h]
        BY <4>6, <4>7 DEF Ordered
      <4>9. Age[y] <= Age[p]
        BY <4>8, Zenon DEF Ordered
      <4> QED
        BY <4>2, <4>4, <4>5, <4>9, Zenon
    <3> QED
      BY <3>1, <3>2, Zenon
  <2>2. Nat \subseteq C
    <3> HIDE DEF C
    <3> QED
      BY <2>1, NatCourseOfValues, Zenon
  <2> QED
    BY <2>0, <2>2, BlockFacts, Zenon
<1> SUFFICES
      ASSUME IInv, Summed PROVE TablesAgree
  BY Zenon
<1>0. Base
  BY Zenon DEF IInv
<1>1. Heads = {h \in DOMAIN blocks : blocks[h] = Zero}
  BY <1>0, HeadsAre, Zenon
<1>2. \A h \in DOMAIN blocks : h \in Hash /\ BlockLinked(h)
  BY <1>0, BaseParts, Zenon DEF Tables, Linked
<1>3. ChainsAreLinked
  BY <1>1, <1>2, Zenon DEF ChainsAreLinked, BlockLinked, Stored, block_successor
<1>4. ASSUME NEW a \in DOMAIN accounts
      PROVE  /\ {accounts[a].head, accounts[a].open_block, accounts[a].rep_block} \subseteq ChainOf(a)
             /\ Block[accounts[a].open_block].previous = Zero
             /\ accounts[a].block_count = Cardinality(ChainOf(a))
             /\ accounts[a].balance = BalanceAfter(accounts[a].head)
             /\ \A h \in ChainOf(a) : NamesRepresentative(h) => Age[h] <= Age[accounts[a].rep_block]
             /\ NamesRepresentative(accounts[a].rep_block)
  <2> DEFINE h == accounts[a].head
  <2>1. AccountLinked(a)
    BY <1>0, BaseParts, Zenon DEF Owned
  <2>2. h \in DOMAIN blocks /\ Block[h].signer = a /\ accounts[a].rep_block = RepBlock[h]
    BY <2>1, Zenon DEF AccountLinked
  <2>3. RepBlock[h] \in DOMAIN blocks /\ Block[RepBlock[h]].signer = a /\ NamesRepresentative(RepBlock[h])
    BY <1>0, <2>2, RepStored, BaseParts, Zenon
  <2>4. \A y \in DOMAIN blocks : Block[y].signer = a => Age[y] <= Age[h]
    BY <1>0, BaseParts, Zenon DEF Ordered
  <2>5. \A y \in DOMAIN blocks : Block[y].signer = a /\ NamesRepresentative(y) => Age[y] <= Age[RepBlock[h]]
    BY <1>0, <2>2, <2>4, <1>RepLatest, BaseParts, Zenon
  <2> QED
    BY <2>1, <2>2, <2>3, <2>5, Zenon DEF AccountLinked, ChainOf, Stored
<1>5. AccountInfoIsChain
  BY <1>4, Zenon DEF AccountInfoIsChain
<1>6. FrontiersAreLegacyHeads
  <2>1. \A h \in DOMAIN blocks : Legacy(h) <=> Block[h].type \in LegacyType
    BY <1>2, BlockFacts, Zenon DEF Legacy, LegacyType
  <2>2. DOMAIN frontiers = {x \in Heads : Block[x].type \in LegacyType}
    BY <1>0, <1>1, <2>1, BaseParts, Zenon DEF Headed
  <2>3. \A h \in DOMAIN frontiers : frontiers[h] = Block[h].signer
    BY <1>0, BaseParts, Zenon DEF Headed
  <2>4. frontiers = [h \in DOMAIN frontiers |-> frontiers[h]]
    BY <1>0, BaseParts, Zenon DEF Headed
  <2>5. frontiers = [h \in DOMAIN frontiers |-> Block[h].signer]
    BY <2>3, <2>4, Zenon
  <2> QED
    BY <2>2, <2>5, Zenon DEF FrontiersAreLegacyHeads
<1>7. ChecksumOfHeads
  BY <1>1, Zenon DEF Summed, ChecksumOfHeads
<1> QED
  BY <1>3, <1>5, <1>6, <1>7, <1>TypeHolds, Zenon DEF TablesAgree

\* The invariant implies that sends settle once.
LEMMA SettledHolds == ASSUME IInv PROVE SendsSettleOnce
<1> DEFINE receivers(s) == {r \in Stored : SourceOf(r) = s}
           sends == {s \in Stored : IsSend(s)}
           waiting == {s \in sends : receivers(s) = {}}
           keys == {<<Block[s].link, s>> : s \in waiting}
<1>0. Base /\ Stored = DOMAIN blocks /\ \A h \in DOMAIN blocks : h \in Hash /\ h # Zero /\ BlockMeans(h)
  BY ValueFacts, BaseParts, Zenon DEF IInv, Tables, Meant, Stored
<1>1. ASSUME NEW k \in DOMAIN pending PROVE k \in keys /\ pending[k] = [source |-> Block[k[2]].signer, amount |-> AmountOf(k[2])]
  <2>1. /\ k[2] \in DOMAIN blocks /\ k = <<Block[k[2]].link, k[2]>> /\ IsSend(k[2])
        /\ \A r \in DOMAIN blocks : SourceOf(r) # k[2]
        /\ pending[k] = [source |-> Block[k[2]].signer, amount |-> AmountOf(k[2])]
    BY <1>0, BaseParts, Zenon DEF Settled, Key
  <2>2. k[2] \in waiting
    BY <1>0, <2>1, Zenon
  <2> QED
    BY <2>1, <2>2, Zenon
<1>2. ASSUME NEW k \in keys PROVE k \in DOMAIN pending
  <2>1. PICK s \in waiting : k = <<Block[s].link, s>>
    BY Zenon
  <2>2. s \in DOMAIN blocks /\ IsSend(s) /\ \A r \in DOMAIN blocks : SourceOf(r) # s
    BY <1>0, Zenon
  <2> QED
    BY <1>0, <2>1, <2>2, BaseParts, Zenon DEF Settled, Key
<1>3. DOMAIN pending = keys
  BY <1>1, <1>2, Zenon
<1>4. pending = [k \in DOMAIN pending |-> pending[k]]
  BY <1>0, BaseParts, Zenon DEF Settled
<1>5. pending = [k \in keys |-> [source |-> Block[k[2]].signer, amount |-> AmountOf(k[2])]]
  <2> HIDE DEF keys
  <2> QED
    BY <1>1, <1>3, <1>4, Zenon
<1>6. \A s \in sends : \A r, q \in receivers(s) : r = q /\ Block[r].signer = Block[s].link
  <2> SUFFICES ASSUME NEW s \in sends, NEW r \in receivers(s), NEW q \in receivers(s)
               PROVE  r = q /\ Block[r].signer = Block[s].link
    BY Zenon
  <2>1. r \in DOMAIN blocks /\ q \in DOMAIN blocks /\ SourceOf(r) = s /\ SourceOf(q) = s /\ s # Zero
    BY <1>0, Zenon
  <2>2. BlockMeans(r)
    BY <1>0, <2>1, Zenon
  <2> QED
    BY <1>0, <2>1, <2>2, BaseParts, Zenon DEF Settled, BlockMeans
<1>7. \A r \in Stored : SourceOf(r) # Zero => SourceOf(r) \in sends
  BY <1>0, Zenon DEF BlockMeans
<1> QED
  BY <1>5, <1>6, <1>7, Zenon DEF SendsSettleOnce

\* Between operations the weights are the delegated balances: both are below
\* 2^128, so being equal modulo 2^128 is being equal.
LEMMA WeightHolds ==
        (/\ IInv)
        => (WeightIsDelegated)
\* Entries that are 0 can be left out of a sum.
<1>SumZeros.
  ASSUME NEW S, IsFiniteSet(S), NEW T \in SUBSET S, NEW f \in [S -> Int], NEW g \in [T -> Int],
         \A x \in T : g[x] = f[x], \A x \in S \ T : f[x] = 0
  PROVE  SumFunction(f) = SumFunction(g)
  <2> USE <1>SumZeros
  <2> DEFINE C == {U \in SUBSET (S \ T) : SumFunctionOnSet(f, T \cup U) = SumFunctionOnSet(g, T)}
  <2>0. \A U \in SUBSET S : IsFiniteSet(U)
    BY FiniteFacts, Zenon
  <2>1. {} \in C
    <3>1. T \cup {} = T
      BY Zenon
    <3>2. SumFunctionOnSet(f, T) = SumFunctionOnSet(g, T)
      BY <2>0, SumAgree, Zenon
    <3> QED
      BY <3>1, <3>2, Zenon
  <2>2. ASSUME NEW U \in SUBSET (S \ T), NEW x \in (S \ T) \ U, U \in C PROVE U \cup {x} \in C
    <3> DEFINE V == T \cup (U \cup {x})
    <3>1. V \in SUBSET S /\ x \in V /\ V \ {x} = T \cup U /\ T \cup U \in SUBSET S
      BY Zenon
    <3> HIDE DEF V
    <3>2. IsFiniteSet(V) /\ IsFiniteSet(T \cup U)
      BY <2>0, <3>1, Zenon
    <3>3. SumFunctionOnSet(f, V) = f[x] + SumFunctionOnSet(f, V \ {x})
      BY <3>1, <3>2, SumOnSet, Zenon
    <3>4. SumFunctionOnSet(f, T \cup U) \in Int
      BY <3>1, <3>2, SumOnSet, Zenon
    <3>5. SumFunctionOnSet(f, V) = SumFunctionOnSet(f, T \cup U)
      <4>1. f[x] = 0
        BY Zenon
      <4>2. SumFunctionOnSet(f, V) = 0 + SumFunctionOnSet(f, T \cup U)
        BY <3>1, <3>3, <4>1, Zenon
      <4> QED
        BY <3>4, <4>2
    <3> QED
      BY <2>2, <3>5, Zenon DEF V
  <2>3. S \ T \in C
    <3>1. IsFiniteSet(S \ T)
      BY <2>0, Zenon
    <3> HIDE DEF C
    <3> QED
      BY <2>1, <2>2, <3>1, FiniteSetInductive, Zenon
  <2>4. T \cup (S \ T) = S
    BY Zenon
  <2> QED
    BY <2>3, <2>4, Zenon DEF SumFunction
\* A sum of entries that are no larger is no larger.
<1>SumMonotone.
  ASSUME NEW S, IsFiniteSet(S), NEW f \in [S -> Int], NEW g \in [S -> Int], \A x \in S : f[x] <= g[x]
  PROVE  SumFunction(f) <= SumFunction(g)
  <2> USE <1>SumMonotone
  <2> DEFINE C == {T \in SUBSET S : SumFunctionOnSet(f, T) <= SumFunctionOnSet(g, T)}
  <2>0. \A T \in SUBSET S : IsFiniteSet(T)
    BY FiniteFacts, Zenon
  <2>1. {} \in C
    <3>1. SumFunctionOnSet(f, {}) = 0 /\ SumFunctionOnSet(g, {}) = 0
      BY SumOnSet, Zenon
    <3> QED
      BY <3>1
  <2>2. ASSUME NEW T \in SUBSET S, NEW x \in S \ T, T \in C PROVE T \cup {x} \in C
    <3>1. IsFiniteSet(T \cup {x}) /\ (T \cup {x}) \ {x} = T
      BY <2>0, Zenon
    <3>2. SumFunctionOnSet(f, T \cup {x}) = f[x] + SumFunctionOnSet(f, T)
      BY <3>1, SumOnSet
    <3>3. SumFunctionOnSet(g, T \cup {x}) = g[x] + SumFunctionOnSet(g, T)
      BY <3>1, SumOnSet
    <3>4. SumFunctionOnSet(f, T) \in Int /\ SumFunctionOnSet(g, T) \in Int
      BY <2>0, SumOnSet, Zenon
    <3>5. f[x] + SumFunctionOnSet(f, T) <= g[x] + SumFunctionOnSet(g, T)
      BY <2>2, <3>4
    <3> QED
      BY <3>2, <3>3, <3>5, Zenon
  <2>3. S \in C
    <3> HIDE DEF C
    <3> QED
      BY <2>1, <2>2, FiniteSetInductive, Zenon
  <2> QED
    BY <2>3, Zenon DEF SumFunction
\* Two numbers below 2^128 that are equal modulo 2^128 are equal.
<1>SameAmounts.
  ASSUME NEW x \in Amount, NEW y \in Amount, Same(x, y)
  PROVE  x = y
  <2> USE <1>SameAmounts
  <2>1. PICK k \in Int : x = y + k * Modulus
    BY Zenon DEF Same
  <2>2. x \in Int /\ y \in Int /\ 0 <= x /\ x < Modulus /\ 0 <= y /\ y < Modulus /\ Modulus \in Int /\ Modulus > 0
    BY ValueFacts
  <2>3. k * Modulus \in Int /\ k * Modulus < Modulus /\ k * Modulus > 0 - Modulus
    BY <2>1, <2>2
  <2>4. ASSUME k >= 1 PROVE FALSE
    <3>1. k * Modulus >= Modulus
      BY <2>2, <2>4
    <3> QED
      BY <2>2, <2>3, <3>1
  <2>5. ASSUME k <= -1 PROVE FALSE
    <3>1. k * Modulus <= (-1) * Modulus
      BY <2>2, <2>5
    <3> QED
      BY <2>2, <2>3, <3>1
  <2>6. k = 0
    BY <2>4, <2>5
  <2> QED
    BY <2>1, <2>2, <2>6
<1> SUFFICES
      ASSUME IInv PROVE WeightIsDelegated
  OBVIOUS
<1> SUFFICES ASSUME rollbacks = <<>>, NEW rep \in Address
             PROVE  LET delegators == {a \in DOMAIN accounts : Block[accounts[a].rep_block].representative = rep}
                    IN  representation[rep] = SumFunction([a \in delegators |-> accounts[a].balance])
  BY Zenon DEF WeightIsDelegated, Quiet
<1> DEFINE S == DOMAIN accounts
           T == {a \in S : Block[accounts[a].rep_block].representative = rep}
           f == Shares(rep)
           g == [a \in T |-> accounts[a].balance]
<1>1. Base /\ representation[rep] \in Amount /\ Same(representation[rep], SumFunction(f)) /\ IsFiniteSet(S)
  BY BaseParts, Zenon DEF IInv, Weighed, Tables
<1>2. Visited = {}
  BY DEF Visited
<1>3. \A a \in S : /\ accounts[a].rep_block = RepBlock[accounts[a].head] /\ accounts[a].balance = BalanceAfter(accounts[a].head)
                   /\ accounts[a].head # Zero /\ accounts[a].balance \in Nat
  BY <1>1, ValueFacts, BaseParts DEF Owned, AccountLinked, Tables
<1>4. \A a \in S : WeighedHead(a) = accounts[a].head
  BY <1>2, Zenon DEF WeighedHead, Undone
<1>5. f = [a \in S |-> IF Block[accounts[a].rep_block].representative = rep THEN accounts[a].balance ELSE 0]
  BY <1>3, <1>4 DEF Shares, ShareAt
<1> HIDE DEF f
<1>6. f \in [S -> Nat] /\ f \in [S -> Int] /\ g \in [T -> Int] /\ T \in SUBSET S
  BY <1>3, <1>5
<1>7. (\A a \in T : g[a] = f[a]) /\ (\A a \in S \ T : f[a] = 0)
  BY <1>5, Zenon
<1>8. Balances \in [S -> Int] /\ \A a \in S : f[a] <= Balances[a]
  BY <1>3, <1>5 DEF Balances
<1> HIDE DEF S, T, g
<1>9. SumFunction(f) = SumFunction(g)
  BY <1>1, <1>6, <1>7, <1>SumZeros
<1>10. SumFunction(f) \in Nat
  BY <1>1, <1>6, SumBounds, Zenon
<1>11. SumFunction(f) <= SumFunction(Balances)
  BY <1>1, <1>6, <1>8, <1>SumMonotone, Zenon
<1>12. SumFunction(Balances) \in Nat /\ SumFunction(Amounts) \in Nat /\ SumFunction(Balances) + SumFunction(Amounts) = MaxAmount
  BY <1>1, SupplyBounds, BaseParts, Zenon DEF SupplyIsConserved, Balances, Amounts
<1>13. SumFunction(f) \in Amount
  BY <1>10, <1>11, <1>12, ValueFacts
<1>14. representation[rep] = SumFunction(f)
  BY <1>1, <1>13, <1>SameAmounts, Zenon
<1> QED
  BY <1>9, <1>14, Zenon DEF g, T, S

\* The invariant implies that lookups agree with the history.
LEMMA LookupsHold ==
        (/\ IInv)
        => (LookupsAgree)
\* The invariant implies that forks find their competitor.
<1>ForksHold.
  (/\ IInv)
  => (ForksFindTheirCompetitor)
  \* A stored block that has a successor, and an open account, have the
  \* competitor of a block with the same root.
  <2>CompetitorOfPrevious.
    ASSUME Base, NEW h \in Hash, h \notin DOMAIN blocks, Block[h].previous \in DOMAIN blocks, blocks[Block[h].previous] # Zero
    PROVE  /\ forked_block(h) \in Stored \ {h} /\ root(forked_block(h)) = root(h)
           /\ successor(root(h)) = forked_block(h)
    <3> USE <2>CompetitorOfPrevious
    <3> DEFINE p == Block[h].previous
               n == blocks[p]
    <3>1. p \in Hash /\ p # Zero /\ p \notin DOMAIN accounts
      BY ValueFacts, BlockFacts, BaseParts, Zenon DEF Tables
    <3>2. n \in DOMAIN blocks /\ Block[n].previous = p
      BY BaseParts, Zenon DEF Linked, BlockLinked
    <3>3. root(h) = p /\ root(n) = p
      BY <3>1, <3>2, Zenon DEF root
    <3>4. forked_block(h) = n
      BY <3>2, <3>3, Zenon DEF forked_block, block_successor, block_exists
    <3>5. successor(p) = n
      BY <3>1, Zenon DEF successor, block_successor
    <3> QED
      BY <3>2, <3>3, <3>4, <3>5, Zenon DEF Stored
  \* An open account has the competitor of a block that opens it.
  <2>CompetitorOfOpen.
    ASSUME Base, NEW h \in Hash, h \notin DOMAIN blocks, Block[h].previous = Zero, Block[h].account \in DOMAIN accounts
    PROVE  /\ forked_block(h) \in Stored \ {h} /\ root(forked_block(h)) = root(h)
           /\ successor(root(h)) = forked_block(h)
    <3> USE <2>CompetitorOfOpen
    <3> DEFINE a == Block[h].account
               o == accounts[a].open_block
    <3>1. a \in Account /\ a \notin DOMAIN blocks /\ Zero \notin DOMAIN blocks
      BY ValueFacts, BaseParts, Zenon DEF Tables
    <3>2. o \in DOMAIN blocks /\ Block[o].signer = a /\ Block[o].previous = Zero
      BY BaseParts, Zenon DEF Owned, AccountLinked
    <3>3. Block[o].account = a
      BY <3>2, BaseParts, Zenon DEF Linked, BlockLinked
    <3>4. root(h) = a /\ root(o) = a
      BY <3>2, <3>3, Zenon DEF root
    <3>5. forked_block(h) = o
      BY <3>1, <3>4, Zenon DEF forked_block, block_successor, block_exists, account_get
    <3>6. successor(a) = o
      BY Zenon DEF successor
    <3> QED
      BY <3>2, <3>4, <3>5, <3>6, Zenon DEF Stored
  <2> SUFFICES
        ASSUME IInv PROVE ForksFindTheirCompetitor
    OBVIOUS
  <2>0. Base
    BY DEF IInv
  <2> SUFFICES ASSUME NEW h \in Hash, process_code(h) = "fork", BuildsOnOwnChain(h)
               PROVE  /\ forked_block(h) \in Stored \ {h} /\ root(forked_block(h)) = root(h)
                      /\ successor(root(h)) = forked_block(h)
    BY Zenon DEF ForksFindTheirCompetitor
  <2> DEFINE p == Block[h].previous
  <2>1. Block[h].type \in {"send", "receive", "open", "change", "state"} /\ (Block[h].type = "open" => p = Zero)
    BY BlockFacts, Zenon
  <2>2. CASE Block[h].type \in {"send", "receive", "change"}
    <3>1. h \notin DOMAIN blocks /\ p \in DOMAIN blocks /\ valid_predecessor(Block[h], Block[p]) /\ frontier_get(p) = Zero
      BY <2>2, Zenon DEF process_code, send_code, receive_code, change_code, block_exists
    <3>2. Legacy(p)
      BY <2>2, <3>1, Zenon DEF valid_predecessor, Legacy, LegacyType
    <3>3. blocks[p] # Zero
      <4> SUFFICES ASSUME blocks[p] = Zero PROVE FALSE
        BY Zenon
      <4>1. p \in DOMAIN frontiers /\ frontiers[p] = Block[p].signer /\ Block[p].signer \in DOMAIN accounts
        BY <2>0, <3>1, <3>2, BaseParts, Zenon DEF Headed, Linked, BlockLinked
      <4>2. Block[p].signer # Zero
        BY <2>0, <4>1, ValueFacts, BaseParts, Zenon DEF Tables
      <4> QED
        BY <3>1, <4>1, <4>2, Zenon DEF frontier_get
    <3> QED
      BY <2>0, <3>1, <3>3, <2>CompetitorOfPrevious, Zenon
  <2>3. CASE Block[h].type = "open"
    <3>1. h \notin DOMAIN blocks /\ Block[h].account \in DOMAIN accounts
      BY <2>3, Zenon DEF process_code, open_code, block_exists
    <3> QED
      BY <2>0, <2>1, <2>3, <3>1, <2>CompetitorOfOpen, Zenon
  <2>4. CASE Block[h].type = "state"
    <3> DEFINE b == Block[h]
               a == b.account
               position == IF a \in DOMAIN accounts THEN state_position(b, account_get(a)) ELSE state_opening(b)
    <3>1. state_code(h) = "fork"
      BY <2>4, Zenon DEF process_code
    <3>2. state_receiving(b, account_get(a)) # "fork"
      BY Zenon DEF state_receiving
    <3>3. h \notin DOMAIN blocks /\ b.signer = a /\ position = "fork"
      BY <3>1, <3>2, Zenon DEF state_code, block_exists
    <3>4. a \in DOMAIN accounts /\ state_position(b, accounts[a]) = "fork"
      BY <3>3, Zenon DEF state_opening, account_get
    <3>5. CASE p = Zero
      BY <2>0, <3>3, <3>4, <3>5, <2>CompetitorOfOpen, Zenon
    <3>6. CASE p # Zero
      <4>1. p \in DOMAIN blocks /\ p # accounts[a].head
        BY <3>4, <3>6, Zenon DEF state_position, block_exists
      <4>2. Block[p].signer = a
        BY <2>4, <3>3, <4>1, Zenon DEF BuildsOnOwnChain, Stored
      <4>3. blocks[p] # Zero
        BY <2>0, <4>1, <4>2, BaseParts, Zenon DEF Linked, BlockLinked
      <4> QED
        BY <2>0, <3>3, <4>1, <4>3, <2>CompetitorOfPrevious, Zenon
    <3> QED
      BY <3>5, <3>6, Zenon
  <2> QED
    BY <2>1, <2>2, <2>3, <2>4, Zenon
<1> SUFFICES
      ASSUME IInv PROVE LookupsAgree
  OBVIOUS
<1>0. Base
  BY DEF IInv
<1>1. WalksAgree
  <2>1. \A a \in DOMAIN accounts : accounts[a].head \in DOMAIN blocks /\ accounts[a].rep_block = RepBlock[accounts[a].head]
    BY <1>0, BaseParts, Zenon DEF Owned, AccountLinked
  <2> QED
    BY <1>0, <2>1, WalkFacts, Zenon DEF WalksAgree, Stored
<1>2. ASSUME NEW h \in DOMAIN blocks
      PROVE  Cardinality({x \in ChainOf(Block[h].signer) : x \in Ancestors[h]}) = Height(h)
  <2>1. \A x \in DOMAIN blocks : Block[x].signer = Block[h].signer => (x \in Ancestors[h] <=> Age[x] <= Age[h])
    <3>1. h \in Hash
      BY <1>0, BaseParts, Zenon DEF Tables
    <3> QED
      BY <1>0, <3>1, ChainAncestors, AncestorsAreOlder, BaseParts, Zenon
  <2>2. {x \in ChainOf(Block[h].signer) : x \in Ancestors[h]}
          = {x \in DOMAIN blocks : Block[x].signer = Block[h].signer /\ Age[x] <= Age[h]}
    BY <2>1, Zenon DEF ChainOf, Stored
  <2> QED
    BY <2>2, Zenon DEF Height
<1>3. ASSUME NEW h \in DOMAIN block_info
      PROVE  IF h \in Stored THEN block_info[h] = [account |-> Block[h].signer, balance |-> BalanceAfter(h)]
             ELSE Block[h].type = "state"
  BY <1>0, BaseParts, Zenon DEF Snapshots, Stored, Info, Legacy
<1>4. ASSUME NEW h \in Stored, Block[h].type \in LegacyType,
             Cardinality({x \in ChainOf(Block[h].signer) : x \in Ancestors[h]}) % BlockInfoMax = 0
      PROVE  h \in DOMAIN block_info
  <2>1. Legacy(h)
    BY <1>4, Zenon DEF Legacy, LegacyType
  <2>2. Height(h) % BlockInfoMax = 0
    BY <1>2, <1>4, Zenon DEF Stored
  <2> QED
    BY <1>0, <2>1, <2>2, BaseParts, Zenon DEF Snapshots, Stored
<1>5. BlockInfoIsRight
  BY <1>3, <1>4, Zenon DEF BlockInfoIsRight
<1> QED
  BY <1>1, <1>5, <1>ForksHold, Zenon DEF LookupsAgree
=============================================================================
