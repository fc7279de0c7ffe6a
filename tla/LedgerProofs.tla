---------------------------- MODULE LedgerProofs ----------------------------
(***************************************************************************)
(* The safety of Ledger for any universe of blocks: what LedgerProperties  *)
(* states, and that the ledger implements Lattice.  The calls of a         *)
(* rollback wait on heads that are older than anything their inner calls   *)
(* remove; with what LedgerTables says of the handlers, every step keeps   *)
(* the inductive invariant.                                                *)
(***************************************************************************)
EXTENDS LedgerTables

\* The head of a chain that has another block than the genesis block is not the
\* genesis block.
LEMMA HeadIsNotGenesis ==
    ASSUME Base, NEW x \in DOMAIN blocks, x # Genesis
    PROVE  LET h == accounts[Block[x].signer].head
           IN  /\ Top(h) /\ Block[h].signer = Block[x].signer /\ Block[x].signer \in DOMAIN accounts
               /\ Age[x] <= Age[h] /\ x \in Ancestors[h] /\ Age[x] \in Nat /\ Age[h] \in Nat /\ h \in Hash /\ x \in Hash
<1> DEFINE h == accounts[Block[x].signer].head
<1>1. Block[x].signer \in DOMAIN accounts /\ Age[x] <= Age[h]
  BY BaseParts, Zenon DEF Linked, BlockLinked, Ordered
<1>2. h \in DOMAIN blocks /\ blocks[h] = Zero /\ Block[h].signer = Block[x].signer
  BY <1>1, BaseParts, Zenon DEF Owned, AccountLinked
<1>3. Age[x] \in Nat /\ Age[h] \in Nat /\ x \in Hash /\ h \in Hash
  BY <1>2, BlockFacts, BaseParts, Zenon DEF Tables
<1>4. h # Genesis
  <2> SUFFICES ASSUME h = Genesis PROVE FALSE
    BY Zenon
  <2>1. Age[x] < Age[h]
    BY <1>1, <1>2, <1>3, BaseParts DEF Ordered
  <2>2. Block[h].previous # Zero
    BY <1>2, <2>1, BaseParts, Zenon DEF Ordered
  <2> QED
    BY <2>2, GenesisBlock, Zenon
<1>5. x \in Ancestors[h]
  BY <1>1, <1>2, ChainAncestors, BaseParts, Zenon
<1> QED
  BY <1>1, <1>2, <1>3, <1>4, <1>5, Zenon DEF Top

-----------------------------------------------------------------------------
(* The stack *)
\* The innermost call and the others.
LEMMA StackFacts ==
    ASSUME rollbacks \in Seq(Frame), rollbacks # <<>>
    PROVE  /\ Len(rollbacks) \in Nat /\ Len(rollbacks) >= 1
           /\ Head(rollbacks) = rollbacks[1] /\ rollbacks[1] \in Frame
           /\ Tail(rollbacks) \in Seq(Frame) /\ Len(Tail(rollbacks)) = Len(rollbacks) - 1
           /\ \A i \in 1..(Len(rollbacks) - 1) : Tail(rollbacks)[i] = rollbacks[i + 1]
  OBVIOUS

\* Resume changes the innermost call.
LEMMA ResumeFacts ==
    ASSUME rollbacks \in Seq(Frame), rollbacks # <<>>, NEW f \in Frame, Resume(f)
    PROVE  TopBecomes(f)
<1>1. /\ Len(rollbacks) \in Nat /\ Len(rollbacks) >= 1
      /\ Tail(rollbacks) \in Seq(Frame) /\ Len(Tail(rollbacks)) = Len(rollbacks) - 1
      /\ \A i \in 1..(Len(rollbacks) - 1) : Tail(rollbacks)[i] = rollbacks[i + 1]
  BY StackFacts, Zenon
<1>2. rollbacks' = <<f>> \o Tail(rollbacks)
  BY Zenon DEF Resume
<1> DEFINE t == Tail(rollbacks)
<1>3. <<f>> \in Seq(Frame) /\ Len(<<f>>) = 1 /\ <<f>>[1] = f
  OBVIOUS
<1> HIDE DEF t
<1>4. /\ <<f>> \o t \in Seq(Frame) /\ Len(<<f>> \o t) = 1 + Len(t) /\ (<<f>> \o t)[1] = f
      /\ \A i \in 2..(Len(t) + 1) : (<<f>> \o t)[i] = t[i - 1]
  BY <1>1 DEF t
<1>5. \A i \in 2..Len(rollbacks) : t[i - 1] = rollbacks[i]
  BY <1>1 DEF t
<1> QED
  BY <1>1, <1>2, <1>4, <1>5 DEF TopBecomes, t

\* What the callers wait on is older than what the innermost call rolls back.
LEMMA OuterFacts ==
    ASSUME Base, Stacked, NEW i \in 2..Len(rollbacks)
    PROVE  LET f == rollbacks[i]
           IN  /\ f.visit # Zero /\ f.visit \in DOMAIN blocks /\ f.block \in DOMAIN blocks /\ blocks[f.visit] = Zero
               /\ Age[f.visit] < Age[rollbacks[1].block] /\ Age[f.block] <= Age[f.visit]
               /\ f.block \in Hash /\ f.visit \in Hash /\ Age[f.visit] \in Nat /\ Age[f.block] \in Nat
<1> DEFINE f == rollbacks[i]
<1>0. Len(rollbacks) \in Nat /\ i \in 1..Len(rollbacks) /\ 1 \in 1..Len(rollbacks) /\ i > 1
  BY DEF Stacked
<1>1. FrameOK(i)
  BY <1>0, Zenon DEF Stacked
<1>2. /\ f.visit # Zero /\ f.visit \in DOMAIN blocks /\ f.block \in DOMAIN blocks /\ blocks[f.visit] = Zero
      /\ Block[f.visit].signer = Block[f.block].signer
  BY <1>0, <1>1, Zenon DEF FrameOK
<1>3. Age[f.visit] < Age[rollbacks[1].block]
  BY <1>0, Zenon DEF Stacked
<1>4. accounts[Block[f.visit].signer].head = f.visit
  BY <1>2, BaseParts, Zenon DEF Linked, BlockLinked
<1>5. Age[f.block] <= Age[f.visit]
  BY <1>2, <1>4, BaseParts, Zenon DEF Ordered
<1>6. f.block \in Hash /\ f.visit \in Hash /\ Age[f.visit] \in Nat /\ Age[f.block] \in Nat
  BY <1>2, BlockFacts, BaseParts, Zenon DEF Tables
<1> QED
  BY <1>2, <1>3, <1>5, <1>6, Zenon

\* What the innermost call rolls back is not older than the block it was
\* called for.
LEMMA InnerFacts ==
    ASSUME Base, Stacked, rollbacks # <<>>, rollbacks[1].block \in DOMAIN blocks
    PROVE  LET f == rollbacks[1]
               h == accounts[f.account].head
           IN  /\ f.account = Block[f.block].signer /\ f.account \in DOMAIN accounts /\ latest(f.account) = h
               /\ Top(h) /\ Block[h].signer = f.account /\ h \in Hash /\ f.block \in Hash
               /\ Age[f.block] <= Age[h] /\ Age[f.block] \in Nat /\ Age[h] \in Nat
               /\ rollbacks[Len(rollbacks)].block \in Ancestors[h]
               /\ f.visit # Zero => f.visit = h
<1> DEFINE f == rollbacks[1]
           h == accounts[f.account].head
<1>0. 1 \in 1..Len(rollbacks)
  BY StackFacts DEF Stacked
<1>1. FrameOK(1)
  BY <1>0, Zenon DEF Stacked
<1>2. f.account = Block[f.block].signer /\ f.block # Genesis /\ rollbacks[Len(rollbacks)].block \in Ancestors[f.block]
  BY <1>1, Zenon DEF FrameOK
<1>3. /\ Top(h) /\ Block[h].signer = f.account /\ f.account \in DOMAIN accounts
      /\ Age[f.block] <= Age[h] /\ f.block \in Ancestors[h] /\ Age[f.block] \in Nat /\ Age[h] \in Nat /\ h \in Hash /\ f.block \in Hash
  BY <1>2, HeadIsNotGenesis, ZenonT(40)
<1>4. rollbacks[Len(rollbacks)].block \in Ancestors[h]
  BY <1>2, <1>3, AncestorsAreOlder, Zenon
<1>5. f.visit # Zero => f.visit = h
  <2>1. f.visit # Zero => f.visit \in DOMAIN blocks /\ blocks[f.visit] = Zero /\ Block[f.visit].signer = f.account
    BY <1>1, Zenon DEF FrameOK
  <2> QED
    BY <2>1, BaseParts, Zenon DEF Linked, BlockLinked
<1>6. latest(f.account) = h
  BY <1>3, Zenon DEF latest, account_get
<1> QED
  BY <1>2, <1>3, <1>4, <1>5, <1>6, ZenonT(40)

\* Changing the innermost call changes what it visits.
LEMMA TopVisits ==
    ASSUME Stacked, rollbacks # <<>>, NEW f, TopBecomes(f)
    PROVE  /\ f.visit \in Visited'
           /\ \A x : x # f.visit /\ x # rollbacks[1].visit => (x \in Visited' <=> x \in Visited)
<1>0. Len(rollbacks) \in Nat /\ Len(rollbacks) >= 1 /\ Len(rollbacks') = Len(rollbacks) /\ rollbacks'[1] = f
  BY StackFacts, Zenon DEF Stacked, TopBecomes
<1>1. \A i \in 2..Len(rollbacks) : rollbacks'[i] = rollbacks[i]
  BY Zenon DEF TopBecomes
<1>2. \A i \in 1..Len(rollbacks) : i = 1 \/ i \in 2..Len(rollbacks)
  BY <1>0
<1>3. f.visit \in Visited'
  BY <1>0 DEF Visited
<1>4. ASSUME NEW x, x # f.visit, x # rollbacks[1].visit, x \in Visited' PROVE x \in Visited
  BY <1>0, <1>1, <1>2, <1>4, Zenon DEF Visited
<1>5. ASSUME NEW x, x # f.visit, x # rollbacks[1].visit, x \in Visited PROVE x \in Visited'
  BY <1>0, <1>1, <1>2, <1>5, Zenon DEF Visited
<1> QED
  BY <1>3, <1>4, <1>5, Zenon

\* The weight stays where it is when nothing but the visits of send blocks
\* changes.
LEMMA WeightsStay ==
    ASSUME Base, Weighed, UNCHANGED store, \A y \in Hash : Block[y].type = "state" => (y \in Visited' <=> y \in Visited)
    PROVE  Weighed'
<1>1. accounts' = accounts /\ representation' = representation
  BY Zenon DEF store
<1>2. \A a \in DOMAIN accounts : accounts[a].head \in Hash
  BY BaseParts, Zenon DEF Tables
<1>3. \A a \in DOMAIN accounts : WeighedHead(a)' = WeighedHead(a)
  BY <1>1, <1>2, Zenon DEF WeighedHead, Undone
<1>4. \A rep \in Address : Shares(rep)' = Shares(rep)
  BY <1>1, <1>3, Zenon DEF Shares
<1> QED
  BY <1>1, <1>4, Zenon DEF Weighed

\* Nothing but the stack, the weights and the checksum changes.
LEMMA BaseStays ==
    ASSUME Base, UNCHANGED <<blocks, accounts, frontiers, pending, block_info>>
    PROVE  Base'
<1>1. Tables' /\ Linked' /\ Headed'
  BY BaseParts DEF Tables, Linked, BlockLinked, Headed, Legacy
<1>2. Owned'
  BY BaseParts, ZenonT(40) DEF Owned, AccountLinked, ChainOf, Stored
<1>3. Ordered' /\ Meant'
  BY BaseParts, Zenon DEF Ordered, Meant, BlockMeans
<1>4. Settled'
  BY BaseParts, Zenon DEF Settled
<1>5. Snapshots'
  BY BaseParts, Zenon DEF Snapshots, Height
<1>6. SupplyIsConserved'
  BY BaseParts, Zenon DEF SupplyIsConserved
<1> QED
  BY <1>1, <1>2, <1>3, <1>4, <1>5, <1>6, Zenon DEF Base

-----------------------------------------------------------------------------
(* The steps of a rollback *)
\* The loop of a call visits the head of its account, a block that depends on
\* the block of the outermost call.
LEMMA LoopFacts ==
    ASSUME IInv, NEW h, NEW type, VisitHead(h, type)
    PROVE  /\ Top(h) /\ rollbacks # <<>> /\ Head(rollbacks) = rollbacks[1] /\ rollbacks[1] \in Frame
           /\ rollbacks[1].block \in DOMAIN blocks /\ rollbacks[1].visit = Zero
           /\ h = accounts[rollbacks[1].account].head /\ Block[h].type = type
           /\ rollbacks \in Seq(Frame) /\ representation \in [Address -> Amount] /\ Base
           /\ rollbacks[Len(rollbacks)].block \in Ancestors[h] /\ Block[h].signer = rollbacks[1].account
<1>1. rollbacks # <<>> /\ rollbacks \in Seq(Frame) /\ representation \in [Address -> Amount]
  BY Zenon DEF IInv, Stacked, Weighed, VisitHead, Looping
<1>2. Head(rollbacks) = rollbacks[1] /\ rollbacks[1] \in Frame
  BY <1>1, StackFacts, Zenon
<1>3. rollbacks[1].block \in DOMAIN blocks /\ rollbacks[1].visit = Zero /\ h = latest(rollbacks[1].account) /\ Block[h].type = type
  BY <1>2, Zenon DEF VisitHead, Looping, LoopHead, block_exists
<1> QED
  BY <1>1, <1>2, <1>3, InnerFacts, Zenon DEF IInv

\* The visitor of a send or state block finds its block as the head.
LEMMA VisitFacts ==
    ASSUME IInv, NEW h, Visit(h)
    PROVE  /\ Top(h) /\ rollbacks # <<>> /\ Head(rollbacks) = rollbacks[1] /\ rollbacks[1] \in Frame
           /\ rollbacks[1].block \in DOMAIN blocks /\ rollbacks[1].visit = h /\ h # Zero /\ h \in Visited
           /\ h = accounts[rollbacks[1].account].head /\ Block[h].type \in {"send", "state"}
           /\ Block[h].type = "state" =>
                 /\ rollbacks[1].balance = BalanceAfter(Block[h].previous)
                 /\ rollbacks[1].representative = RepBlock[Block[h].previous]
           /\ rollbacks \in Seq(Frame) /\ representation \in [Address -> Amount] /\ Base
           /\ rollbacks[Len(rollbacks)].block \in Ancestors[h]
<1>1. rollbacks # <<>> /\ rollbacks \in Seq(Frame) /\ representation \in [Address -> Amount]
  BY Zenon DEF IInv, Stacked, Weighed, Visit, Visiting
<1>2. Head(rollbacks) = rollbacks[1] /\ rollbacks[1] \in Frame /\ 1 \in 1..Len(rollbacks)
  BY <1>1, StackFacts
<1>3. rollbacks[1].visit = h /\ h # Zero /\ h \in Visited
  BY <1>2, Zenon DEF Visit, Visiting, Visited
<1>4. FrameOK(1)
  BY <1>2, Zenon DEF IInv, Stacked
<1>5. /\ rollbacks[1].block \in DOMAIN blocks /\ Block[h].type \in {"send", "state"}
      /\ Block[h].type = "state" =>
                 /\ rollbacks[1].balance = BalanceAfter(Block[h].previous)
                 /\ rollbacks[1].representative = RepBlock[Block[h].previous]
  BY <1>3, <1>4, Zenon DEF FrameOK
<1> QED
  BY <1>1, <1>2, <1>3, <1>5, InnerFacts, Zenon DEF IInv

\* A handler that removes a block keeps the invariant, and the block depends on
\* the one that the rollback was called for.
LEMMA RemovalsKeep ==
    \A h :
        (/\ IInv
         /\ rollback_receive(h) \/ rollback_open(h) \/ rollback_change(h) \/ rollback_send(h) \/ rollback_state(h))
        => (IInv' /\ Removed(h) /\ Removes(h) /\ rollbacks[Len(rollbacks)].block \in Ancestors[h])
\* The block that the innermost call removes is younger than what its callers
\* visit, so they find it when they go on.
<1>RemoveStacked.
  ASSUME Base, Stacked, NEW h, Removed(h), rollbacks # <<>>, rollbacks[1].block \in DOMAIN blocks,
         h = accounts[rollbacks[1].account].head, NEW f, TopBecomes(f),
         f.visit = Zero, f.block = rollbacks[1].block, f.account = rollbacks[1].account
  PROVE  Stacked'
  <2> USE <1>RemoveStacked
  <2>0. Len(rollbacks) \in Nat /\ Len(rollbacks) >= 1 /\ rollbacks' \in Seq(Frame) /\ Len(rollbacks') = Len(rollbacks)
    BY StackFacts, Zenon DEF Stacked, TopBecomes
  <2>1. rollbacks'[1] = f /\ \A i \in 2..Len(rollbacks) : rollbacks'[i] = rollbacks[i]
    BY Zenon DEF TopBecomes
  <2>2. Age[rollbacks[1].block] <= Age[h] /\ Age[rollbacks[1].block] \in Nat /\ Age[h] \in Nat
    BY InnerFacts, Zenon
  <2>3. \A i \in 1..Len(rollbacks) : FrameOK(i)
    BY Zenon DEF Stacked
  <2>4. \A i \in 1..Len(rollbacks) : rollbacks'[i].block = rollbacks[i].block
    BY <2>0, <2>1
  <2>5. rollbacks'[Len(rollbacks')].block = rollbacks[Len(rollbacks)].block
    BY <2>0, <2>4
  <2>6. ASSUME NEW i \in 2..Len(rollbacks) PROVE FrameOK(i)'
    <3> DEFINE g == rollbacks[i]
    <3>1. /\ g.visit # Zero /\ g.visit \in DOMAIN blocks /\ g.block \in DOMAIN blocks /\ blocks[g.visit] = Zero
          /\ Age[g.visit] < Age[rollbacks[1].block] /\ Age[g.block] <= Age[g.visit] /\ Age[g.visit] \in Nat /\ Age[g.block] \in Nat
      BY OuterFacts, Zenon
    <3>2. g.visit # h /\ g.block # h
      BY <2>2, <3>1
    <3>3. g.visit \in DOMAIN blocks' /\ g.block \in DOMAIN blocks' /\ blocks'[g.visit] = Zero
      BY <3>1, <3>2, Zenon DEF Removed
    <3>4. FrameOK(i) /\ rollbacks'[i] = g
      BY <2>0, <2>1, <2>3
    <3> QED
      BY <2>5, <3>1, <3>3, <3>4, Zenon DEF FrameOK
  <2>7. FrameOK(1)'
    <3>1. FrameOK(1)
      BY <2>0, <2>3
    <3> QED
      BY <2>1, <2>5, <3>1 DEF FrameOK
  <2>8. \A i \in 1..Len(rollbacks') : FrameOK(i)'
    <3>1. \A i \in 1..Len(rollbacks') : i = 1 \/ i \in 2..Len(rollbacks)
      BY <2>0
    <3> QED
      BY <2>6, <2>7, <3>1, Zenon
  <2>9. ASSUME NEW i \in 1..Len(rollbacks'), NEW j \in 1..Len(rollbacks'), i < j
        PROVE  Age[rollbacks'[j].visit] < Age[rollbacks'[i].block]
    <3>1. i \in 1..Len(rollbacks) /\ j \in 1..Len(rollbacks) /\ j \in 2..Len(rollbacks)
      BY <2>0, <2>9
    <3>2. Age[rollbacks[j].visit] < Age[rollbacks[i].block]
      BY <2>9, <3>1, Zenon DEF Stacked
    <3> QED
      BY <2>1, <2>4, <3>1, <3>2, Zenon
  <2> QED
    BY <2>0, <2>8, <2>9, Zenon DEF Stacked
\* Only heads are visited.
<1>VisitsAreHeads.
  ASSUME Stacked, NEW x \in Visited, x # Zero
  PROVE  x \in DOMAIN blocks /\ blocks[x] = Zero
  <2> USE <1>VisitsAreHeads
  <2>1. PICK i \in 1..Len(rollbacks) : x = rollbacks[i].visit
    BY Zenon DEF Visited
  <2>2. FrameOK(i)
    BY Zenon DEF Stacked
  <2> QED
    BY <2>1, <2>2, Zenon DEF FrameOK
\* The weight follows when the head h of a chain is taken away.
<1>RemovalWeighs.
  ASSUME Base, Base', Stacked, Weighed, NEW h, Removed(h), NEW x,
         x = IF Undone(h) THEN Block[h].previous ELSE h, WeightMoves(x, Block[h].previous),
         \A y \in Hash \ {h} : y \in Visited' <=> y \in Visited
  PROVE  Weighed'
  <2> USE <1>RemovalWeighs
  <2> DEFINE a == Block[h].signer
             p == Block[h].previous
  <2>0. Tables /\ Tables'
    BY Zenon DEF Base
  <2>1. a \in DOMAIN accounts /\ accounts[a].head = h
    BY Zenon DEF Removed
  <2>2. DOMAIN accounts \ {a} = DOMAIN accounts' \ {a}
    BY Zenon DEF Removed
  <2>3. ASSUME NEW c \in DOMAIN accounts \ {a} PROVE WeighedHead(c)' = WeighedHead(c)
    <3>1. accounts'[c] = accounts[c]
      BY Zenon DEF Removed
    <3>2. Block[accounts[c].head].signer = c /\ accounts[c].head \in DOMAIN blocks
      BY BaseParts, Zenon DEF Owned, AccountLinked
    <3>3. accounts[c].head \in Hash \ {h}
      BY <3>2, Zenon DEF Removed
    <3> QED
      BY <3>1, <3>3, Zenon DEF WeighedHead, Undone
  <2>4. x = WeighedHead(a)
    BY <2>1, Zenon DEF WeighedHead
  <2>5. p # Zero => a \in DOMAIN accounts' /\ accounts'[a].head = p
    BY <2>1 DEF Removed, OldRecord
  <2>6. p # Zero => ~Undone(p)'
    <3>1. p # Zero => p \in DOMAIN blocks \ {h} /\ blocks[p] = h /\ h # Zero /\ p \in Hash \ {h}
      BY Zenon DEF Removed
    <3>2. p # Zero => p \notin Visited
      BY <3>1, <1>VisitsAreHeads, Zenon
    <3> QED
      BY <3>1, <3>2, Zenon DEF Undone
  <2>7. p # Zero => WeighedHead(a)' = p
    BY <2>5, <2>6, Zenon DEF WeighedHead
  <2>8. p = Zero => a \notin DOMAIN accounts'
    BY Zenon DEF Removed
  <2>9. x = IF a \in DOMAIN accounts THEN WeighedHead(a) ELSE Zero
    BY <2>1, <2>4, Zenon
  <2>10. p = IF a \in DOMAIN accounts' THEN WeighedHead(a)' ELSE Zero
    BY <2>5, <2>7, <2>8, Zenon
  <2> HIDE DEF a, p
  <2>11. WeightMoves(x, p)
    BY Zenon DEF p
  <2> QED
    BY <2>0, <2>2, <2>3, <2>9, <2>10, <2>11, WeightsFollow, Zenon
\* The visitors of receive, open and change blocks keep the invariant.
<1>LoopRemoves.
  ASSUME IInv, NEW h, rollback_receive(h) \/ rollback_open(h) \/ rollback_change(h)
  PROVE  IInv' /\ Removed(h) /\ Removes(h) /\ rollbacks[Len(rollbacks)].block \in Ancestors[h]
  <2> USE <1>LoopRemoves
  <2>1. PICK type \in {"receive", "open", "change"} : VisitHead(h, type)
    BY ZenonT(40) DEF rollback_receive, rollback_open, rollback_change
  <2>2. /\ Top(h) /\ rollbacks # <<>> /\ rollbacks[1].block \in DOMAIN blocks /\ rollbacks[1].visit = Zero
        /\ h = accounts[rollbacks[1].account].head /\ Block[h].type = type
        /\ rollbacks \in Seq(Frame) /\ representation \in [Address -> Amount] /\ Base
        /\ rollbacks[Len(rollbacks)].block \in Ancestors[h]
    BY <2>1, LoopFacts, Zenon
  <2>3. Removes(h) /\ WeightMoves(h, Block[h].previous)
    BY <2>2, TopRemoves, Zenon
  <2>4. Base' /\ Removed(h)
    BY <2>2, <2>3, RemovesKeepsBase, Zenon
  <2>5. rollbacks' = rollbacks
    BY ZenonT(40) DEF rollback_receive, rollback_open, rollback_change
  <2>6. TopBecomes(rollbacks[1])
    BY <2>2, <2>5, Zenon DEF TopBecomes
  <2>7. Stacked'
    BY <2>2, <2>4, <2>6, <1>RemoveStacked, Zenon DEF IInv
  <2>8. ~Undone(h)
    BY <2>2, Zenon DEF Undone
  <2>9. Visited' = Visited
    BY <2>5, Zenon DEF Visited
  <2>10. Weighed'
    BY <2>2, <2>3, <2>4, <2>8, <2>9, <1>RemovalWeighs, Zenon DEF IInv
  <2> QED
    BY <2>2, <2>3, <2>4, <2>7, <2>10, Zenon DEF IInv
\* The visitors of send and state blocks, in their last step, keep the
\* invariant.
<1>VisitRemoves.
  ASSUME IInv, NEW h, rollback_send(h) \/ rollback_state(h)
  PROVE  IInv' /\ Removed(h) /\ Removes(h) /\ rollbacks[Len(rollbacks)].block \in Ancestors[h]
  <2> USE <1>VisitRemoves
  <2> DEFINE f == [rollbacks[1] EXCEPT !.visit = Zero]
             p == Block[h].previous
  <2>1. Visit(h) /\ Resume([Head(rollbacks) EXCEPT !.visit = Zero])
    BY Zenon DEF rollback_send, rollback_state
  <2>2. /\ Top(h) /\ rollbacks # <<>> /\ Head(rollbacks) = rollbacks[1] /\ rollbacks[1] \in Frame
        /\ rollbacks[1].block \in DOMAIN blocks /\ rollbacks[1].visit = h /\ h # Zero /\ h \in Visited
        /\ h = accounts[rollbacks[1].account].head
        /\ Block[h].type = "state" =>
              /\ rollbacks[1].balance = BalanceAfter(Block[h].previous)
              /\ rollbacks[1].representative = RepBlock[Block[h].previous]
        /\ rollbacks \in Seq(Frame) /\ representation \in [Address -> Amount] /\ Base
        /\ rollbacks[Len(rollbacks)].block \in Ancestors[h]
    BY <2>1, VisitFacts, Zenon
  <2>3. f \in Frame /\ f.visit = Zero /\ f.block = rollbacks[1].block /\ f.account = rollbacks[1].account
    BY <2>2, Zenon DEF Frame
  <2> HIDE DEF f
  <2>4. Resume(f)
    BY <2>1, <2>2, Zenon DEF f
  <2>5. TopBecomes(f)
    BY <2>2, <2>3, <2>4, ResumeFacts, Zenon
  <2>6. p \in Hash \cup {Zero}
    BY <2>2, TopFacts, ValueFacts, Zenon
  <2> DEFINE x == IF Undone(h) THEN p ELSE h
  <2>7. Removes(h) /\ WeightMoves(x, p)
    <3>1. CASE rollback_send(h)
      <4>1. ~Undone(h)
        BY <3>1, Zenon DEF Undone, rollback_send
      <4> QED
        BY <2>2, <3>1, <4>1, TopRemoves, Zenon
    <3>2. CASE rollback_state(h)
      <4>1. Undone(h)
        BY <2>2, <3>2, ZenonT(40) DEF Undone, rollback_state
      <4>2. Removes(h) /\ representation' = representation
        <5>1. Block[h].type = "state"
          BY <3>2, Zenon DEF rollback_state
        <5> QED
          BY <2>2, <3>2, <5>1, TopRemoves, Zenon
      <4>3. WeightMoves(p, p)
        <5>1. \A r \in Address : representation[r] \in Int /\ ShareAt(p, r) \in Int
          BY <2>2, <2>6, ShareIsInt, ValueFacts
        <5>2. \A r \in Address : representation[r] + (ShareAt(p, r) - ShareAt(p, r)) = representation[r]
          BY <5>1
        <5>3. \A r \in Address : Same(representation[r], representation[r])
          BY <5>1, SameSelf, Zenon
        <5> QED
          BY <2>2, <4>2, <5>2, <5>3, ZenonT(40) DEF WeightMoves
      <4> QED
        BY <4>1, <4>2, <4>3, Zenon
    <3> QED
      BY <3>1, <3>2, Zenon
  <2>8. Base' /\ Removed(h)
    BY <2>2, <2>7, RemovesKeepsBase, ZenonT(40)
  <2>9. Stacked'
    BY <2>2, <2>3, <2>5, <2>8, <1>RemoveStacked, Zenon DEF IInv
  <2>10. \A y \in Hash \ {h} : y \in Visited' <=> y \in Visited
    <3>1. \A y : y # Zero /\ y # h => (y \in Visited' <=> y \in Visited)
      BY <2>2, <2>3, <2>5, TopVisits, Zenon DEF IInv
    <3>2. Zero \notin Hash
      BY LedgerValues, Zenon
    <3> QED
      BY <3>1, <3>2, Zenon
  <2>11. Weighed'
    BY <2>7, <2>8, <2>10, <2>2, <1>RemovalWeighs, ZenonT(40) DEF IInv
  <2> QED
    BY <2>2, <2>7, <2>8, <2>9, <2>11, Zenon DEF IInv
<1> SUFFICES
      ASSUME IInv, NEW h, rollback_receive(h) \/ rollback_open(h) \/ rollback_change(h) \/ rollback_send(h) \/ rollback_state(h)
      PROVE  IInv' /\ Removed(h) /\ Removes(h) /\ rollbacks[Len(rollbacks)].block \in Ancestors[h]
  BY Zenon
<1> QED
  BY <1>LoopRemoves, <1>VisitRemoves, Zenon

\* A call returns when its block is gone.
LEMMA ReturnKeeps ==
        (/\ IInv
         /\ rollback_return)
        => (IInv')
\* The caller goes on where it was.
<1>PopStacked.
  ASSUME Stacked, blocks' = blocks, rollbacks # <<>>, rollbacks' = Tail(rollbacks)
  PROVE  Stacked'
  <2> USE <1>PopStacked
  <2>0. /\ Len(rollbacks) \in Nat /\ Len(rollbacks) >= 1
        /\ rollbacks' \in Seq(Frame) /\ Len(rollbacks') = Len(rollbacks) - 1
        /\ \A i \in 1..(Len(rollbacks) - 1) : rollbacks'[i] = rollbacks[i + 1]
    BY StackFacts, Zenon DEF Stacked
  <2>1. \A i \in 1..Len(rollbacks) : FrameOK(i)
    BY Zenon DEF Stacked
  <2>2. ASSUME NEW i \in 1..Len(rollbacks') PROVE FrameOK(i)'
    <3>1. i + 1 \in 1..Len(rollbacks) /\ i + 1 > 1 /\ rollbacks'[i] = rollbacks[i + 1]
      BY <2>0
    <3>2. FrameOK(i + 1)
      BY <2>1, <3>1, Zenon
    <3>3. rollbacks'[Len(rollbacks')] = rollbacks[Len(rollbacks)]
      <4>1. Len(rollbacks') \in 1..(Len(rollbacks) - 1) /\ Len(rollbacks') + 1 = Len(rollbacks)
        BY <2>0
      <4> QED
        BY <2>0, <4>1, Zenon
    <3> QED
      BY <3>1, <3>2, <3>3, Zenon DEF FrameOK
  <2>3. ASSUME NEW i \in 1..Len(rollbacks'), NEW j \in 1..Len(rollbacks'), i < j
        PROVE  Age[rollbacks'[j].visit] < Age[rollbacks'[i].block]
    <3>1. /\ i + 1 \in 1..Len(rollbacks) /\ j + 1 \in 1..Len(rollbacks) /\ i + 1 < j + 1
          /\ rollbacks'[i] = rollbacks[i + 1] /\ rollbacks'[j] = rollbacks[j + 1]
      BY <2>0, <2>3
    <3>2. Age[rollbacks[j + 1].visit] < Age[rollbacks[i + 1].block]
      BY <3>1, Zenon DEF Stacked
    <3> QED
      BY <3>1, <3>2, Zenon
  <2> QED
    BY <2>0, <2>2, <2>3, Zenon DEF Stacked
<1> SUFFICES
      ASSUME IInv, rollback_return
      PROVE  IInv'
  BY Zenon
<1>1. /\ rollbacks # <<>> /\ Head(rollbacks).visit = Zero /\ rollbacks' = Tail(rollbacks) /\ UNCHANGED store
      /\ rollbacks \in Seq(Frame)
  BY Zenon DEF rollback_return, Looping, IInv, Stacked
<1>2. /\ Len(rollbacks) \in Nat /\ Len(rollbacks) >= 1 /\ Head(rollbacks) = rollbacks[1]
      /\ Len(rollbacks') = Len(rollbacks) - 1
      /\ \A i \in 1..(Len(rollbacks) - 1) : rollbacks'[i] = rollbacks[i + 1]
  BY <1>1, StackFacts, Zenon
<1>3. Base' /\ blocks' = blocks
  BY <1>1, BaseStays, Zenon DEF IInv, store
<1>4. Stacked'
  BY <1>1, <1>3, <1>PopStacked, Zenon DEF IInv
<1>5. ASSUME NEW y \in Hash PROVE y \in Visited' <=> y \in Visited
  <2>0. y # Zero
    BY LedgerValues, Zenon
  <2>1. ASSUME y \in Visited' PROVE y \in Visited
    <3>1. PICK i \in 1..Len(rollbacks') : y = rollbacks'[i].visit
      BY <2>1, Zenon DEF Visited
    <3>2. i \in 1..(Len(rollbacks) - 1) /\ i + 1 \in 1..Len(rollbacks)
      BY <1>2
    <3> QED
      BY <1>2, <3>1, <3>2, Zenon DEF Visited
  <2>2. ASSUME y \in Visited PROVE y \in Visited'
    <3>1. PICK i \in 1..Len(rollbacks) : y = rollbacks[i].visit
      BY <2>2, Zenon DEF Visited
    <3>2. i # 1
      BY <1>1, <1>2, <2>0, <3>1, Zenon
    <3>3. i - 1 \in 1..Len(rollbacks') /\ i - 1 \in 1..(Len(rollbacks) - 1) /\ (i - 1) + 1 = i
      BY <1>2, <3>2
    <3>4. rollbacks'[i - 1] = rollbacks[i]
      BY <1>2, <3>3, Zenon
    <3> QED
      BY <3>1, <3>3, <3>4, Zenon DEF Visited
  <2> QED
    BY <2>1, <2>2, Zenon
<1>6. Weighed'
  BY <1>1, <1>5, WeightsStay, Zenon DEF IInv
<1> QED
  BY <1>3, <1>4, <1>6, Zenon DEF IInv

\* The step that reads the head of the account, before the handler removes it,
\* keeps the invariant.
LEMMA BeginsKeep ==
    \A h :
        (/\ IInv
         /\ rollback_send_begin(h) \/ rollback_state_begin(h))
        => (IInv')
\* The innermost call begins to visit the head of its account.
<1>BeginStacked.
  ASSUME Base, Stacked, blocks' = blocks, rollbacks # <<>>, rollbacks[1].block \in DOMAIN blocks, NEW f, TopBecomes(f),
         f.block = rollbacks[1].block, f.account = rollbacks[1].account, f.visit = accounts[rollbacks[1].account].head,
         Block[f.visit].type \in {"send", "state"},
         Block[f.visit].type = "state" =>
            f.balance = BalanceAfter(Block[f.visit].previous) /\ f.representative = RepBlock[Block[f.visit].previous]
  PROVE  Stacked'
  <2> USE <1>BeginStacked
  <2>0. Len(rollbacks) \in Nat /\ Len(rollbacks) >= 1 /\ rollbacks' \in Seq(Frame) /\ Len(rollbacks') = Len(rollbacks)
    BY StackFacts, Zenon DEF Stacked, TopBecomes
  <2>1. rollbacks'[1] = f /\ \A i \in 2..Len(rollbacks) : rollbacks'[i] = rollbacks[i]
    BY Zenon DEF TopBecomes
  <2>2. Top(f.visit) /\ Block[f.visit].signer = f.account
    BY InnerFacts, Zenon
  <2>3. \A i \in 1..Len(rollbacks) : FrameOK(i)
    BY Zenon DEF Stacked
  <2>4. \A i \in 1..Len(rollbacks) : rollbacks'[i].block = rollbacks[i].block
    BY <2>0, <2>1
  <2>5. rollbacks'[Len(rollbacks')].block = rollbacks[Len(rollbacks)].block
    BY <2>0, <2>4
  <2>6. ASSUME NEW i \in 2..Len(rollbacks) PROVE FrameOK(i)'
    <3>1. FrameOK(i) /\ rollbacks'[i] = rollbacks[i]
      BY <2>0, <2>1, <2>3
    <3> QED
      BY <2>5, <3>1, Zenon DEF FrameOK
  <2>7. FrameOK(1)'
    <3>1. FrameOK(1)
      BY <2>0, <2>3
    <3>2. f.account = Block[f.block].signer /\ f.block # Genesis /\ rollbacks[Len(rollbacks)].block \in Ancestors[f.block]
      BY <3>1, ZenonT(40) DEF FrameOK
    <3>3. f.visit \in DOMAIN blocks /\ blocks[f.visit] = Zero
      BY <2>2, Zenon DEF Top
    <3>4. f.block \in DOMAIN blocks' /\ f.visit \in DOMAIN blocks' /\ blocks'[f.visit] = Zero
          /\ rollbacks'[Len(rollbacks')].block \in Ancestors[f.block]
      BY <2>5, <3>2, <3>3, ZenonT(40)
    <3>5. Block[f.visit].signer = f.account /\ Block[f.visit].type \in {"send", "state"}
          /\ (Block[f.visit].type = "state" =>
                f.balance = BalanceAfter(Block[f.visit].previous) /\ f.representative = RepBlock[Block[f.visit].previous])
      BY <2>2, Zenon
    <3>6. ~(1 > 1)
      OBVIOUS
    <3> QED
      BY ONLY <2>1, <3>2, <3>4, <3>5, <3>6, Zenon DEF FrameOK
  <2>8. \A i \in 1..Len(rollbacks') : FrameOK(i)'
    <3>1. \A i \in 1..Len(rollbacks') : i = 1 \/ i \in 2..Len(rollbacks)
      BY <2>0
    <3> QED
      BY <2>6, <2>7, <3>1, Zenon
  <2>9. ASSUME NEW i \in 1..Len(rollbacks'), NEW j \in 1..Len(rollbacks'), i < j
        PROVE  Age[rollbacks'[j].visit] < Age[rollbacks'[i].block]
    <3>1. i \in 1..Len(rollbacks) /\ j \in 1..Len(rollbacks) /\ j \in 2..Len(rollbacks)
      BY <2>0, <2>9
    <3>2. Age[rollbacks[j].visit] < Age[rollbacks[i].block]
      BY <2>9, <3>1, Zenon DEF Stacked
    <3> QED
      BY <2>1, <2>4, <3>1, <3>2, Zenon
  <2> QED
    BY <2>0, <2>8, <2>9, Zenon DEF Stacked
\* The visitor of a send begins.
<1>SendBegins.
  ASSUME IInv, NEW h, rollback_send_begin(h)
  PROVE  IInv'
  <2> USE <1>SendBegins
  <2> DEFINE f == [rollbacks[1] EXCEPT !.visit = h]
  <2>1. VisitHead(h, "send") /\ Resume([Head(rollbacks) EXCEPT !.visit = h]) /\ UNCHANGED store
    BY Zenon DEF rollback_send_begin
  <2>2. /\ Top(h) /\ rollbacks # <<>> /\ Head(rollbacks) = rollbacks[1] /\ rollbacks[1] \in Frame
        /\ rollbacks[1].block \in DOMAIN blocks /\ rollbacks[1].visit = Zero
        /\ h = accounts[rollbacks[1].account].head /\ Block[h].type = "send"
        /\ rollbacks \in Seq(Frame) /\ Base
    BY <2>1, LoopFacts, Zenon
  <2>3. h \in Hash
    BY <2>2, TopFacts, Zenon
  <2>4. f \in Frame /\ f.visit = h /\ f.block = rollbacks[1].block /\ f.account = rollbacks[1].account
    BY <2>2, <2>3, Zenon DEF Frame
  <2> HIDE DEF f
  <2>5. TopBecomes(f)
    <3>1. Resume(f)
      BY <2>1, <2>2, Zenon DEF f
    <3> QED
      BY <2>2, <2>4, <3>1, ResumeFacts, Zenon
  <2>6. Base' /\ blocks' = blocks
    BY <2>1, <2>2, BaseStays, Zenon DEF store
  <2>7. Stacked'
    BY <2>2, <2>4, <2>5, <2>6, <1>BeginStacked, Zenon DEF IInv
  <2>8. \A y \in Hash : Block[y].type = "state" => (y \in Visited' <=> y \in Visited)
    <3>1. \A y : y # h /\ y # Zero => (y \in Visited' <=> y \in Visited)
      BY <2>2, <2>4, <2>5, TopVisits, Zenon DEF IInv
    <3>2. Zero \notin Hash
      BY LedgerValues, Zenon
    <3> QED
      BY <2>2, <3>1, <3>2, Zenon
  <2>9. Weighed'
    BY <2>1, <2>2, <2>8, WeightsStay, Zenon DEF IInv
  <2> QED
    BY <2>6, <2>7, <2>9, Zenon DEF IInv
\* The visitor of a state block begins: it moves the weight back before the
\* block is removed.
<1>StateBegins.
  ASSUME IInv, NEW h, rollback_state_begin(h)
  PROVE  IInv'
  <2> USE <1>StateBegins
  <2> DEFINE p == Block[h].previous
             a == Block[h].signer
             rep == IF p = Zero THEN Zero ELSE representative(p)
             reduced == representation_add(representation, h, Negate(Block[h].balance))
             f == [rollbacks[1] EXCEPT !.visit = h, !.representative = rep, !.balance = balance(p)]
  <2>1. /\ VisitHead(h, "state") /\ UNCHANGED <<blocks, accounts, frontiers, pending, block_info, checksum>>
        /\ representation' = IF rep = Zero THEN reduced ELSE representation_add(reduced, rep, balance(p))
        /\ Resume([Head(rollbacks) EXCEPT !.visit = h, !.representative = rep, !.balance = balance(p)])
    BY Zenon DEF rollback_state_begin
  <2>2. /\ Top(h) /\ rollbacks # <<>> /\ Head(rollbacks) = rollbacks[1] /\ rollbacks[1] \in Frame
        /\ rollbacks[1].block \in DOMAIN blocks /\ rollbacks[1].visit = Zero
        /\ h = accounts[rollbacks[1].account].head /\ Block[h].type = "state"
        /\ rollbacks \in Seq(Frame) /\ representation \in [Address -> Amount] /\ Base
        /\ Block[h].signer = rollbacks[1].account
    BY <2>1, LoopFacts, Zenon
  <2>3. /\ h \in Hash /\ h # Zero /\ a \in DOMAIN accounts /\ accounts[a].head = h /\ BlockMeans(h)
        /\ p # Zero => p \in DOMAIN blocks /\ p \in Hash
    BY <2>2, TopFacts, Zenon
  <2>4. balance(p) = BalanceAfter(p) /\ BalanceAfter(p) \in Amount
    <3>1. CASE p = Zero
      BY <2>2, <3>1, WalkFacts, MeaningFacts, ValueFacts
    <3>2. CASE p # Zero
      <4>1. BlockMeans(p)
        BY <2>2, <2>3, <3>2, BaseParts, Zenon DEF Meant
      <4> QED
        BY <2>2, <2>3, <3>2, <4>1, WalkFacts, ZenonT(40) DEF BlockMeans
    <3> QED
      BY <3>1, <3>2, Zenon
  <2>5. rep = RepBlock[p] /\ (p # Zero => RepBlock[p] \in Hash)
    <3>1. CASE p = Zero
      BY <3>1, RepFacts, Zenon
    <3>2. CASE p # Zero
      <4>1. RepBlock[p] \in DOMAIN blocks
        BY <2>2, <2>3, <3>2, RepStored, BaseParts, Zenon
      <4> QED
        BY <2>2, <2>3, <3>2, <4>1, WalkFacts, BaseParts, Zenon DEF Tables
    <3> QED
      BY <3>1, <3>2, Zenon
  <2>6. rep = Zero <=> p = Zero
    BY <2>5, ValueFacts, RepFacts
  <2>7. RepBlock[h] = h /\ BalanceAfter(h) = Block[h].balance /\ BalanceAfter(h) \in Amount
    <3>1. NamesRepresentative(h)
      BY <2>2, Zenon DEF NamesRepresentative
    <3> QED
      BY <2>2, <2>3, <3>1, RepFacts, MeaningFacts, Zenon DEF BlockMeans
  <2>8. f \in Frame /\ f.visit = h /\ f.block = rollbacks[1].block /\ f.account = rollbacks[1].account
        /\ f.balance = BalanceAfter(p) /\ f.representative = RepBlock[p]
    <3>1. rep \in Hash \cup {Zero} /\ balance(p) \in Amount
      BY <2>4, <2>5, RepFacts, Zenon
    <3> HIDE DEF rep
    <3> QED
      BY <2>2, <2>3, <2>4, <2>5, <3>1, ZenonT(40) DEF Frame
  <2>9. TopBecomes(f)
    <3> HIDE DEF f
    <3>1. Resume(f)
      BY <2>1, <2>2, ZenonT(40) DEF f
    <3> QED
      BY <2>2, <2>8, <3>1, ResumeFacts, Zenon
  <2>10. Base' /\ blocks' = blocks /\ accounts' = accounts
    BY <2>1, <2>2, BaseStays, ZenonT(40)
  <2> HIDE DEF f
  <2>11. Stacked'
    BY <2>2, <2>8, <2>9, <2>10, <1>BeginStacked, ZenonT(40) DEF IInv
  <2>12. WeightMoves(h, p)
    <3> HIDE DEF rep
    <3>1. reduced = IF h = Zero THEN representation ELSE representation_add(representation, RepBlock[h], Negate(BalanceAfter(h)))
      BY <2>3, <2>7, Zenon
    <3> HIDE DEF reduced
    <3>2. representation' = IF p = Zero THEN reduced ELSE representation_add(reduced, RepBlock[p], BalanceAfter(p))
      BY <2>1, <2>4, <2>5, <2>6, Zenon
    <3>3. h \in Hash \cup {Zero} /\ p \in Hash \cup {Zero} /\ RepBlock[h] \in Hash
      BY <2>3, <2>7, Zenon
    <3> HIDE DEF p
    <3> QED
      BY <2>2, <2>4, <2>5, <2>7, <3>1, <3>2, <3>3, WeightTakenGiven, ZenonT(40)
  <2>13. \A y \in Hash \ {h} : y \in Visited' <=> y \in Visited
    <3>1. \A y : y # h /\ y # Zero => (y \in Visited' <=> y \in Visited)
      BY <2>2, <2>8, <2>9, TopVisits, Zenon DEF IInv
    <3> QED
      BY <3>1, ValueFacts, Zenon
  <2>14. h \in Visited'
    BY <2>2, <2>8, <2>9, TopVisits, Zenon DEF IInv
  <2>15. h \notin Visited
    <3> SUFFICES ASSUME h \in Visited PROVE FALSE
      BY Zenon
    <3>1. PICK i \in 1..Len(rollbacks) : h = rollbacks[i].visit
      BY Zenon DEF Visited
    <3>2. i \in 2..Len(rollbacks)
      <4>1. Len(rollbacks) \in Nat /\ i # 1
        BY <2>2, <2>3, <3>1
      <4> QED
        BY <4>1
    <3>3. Age[h] < Age[rollbacks[1].block] /\ Age[h] \in Nat
      BY <3>1, <3>2, OuterFacts, Zenon DEF IInv
    <3>4. Age[rollbacks[1].block] <= Age[h] /\ Age[rollbacks[1].block] \in Nat
      BY <2>2, InnerFacts, Zenon DEF IInv
    <3> QED
      BY <3>3, <3>4
  <2>16. WeighedHead(a) = h /\ WeighedHead(a)' = p
    BY <2>2, <2>3, <2>10, <2>14, <2>15, Zenon DEF WeighedHead, Undone
  <2>17. ASSUME NEW c \in DOMAIN accounts \ {a} PROVE WeighedHead(c)' = WeighedHead(c)
    <3>1. Block[accounts[c].head].signer = c /\ accounts[c].head \in Hash
      BY <2>2, BaseParts, Zenon DEF Owned, AccountLinked, Tables
    <3>2. accounts[c].head \in Hash \ {h}
      BY <3>1, Zenon
    <3> QED
      BY <2>10, <2>13, <3>2, Zenon DEF WeighedHead, Undone
  <2>18. Weighed'
    <3>1. Tables /\ Tables' /\ Weighed
      BY <2>2, <2>10, Zenon DEF IInv, Base
    <3>2. DOMAIN accounts \ {a} = DOMAIN accounts' \ {a}
      BY <2>10, Zenon
    <3>3. /\ h = IF a \in DOMAIN accounts THEN WeighedHead(a) ELSE Zero
          /\ p = IF a \in DOMAIN accounts' THEN WeighedHead(a)' ELSE Zero
      BY <2>3, <2>10, <2>16, Zenon
    <3> HIDE DEF a, p
    <3> QED
      BY <2>12, <2>17, <3>1, <3>2, <3>3, WeightsFollow, Zenon
  <2> QED
    BY <2>10, <2>11, <2>18, Zenon DEF IInv
<1> SUFFICES
      ASSUME IInv, NEW h, rollback_send_begin(h) \/ rollback_state_begin(h)
      PROVE  IInv'
  BY Zenon
<1> QED
  BY <1>SendBegins, <1>StateBegins, Zenon

\* A visited send that is not pending was received: the chain of its
\* destination has a younger block that depends on it.
LEMMA DestinationFacts ==
    ASSUME IInv, NEW h, Visit(h), VisitedIsSend(h), VisitedKey(h) \notin DOMAIN pending
    PROVE  LET d == latest(Block[h].link)
           IN  Top(d) /\ Age[h] < Age[d] /\ Ancestors[h] \subseteq Ancestors[d]
<1> DEFINE d == latest(Block[h].link)
<1>1. /\ Top(h) /\ Head(rollbacks) = rollbacks[1] /\ Block[h].type \in {"send", "state"} /\ Base
      /\ Block[h].type = "state" => rollbacks[1].balance = BalanceAfter(Block[h].previous)
  BY VisitFacts, Zenon
<1>2. IsSend(h) /\ h \in DOMAIN blocks /\ Key(h) \notin DOMAIN pending
  BY <1>1, Zenon DEF VisitedIsSend, IsSend, Top, VisitedKey, Key
<1>3. PICK r \in DOMAIN blocks : SourceOf(r) = h
  BY <1>1, <1>2, BaseParts, Zenon DEF Settled
<1>4. h \in Hash /\ r \in Hash /\ h # Zero /\ Age[h] \in Nat /\ Age[r] \in Nat
  BY <1>1, <1>2, BlockFacts, BaseParts, Zenon DEF Tables
<1>5. Block[h].link = Block[r].signer /\ r # Genesis
  <2>1. BlockMeans(r)
    BY <1>1, BaseParts, Zenon DEF Meant
  <2> QED
    BY <1>3, <1>4, <2>1, KindFacts, Zenon DEF BlockMeans
<1>6. h \in Named(r)
  BY <1>3, <1>4, Zenon DEF Named
<1>7. Age[h] < Age[r] /\ Ancestors[h] \subseteq Ancestors[r]
  BY <1>4, <1>6, NamedAreOlder, AncestorFacts, Zenon
<1> DEFINE t == accounts[Block[r].signer].head
<1>8. /\ Top(t) /\ Block[r].signer \in DOMAIN accounts /\ Age[r] <= Age[t] /\ r \in Ancestors[t]
      /\ Age[t] \in Nat /\ t \in Hash
  BY <1>1, <1>5, HeadIsNotGenesis, Zenon
<1>9. d = t
  BY <1>5, <1>8, Zenon DEF latest, account_get
<1>10. Ancestors[r] \subseteq Ancestors[t]
  BY <1>8, AncestorsAreOlder, Zenon
<1>11. Age[h] < Age[t]
  BY <1>4, <1>7, <1>8
<1> QED
  BY <1>7, <1>8, <1>9, <1>10, <1>11, Zenon

\* A call of rollback, from outside or from the handler of a send whose receive
\* has to go first, keeps the invariant.
LEMMA CallsKeep ==
    \A h :
        (/\ IInv
         /\ rollback(h) \/ rollback_destination(h))
        => (IInv')
\* A nested call comes on top.
<1>PushFacts.
  ASSUME rollbacks \in Seq(Frame), NEW f \in Frame, rollbacks' = <<f>> \o rollbacks
  PROVE  Pushes(f)
    BY <1>PushFacts DEF Pushes
\* A nested call is for a younger block that depends on the visited one.
<1>PushStacked.
  ASSUME Base, Stacked, blocks' = blocks, NEW f, Pushes(f), f.visit = Zero, f.account = Block[f.block].signer,
         f.block # Genesis, f.block \in Hash,
         rollbacks # <<>> => /\ rollbacks[1].visit # Zero /\ rollbacks[Len(rollbacks)].block \in Ancestors[f.block]
                             /\ Age[rollbacks[1].visit] < Age[f.block]
  PROVE  Stacked'
  <2> USE <1>PushStacked
  <2>0. Len(rollbacks) \in Nat /\ rollbacks' \in Seq(Frame) /\ Len(rollbacks') = Len(rollbacks) + 1
        /\ (rollbacks # <<>> => Len(rollbacks) >= 1)
    BY DEF Stacked, Pushes
  <2>1. rollbacks'[1] = f /\ \A i \in 1..Len(rollbacks) : rollbacks'[i + 1] = rollbacks[i]
    BY <2>0 DEF Pushes
  <2>2. \A i \in 1..Len(rollbacks) : FrameOK(i)
    BY Zenon DEF Stacked
  <2>3. rollbacks # <<>> => rollbacks'[Len(rollbacks')].block = rollbacks[Len(rollbacks)].block
    BY <2>0, <2>1
  <2>4. rollbacks = <<>> => rollbacks'[Len(rollbacks')].block = f.block
    BY <2>0, <2>1
  <2>5. FrameOK(1)'
    <3>1. rollbacks'[Len(rollbacks')].block \in Ancestors[f.block]
      BY <2>3, <2>4, AncestorFacts, Zenon
    <3> QED
      BY <2>1, <3>1 DEF FrameOK
  <2>6. ASSUME NEW i \in 1..Len(rollbacks) PROVE FrameOK(i + 1)'
    <3>0. rollbacks # <<>>
      BY <2>0
    <3>1. FrameOK(i) /\ rollbacks'[i + 1] = rollbacks[i]
      BY <2>1, <2>2, Zenon
    <3>2. rollbacks[i].visit # Zero
      <4>1. i = 1 \/ i > 1
        BY <2>0
      <4> QED
        BY <3>0, <3>1, <4>1, Zenon DEF FrameOK
    <3> QED
      BY <2>3, <3>0, <3>1, <3>2, Zenon DEF FrameOK
  <2>7. \A i \in 1..Len(rollbacks') : FrameOK(i)'
    <3> SUFFICES ASSUME NEW i \in 1..Len(rollbacks') PROVE FrameOK(i)'
      BY Zenon
    <3>1. i = 1 \/ (i - 1 \in 1..Len(rollbacks) /\ (i - 1) + 1 = i)
      BY <2>0
    <3> QED
      BY <2>5, <2>6, <3>1, Zenon
  <2>8. ASSUME NEW i \in 1..Len(rollbacks) PROVE Age[rollbacks[i].visit] < Age[f.block]
    <3>0. rollbacks # <<>> /\ 1 \in 1..Len(rollbacks)
      BY <2>0
    <3>1. CASE i = 1
      BY <3>0, <3>1, Zenon
    <3>2. CASE i # 1
      <4>1. i \in 2..Len(rollbacks)
        BY <2>0, <3>2
      <4>2. Age[rollbacks[i].visit] < Age[rollbacks[1].block] /\ Age[rollbacks[i].visit] \in Nat
        BY <4>1, OuterFacts, Zenon
      <4>3. FrameOK(1)
        BY <2>2, <3>0, Zenon
      <4>4. rollbacks[1].block \in DOMAIN blocks
        BY <3>0, <4>3, Zenon DEF FrameOK
      <4>5. Age[rollbacks[1].block] <= Age[rollbacks[1].visit] /\ Age[rollbacks[1].block] \in Nat /\ Age[rollbacks[1].visit] \in Nat
        BY <3>0, <4>4, InnerFacts, Zenon
      <4>6. Age[f.block] \in Nat
        BY BlockFacts, Zenon
      <4> QED
        BY <3>0, <4>2, <4>5, <4>6
    <3> QED
      BY <3>1, <3>2, Zenon
  <2>9. ASSUME NEW i \in 1..Len(rollbacks'), NEW j \in 1..Len(rollbacks'), i < j
        PROVE  Age[rollbacks'[j].visit] < Age[rollbacks'[i].block]
    <3>1. j - 1 \in 1..Len(rollbacks) /\ rollbacks'[j] = rollbacks[j - 1]
      <4>1. j - 1 \in 1..Len(rollbacks) /\ (j - 1) + 1 = j
        BY <2>0, <2>9
      <4> QED
        BY <2>1, <4>1, Zenon
    <3>2. CASE i = 1
      BY <2>1, <2>8, <3>1, <3>2, Zenon
    <3>3. CASE i # 1
      <4>1. i - 1 \in 1..Len(rollbacks) /\ (i - 1) + 1 = i /\ i - 1 < j - 1
        BY <2>0, <2>9, <3>3
      <4>2. rollbacks'[i] = rollbacks[i - 1]
        BY <2>1, <4>1, Zenon
      <4>3. Age[rollbacks[j - 1].visit] < Age[rollbacks[i - 1].block]
        BY <3>1, <4>1, Zenon DEF Stacked
      <4> QED
        BY <3>1, <4>2, <4>3, Zenon
    <3> QED
      BY <3>2, <3>3, Zenon
  <2> QED
    BY <2>0, <2>7, <2>9, Zenon DEF Stacked
\* A call is for a stored block and its account.
<1>CallFacts.
  ASSUME Base, NEW h \in DOMAIN blocks
  PROVE  /\ Call(h) \in Frame /\ Call(h).visit = Zero /\ Call(h).block = h /\ Call(h).account = Block[h].signer /\ h \in Hash
  <2> USE <1>CallFacts
  <2>1. h \in Hash /\ account(h) = Block[h].signer /\ Block[h].signer \in Address
    BY WalkFacts, BlockFacts, BaseParts, Zenon DEF Tables
  <2> QED
    BY <2>1, ValueFacts DEF Call, Frame
\* A call visits nothing yet.
<1>CallVisits.
  ASSUME Stacked, NEW f, Pushes(f), f.visit = Zero
  PROVE  \A y \in Hash : y \in Visited' <=> y \in Visited
  <2> USE <1>CallVisits
  <2> SUFFICES ASSUME NEW y \in Hash PROVE y \in Visited' <=> y \in Visited
    BY Zenon
  <2>0. y # Zero /\ Len(rollbacks) \in Nat /\ Len(rollbacks') = Len(rollbacks) + 1 /\ rollbacks'[1] = f
    BY ValueFacts DEF Stacked, Pushes
  <2>1. ASSUME y \in Visited' PROVE y \in Visited
    <3>1. PICK i \in 1..Len(rollbacks') : y = rollbacks'[i].visit
      BY <2>1, Zenon DEF Visited
    <3>2. i # 1
      BY <2>0, <3>1, Zenon
    <3>3. i \in 2..(Len(rollbacks) + 1) /\ i - 1 \in 1..Len(rollbacks)
      BY <2>0, <3>2
    <3>4. rollbacks'[i] = rollbacks[i - 1]
      BY <3>3, Zenon DEF Pushes
    <3> QED
      BY <3>1, <3>3, <3>4, Zenon DEF Visited
  <2>2. ASSUME y \in Visited PROVE y \in Visited'
    <3>1. PICK i \in 1..Len(rollbacks) : y = rollbacks[i].visit
      BY <2>2, Zenon DEF Visited
    <3>2. i + 1 \in 2..(Len(rollbacks) + 1) /\ i + 1 \in 1..Len(rollbacks') /\ (i + 1) - 1 = i
      BY <2>0
    <3>3. rollbacks'[i + 1] = rollbacks[i]
      BY <3>2, Zenon DEF Pushes
    <3> QED
      BY <3>1, <3>2, <3>3, Zenon DEF Visited
  <2> QED
    BY <2>1, <2>2, Zenon
\* ledger::rollback is called for any stored block but the genesis block.
<1>CallKeeps.
  ASSUME IInv, NEW h, rollback(h)
  PROVE  IInv'
  <2> USE <1>CallKeeps
  <2> DEFINE f == Call(h)
  <2>1. rollbacks = <<>> /\ h \in DOMAIN blocks /\ h # Genesis /\ rollbacks' = <<f>> /\ UNCHANGED store
    BY Zenon DEF rollback, block_exists
  <2>2. f \in Frame /\ f.visit = Zero /\ f.block = h /\ f.account = Block[h].signer /\ h \in Hash
    BY <2>1, <1>CallFacts, Zenon DEF IInv
  <2> HIDE DEF f
  <2>3. Pushes(f)
    <3>1. rollbacks' = <<f>> \o rollbacks /\ rollbacks \in Seq(Frame)
      BY <2>1, <2>2
    <3> QED
      BY <2>2, <3>1, <1>PushFacts, Zenon
  <2>4. Base' /\ blocks' = blocks
    BY <2>1, BaseStays, Zenon DEF IInv, store
  <2>5. Stacked'
    BY <2>1, <2>2, <2>3, <2>4, <1>PushStacked, Zenon DEF IInv
  <2>6. Weighed'
    <3>1. \A y \in Hash : y \in Visited' <=> y \in Visited
      BY <2>2, <2>3, <1>CallVisits, Zenon DEF IInv
    <3> QED
      BY <2>1, <3>1, WeightsStay, Zenon DEF IInv
  <2> QED
    BY <2>4, <2>5, <2>6 DEF IInv
\* A visitor whose send was received rolls back the head of the destination.
<1>DestinationKeeps.
  ASSUME IInv, NEW h, rollback_destination(h)
  PROVE  IInv'
  <2> USE <1>DestinationKeeps
  <2> DEFINE d == latest(Block[h].link)
             f == Call(d)
  <2>1. /\ Visit(h) /\ VisitedIsSend(h) /\ VisitedKey(h) \notin DOMAIN pending
        /\ rollbacks' = <<f>> \o rollbacks /\ UNCHANGED store
    BY Zenon DEF rollback_destination
  <2>2. /\ rollbacks # <<>> /\ rollbacks[1].visit = h /\ h # Zero /\ rollbacks \in Seq(Frame) /\ Base
        /\ rollbacks[Len(rollbacks)].block \in Ancestors[h]
    BY <2>1, VisitFacts, Zenon
  <2>3. Top(d) /\ Age[h] < Age[d] /\ Ancestors[h] \subseteq Ancestors[d]
    BY <2>1, DestinationFacts, Zenon
  <2> HIDE DEF d
  <2>4. f \in Frame /\ f.visit = Zero /\ f.block = d /\ f.account = Block[d].signer /\ d \in Hash /\ d # Genesis
    BY <2>2, <2>3, <1>CallFacts, Zenon DEF Top
  <2> HIDE DEF f
  <2>5. Pushes(f)
    BY <2>1, <2>2, <2>4, <1>PushFacts, Zenon
  <2>6. Base' /\ blocks' = blocks
    BY <2>1, <2>2, BaseStays, Zenon DEF store
  <2>7. Stacked'
    BY <2>2, <2>3, <2>4, <2>5, <2>6, <1>PushStacked, Zenon DEF IInv
  <2>8. Weighed'
    <3>1. \A y \in Hash : y \in Visited' <=> y \in Visited
      BY <2>4, <2>5, <1>CallVisits, Zenon DEF IInv
    <3> QED
      BY <2>1, <3>1, WeightsStay, Zenon DEF IInv
  <2> QED
    BY <2>6, <2>7, <2>8 DEF IInv
<1> SUFFICES
      ASSUME IInv, NEW h, rollback(h) \/ rollback_destination(h)
      PROVE  IInv'
  OBVIOUS
<1> QED
  BY <1>CallKeeps, <1>DestinationKeeps

\* The invariant holds after genesis::initialize.
LEMMA InitInv == Init => IInv /\ Summed
\* The sum of no number, and of one.
<1>SumOfFew.
  /\ \A f : DOMAIN f = {} => SumFunction(f) = 0
  /\ \A f, x : DOMAIN f = {x} /\ f[x] \in Int => SumFunction(f) = f[x]
  <2>1. ASSUME NEW f, DOMAIN f = {} PROVE SumFunction(f) = 0
    BY <2>1, FiniteFacts, SumOnSet, Zenon DEF SumFunction
  <2>2. ASSUME NEW f, NEW x, DOMAIN f = {x}, f[x] \in Int PROVE SumFunction(f) = f[x]
    <3>1. IsFiniteSet({x}) /\ {x} \ {x} = {}
      BY FiniteFacts, Zenon
    <3>2. SumFunctionOnSet(f, {x}) = f[x] + SumFunctionOnSet(f, {x} \ {x}) /\ SumFunctionOnSet(f, {}) = 0
      BY <2>2, <3>1, SumOnSet, Zenon
    <3>3. SumFunctionOnSet(f, {x}) = f[x]
      BY <2>2, <3>1, <3>2
    <3> QED
      BY <2>2, <3>3, Zenon DEF SumFunction
  <2> QED
    BY <2>1, <2>2, Zenon
\* The tables agree after genesis::initialize.
<1>InitBase.
  Init => Base /\ Summed
  <2> SUFFICES ASSUME Init PROVE Base /\ Summed
    BY Zenon
  <2> DEFINE g == [head |-> Genesis, rep_block |-> Genesis, open_block |-> Genesis, balance |-> MaxAmount, block_count |-> 1]
  <2>1. /\ DOMAIN blocks = {Genesis} /\ blocks[Genesis] = Zero /\ blocks = [h \in {Genesis} |-> Zero]
        /\ DOMAIN accounts = {GenesisAccount} /\ accounts[GenesisAccount] = g /\ accounts = [a \in {GenesisAccount} |-> g]
        /\ DOMAIN frontiers = {Genesis} /\ frontiers[Genesis] = GenesisAccount /\ frontiers = [h \in {Genesis} |-> GenesisAccount]
        /\ DOMAIN pending = {} /\ pending = [k \in {} |-> 0] /\ DOMAIN block_info = {} /\ block_info = [h \in {} |-> 0]
        /\ checksum = {Genesis}
    BY Zenon DEF Init
  <2>2. /\ Genesis \in Hash /\ GenesisAccount \in Account /\ Block[Genesis].type = "open" /\ Block[Genesis].previous = Zero
        /\ Block[Genesis].account = GenesisAccount /\ Block[Genesis].signer = GenesisAccount /\ Block[Genesis].link = GenesisAccount
        /\ NamesRepresentative(Genesis)
    BY GenesisBlock, Zenon DEF NamesRepresentative
  <2>3. /\ BalanceAfter(Genesis) = MaxAmount /\ AmountOf(Genesis) = MaxAmount /\ RepBlock[Genesis] = Genesis
        /\ SourceOf(Genesis) = Zero /\ ~IsSend(Genesis) /\ MaxAmount \in Amount /\ Age[Genesis] \in Nat
    <3>1. BalanceAfter(Genesis) = BalanceAfter(Zero) + AmountOf(GenesisAccount) /\ AmountOf(Genesis) = AmountOf(GenesisAccount)
      BY <2>2, MeaningFacts, Zenon
    <3>2. BalanceAfter(Zero) = 0 /\ AmountOf(GenesisAccount) = MaxAmount
      BY MeaningFacts, Zenon
    <3>3. MaxAmount \in Amount /\ 0 + MaxAmount = MaxAmount
      BY ValueFacts
    <3> QED
      BY <2>2, <3>1, <3>2, <3>3, RepFacts, KindFacts, BlockFacts, Zenon
  <2>4. IsFiniteSet({Genesis}) /\ IsFiniteSet({GenesisAccount}) /\ IsFiniteSet({}) /\ Cardinality({Genesis}) = 1
    BY FiniteFacts, CountFacts, Zenon
  <2>5. Tables
    <3>1. g \in [head : Hash, rep_block : Hash, open_block : Hash, balance : Amount, block_count : Nat]
      BY <2>2, <2>3, Zenon
    <3> HIDE DEF g
    <3> QED
      BY <2>1, <2>2, <2>4, <3>1, Zenon DEF Tables
  <2>6. Linked
    BY <2>1, <2>2, ValueFacts, Zenon DEF Linked, BlockLinked
  <2>7. {h \in DOMAIN blocks : Block[h].signer = GenesisAccount} = {Genesis}
    BY <2>1, <2>2, Zenon
  <2>8. Owned
    BY <2>1, <2>2, <2>3, <2>4, <2>7, Zenon DEF Owned, AccountLinked, ChainOf, Stored
  <2>9. Ordered
    BY <2>1, <2>2, <2>3 DEF Ordered
  <2>10. Meant
    BY <2>1, <2>2, <2>3, Zenon DEF Meant, BlockMeans
  <2>11. Settled
    BY <2>1, <2>3, <2>4, Zenon DEF Settled
  <2>12. Headed
    BY <2>1, <2>2, Zenon DEF Headed, Legacy
  <2>15. Summed
    BY <2>1, Zenon DEF Summed
  <2>13. Snapshots
    <3>1. {x \in DOMAIN blocks : Block[x].signer = Block[Genesis].signer /\ Age[x] <= Age[Genesis]} = {Genesis}
      BY <2>1, <2>3
    <3>2. Height(Genesis) = 1
      BY <2>4, <3>1, Zenon DEF Height
    <3>3. 1 % BlockInfoMax # 0
      BY LedgerValues
    <3> QED
      BY <2>1, <3>2, <3>3, Zenon DEF Snapshots
  <2>14. SupplyIsConserved
    <3> DEFINE b == [a \in DOMAIN accounts |-> accounts[a].balance]
               m == [k \in DOMAIN pending |-> pending[k].amount]
    <3>1. DOMAIN b = {GenesisAccount} /\ b[GenesisAccount] = MaxAmount /\ DOMAIN m = {}
      BY <2>1, Zenon
    <3>2. MaxAmount \in Int /\ MaxAmount + 0 = MaxAmount
      BY ValueFacts
    <3> HIDE DEF b, m
    <3>3. SumFunction(b) = MaxAmount /\ SumFunction(m) = 0
      BY <3>1, <3>2, <1>SumOfFew, Zenon
    <3>4. SumFunction(b) + SumFunction(m) = MaxAmount
      BY <3>2, <3>3, Zenon
    <3> QED
      BY <3>4, Zenon DEF SupplyIsConserved, b, m
  <2> QED
    BY <2>5, <2>6, <2>8, <2>9, <2>10, <2>11, <2>12, <2>13, <2>14, <2>15, Zenon DEF Base
<1> SUFFICES ASSUME Init PROVE IInv /\ Summed
  OBVIOUS
<1>1. Base /\ Summed
  BY <1>InitBase, Zenon
<1>2. rollbacks = <<>> /\ Visited = {}
  BY DEF Init, Visited
<1>3. Stacked
  BY <1>2 DEF Stacked
<1>4. /\ representation = [a \in Address |-> IF a = GenesisAccount THEN MaxAmount ELSE 0]
      /\ DOMAIN accounts = {GenesisAccount} /\ accounts[GenesisAccount].head = Genesis
  BY Zenon DEF Init
<1>5. representation \in [Address -> Amount]
  BY <1>4, ValueFacts
<1>6. BalanceAfter(Genesis) = MaxAmount /\ RepBlock[Genesis] = Genesis
  <2>1. accounts[GenesisAccount].balance = MaxAmount /\ accounts[GenesisAccount].rep_block = Genesis
    BY Zenon DEF Init
  <2> QED
    BY <1>1, <1>4, <2>1, BaseParts DEF Owned, AccountLinked
<1>7. ASSUME NEW rep \in Address PROVE Same(representation[rep], SumFunction(Shares(rep)))
  <2>1. WeighedHead(GenesisAccount) = Genesis
    BY <1>2, <1>4, Zenon DEF WeighedHead, Undone
  <2>2. Block[Genesis].representative = GenesisAccount /\ Genesis # Zero
    BY GenesisBlock, ValueFacts, Zenon
  <2>3. ShareAt(Genesis, rep) = representation[rep] /\ representation[rep] \in Int
    BY <1>4, <1>6, <2>2, ValueFacts DEF ShareAt
  <2> DEFINE s == Shares(rep)
  <2>4. DOMAIN s = {GenesisAccount} /\ s[GenesisAccount] = representation[rep]
    BY <1>4, <2>1, <2>3, Zenon DEF Shares
  <2> HIDE DEF s
  <2>5. SumFunction(s) = representation[rep]
    BY <2>3, <2>4, <1>SumOfFew, Zenon
  <2> QED
    BY <2>3, <2>5, SameSelf, Zenon DEF s
<1> QED
  BY <1>1, <1>3, <1>5, <1>7, Zenon DEF IInv, Weighed

\* A step that changes nothing keeps the invariant.
LEMMA StutterInv == ASSUME IInv, UNCHANGED vars PROVE IInv'
<1>1. UNCHANGED store /\ rollbacks' = rollbacks
  BY Zenon DEF vars, store
<1>2. Base'
  BY <1>1, BaseStays, Zenon DEF IInv, store
<1>3. Stacked'
  BY <1>1, Zenon DEF IInv, Stacked, FrameOK, store
<1>4. Visited' = Visited
  BY <1>1, Zenon DEF Visited
<1>5. Weighed'
  BY <1>1, <1>4, WeightsStay, Zenon DEF IInv
<1> QED
  BY <1>2, <1>3, <1>5, Zenon DEF IInv

\* Opening the store again keeps the invariant: it touches the checksum only.
LEMMA OpenedInv == ASSUME IInv, store_opened PROVE IInv' /\ blocks' = blocks
<1>1. /\ UNCHANGED <<blocks, accounts, frontiers, pending, block_info>>
      /\ representation' = representation /\ rollbacks' = rollbacks
  BY Zenon DEF store_opened
<1>2. Base'
  BY <1>1, BaseStays, Zenon DEF IInv
<1>3. Stacked'
  BY <1>1, Zenon DEF IInv, Stacked, FrameOK
<1>4. \A a : WeighedHead(a)' = WeighedHead(a)
  BY <1>1, Zenon DEF WeighedHead, Undone, Visited
<1>5. \A rep : Shares(rep)' = Shares(rep)
  BY <1>1, <1>4, Zenon DEF Shares
<1>6. Weighed'
  BY <1>1, <1>5, Zenon DEF IInv, Weighed
<1> QED
  BY <1>1, <1>2, <1>3, <1>6, Zenon DEF IInv

\* The two XORs of change_latest follow the head of a chain to a new block and
\* back, provided that the checksum had all heads.
LEMMA ChecksumFollows ==
    ASSUME Summed,
           \/ UNCHANGED <<blocks, checksum>>
           \/ \E h \in Hash : Added(h) /\ Adds(h)
           \/ \E h \in Hash : Removed(h) /\ Removes(h)
    PROVE  Summed'
<1>1. CASE UNCHANGED <<blocks, checksum>>
  BY <1>1, Zenon DEF Summed
<1>2. ASSUME NEW h \in Hash, Added(h), Adds(h) PROVE Summed'
  <2>1. checksum' = (checksum \ {Block[h].previous}) \cup {h}
    BY <1>2, Zenon DEF Adds, AddsHead
  <2>2. ASSUME NEW x \in checksum' PROVE x \in DOMAIN blocks' /\ blocks'[x] = Zero
    BY <1>2, <2>1, Zenon DEF Summed, Added
  <2>3. ASSUME NEW x \in DOMAIN blocks', blocks'[x] = Zero PROVE x \in checksum'
    BY <1>2, <2>1, <2>3, Zenon DEF Summed, Added
  <2> QED
    BY <2>2, <2>3, Zenon DEF Summed
<1>3. ASSUME NEW h \in Hash, Removed(h), Removes(h) PROVE Summed'
  <2>1. checksum' = (checksum \ {h}) \cup ({Block[h].previous} \ {Zero})
    BY <1>3, Zenon DEF Removes, RemovesHead
  <2>2. ASSUME NEW x \in checksum' PROVE x \in DOMAIN blocks' /\ blocks'[x] = Zero
    BY <1>3, <2>1, Zenon DEF Summed, Removed
  <2>3. ASSUME NEW x \in DOMAIN blocks', blocks'[x] = Zero PROVE x \in checksum'
    BY <1>3, <2>1, <2>3, Zenon DEF Summed, Removed
  <2> QED
    BY <2>2, <2>3, Zenon DEF Summed
<1> QED
  BY <1>1, <1>2, <1>3, Zenon

\* What a step does to the blocks: nothing, or it adds a block, or a rollback
\* removes one.
LEMMA NextInv ==
    ASSUME IInv, [Next]_vars
    PROVE  /\ IInv'
           /\ \/ UNCHANGED <<blocks, checksum>>
              \/ \E h \in Hash : Added(h) /\ Adds(h)
              \/ \E h \in Hash : Removed(h) /\ Removes(h) /\ rollbacks[Len(rollbacks)].block \in Ancestors[h]
<1>1. CASE UNCHANGED vars
  BY <1>1, StutterInv, Zenon DEF vars
<1>2. ASSUME NEW h \in Hash, process(h) PROVE IInv' /\ Added(h) /\ Adds(h)
  BY <1>2, ProcessKeeps, Zenon
<1>3. ASSUME NEW h \in Hash, rollback(h) PROVE IInv' /\ UNCHANGED <<blocks, checksum>>
  BY <1>3, CallsKeep, Zenon DEF rollback, store
<1>4. CASE rollback_return
  BY <1>4, ReturnKeeps, Zenon DEF rollback_return, store
<1>5. ASSUME NEW h \in Hash, rollback_receive(h) \/ rollback_open(h) \/ rollback_change(h) \/ rollback_send(h) \/ rollback_state(h)
      PROVE  IInv' /\ Removed(h) /\ Removes(h) /\ rollbacks[Len(rollbacks)].block \in Ancestors[h]
  BY <1>5, RemovalsKeep, Zenon
<1>6. ASSUME NEW h \in Hash, rollback_send_begin(h) \/ rollback_destination(h) \/ rollback_state_begin(h)
      PROVE  IInv' /\ UNCHANGED <<blocks, checksum>>
  <2>1. IInv'
    BY <1>6, BeginsKeep, CallsKeep, Zenon
  <2>2. UNCHANGED <<blocks, checksum>>
    BY <1>6, Zenon DEF rollback_send_begin, rollback_destination, rollback_state_begin, store
  <2> QED
    BY <2>1, <2>2, Zenon
<1> QED
  BY <1>1, <1>2, <1>3, <1>4, <1>5, <1>6, Zenon DEF Next, rollback_step

\* The same with the node started again between operations.
LEMMA RestartNextInv ==
    ASSUME IInv, [Next \/ store_opened]_vars
    PROVE  /\ IInv'
           /\ \/ blocks' = blocks
              \/ \E h \in Hash : Added(h)
              \/ \E h \in Hash : Removed(h) /\ rollbacks[Len(rollbacks)].block \in Ancestors[h]
<1>1. CASE [Next]_vars
  BY <1>1, NextInv, Zenon
<1>2. CASE store_opened
  BY <1>2, OpenedInv, Zenon
<1> QED
  BY <1>1, <1>2, Zenon

\* The inductive invariant: the tables agree, the calls of a rollback are
\* where they must be, and the weights are right up to the state block being
\* undone.  It survives any number of restarts.
THEOREM LedgerInvariant == RestartingSpec => []IInv
<1>1. Init => IInv
  BY InitInv, Zenon
<1>2. IInv /\ [Next \/ store_opened]_vars => IInv'
  BY RestartNextInv, Zenon
<1> QED
  BY <1>1, <1>2, PTL DEF RestartingSpec

\* What holds with restarts holds without.
LEMMA SpecMayRestart == Spec => RestartingSpec
<1>1. [Next]_vars => [Next \/ store_opened]_vars
  BY Zenon
<1> QED
  BY <1>1, PTL DEF Spec, RestartingSpec

\* As long as the store is not opened again the checksum is that of the heads.
LEMMA ChecksumInvariant == Spec => []Summed
<1>1. Init => Summed
  BY InitInv, Zenon
<1>2. IInv /\ Summed /\ [Next]_vars => Summed'
  BY NextInv, ChecksumFollows, Zenon
<1> QED
  BY <1>1, <1>2, LedgerInvariant, SpecMayRestart, PTL DEF Spec

\* The invariant implies that a rollback finds its blocks.
LEMMA RollbackHolds == ASSUME IInv PROVE RollbackFindsItsBlocks
<1> SUFFICES ASSUME rollbacks # <<>> PROVE RollbackFindsItsBlocks
  BY Zenon DEF RollbackFindsItsBlocks
<1> DEFINE top == rollbacks[1]
<1>1. Head(rollbacks) = top /\ Base
  BY StackFacts, Zenon DEF IInv, Stacked
<1>2. block_exists(top.block) => top.account \in DOMAIN accounts
  BY InnerFacts, Zenon DEF block_exists, IInv
<1>3. ASSUME top.visit # Zero
      PROVE  /\ top.visit \in Heads
             /\ VisitedIsSend(top.visit) /\ VisitedKey(top.visit) \notin DOMAIN pending => latest(Block[top.visit].link) \in Stored
  <2>1. Visit(top.visit)
    BY <1>1, <1>3, Zenon DEF Visit, Visiting
  <2>2. Top(top.visit)
    BY <2>1, VisitFacts, Zenon
  <2>3. top.visit \in Heads
    BY <1>1, <2>2, HeadsAre, Zenon DEF Top
  <2> QED
    BY <2>1, <2>3, DestinationFacts, Zenon DEF Top, Stored
<1> QED
  BY <1>1, <1>2, <1>3, Zenon DEF RollbackFindsItsBlocks

\* Every step of the ledger is a step of the lattice, or leaves the blocks alone.
LEMMA NextRefines == IInv /\ [Next \/ store_opened]_vars => [Abstract!Next]_Stored
\* A new block builds on stored blocks and claims what no stored block claims.
<1>AddRefines.
  ASSUME IInv, IInv', NEW h \in Hash, Added(h)
  PROVE  Abstract!Add(h)
  <2> USE <1>AddRefines
  <2> DEFINE p == Block[h].previous
             R == [x \in Hash |-> Named(x)]
             C == [x \in Hash |-> {<<"root", root(x)>>} \cup {<<"source", y>> : y \in {SourceOf(x)} \cap Hash}]
  <2>0. Base /\ Base' /\ DOMAIN blocks \subseteq Hash /\ DOMAIN blocks' = DOMAIN blocks \cup {h} /\ h \notin DOMAIN blocks
    BY BaseParts, Zenon DEF IInv, Tables, Added
  <2>1. R[h] \subseteq DOMAIN blocks
    <3> SUFFICES ASSUME NEW x \in Named(h) PROVE x \in DOMAIN blocks
      BY Zenon
    <3>1. x \in Hash /\ x # h /\ x # Zero
      BY NamedAreOlder, BlockFacts
    <3>2. x = p \/ x = SourceOf(h)
      BY Zenon DEF Named
    <3>3. CASE x = p
      BY <3>1, <3>3, Zenon DEF Added
    <3>4. CASE x = SourceOf(h)
      <4>1. SourceOf(h) \in DOMAIN blocks'
        BY <2>0, <3>1, <3>4, Zenon DEF Base, Meant, BlockMeans
      <4> QED
        BY <2>0, <3>1, <3>4, <4>1, Zenon
    <3> QED
      BY <3>2, <3>3, <3>4, Zenon
  <2>2. ASSUME NEW x \in DOMAIN blocks PROVE root(x) # root(h)
    <3>1. x \in Hash /\ BlockLinked(x) /\ x # Zero
      BY <2>0, ValueFacts, BaseParts, Zenon DEF Linked
    <3>2. Block[x].signer \in Account /\ Block[h].signer \in Account
      BY <2>0, <3>1, BaseParts, Zenon DEF Tables, BlockLinked, Added
    <3>3. Block[x].previous = Zero => root(x) \in Account /\ root(x) = Block[x].signer
      BY <3>1, <3>2, Zenon DEF BlockLinked, root
    <3>4. Block[x].previous # Zero => root(x) \in Hash /\ root(x) = Block[x].previous /\ blocks[Block[x].previous] = x
      BY <3>1, BlockFacts, Zenon DEF BlockLinked, root
    <3>5. p = Zero => root(h) \in Account /\ root(h) = Block[h].signer /\ Block[x].signer # Block[h].signer
      BY <3>2, Zenon DEF Added, root
    <3>6. p # Zero => root(h) \in Hash /\ root(h) = p /\ blocks[p] = Zero
      BY BlockFacts, Zenon DEF Added, root
    <3> QED
      BY <3>1, <3>3, <3>4, <3>5, <3>6, ValueFacts, Zenon
  <2>3. ASSUME NEW x \in DOMAIN blocks, SourceOf(h) # Zero PROVE SourceOf(x) # SourceOf(h)
    <3>1. x \in DOMAIN blocks' /\ h \in DOMAIN blocks' /\ x # h
      BY <2>0, Zenon
    <3> QED
      BY <2>0, <2>3, <3>1, Zenon DEF Base, Settled
  <2>4. ASSUME NEW x \in DOMAIN blocks PROVE C[x] \cap C[h] = {}
    <3>1. x \in Hash /\ Zero \notin Hash
      BY <2>0, ValueFacts, Zenon
    <3>2. root(x) # root(h) /\ (SourceOf(h) # Zero => SourceOf(x) # SourceOf(h))
      BY <2>2, <2>3, Zenon
    <3>3. "root" # "source"
      BY Zenon
    <3> QED
      BY <3>1, <3>2, <3>3
  <2>5. DOMAIN blocks' = DOMAIN blocks \cup {h}
    BY <2>0, Zenon
  <2> QED
    BY <2>0, <2>1, <2>4, <2>5, Zenon DEF Abstract!Add, Stored, References, Places
\* A head is removed once nothing names it.
<1>RemoveRefines.
  ASSUME IInv, NEW h \in Hash, Removed(h)
  PROVE  Abstract!Remove(h)
  <2> USE <1>RemoveRefines
  <2>1. h \in DOMAIN blocks \ {Genesis} /\ DOMAIN blocks' = DOMAIN blocks \ {h}
    BY Zenon DEF Removed
  <2>2. ASSUME NEW x \in DOMAIN blocks PROVE x \in Hash /\ h \notin Named(x)
    BY Zenon DEF Removed, Named
  <2> QED
    BY <2>1, <2>2, Zenon DEF Abstract!Remove, Stored, References
<1> SUFFICES ASSUME IInv, [Next \/ store_opened]_vars PROVE Abstract!Next \/ Stored' = Stored
  BY Zenon
<1>1. /\ IInv'
      /\ \/ blocks' = blocks
         \/ \E h \in Hash : Added(h)
         \/ \E h \in Hash : Removed(h) /\ rollbacks[Len(rollbacks)].block \in Ancestors[h]
  BY RestartNextInv, Zenon
<1>2. CASE blocks' = blocks
  BY <1>2, Zenon DEF Stored
<1>3. ASSUME NEW h \in Hash, Added(h) PROVE Abstract!Next
  BY <1>1, <1>3, <1>AddRefines, Zenon DEF Abstract!Next
<1>4. ASSUME NEW h \in Hash, Removed(h) PROVE Abstract!Next
  BY <1>4, <1>RemoveRefines, Zenon DEF Abstract!Next
<1> QED
  BY <1>1, <1>2, <1>3, <1>4, Zenon

\* The genesis block alone is the initial lattice.
LEMMA InitRefines == Init => Abstract!Init
  BY Zenon DEF Init, Abstract!Init, Stored

\* A step that removes a block is a step of a rollback of one of its ancestors.
LEMMA NextDepends == IInv /\ [Next \/ store_opened]_vars => [RemovesDependents]_vars
<1> SUFFICES ASSUME IInv, [Next \/ store_opened]_vars PROVE RemovesDependents
  BY Zenon
<1>1. \/ blocks' = blocks
      \/ \E h \in Hash : Added(h)
      \/ \E h \in Hash : Removed(h) /\ rollbacks[Len(rollbacks)].block \in Ancestors[h]
  BY RestartNextInv, Zenon
<1>2. CASE blocks' = blocks
  BY <1>2, Zenon DEF RemovesDependents, Stored
<1>3. CASE \E h \in Hash : Added(h)
  BY <1>3, Zenon DEF RemovesDependents, Stored, Added
<1>4. CASE \E h \in Hash : Removed(h) /\ rollbacks[Len(rollbacks)].block \in Ancestors[h]
  BY <1>4, Zenon DEF RemovesDependents, Stored, Removed
<1> QED
  BY <1>1, <1>2, <1>3, <1>4, Zenon

\* Whatever blocks arrive and are rolled back, in any order, the tables that
\* process and rollback update one by one describe the same chains at every
\* step, up to the next opening of the store, which loses the checksum.
THEOREM TablesAlwaysAgree == Spec => []TablesAgree
<1>1. IInv /\ Summed => TablesAgree
  BY TablesHold, Zenon
<1> QED
  BY <1>1, LedgerInvariant, ChecksumInvariant, SpecMayRestart, PTL

\* No step creates or destroys funds, for any universe of blocks.
THEOREM SupplyIsAlwaysConserved == RestartingSpec => []SupplyIsConserved
<1>1. IInv => SupplyIsConserved
  BY BaseParts, Zenon DEF IInv
<1> QED
  BY <1>1, LedgerInvariant, PTL

\* Between operations the voting weight of every representative is the sum of
\* the balances delegated to it, although the table is only ever changed by
\* wrapped differences and a rollback changes it in another order than process
\* did.
THEOREM WeightIsAlwaysDelegated == RestartingSpec => []WeightIsDelegated
<1>1. IInv => WeightIsDelegated
  BY WeightHolds
<1> QED
  BY <1>1, LedgerInvariant, PTL

\* No send is received twice, lost, or re-created by a rollback.
THEOREM SendsAlwaysSettleOnce == RestartingSpec => []SendsSettleOnce
<1>1. IInv => SendsSettleOnce
  BY SettledHolds, Zenon
<1> QED
  BY <1>1, LedgerInvariant, PTL

\* The visitors, the block_info shortcuts and the lookups of a competitor give
\* what the history of the blocks gives.
THEOREM LookupsAlwaysAgree == RestartingSpec => []LookupsAgree
<1>1. IInv => LookupsAgree
  BY LookupsHold
<1> QED
  BY <1>1, LedgerInvariant, PTL

\* Nothing that the rollback code asserts or dereferences is missing.
THEOREM RollbackAlwaysFindsItsBlocks == RestartingSpec => []RollbackFindsItsBlocks
<1>1. IInv => RollbackFindsItsBlocks
  BY RollbackHolds, Zenon
<1> QED
  BY <1>1, LedgerInvariant, PTL

\* A rollback removes nothing but blocks that depend on the one it was called
\* for.
THEOREM RollbackRemovesDependents == RestartingSpec => [][RemovesDependents]_vars
  BY NextDepends, LedgerInvariant, PTL DEF RestartingSpec

\* The ledger with all its tables implements the abstract lattice.
THEOREM LedgerImplementsLattice == RestartingSpec => ImplementsLattice
  BY InitRefines, NextRefines, LedgerInvariant, PTL DEF RestartingSpec, ImplementsLattice, Abstract!Spec

\* Every stored block has its previous block and its source stored: process
\* takes a block when both are there, and rollback a block that nothing names.
THEOREM LedgerIsClosed == RestartingSpec => []Abstract!Closed
<1>1. References[Genesis] = {}
  BY GenesisBlock, LedgerValues, Zenon DEF References, Named, SourceOf
<1>2. Abstract!Init => Abstract!Closed
  BY <1>1, Zenon DEF Abstract!Init, Abstract!Closed
<1>3. ASSUME Abstract!Closed, [Abstract!Next]_Stored PROVE Abstract!Closed'
  <2>1. ASSUME NEW h \in Hash, Abstract!Add(h) PROVE Abstract!Closed'
    BY <1>3, <2>1, Zenon DEF Abstract!Closed, Abstract!Add, References
  <2>2. ASSUME NEW h \in Hash, Abstract!Remove(h) PROVE Abstract!Closed'
    BY <1>3, <2>2, Zenon DEF Abstract!Closed, Abstract!Remove, References
  <2> QED
    BY <1>3, <2>1, <2>2, Zenon DEF Abstract!Next, Abstract!Closed, References
<1> QED
  BY <1>2, <1>3, LedgerImplementsLattice, PTL DEF ImplementsLattice, Abstract!Spec

\* No two stored blocks have the same root or receive the same send: a block that
\* claims what is claimed already is never added.
THEOREM LedgerHasNoForks == RestartingSpec => []Abstract!NoForks
<1>1. Abstract!Init => Abstract!NoForks
  BY Zenon DEF Abstract!Init, Abstract!NoForks
<1>2. ASSUME Abstract!NoForks, [Abstract!Next]_Stored PROVE Abstract!NoForks'
  <2>1. ASSUME NEW h \in Hash, Abstract!Add(h) PROVE Abstract!NoForks'
    BY <1>2, <2>1, Zenon DEF Abstract!NoForks, Abstract!Add
  <2>2. ASSUME NEW h \in Hash, Abstract!Remove(h) PROVE Abstract!NoForks'
    BY <1>2, <2>2, Zenon DEF Abstract!NoForks, Abstract!Remove
  <2> QED
    BY <1>2, <2>1, <2>2, Zenon DEF Abstract!Next, Abstract!NoForks
<1> QED
  BY <1>1, <1>2, LedgerImplementsLattice, PTL DEF ImplementsLattice, Abstract!Spec

\* No sequence of blocks and rollbacks removes the genesis block.
THEOREM GenesisIsNeverRemoved == RestartingSpec => []Abstract!GenesisStays
<1>1. Abstract!Init => Abstract!GenesisStays
  BY Zenon DEF Abstract!Init, Abstract!GenesisStays
<1>2. Abstract!GenesisStays /\ [Abstract!Next]_Stored => Abstract!GenesisStays'
  BY Zenon DEF Abstract!GenesisStays, Abstract!Next, Abstract!Add, Abstract!Remove
<1> QED
  BY <1>1, <1>2, LedgerImplementsLattice, PTL DEF ImplementsLattice, Abstract!Spec
=============================================================================
