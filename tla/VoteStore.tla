----------------------------- MODULE VoteStore ------------------------------
(***************************************************************************)
(* The last vote of every representative: vote_cache in memory over the    *)
(* LMDB vote table (rai/blockstore.cpp), as the node's threads use them.   *)
(* A vote is its sequence number; 0 is no vote.                            *)
(*                                                                         *)
(* vote_generate and vote_max hold cache_mutex, but the LMDB transaction   *)
(* they read through was opened by their caller earlier and shows the      *)
(* table as it was then.  flush empties the cache inside a write           *)
(* transaction that commits later.                                         *)
(***************************************************************************)
EXTENDS Integers, TLAPS

CONSTANTS
    Voter,         \* representatives
    Reader,        \* threads that open read transactions: message handlers, broadcast_winner
    Writer,        \* threads that open the write transaction: wallet sends with an id
    MaxNumber,     \* bound on sequence numbers
    MaxCrashes     \* bound on crashes

User == Reader \cup Writer
Sequence == 0..MaxNumber
Table == [Voter -> Sequence]
Empty == [r \in Voter |-> 0]
\* Who holds the write transaction: a thread, nobody, or the flush timer before
\* and after it takes the cache.
Nobody == "nobody"
Flush == "flush"
Commit == "commit"

ASSUME VoteStoreValues ==
    /\ Reader \cap Writer = {}
    /\ {Nobody, Flush, Commit} \cap User = {}
    /\ MaxNumber \in Nat \ {0}
    /\ MaxCrashes \in Nat

VARIABLES
    vote_table,    \* the committed table
    vote_cache,
    open,          \* threads with an open transaction
    view,          \* thread -> the table its transaction shows
    writing,       \* who holds the write transaction
    flushing,      \* what flush took from the cache and has not committed
    issued,        \* the highest number vote_generate returned since the start
    missed,        \* threads whose transaction misses a flush: opened before its commit, open after its swap
    overlapped,    \* some call was made by such a thread
    crashes

store_vars ==
    <<vote_table, vote_cache, open, view, writing, flushing, issued, missed, overlapped, crashes>>

\* What is in the upper table hides what is in the lower one.
Over(upper, lower) == [r \in Voter |-> IF upper[r] # 0 THEN upper[r] ELSE lower[r]]

\* rai::transaction: LMDB has any number of readers and one writer.
begin_read(t) ==
    /\ t \notin open
    /\ open' = open \cup {t}
    /\ view' = [view EXCEPT ![t] = vote_table]
    /\ missed' = IF writing = Commit THEN missed \cup {t} ELSE missed
    /\ UNCHANGED <<vote_table, vote_cache, writing, flushing, issued, overlapped, crashes>>

begin_write(t) ==
    /\ t \notin open
    /\ open' = open \cup {t}
    /\ writing = Nobody
    /\ writing' = t
    /\ view' = [view EXCEPT ![t] = vote_table]
    /\ UNCHANGED <<vote_table, vote_cache, flushing, issued, missed, overlapped, crashes>>

end(t) ==
    /\ t \in open
    /\ open' = open \ {t}
    /\ view' = [view EXCEPT ![t] = Empty]
    /\ writing' = IF writing = t THEN Nobody ELSE writing
    /\ missed' = missed \ {t}
    /\ UNCHANGED <<vote_table, vote_cache, flushing, issued, overlapped, crashes>>

\* mutant
vote_get(t, r) == view[t][r]
vote_current(t, r) == IF vote_cache[r] # 0 THEN vote_cache[r] ELSE view[t][r]

vote_generate(t, r) ==
    LET sequence == vote_current(t, r) + 1
    IN  /\ t \in open
        /\ sequence <= MaxNumber
        /\ vote_cache' = [vote_cache EXCEPT ![r] = sequence]
        /\ issued' = [issued EXCEPT ![r] = IF sequence > @ THEN sequence ELSE @]
        /\ overlapped' = (overlapped \/ t \in missed)
        /\ UNCHANGED <<vote_table, open, view, writing, flushing, missed, crashes>>

\* mutant
arrived(current, sequence) == sequence
\* vote_max keeps the vote with the higher number.
higher(current, sequence) == IF current > sequence THEN current ELSE sequence

\* A vote of r arrives.
vote_max(t, r, sequence) ==
    /\ t \in open
    /\ vote_cache' = [vote_cache EXCEPT ![r] = higher(vote_current(t, r), sequence)]
    /\ overlapped' = (overlapped \/ t \in missed)
    /\ UNCHANGED <<vote_table, open, view, writing, flushing, issued, missed, crashes>>

\* node::ongoing_store_flush opens the write transaction, block_store::flush
\* takes the cache and puts the votes, and the end of the scope commits.
flush_begin ==
    /\ writing = Nobody
    /\ writing' = Flush
    /\ UNCHANGED <<vote_table, vote_cache, open, view, flushing, issued, missed, overlapped, crashes>>

flush ==
    /\ writing = Flush
    /\ writing' = Commit
    /\ flushing' = vote_cache
    /\ vote_cache' = Empty
    /\ missed' = open
    /\ UNCHANGED <<vote_table, open, view, issued, overlapped, crashes>>

flush_commit ==
    /\ writing = Commit
    /\ writing' = Nobody
    /\ vote_table' = Over(flushing, vote_table)
    /\ flushing' = Empty
    /\ UNCHANGED <<vote_cache, open, view, issued, missed, overlapped, crashes>>

\* The process dies and starts again: memory and open transactions are gone.
crash ==
    /\ crashes < MaxCrashes
    /\ crashes' = crashes + 1
    /\ vote_cache' = Empty
    /\ flushing' = Empty
    /\ writing' = Nobody
    /\ open' = {}
    /\ view' = [t \in User |-> Empty]
    /\ missed' = {}
    /\ overlapped' = FALSE
    /\ issued' = Empty
    /\ UNCHANGED vote_table

StoreInit ==
    /\ vote_table = Empty
    /\ vote_cache = Empty
    /\ open = {}
    /\ view = [t \in User |-> Empty]
    /\ writing = Nobody
    /\ flushing = Empty
    /\ issued = Empty
    /\ missed = {}
    /\ overlapped = FALSE
    /\ crashes = 0

StoreNext ==
    \/ \E t \in Reader : begin_read(t)
    \/ \E t \in Writer : begin_write(t)
    \/ \E t \in User : end(t)
    \/ \E t \in User, r \in Voter : vote_generate(t, r)
    \/ \E t \in User, r \in Voter, sequence \in 1..MaxNumber : vote_max(t, r, sequence)
    \/ flush_begin
    \/ flush
    \/ flush_commit
    \/ crash

StoreSpec == StoreInit /\ [][StoreNext]_store_vars

-----------------------------------------------------------------------------
\* Tables hold sequence numbers; only open transactions miss a flush.
StoreTypeOK ==
    /\ vote_table \in Table
    /\ vote_cache \in Table
    /\ open \subseteq User
    /\ view \in [User -> Table]
    /\ writing \in Writer \cup {Nobody, Flush, Commit}
    /\ flushing \in Table
    /\ issued \in Table
    /\ missed \subseteq open
    /\ overlapped \in BOOLEAN
    /\ crashes \in 0..MaxCrashes

\* The newest vote of every representative, wherever it is.
Latest == Over(vote_cache, Over(flushing, vote_table))

\* The store never forgets a number it issued in this run of the process, unless
\* some call read through a transaction that misses a flush: only then can
\* vote_generate return a number again.
IssuedIsKnown == ~overlapped => \A r \in Voter : issued[r] <= Latest[r]

\* What is on disk only advances, through flushes and crashes: a flush writes no
\* vote older than the one it replaces, unless a call missed a flush.
StoredVotesAdvance == [][~overlapped' => \A r \in Voter : vote_table[r] <= vote_table'[r]]_store_vars

\* The newest vote of a representative only advances while the process runs,
\* unless a call missed a flush: an old vote that arrives late replaces nothing.
LatestAdvances ==
    [][~overlapped' /\ crashes' = crashes => \A r \in Voter : Latest[r] <= Latest'[r]]_store_vars

\* vote_generate populates the vote with the next sequence number: one higher
\* than any it returned before.
SequencesAdvance ==
    [][\A t \in User, r \in Voter : vote_generate(t, r) => vote_cache'[r] > issued[r]]_store_vars

-----------------------------------------------------------------------------
(* The proofs, for any representatives, threads and bounds *)

\* A transaction that misses no flush shows the table as it is, and no flush is
\* between its swap and its commit.
FreshViews ==
    /\ writing # Commit => flushing = Empty
    /\ \A t \in open \ missed : view[t] = vote_table /\ writing # Commit

\* The cache is newer than what is being flushed, and that is newer than the table.
Layered ==
    \A r \in Voter :
        /\ vote_cache[r] # 0 => flushing[r] <= vote_cache[r] /\ vote_table[r] <= vote_cache[r]
        /\ flushing[r] # 0 => vote_table[r] <= flushing[r]

\* The inductive invariant.
IInv ==
    /\ StoreTypeOK
    /\ FreshViews
    /\ ~overlapped => Layered
    /\ IssuedIsKnown

\* An overlay of two tables is a table.
LEMMA OverType == ASSUME NEW upper \in Table, NEW lower \in Table PROVE Over(upper, lower) \in Table
  BY Zenon DEF Over, Table, Sequence

\* An empty vote table is a vote table.
LEMMA EmptyType == Empty \in Table
  BY VoteStoreValues DEF Empty, Table, Sequence

\* What a caller reads is a number of the right range.
LEMMA CurrentType ==
  ASSUME StoreTypeOK, NEW t \in User, NEW r \in Voter
  PROVE  vote_current(t, r) \in Sequence
  BY Zenon DEF StoreTypeOK, vote_current, Table

\* The type invariant holds of every behaviour.
THEOREM TypeCorrect == StoreSpec => []StoreTypeOK
<1>1. StoreInit => StoreTypeOK
  <2>1. ASSUME StoreInit PROVE overlapped \in BOOLEAN
    BY <2>1, Zenon DEF StoreInit
  <2>2. ASSUME StoreInit PROVE crashes \in 0..MaxCrashes
    BY <2>2, VoteStoreValues DEF StoreInit
  <2> QED
    BY <2>1, <2>2, EmptyType, Zenon DEF StoreInit, StoreTypeOK
<1>2. StoreTypeOK /\ [StoreNext]_store_vars => StoreTypeOK'
  <2> SUFFICES ASSUME StoreTypeOK, [StoreNext]_store_vars PROVE StoreTypeOK'
    BY Zenon
  <2>1. CASE UNCHANGED store_vars
    BY <2>1, Zenon DEF StoreTypeOK, store_vars
  <2>2. ASSUME NEW t \in Reader, begin_read(t) PROVE StoreTypeOK'
    BY <2>2, Zenon DEF StoreTypeOK, begin_read, User
  <2>3. ASSUME NEW t \in Writer, begin_write(t) PROVE StoreTypeOK'
    BY <2>3, Zenon DEF StoreTypeOK, begin_write, User
  <2>4. ASSUME NEW t \in User, end(t) PROVE StoreTypeOK'
    BY <2>4, EmptyType, Zenon DEF StoreTypeOK, end
  <2>5. ASSUME NEW t \in User, NEW r \in Voter, vote_generate(t, r) PROVE StoreTypeOK'
    <3>1. vote_current(t, r) + 1 \in Sequence
      BY <2>5, CurrentType, VoteStoreValues DEF vote_generate, Sequence
    <3>2. vote_cache' \in Table /\ issued' \in Table
      BY <2>5, <3>1, Zenon DEF StoreTypeOK, vote_generate, Table
    <3>3. overlapped' \in BOOLEAN
      BY <2>5, Zenon DEF vote_generate
    <3> QED
      BY <2>5, <3>2, <3>3, Zenon DEF StoreTypeOK, vote_generate
  <2>6. ASSUME NEW t \in User, NEW r \in Voter, NEW sequence \in 1..MaxNumber, vote_max(t, r, sequence)
        PROVE  StoreTypeOK'
    <3>1. higher(vote_current(t, r), sequence) \in Sequence
      BY CurrentType, VoteStoreValues DEF higher, Sequence
    <3>2. vote_cache' \in Table
      BY <2>6, <3>1, Zenon DEF StoreTypeOK, vote_max, Table
    <3>3. overlapped' \in BOOLEAN
      BY <2>6, Zenon DEF vote_max
    <3> QED
      BY <2>6, <3>2, <3>3, Zenon DEF StoreTypeOK, vote_max
  <2>7. CASE flush_begin
    BY <2>7, Zenon DEF StoreTypeOK, flush_begin
  <2>8. CASE flush
    BY <2>8, EmptyType, Zenon DEF StoreTypeOK, flush
  <2>9. CASE flush_commit
    BY <2>9, EmptyType, OverType, Zenon DEF StoreTypeOK, flush_commit
  <2>10. CASE crash
    <3>1. overlapped' \in BOOLEAN
      BY <2>10, Zenon DEF crash
    <3>2. crashes' \in 0..MaxCrashes
      BY <2>10, VoteStoreValues DEF StoreTypeOK, crash
    <3> QED
      BY <2>10, <3>1, <3>2, EmptyType, Zenon DEF StoreTypeOK, crash
  <2> QED
    BY <2>1, <2>2, <2>3, <2>4, <2>5, <2>6, <2>7, <2>8, <2>9, <2>10, Zenon DEF StoreNext
<1> QED
  BY <1>1, <1>2, PTL DEF StoreSpec

\* A call through a transaction that misses no flush reads the newest vote.
LEMMA FreshCurrent ==
  ASSUME StoreTypeOK, FreshViews, NEW t \in open \ missed, NEW r \in Voter
  PROVE  vote_current(t, r) = Latest[r] /\ flushing = Empty
  BY Zenon DEF StoreTypeOK, FreshViews, vote_current, Latest, Over, Empty, Table, Sequence

\* The newest vote, layer by layer.
LEMMA LatestValue ==
  ASSUME NEW r \in Voter
  PROVE  Latest[r] = IF vote_cache[r] # 0 THEN vote_cache[r] ELSE IF flushing[r] # 0 THEN flushing[r] ELSE vote_table[r]
  BY Zenon DEF Latest, Over

\* The inductive invariant holds initially.
LEMMA InitIInv == StoreInit => FreshViews /\ Layered /\ IssuedIsKnown
  BY VoteStoreValues DEF StoreInit, FreshViews, Layered, IssuedIsKnown, Empty, Latest, Over, Nobody, Commit

\* Every step keeps transactions that miss no flush up to date.
LEMMA NextFreshViews == ASSUME StoreTypeOK, FreshViews, [StoreNext]_store_vars PROVE FreshViews'
<1>1. CASE UNCHANGED store_vars
  BY <1>1, Zenon DEF FreshViews, store_vars
<1>2. ASSUME NEW t \in Reader, begin_read(t) PROVE FreshViews'
  BY <1>2, Zenon DEF StoreTypeOK, FreshViews, begin_read, User
<1>3. ASSUME NEW t \in Writer, begin_write(t) PROVE FreshViews'
  BY <1>3, VoteStoreValues, Zenon DEF StoreTypeOK, FreshViews, begin_write, User, Nobody, Commit
<1>4. ASSUME NEW t \in User, end(t) PROVE FreshViews'
  BY <1>4, VoteStoreValues, Zenon DEF StoreTypeOK, FreshViews, end, User, Nobody, Commit
<1>5. ASSUME NEW t \in User, NEW r \in Voter, vote_generate(t, r) PROVE FreshViews'
  BY <1>5, Zenon DEF FreshViews, vote_generate
<1>6. ASSUME NEW t \in User, NEW r \in Voter, NEW sequence \in 1..MaxNumber, vote_max(t, r, sequence)
      PROVE  FreshViews'
  BY <1>6, Zenon DEF FreshViews, vote_max
<1>7. CASE flush_begin
  BY <1>7, Zenon DEF FreshViews, flush_begin, Nobody, Flush, Commit
<1>8. CASE flush
  BY <1>8, Zenon DEF FreshViews, flush
<1>9. CASE flush_commit
  BY <1>9, Zenon DEF FreshViews, flush_commit
<1>10. CASE crash
  BY <1>10, Zenon DEF FreshViews, crash, Nobody, Commit
<1> QED
  BY <1>1, <1>2, <1>3, <1>4, <1>5, <1>6, <1>7, <1>8, <1>9, <1>10, Zenon DEF StoreNext

\* Every step but a crash keeps the layers in order and forgets no vote, unless
\* a call misses a flush.
LEMMA NextLayered ==
  ASSUME IInv, [StoreNext]_store_vars, ~overlapped'
  PROVE  /\ Layered'
         /\ \A r \in Voter : issued'[r] <= Latest'[r]
         /\ \A r \in Voter : vote_table[r] <= vote_table'[r]
         /\ ~crash => \A r \in Voter : Latest[r] <= Latest'[r]
<1> DEFINE Goal == /\ Layered'
                   /\ \A q \in Voter : issued'[q] <= Latest'[q]
                   /\ \A q \in Voter : vote_table[q] <= vote_table'[q]
                   /\ ~crash => \A q \in Voter : Latest[q] <= Latest'[q]
<1> USE DEF IInv
<1>1. \A q \in Voter : Latest[q] \in Nat /\ vote_table[q] \in Nat /\ flushing[q] \in Nat /\ vote_cache[q] \in Nat /\ issued[q] \in Nat
  BY LatestValue, VoteStoreValues DEF StoreTypeOK, Table, Sequence
<1>2. \A q \in Voter : Latest'[q] = IF vote_cache'[q] # 0 THEN vote_cache'[q]
                               ELSE IF flushing'[q] # 0 THEN flushing'[q] ELSE vote_table'[q]
  BY Zenon DEF Latest, Over
<1>3. ASSUME ~overlapped, UNCHANGED <<vote_table, vote_cache, flushing, issued>> PROVE Goal
  BY <1>1, <1>2, <1>3, LatestValue DEF Layered, IssuedIsKnown
<1>4. ASSUME NEW t \in Reader, begin_read(t) PROVE Goal
  BY <1>3, <1>4, Zenon DEF begin_read
<1>5. ASSUME NEW t \in Writer, begin_write(t) PROVE Goal
  BY <1>3, <1>5, Zenon DEF begin_write
<1>6. ASSUME NEW t \in User, end(t) PROVE Goal
  BY <1>3, <1>6, Zenon DEF end
<1>7. ASSUME NEW t \in User, NEW r \in Voter, vote_generate(t, r) PROVE Goal
  <2>1. ~overlapped /\ t \in open \ missed
    BY <1>7, Zenon DEF vote_generate
  <2>2. vote_current(t, r) = Latest[r] /\ flushing = Empty
    BY <2>1, FreshCurrent, Zenon
  <2>3. vote_cache' = [vote_cache EXCEPT ![r] = Latest[r] + 1]
    BY <1>7, <2>2, Zenon DEF vote_generate
  <2>4. issued' = [issued EXCEPT ![r] = IF Latest[r] + 1 > @ THEN Latest[r] + 1 ELSE @]
    BY <1>7, <2>2, Zenon DEF vote_generate
  <2>5. UNCHANGED <<vote_table, flushing>>
    BY <1>7, Zenon DEF vote_generate
  <2>6. vote_cache \in [Voter -> Sequence] /\ issued \in [Voter -> Sequence]
    BY Zenon DEF StoreTypeOK, Table
  <2> QED
    BY <1>1, <1>2, <2>1, <2>2, <2>3, <2>4, <2>5, <2>6, LatestValue DEF Layered, IssuedIsKnown, Empty
<1>8. ASSUME NEW t \in User, NEW r \in Voter, NEW sequence \in 1..MaxNumber, vote_max(t, r, sequence)
      PROVE  Goal
  <2>1. ~overlapped /\ t \in open \ missed
    BY <1>8, Zenon DEF vote_max
  <2>2. vote_current(t, r) = Latest[r] /\ flushing = Empty
    BY <2>1, FreshCurrent, Zenon
  <2> DEFINE n == higher(Latest[r], sequence)
  <2>3. n \in Nat /\ Latest[r] <= n /\ n # 0
    BY <1>1, VoteStoreValues DEF higher
  <2>6. vote_cache' = [vote_cache EXCEPT ![r] = n]
    BY <1>8, <2>2, Zenon DEF vote_max
  <2>4. UNCHANGED <<vote_table, flushing, issued>>
    BY <1>8, Zenon DEF vote_max
  <2>5. vote_cache \in [Voter -> Sequence]
    BY Zenon DEF StoreTypeOK, Table
  <2> HIDE DEF n
  <2> QED
    BY <1>1, <1>2, <2>1, <2>2, <2>3, <2>4, <2>5, <2>6, LatestValue DEF Layered, IssuedIsKnown, Empty
<1>9. CASE flush_begin
  BY <1>3, <1>9, Zenon DEF flush_begin
<1>10. CASE flush
  <2>1. flushing = Empty
    BY <1>10, Zenon DEF FreshViews, flush, Flush, Commit
  <2> QED
    BY <1>1, <1>2, <1>10, <2>1, LatestValue DEF flush, Layered, IssuedIsKnown, Empty
<1>11. CASE flush_commit
  BY <1>1, <1>2, <1>11, LatestValue DEF flush_commit, Over, Layered, IssuedIsKnown, Empty
<1>12. CASE crash
  BY <1>1, <1>2, <1>12 DEF crash, Layered, Empty
<1>13. CASE UNCHANGED store_vars
  BY <1>3, <1>13, Zenon DEF store_vars
<1> QED
  BY <1>4, <1>5, <1>6, <1>7, <1>8, <1>9, <1>10, <1>11, <1>12, <1>13, Zenon DEF StoreNext

\* The inductive invariant holds of every behaviour.
LEMMA Invariant == StoreSpec => []IInv
<1>1. StoreInit /\ StoreTypeOK => IInv
  BY InitIInv, Zenon DEF IInv
<1>2. StoreTypeOK' /\ IInv /\ [StoreNext]_store_vars => IInv'
  BY NextFreshViews, NextLayered, Zenon DEF IInv, IssuedIsKnown
<1> QED
  BY <1>1, <1>2, TypeCorrect, PTL DEF StoreSpec

\* The store forgets no number that vote_generate issued, unless a call missed
\* a flush.
THEOREM IssuedStaysKnown == StoreSpec => []IssuedIsKnown
<1>1. IInv => IssuedIsKnown
  BY Zenon DEF IInv
<1> QED
  BY <1>1, Invariant, PTL

\* What is on disk only advances, unless a call missed a flush.
THEOREM StoredVotesOnlyAdvance == StoreSpec => StoredVotesAdvance
<1>1. IInv /\ [StoreNext]_store_vars => [~overlapped' => \A r \in Voter : vote_table[r] <= vote_table'[r]]_store_vars
  BY NextLayered, Zenon
<1> QED
  BY <1>1, Invariant, PTL DEF StoreSpec, StoredVotesAdvance

\* The newest vote of a representative only advances while the process runs,
\* unless a call missed a flush.
THEOREM LatestOnlyAdvances == StoreSpec => LatestAdvances
<1>1. ASSUME IInv, crash PROVE crashes' # crashes
  BY <1>1 DEF crash, IInv, StoreTypeOK
<1>2. IInv /\ [StoreNext]_store_vars => [~overlapped' /\ crashes' = crashes => \A r \in Voter : Latest[r] <= Latest'[r]]_store_vars
  BY <1>1, NextLayered, Zenon
<1> QED
  BY <1>2, Invariant, PTL DEF StoreSpec, LatestAdvances
=============================================================================
