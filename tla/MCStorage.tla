----------------------------- MODULE MCStorage -----------------------------
(***************************************************************************)
(* What a node keeps, and what it writes for others to read.  A behaviour  *)
(* is one of thirteen parts: a wallet's password ("password"), its keys    *)
(* ("keys"), two wallets that move keys and import backups ("import"), and *)
(* wallets of earlier versions ("versions"); a database of an earlier      *)
(* version with several accounts ("upgrades") or a longer chain            *)
(* ("archive"); the commands on a data directory ("commands"); config.json *)
(* of the daemon with several edits ("daemon") and with writes that are    *)
(* interrupted ("faults"), and of the desktop wallet ("desktop"); blocks   *)
(* as JSON ("json"), accounts and amounts as text ("text"), and messages   *)
(* ("messages").  Each keeps its variables in s1, s2, ....  MCRequests adds *)
(* the parts that answer requests.                                         *)
(***************************************************************************)
EXTENDS Naturals

CONSTANT k1     \* a private key that a user adds

VARIABLES
    part, s1, s2, s3, s4, s5, s6, s7, s8, s9, s10,
    s11, s12, s13, s14, s15, s16, s17, s18, s19, s20

from18 == <<s18, s19, s20>>
from16 == <<s16, s17, from18>>
from14 == <<s14, s15, from16>>
from12 == <<s12, s13, from14>>
from11 == <<s11, from12>>
from9 == <<s9, s10, from11>>
from8 == <<s8, from9>>
from7 == <<s7, from8>>
from3 == <<s3, s4, s5, s6, from7>>
slots == <<s1, s2, from3>>

Idle18 == s18 = 0 /\ s19 = 0 /\ s20 = 0
Idle16 == s16 = 0 /\ s17 = 0 /\ Idle18
Idle14 == s14 = 0 /\ s15 = 0 /\ Idle16
Idle12 == s12 = 0 /\ s13 = 0 /\ Idle14
Idle11 == s11 = 0 /\ Idle12
Idle9 == s9 = 0 /\ s10 = 0 /\ Idle11
Idle8 == s8 = 0 /\ Idle9
Idle7 == s7 = 0 /\ Idle8
Idle3 == s3 = 0 /\ s4 = 0 /\ s5 = 0 /\ s6 = 0 /\ Idle7
IdleSlots == s1 = 0 /\ s2 = 0 /\ Idle3

-----------------------------------------------------------------------------
Password == INSTANCE WalletStore WITH
    Wallet <- {"w1"}, Temp <- "temp", Text <- {"", "a"}, Adhoc <- {k1}, Seed <- {"s1"},
    InitialVersion <- 0..3, InitialText <- {"a"},
    Operations <- {"rekey", "insert_adhoc", "deterministic_insert", "seed_set"},
    MaxOperations <- 3, MaxAttempts <- 3, MaxCrashes <- 1,
    disk <- s1, txn <- s2, writer <- s3, items <- s4, password <- s5, wallet_key_mem <- s6,
    initial <- s7, upgrading <- s8, importing <- s9, backup <- s10, held <- s11, entered <- s12,
    failed <- s13, disturbed <- s14, operations <- s15, attempts <- s16, crashes <- s17
Keys == INSTANCE WalletStore WITH
    Wallet <- {"w1"}, Temp <- "temp", Text <- {"", "a"}, Adhoc <- {k1}, Seed <- {"new", "s1"},
    InitialVersion <- {0, 3}, InitialText <- {"a"},
    Operations <- {"rekey", "insert_adhoc", "deterministic_insert", "seed_set", "insert_watch",
                   "account_remove"},
    MaxOperations <- 3, MaxAttempts <- 2, MaxCrashes <- 1,
    disk <- s1, txn <- s2, writer <- s3, items <- s4, password <- s5, wallet_key_mem <- s6,
    initial <- s7, upgrading <- s8, importing <- s9, backup <- s10, held <- s11, entered <- s12,
    failed <- s13, disturbed <- s14, operations <- s15, attempts <- s16, crashes <- s17
Import == INSTANCE WalletStore WITH
    Wallet <- {"w1", "w2"}, Temp <- "temp", Text <- {"a"}, Adhoc <- {k1}, Seed <- {"s1"},
    InitialVersion <- {3}, InitialText <- {"a"},
    Operations <- {"insert_adhoc", "deterministic_insert", "move", "import"},
    MaxOperations <- 3, MaxAttempts <- 2, MaxCrashes <- 1,
    disk <- s1, txn <- s2, writer <- s3, items <- s4, password <- s5, wallet_key_mem <- s6,
    initial <- s7, upgrading <- s8, importing <- s9, backup <- s10, held <- s11, entered <- s12,
    failed <- s13, disturbed <- s14, operations <- s15, attempts <- s16, crashes <- s17
Versions == INSTANCE WalletStore WITH
    Wallet <- {"w1", "w2"}, Temp <- "temp", Text <- {"a"}, Adhoc <- {k1}, Seed <- {"s1"},
    InitialVersion <- {1, 2}, InitialText <- {"a"},
    Operations <- {"insert_adhoc", "deterministic_insert", "move", "import"},
    MaxOperations <- 2, MaxAttempts <- 2, MaxCrashes <- 1,
    disk <- s1, txn <- s2, writer <- s3, items <- s4, password <- s5, wallet_key_mem <- s6,
    initial <- s7, upgrading <- s8, importing <- s9, backup <- s10, held <- s11, entered <- s12,
    failed <- s13, disturbed <- s14, operations <- s15, attempts <- s16, crashes <- s17

Database == INSTANCE Upgrades WITH
    Account <- {"a1", "a2"}, Rep <- {"r1", "r2"}, Long <- "a1", MaxLength <- 2, InfoMax <- 2,
    Funds <- 4, MaxSequence <- 2, MaxCrash <- 1,
    chain <- s1, disk <- s2, txn <- s3, at <- s4, opened <- s5, misread <- s6, crashes <- s7
Archive == INSTANCE Upgrades WITH
    Account <- {"a1"}, Rep <- {"r1", "r2"}, Long <- "a1", MaxLength <- 3, InfoMax <- 2,
    Funds <- 4, MaxSequence <- 1, MaxCrash <- 1,
    chain <- s1, disk <- s2, txn <- s3, at <- s4, opened <- s5, misread <- s6, crashes <- s7
Directory == INSTANCE Commands WITH
    Adhoc <- {"a"}, Det <- {"d1", "d2"}, MaxCommands <- 5,
    disk <- s1, at <- s2, last <- s3, count <- s4, stored <- s5, imported <- s6, broken <- s7

\* One key of each kind: renamed, reset, recoded, added late, with a value that a
\* later version replaced, optional, and one of every section with a version.
Editable ==
    {<<"node", "online_weight_quorum">>, <<"node", "online_weight_quorom">>,
     <<"node", "receive_minimum">>, <<"node", "preconfigured_representatives">>,
     <<"node", "bootstrap_connections">>, <<"node", "statistics">>, <<"logging", "vote">>,
     <<"rpc", "port">>, <<"rpc", "secure">>, <<"top", "opencl_enable">>}
Daemon == INSTANCE DaemonConfig WITH
    MaxEdit <- 2, MaxFault <- 0,
    shape <- s1, file <- s2, place <- s3, tree <- s4, config <- s5, outcome <- s6, asked <- s7,
    lost <- s8, spoilt <- s9, edits <- s10, faults <- s11
Faults == INSTANCE DaemonConfig WITH
    MaxEdit <- 1, MaxFault <- 1,
    shape <- s1, file <- s2, place <- s3, tree <- s4, config <- s5, outcome <- s6, asked <- s7,
    lost <- s8, spoilt <- s9, edits <- s10, faults <- s11
Desktop == INSTANCE WalletConfig WITH
    Id <- 1..7, Account <- {1, 2}, Zero <- 0, Bad <- 9, MaxEdit <- 1, MaxChange <- 2, MaxCrash <- 1,
    shape <- s1, file <- s2, tree <- s3, config <- s4, saved <- s5, wallets <- s6, fresh <- s7,
    place <- s8, ending <- s9, failed <- s10, asked <- s11, lost <- s12, edits <- s13,
    changes <- s14, crashes <- s15

Json == INSTANCE BlockJson WITH
    Value <- {0, 10},
    block <- s1, other <- s2, tree <- s3, constructed <- s4, deserialized <- s5, step <- s6

\* Amounts of four digits; four letters of two bits for accounts of five bits and
\* checksums of two.
Checksum == [a \in 0..31 |-> (5 * a + a \div 3 + 1) % 4]
TextForms == INSTANCE Encodings WITH
    Amounts <- 1296, MaxDigits <- 4, Copied <- 2, Ratio <- {1, 10, 100}, Precision <- 0..3,
    Base <- 4, Length <- 4, Accounts <- 32, Checks <- 4, checksum <- Checksum,
    input <- s1, output <- s2

\* The lengths of fields keep the relations of the real ones: a hash is as long as
\* an account, a balance is shorter, receive and change blocks are equally long,
\* and no other two blocks are.
One == {"balance", "sequence", "age", "count", "mode", "max_count"}
Two == {"previous", "destination", "source", "representative", "account", "link", "voter",
        "start", "end", "min_hash", "max_hash", "work", "peers"}
Three == {"signature", "vote_signature"}
FieldSize == [f \in One \cup Two \cup Three |-> IF f \in One THEN 1 ELSE IF f \in Two THEN 2 ELSE 3]
Wire == INSTANCE Messages WITH
    Size <- FieldSize, MaxDamage <- 1,
    sent <- s1, wire <- s2, damage <- s3, got <- s4, rest <- s5, status <- s6, step <- s7

-----------------------------------------------------------------------------
StorageInit ==
    \/ part = "password" /\ Password!Init /\ Idle18
    \/ part = "keys" /\ Keys!Init /\ Idle18
    \/ part = "import" /\ Import!Init /\ Idle18
    \/ part = "versions" /\ Versions!Init /\ Idle18
    \/ part = "upgrades" /\ Database!Init /\ Idle8
    \/ part = "archive" /\ Archive!Init /\ Idle8
    \/ part = "commands" /\ Directory!Init /\ Idle8
    \/ part = "daemon" /\ Daemon!Init /\ Idle12
    \/ part = "faults" /\ Faults!Init /\ Idle12
    \/ part = "desktop" /\ Desktop!Init /\ Idle16
    \/ part = "json" /\ Json!Init /\ Idle7
    \/ part = "text" /\ TextForms!Init /\ Idle3
    \/ part = "messages" /\ Wire!Init /\ Idle8
StorageNext ==
    \/ part = "password" /\ Password!Next /\ UNCHANGED <<part, from18>>
    \/ part = "keys" /\ Keys!Next /\ UNCHANGED <<part, from18>>
    \/ part = "import" /\ Import!Next /\ UNCHANGED <<part, from18>>
    \/ part = "versions" /\ Versions!Next /\ UNCHANGED <<part, from18>>
    \/ part = "upgrades" /\ Database!Next /\ UNCHANGED <<part, from8>>
    \/ part = "archive" /\ Archive!Next /\ UNCHANGED <<part, from8>>
    \/ part = "commands" /\ Directory!Next /\ UNCHANGED <<part, from8>>
    \/ part = "daemon" /\ Daemon!Next /\ UNCHANGED <<part, from12>>
    \/ part = "faults" /\ Faults!Next /\ UNCHANGED <<part, from12>>
    \/ part = "desktop" /\ Desktop!Next /\ UNCHANGED <<part, from16>>
    \/ part = "json" /\ Json!Next /\ UNCHANGED <<part, from7>>
    \/ part = "text" /\ TextForms!Next /\ UNCHANGED <<part, from3>>
    \/ part = "messages" /\ Wire!Next /\ UNCHANGED <<part, from8>>

KeysSpec ==
    part = "keys" /\ Keys!Init /\ Idle18
    /\ [][Keys!Next /\ UNCHANGED <<part, from18>>]_<<part, slots>>
DesktopSpec ==
    part = "desktop" /\ Desktop!Init /\ Idle16
    /\ [][Desktop!Next /\ UNCHANGED <<part, from16>>]_<<part, slots>>

-----------------------------------------------------------------------------
\* A key that a wallet has accepted can be fetched from it with the right password,
\* through moves, imports, upgrades and crashes; the seed and the wallet key can be
\* read after every restart; a change of the password is atomic, whatever is entered
\* meanwhile (tests password_race and password_race_corrupt_seed); and
\* deterministic_insert makes an account that was not there.  What is excepted are
\* the keys and the seed of a wallet that was locked or rekeyed between the test of
\* its password and the operation that the test was for.
KeysAreKept ==
    /\ [](part = "password" => /\ Password!TypeOK /\ Password!KeysAreKept
                               /\ Password!RekeyIsAtomic /\ Password!SeedIsKept)
    /\ [](part = "keys" => Keys!TypeOK /\ Keys!KeysAreKept /\ Keys!SeedIsKept)
    /\ [](part = "import" => Import!TypeOK /\ Import!KeysAreKept /\ Import!SeedIsKept)
    /\ [](part = "versions" => Versions!TypeOK /\ Versions!KeysAreKept /\ Versions!SeedIsKept)
    /\ [][part = "keys" => Keys!NewAccounts]_<<part, slots>>

\* `assert (valid_password (transaction_a))' in insert_adhoc and deterministic_key:
\* the operation still has the password that its caller tested.
AssertionsHold == part = "keys" => Keys!AssertionsHold

\* do_upgrades: whatever version wrote the database, and wherever the process died
\* while upgrading it, the store that is opened holds what a node of today derives
\* from the same blocks, read in the layout it was written in, and no vote number or
\* unchecked block goes back.  handle_node_options: whatever commands are run, and
\* wherever a vacuum is interrupted, the accounts of the wallet are in the data
\* file, or at least in some file; a command that fails changes nothing.
OpenedIsCurrent ==
    /\ [](part = "upgrades" => Database!TypeOK /\ Database!OpenedIsCurrent /\ Database!LayoutsMatch)
    /\ [](part = "archive" => Archive!TypeOK /\ Archive!OpenedIsCurrent /\ Archive!LayoutsMatch)
    /\ [][part = "upgrades" => Database!UncheckedKept /\ Database!SequenceKept]_<<part, slots>>
    /\ [](part = "commands" => Directory!NothingLost /\ Directory!DataIsCurrent /\ Directory!KeysReadable)
    /\ [][part = "commands" => Directory!FailedChangesNothing]_<<part, slots>>



\* What is written is read back as the same: messages, the blocks and votes inside
\* them, blocks as JSON, accounts and amounts as text.  What else is read as them:
\* no other datagram, which is read to its end; of an edited JSON text the same
\* block, but that a decimal number can pass for hexadecimal digits and an empty
\* balance or signature for zero; of amounts the empty text, as zero; of accounts
\* none that is made of letters only.  Blocks with one hash are one block, or a
\* receive and a change block.
WrittenIsRead ==
    /\ part = "messages" => Wire!TypeOK /\ Wire!ReadIsWritten /\ Wire!NothingLeftOver
    /\ part = "json" => /\ Json!ReadIsWritten /\ Json!ReadersAgree
                       /\ Json!HashIdentifies /\ Json!EqualIsSameText
    /\ part = "text" => /\ TextForms!AccountIsRead /\ TextForms!OneText /\ TextForms!DecimalIsExact
                       /\ TextForms!BalanceRoundsDown
                       /\ TextForms!SendIsExact /\ TextForms!InRangeIsExact
=============================================================================
