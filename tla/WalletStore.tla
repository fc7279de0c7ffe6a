----------------------------- MODULE WalletStore -----------------------------
(***************************************************************************)
(* wallet_store and the parts of wallet that change it                     *)
(* (rai/node/wallet.cpp): the keys of the wallets of a node, the password, *)
(* its change and its use for encryption, deterministic keys, moves and    *)
(* imports, the upgrades of the format, and restarts.                      *)
(*                                                                         *)
(* A password is the raw key derived from its text; Zero is the key no     *)
(* text gives.  A private key is identified with its account.  Each        *)
(* section under the recursive mutex of a store is one step.  LMDB has one *)
(* write transaction at a time, `writer'; attempt_password needs none, so  *)
(* a password can be entered between any two steps of a writer.            *)
(***************************************************************************)
EXTENDS Naturals, FiniteSets, Sequences, SequencesExt, TLC

CONSTANTS
    Wallet,          \* the wallets of the node
    Temp,            \* the name import gives to the store it reads a backup into
    Text,            \* password texts, "" among them
    Adhoc,           \* keys a user may add
    Seed,            \* seeds, drawn or set
    InitialVersion,  \* versions of the wallets when the node starts, 0 a new one
    InitialText,     \* and the texts of their passwords
    Operations,      \* the operations the users ask for
    MaxOperations, MaxAttempts, MaxCrashes

Store == Wallet \cup {Temp}
Idle == [op |-> "idle"]
Nothing == [version |-> 0]

VARIABLES
    disk,        \* the committed tables
    txn,         \* the tables as the write transaction sees them
    writer,      \* the operation that has the write transaction
    items,       \* wallets::items
    password, wallet_key_mem,   \* the fans of each store
    initial,     \* wallets whose enter_initial_password is still posted
    upgrading,   \* upgrades asked for by attempt_password that wait for the writer
    importing,   \* the wallet and the stage of an import
    backup,      \* the last JSON file written, and the keys it should hold
    held,        \* keys a store has accepted and not been told to drop
    entered,     \* what happened last to the password: "ok", "wrong", "restart"
    failed,      \* stores for which an assertion of wallet_store did not hold
    disturbed,   \* history: stores locked or rekeyed while what had tested the password was on its way
    operations, attempts, crashes
memory == <<password, wallet_key_mem>>
history == <<disturbed, operations, attempts, crashes>>
vars == <<disk, txn, writer, items, password, wallet_key_mem, initial, upgrading, importing, backup,
          held, entered, failed, disturbed, operations, attempts, crashes>>

-----------------------------------------------------------------------------
\* raw_key::decrypt, uint256_union::encrypt: any key decrypts anything, only
\* the right one to what was encrypted.
encrypt(value, key) == [value |-> value, under |-> key]
decrypt(cipher, key) == IF cipher.under = key THEN cipher.value ELSE <<"garbage", cipher, key>>

\* derive_key, and the key of zeros that no text gives
derive_key(text) == <<"password", text>>
Zero == <<"zero">>

\* The key that encrypts the entries of a store: random and fixed.  An imported
\* store has the key of the wallet that was written to the file.
TheKey(table) == <<"key", table.id>>

wallet_key(w) == decrypt(wallet_key_mem[w], password[w])

\* check is the encryption of zero under the wallet key
valid_password(w, table) == wallet_key(w) = TheKey(table)

NoSeed == encrypt(<<"none">>, <<"none">>)
Deterministic(seed, i) == [seed |-> seed, index |-> i]
\* mutant
adhoc_under_password(w) == [type |-> "adhoc", under |-> password[w], index |-> 0]
adhoc_entry(w) == [type |-> "adhoc", under |-> wallet_key(w), index |-> 0]
watch_entry == [type |-> "unknown", under |-> <<"none">>, index |-> 0]
marker(i) == [type |-> "deterministic", under |-> <<"none">>, index |-> i]

seed(w, table) == decrypt(table.seed, wallet_key(w))

\* The key an entry gives when it is read with the wallet key `key': fetch
\* compares it with the account.
gives(table, pub, key) ==
    LET entry == table.entries[pub]
    IN  CASE entry.type = "adhoc" -> entry.under = key
          [] entry.type = "deterministic" -> Deterministic(decrypt(table.seed, key), entry.index) = pub
          [] OTHER -> FALSE

fetch(w, table, pub) ==
    valid_password(w, table) /\ pub \in DOMAIN table.entries /\ gives(table, pub, wallet_key(w))

put(table, pub, entry) == [table EXCEPT !.entries = (pub :> entry) @@ @]
erase(table, pub) == [table EXCEPT !.entries = Restrict(@, DOMAIN @ \ {pub})]

deterministic_clear(table) ==
    [table EXCEPT !.entries = Restrict(@, {p \in DOMAIN @ : @[p].type # "deterministic"}),
                  !.index = 0]

seed_set(w, table, s) == deterministic_clear([table EXCEPT !.seed = encrypt(<<"seed", s>>, wallet_key(w))])

\* The keys that do not come from the seed: the others go when the seed is set
seedless(keys, table) == {k \in keys : k \notin DOMAIN table.entries \/ table.entries[k].type # "deterministic"}

\* The first index from deterministic_index whose account is not in the store
index_free(w, table) ==
    CHOOSE i \in table.index .. table.index + Cardinality(DOMAIN table.entries) :
        /\ Deterministic(seed(w, table), i) \notin DOMAIN table.entries
        /\ \A j \in table.index .. i - 1 : Deterministic(seed(w, table), j) \in DOMAIN table.entries

NewTable(w) ==
    [version |-> 3, id |-> w, key |-> encrypt(<<"key", w>>, Zero),
     seed |-> encrypt(<<"seed", "new">>, <<"key", w>>), index |-> 0, entries |-> <<>>]

\* A wallet of an earlier version has no seed; in version 1 a key may be stored
\* under what the zero or the empty password makes of the wallet key.
OldTable(w, version, text) ==
    LET key == encrypt(<<"key", w>>, derive_key(text))
    IN  [version |-> version, id |-> w, key |-> key,
         seed |-> IF version = 3 THEN encrypt(<<"seed", "new">>, <<"key", w>>) ELSE NoSeed,
         index |-> 0,
         entries |-> IF version # 1 THEN <<>>
                     ELSE [k \in Adhoc |-> [type |-> "adhoc", under |-> decrypt(key, Zero), index |-> 0]]]

Init ==
    /\ \E start \in [Wallet -> InitialVersion], text \in InitialText :
           disk = [w \in Store |-> IF w = Temp THEN Nothing
                                   ELSE IF start[w] = 0 THEN NewTable(w)
                                   ELSE OldTable(w, start[w], text)]
    /\ txn = disk /\ writer = Idle /\ items = Wallet
    /\ password = [w \in Store |-> Zero]
    /\ wallet_key_mem = [w \in Store |-> IF w = Temp THEN NoSeed ELSE disk[w].key]
    /\ initial = Wallet
    /\ upgrading = <<>> /\ importing = Idle /\ backup = Nothing
    /\ held = [w \in Store |-> IF w = Temp THEN {} ELSE DOMAIN disk[w].entries]
    /\ entered = [w \in Store |-> "restart"]
    /\ failed = {} /\ disturbed = {} /\ operations = 0 /\ attempts = 0 /\ crashes = 0

-----------------------------------------------------------------------------
(* Passwords.  `memory' changes at once, the tables with the transaction.  *)

\* attempt_password: the upgrade of the version the caller's snapshot shows
upgrade_due(w, table) == table.version < 3

\* An operation or an upgrade that has found the password valid and has still to use it
under_way(w) ==
    \/ "wallet" \in DOMAIN writer /\ writer.wallet = w
    \/ "source" \in DOMAIN writer /\ writer.source = w
    \/ \E i \in DOMAIN upgrading : upgrading[i].wallet = w

\* enter_password, of any thread, in a transaction that only reads
attempt_password(w, text) ==
    /\ w \in items /\ attempts < MaxAttempts
    /\ writer.op # "stuck"
    /\ attempts' = attempts + 1
    /\ password' = [password EXCEPT ![w] = derive_key(text)]
    /\ LET ok == decrypt(wallet_key_mem[w], derive_key(text)) = TheKey(disk[w])
       IN  /\ entered' = [entered EXCEPT ![w] = IF ok THEN "ok" ELSE "wrong"]
           /\ upgrading' = IF ok /\ upgrade_due(w, disk[w])
                           THEN Append(upgrading, [wallet |-> w, version |-> disk[w].version])
                           ELSE upgrading
           /\ disturbed' = IF ~ok /\ under_way(w) THEN disturbed \cup {w} ELSE disturbed
    /\ UNCHANGED <<disk, txn, writer, items, wallet_key_mem, initial, importing, backup, held, failed,
                   operations, crashes>>

mem_set(w, cipher) == [wallet_key_mem EXCEPT ![w] = cipher]

may_rekey(w) == valid_password(w, txn[w])

\* store.rekey: what it leaves in memory and in the transaction
rekeyed(w, text) ==
    LET cipher == encrypt(wallet_key(w), derive_key(text))
    IN  /\ password' = [password EXCEPT ![w] = derive_key(text)]
        /\ wallet_key_mem' = mem_set(w, cipher)
        /\ txn' = [txn EXCEPT ![w].key = cipher]
        /\ entered' = [entered EXCEPT ![w] = "ok"]

\* An operation starts when no other has the write transaction.
begin(op) ==
    /\ op.op \in Operations /\ operations < MaxOperations
    /\ writer = Idle
    /\ operations' = operations + 1

committed == txn

commit ==
    /\ writer.op = "commit"
    /\ writer' = Idle /\ disk' = committed
    /\ held' = [w \in Store |-> IF w \in DOMAIN writer.held THEN writer.held[w] ELSE held[w]]
    /\ UNCHANGED <<txn, items, memory, initial, upgrading, importing, backup, entered, failed, history>>

Committing(keys) == [op |-> "commit", held |-> keys]

\* rpc password_change
rekey(w, text) ==
    /\ begin([op |-> "rekey"]) /\ w \in items
    /\ may_rekey(w)
    /\ rekeyed(w, text)
    /\ writer' = Committing(<<>>)
    /\ disturbed' = IF under_way(w) THEN disturbed \cup {w} ELSE disturbed
    /\ UNCHANGED <<disk, items, initial, upgrading, importing, backup, held, failed, attempts, crashes>>

\* enter_initial_password, with the write transaction and the mutex: a new
\* wallet gets the empty password; then the empty password is entered, and the
\* upgrade of an old wallet waits for the write transaction its own thread has.
enter_initial_password(w) ==
    /\ w \in initial /\ writer = Idle
    /\ initial' = initial \ {w}
    /\ IF password[w] = Zero
       THEN IF valid_password(w, disk[w])
            THEN rekeyed(w, "") /\ writer' = Committing(<<>>)
            ELSE /\ password' = [password EXCEPT ![w] = derive_key("")]
                 /\ LET ok == decrypt(wallet_key_mem[w], derive_key("")) = TheKey(disk[w])
                    IN  /\ entered' = [entered EXCEPT ![w] = IF ok THEN "ok" ELSE "wrong"]
                        /\ writer' = IF ok /\ upgrade_due(w, disk[w]) THEN [op |-> "stuck"]
                                     ELSE Idle
                 /\ UNCHANGED <<wallet_key_mem, txn>>
       ELSE UNCHANGED <<password, wallet_key_mem, txn, entered, writer>>
    /\ UNCHANGED <<disk, items, upgrading, importing, backup, held, failed, history>>

\* upgrade_v1_v2: keys stored under what the zero or the empty password makes
\* of the wallet key are stored again under the wallet key.
rewritten(w, table) ==
    LET zero_password == decrypt(table.key, Zero)
        empty_password == decrypt(table.key, derive_key(""))
    IN  [p \in DOMAIN table.entries |->
            IF /\ ~fetch(w, table, p)
               /\ table.entries[p].type = "adhoc"
               /\ table.entries[p].under \in {zero_password, empty_password}
            THEN adhoc_entry(w) ELSE table.entries[p]]

\* The assertion of insert_adhoc, which writes them
rewrites_validly(w, table) == rewritten(w, table) = table.entries \/ valid_password(w, table)

\* An upgrade that attempt_password asked for, in its own write transaction
upgrade(i) ==
    LET u == upgrading[i]  w == u.wallet  table == disk[w]
    IN  /\ writer = Idle /\ table # Nothing
        /\ upgrading' = RemoveAt(upgrading, i)
        /\ failed' = IF table.version = u.version /\ (u.version = 1 => rewrites_validly(w, table)) THEN failed
                     ELSE failed \cup {w}
        /\ \/ /\ u.version = 1
              /\ txn' = [txn EXCEPT ![w] = [table EXCEPT !.entries = rewritten(w, table), !.version = 2]]
              /\ UNCHANGED held
           \/ /\ u.version = 2
              /\ \E s \in Seed : txn' = [txn EXCEPT ![w] = [seed_set(w, table, s) EXCEPT !.version = 3]]
              /\ held' = [held EXCEPT ![w] = seedless(@, table)]
        /\ disk' = txn'
        /\ UNCHANGED <<writer, items, memory, initial, importing, backup, entered, history>>

-----------------------------------------------------------------------------
(* Keys.                                                                   *)

\* wallet::insert_adhoc, deterministic_insert and rpc wallet_change_seed test
\* the password first; the store asserts it again, and then encrypts.
begin_insert(op, w, key) ==
    /\ begin([op |-> op]) /\ w \in items
    /\ valid_password(w, disk[w])
    /\ writer' = [op |-> op, wallet |-> w, key |-> key, stage |-> IF op = "seed_set" THEN "put" ELSE "assert"]
    /\ UNCHANGED <<disk, txn, items, memory, initial, upgrading, importing, backup, held, entered,
                   failed, disturbed, attempts, crashes>>

assert_valid ==
    /\ "stage" \in DOMAIN writer /\ writer.stage = "assert"
    /\ writer' = [writer EXCEPT !.stage = "put"]
    /\ failed' = IF valid_password(writer.wallet, txn[writer.wallet]) THEN failed
                 ELSE failed \cup {writer.wallet}
    /\ UNCHANGED <<disk, txn, items, memory, initial, upgrading, importing, backup, held, entered, history>>

Put == "stage" \in DOMAIN writer /\ writer.stage = "put"
unchanged_by_put == <<disk, items, memory, initial, upgrading, importing, backup, held, entered,
                      failed, history>>

insert_adhoc ==
    LET w == writer.wallet
    IN  /\ Put /\ writer.op = "insert_adhoc"
        /\ txn' = [txn EXCEPT ![w] = put(@, writer.key, adhoc_entry(w))]
        /\ writer' = Committing(w :> (held[w] \cup {writer.key}))
        /\ UNCHANGED unchanged_by_put

deterministic_insert ==
    LET w == writer.wallet
        i == index_free(w, txn[w])
        pub == Deterministic(seed(w, txn[w]), i)
    IN  /\ Put /\ writer.op = "deterministic_insert"
        /\ txn' = [txn EXCEPT ![w] = [put(@, pub, marker(i)) EXCEPT !.index = i + 1]]
        /\ writer' = Committing(w :> (held[w] \cup {pub}))
        /\ UNCHANGED unchanged_by_put

change_seed ==
    LET w == writer.wallet
    IN  /\ Put /\ writer.op = "seed_set"
        /\ txn' = [txn EXCEPT ![w] = seed_set(w, @, writer.key)]
        /\ writer' = Committing(w :> seedless(held[w], txn[w]))
        /\ UNCHANGED unchanged_by_put

\* rpc wallet_add_watch: no password, and no look at what the entry was
insert_watch(w, pub) ==
    /\ begin([op |-> "insert_watch"]) /\ w \in items
    /\ txn' = [txn EXCEPT ![w] = put(@, pub, watch_entry)]
    /\ writer' = Committing(w :> (held[w] \ {pub}))
    /\ UNCHANGED <<disk, items, memory, initial, upgrading, importing, backup, held, entered,
                   failed, disturbed, attempts, crashes>>

\* rpc account_remove
account_remove(w, pub) ==
    /\ begin([op |-> "account_remove"]) /\ w \in items
    /\ valid_password(w, disk[w]) /\ pub \in DOMAIN disk[w].entries
    /\ txn' = [txn EXCEPT ![w] = erase(@, pub)]
    /\ writer' = Committing(w :> (held[w] \ {pub}))
    /\ UNCHANGED <<disk, items, memory, initial, upgrading, importing, backup, held, entered,
                   failed, disturbed, attempts, crashes>>

-----------------------------------------------------------------------------
(* Moves and imports: keys leave the source as they enter the wallet, until *)
(* the first that cannot be fetched; the others stay where they are.       *)

Moving(w, source, keys) ==
    [op |-> "move", wallet |-> w, source |-> source, todo |-> keys, moved |-> {}]

\* The two assertions at the head of store.move and store.import
asserted_move(w, source) ==
    failed \cup {x \in {w, source} : ~valid_password(x, disk[x])}

\* rpc account_move does not test the passwords
begin_move(w, source, keys) ==
    /\ begin([op |-> "move"]) /\ {w, source} \subseteq items /\ w # source
    /\ failed' = asserted_move(w, source)
    /\ writer' = Moving(w, source, keys)
    /\ UNCHANGED <<disk, txn, items, memory, initial, upgrading, importing, backup, held, entered,
                   disturbed, attempts, crashes>>

movable(source, key) == fetch(source, txn[source], key)

move_one ==
    LET w == writer.wallet  source == writer.source
    IN  /\ writer.op = "move"
        /\ \E key \in writer.todo :
               /\ movable(source, key)
               /\ txn' = [txn EXCEPT ![w] = put(@, key, adhoc_entry(w)), ![source] = erase(@, key)]
               /\ writer' = [writer EXCEPT !.todo = @ \ {key}, !.moved = @ \cup {key}]
        /\ UNCHANGED unchanged_by_put

\* The loop is over, or a key failed; import drops its source in either case.
move_done ==
    LET w == writer.wallet  source == writer.source
        keys == (w :> (held[w] \cup writer.moved)) @@ (source :> (held[source] \ writer.moved))
    IN  /\ writer.op = "move"
        /\ \/ writer.todo = {}
           \/ \E key \in writer.todo : ~movable(source, key)
        /\ IF source = Temp /\ importing # Idle
           THEN /\ txn' = [txn EXCEPT ![Temp] = Nothing]
                /\ writer' = Committing((Temp :> {}) @@ keys)
                /\ importing' = Idle
           ELSE writer' = Committing(keys) /\ UNCHANGED <<txn, importing>>
        /\ UNCHANGED <<disk, items, memory, initial, upgrading, backup, held, entered, failed, history>>

\* The wallet key is the password in memory applied to wallet_key_mem.  An
\* operation tests it, the store asserts it again, and the encryption reads it once
\* more; attempt_password, which needs no transaction, may put a wrong password in
\* between.  What is then written is under a key that nobody has.  A change of the
\* password between attempt_password and the upgrade it asks for takes away the
\* wallet key under the old password, which upgrade_v1_v2 needs.
Undisturbed == {w \in Store : disk[w] # Nothing} \ (failed \cup disturbed)

\* rpc and command line: the JSON of a wallet
write_backup(w) ==
    /\ "import" \in Operations /\ operations < MaxOperations /\ w \in items
    /\ operations' = operations + 1
    /\ backup' = [version |-> 1, table |-> disk[w], keys |-> IF w \in Undisturbed THEN held[w] ELSE {}]
    /\ UNCHANGED <<disk, txn, writer, items, memory, initial, upgrading, importing, held, entered,
                   failed, disturbed, attempts, crashes>>

\* wallet::import: the file becomes a store of its own, in a transaction that
\* is committed, ...
import_open(w) ==
    /\ begin([op |-> "import"]) /\ w \in items
    /\ backup # Nothing /\ importing = Idle /\ disk[Temp] = Nothing
    /\ importing' = [op |-> "opened", wallet |-> w]
    /\ disk' = [disk EXCEPT ![Temp] = backup.table] /\ txn' = disk'
    /\ held' = [held EXCEPT ![Temp] = backup.keys]
    /\ password' = [password EXCEPT ![Temp] = Zero]
    /\ wallet_key_mem' = [wallet_key_mem EXCEPT ![Temp] = backup.table.key]
    /\ UNCHANGED <<writer, items, initial, upgrading, backup, entered, failed, disturbed, attempts, crashes>>

\* ... its password is tried, which may upgrade it, ...
import_password(text) ==
    /\ importing.op = "opened" /\ writer.op # "stuck"
    /\ password' = [password EXCEPT ![Temp] = derive_key(text)]
    /\ LET ok == decrypt(wallet_key_mem[Temp], derive_key(text)) = TheKey(disk[Temp])
       IN  /\ importing' = [importing EXCEPT !.op = IF ok THEN "unlocked" ELSE "failed"]
           /\ upgrading' = IF ok /\ upgrade_due(Temp, disk[Temp])
                           THEN Append(upgrading, [wallet |-> Temp, version |-> disk[Temp].version])
                           ELSE upgrading
    /\ UNCHANGED <<disk, txn, writer, items, wallet_key_mem, initial, backup, held, entered, failed, history>>

\* ... and with another transaction its keys are moved and it is destroyed.
import_keys ==
    /\ importing.op \in {"unlocked", "failed"} /\ writer = Idle
    /\ \A i \in DOMAIN upgrading : upgrading[i].wallet # Temp
    /\ IF importing.op = "unlocked"
       THEN /\ failed' = asserted_move(importing.wallet, Temp)
            /\ writer' = Moving(importing.wallet, Temp, DOMAIN disk[Temp].entries)
            /\ UNCHANGED <<txn, importing>>
       ELSE /\ txn' = [txn EXCEPT ![Temp] = Nothing]
            /\ writer' = Committing(Temp :> {}) /\ importing' = Idle
            /\ UNCHANGED failed
    /\ UNCHANGED <<disk, items, memory, initial, upgrading, backup, held, entered, history>>

\* The process dies and starts again: what was not committed is gone, and a
\* store an import had opened is a wallet like the others.
crash ==
    LET there == {w \in Store : disk[w] # Nothing}
    IN  /\ crashes < MaxCrashes
        /\ crashes' = crashes + 1
        /\ txn' = disk /\ writer' = Idle /\ importing' = Idle /\ upgrading' = <<>>
        /\ items' = there /\ initial' = there
        /\ password' = [w \in Store |-> Zero]
        /\ wallet_key_mem' = [w \in Store |-> IF w \in there THEN disk[w].key ELSE NoSeed]
        /\ entered' = [w \in Store |-> "restart"]
        /\ UNCHANGED <<disk, backup, held, failed, disturbed, operations, attempts>>

Accounts == Adhoc \cup UNION {DOMAIN disk[w].entries : w \in {w \in Store : disk[w] # Nothing}}

Password == \E w \in items, text \in Text : attempt_password(w, text) \/ rekey(w, text)
Start == \E w \in items : enter_initial_password(w)
Upgrade == \E i \in DOMAIN upgrading : upgrade(i)
Insert ==
    \/ \E w \in items, key \in Adhoc : begin_insert("insert_adhoc", w, key)
    \/ \E w \in items, s \in Seed : begin_insert("seed_set", w, s)
    \/ \E w \in items : begin_insert("deterministic_insert", w, "next")
Entry == \E w \in items, pub \in Accounts : insert_watch(w, pub) \/ account_remove(w, pub)
Move == \E w, source \in items, keys \in SUBSET Accounts : begin_move(w, source, keys)
Import ==
    \/ \E w \in items : write_backup(w) \/ import_open(w)
    \/ \E text \in Text : import_password(text)
    \/ import_keys
Writer ==
    \/ assert_valid \/ insert_adhoc \/ deterministic_insert \/ change_seed
    \/ move_one \/ move_done \/ commit
Next == Password \/ Start \/ Upgrade \/ Insert \/ Entry \/ Move \/ Import \/ Writer \/ crash

Spec == Init /\ [][Next]_vars

-----------------------------------------------------------------------------

\* The transaction sees what is committed when there is none, and the stores
\* of items are there.
TypeOK ==
    /\ items \subseteq Store /\ initial \subseteq items
    /\ \A w \in items : disk[w] # Nothing /\ disk[w].version \in 1..3
    /\ writer = Idle => txn = disk
    /\ importing # Idle => disk[Temp] # Nothing

\* rekey, "Password should always be valid, the rekey operation should be
\* atomic" (test password_race): a wallet is locked only by a wrong password
\* or a restart, whatever the order of changes, entries and commits.
RekeyIsAtomic == \A w \in items : entered[w] = "ok" => valid_password(w, disk[w])

\* insert_adhoc, deterministic_key, move, import and the upgrades assert that the
\* password is valid, or that the version is the one they upgrade, in the
\* transaction in which they go on to use the wallet key (wallet.cpp:80, 412, 565).
AssertionsHold == failed = {}

\* rekey and attempt_password (test password_race_corrupt_seed): what an
\* undisturbed wallet has under the wallet key, and in every store the wallet key
\* under the password, can be read after every restart.
SeedIsKept ==
    /\ \A w \in items : disk[w].key.value = TheKey(disk[w])
    /\ \A w \in Wallet \cap Undisturbed : disk[w].version = 3 => disk[w].seed.under = TheKey(disk[w])

\* insert_adhoc, deterministic_insert, move, import, the upgrades: a key that
\* a wallet has accepted can be fetched from it with the right password until
\* the user removes it, moves it, or replaces the entry, or the seed it comes from
\* is replaced, by the user or by upgrade_v2_v3 (which drops what
\* deterministic_insert made in a wallet that had no seed yet); unless the password
\* changed in the middle of an operation or an assertion of the store failed.
KeysAreKept ==
    \A w \in Undisturbed : disk[w].version > 1 =>
        \A k \in held[w] : k \in DOMAIN disk[w].entries /\ gives(disk[w], k, TheKey(disk[w]))

\* deterministic_insert: the account it returns was not in the wallet.
NewAccounts ==
    \A w \in items :
        (writer.op = "deterministic_insert" /\ writer'.op = "commit" /\ writer.wallet = w)
        => (\E p \in DOMAIN txn'[w].entries : p \notin DOMAIN txn[w].entries)

=============================================================================
