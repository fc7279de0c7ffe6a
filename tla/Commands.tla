----------------------------- MODULE Commands -----------------------------
(***************************************************************************)
(* The commands of handle_node_options (rai/node/node.cpp) on a data       *)
(* directory: those that change a wallet, snapshot, and vacuum, which      *)
(* replaces the database file.  A command opens the database with an       *)
(* inactive_node, whose io_service nobody runs, so that nothing it posts   *)
(* (enter_initial_password for one) is ever called.                        *)
(*                                                                         *)
(* A wallet command ends in one write transaction and is one action;       *)
(* vacuum is a copy and three file operations, and the process may die     *)
(* between any two.  The build is one without assertions.  It is assumed   *)
(* that no daemon has the database open while a command runs.  There is    *)
(* one wallet; which account deterministic_insert makes is WalletStore's.  *)
(***************************************************************************)
EXTENDS Naturals, FiniteSets

CONSTANTS
    Adhoc,              \* private keys that may be inserted
    Det,                \* deterministic accounts, of any seed
    MaxCommands         \* bound on the commands and daemon runs of a behaviour

VARIABLES
    disk,               \* the files of the data directory
    at,                 \* "idle", or where the vacuum is
    last,               \* the last command that ended, and its result: TRUE for an error
    count,              \* commands started, and runs of the daemon
    stored,             \* accounts that were put in the wallet and not removed
    imported,           \* accounts that wallet_import put there
    broken              \* an interruption left the directory without a data file

vars == <<disk, at, last, count, stored, imported, broken>>

File == {"data", "vacuumed", "backup", "snapshot"}

Key == Adhoc \cup Det

(* The password a store is encrypted with: a store that was just created   *)
(* has the zero key, and rekey ("") gives it that of the empty string.     *)
Password == {"zero", "empty", "user"}

(* keys can be decrypted, spoilt were encrypted under a wrong wallet key.  *)
Content == [file : {"absent", "partial", "whole"}, wallet : BOOLEAN, password : Password,
            keys : SUBSET Key, spoilt : SUBSET Key]

Absent == [file |-> "absent", wallet |-> FALSE, password |-> "zero", keys |-> {}, spoilt |-> {}]
Partial == [Absent EXCEPT !.file = "partial"]
Empty == [Absent EXCEPT !.file = "whole"]

(* inactive_node: LMDB creates the file that is not there.                 *)
Opened(d) == IF d.file = "absent" THEN Empty ELSE d

-----------------------------------------------------------------------------
(***************************************************************************)
(* The wallet commands: each gives the results it may end with on a data   *)
(* file d, by what the user passes.                                        *)
(***************************************************************************)
Ends(result, d) == [result |-> result, data |-> d]

(* The missing and invalid options are met before the database is opened   *)
(* in most commands, the others after it.                                  *)
Refuses(d) == {Ends(TRUE, d), Ends(TRUE, Opened(d))}

(* enter_password: the passwords a user can enter, "" when none is given.  *)
enter_password(d) == IF d.wallet THEN {"empty", "user"} \cap {d.password} ELSE {}

(* wallet_store::insert_adhoc of the keys ks, with a password in memory.   *)
insert_adhoc(d, password, ks) ==
    IF password = d.password THEN [d EXCEPT !.keys = @ \cup ks, !.spoilt = @ \ ks]
                             ELSE [d EXCEPT !.keys = @ \ ks, !.spoilt = @ \cup ks]

account_create(d) ==
    LET o == Opened(d)
    IN  Refuses(d) \cup {Ends(FALSE, [o EXCEPT !.keys = @ \cup {k}]) :
                            k \in IF enter_password(o) = {} THEN {} ELSE Det \ o.keys}

wallet_add_adhoc(d) ==
    LET o == Opened(d)
    IN  Refuses(d) \cup {Ends(FALSE, insert_adhoc(o, password, {k})) : password \in enter_password(o), k \in Adhoc}

(* change_seed clears the accounts of the old seed and makes the first one *)
(* of the new seed, and those after it up to the last that was used.       *)
wallet_change_seed(d) ==
    LET o == Opened(d)
    IN  Refuses(d) \cup {Ends(FALSE, [o EXCEPT !.keys = (@ \ Det) \cup made]) :
                            made \in IF enter_password(o) = {} THEN {} ELSE SUBSET (Det \ o.keys) \ {{}}}

wallet_destroy(d) ==
    LET o == Opened(d)
    IN  Refuses(d) \cup {Ends(FALSE, e) : e \in IF o.wallet THEN {[Empty EXCEPT !.file = o.file]} ELSE {}}

wallet_remove(d) ==
    LET o == Opened(d)
    IN  Refuses(d) \cup {Ends(FALSE, [o EXCEPT !.keys = @ \ {k}, !.spoilt = @ \ {k}]) : k \in o.keys \cup o.spoilt}

(* wallet::import of the accounts `from', of which the first ones that can *)
(* be fetched are inserted; the command has not entered the password of    *)
(* the wallet, whose password in memory is zero.                           *)
wallet_import(d) ==
    LET o == Opened(d)
    IN  Refuses(d) \cup (IF ~o.wallet THEN {}
                         ELSE UNION {{Ends(from # file, insert_adhoc(o, "zero", from)) : from \in SUBSET file} :
                                        file \in SUBSET Adhoc})

(* account_get, account_key, diagnostics, key_create, key_expand,          *)
(* wallet_decrypt_unsafe, wallet_list, wallet_representative_get and _set, *)
(* and vote_dump: no account changes.                                      *)
queries(d) == Refuses(d) \cup {Ends(FALSE, Opened(d)), Ends(FALSE, d)}

Commands == [account_create |-> account_create(disk["data"]),
             wallet_add_adhoc |-> wallet_add_adhoc(disk["data"]),
             wallet_change_seed |-> wallet_change_seed(disk["data"]),
             wallet_destroy |-> wallet_destroy(disk["data"]),
             wallet_remove |-> wallet_remove(disk["data"]),
             wallet_import |-> wallet_import(disk["data"]),
             queries |-> queries(disk["data"])]

-----------------------------------------------------------------------------
Init == /\ disk = [f \in File |-> Absent]
        /\ at = "idle"
        /\ last = [name |-> "none", result |-> FALSE]
        /\ count = 0
        /\ stored = {}
        /\ imported = {}
        /\ broken = FALSE

(* A command or a run of the daemon starts when none is running.           *)
Begin == at = "idle" /\ count < MaxCommands /\ count' = count + 1

(* Accounts that come to, and go from, the wallet in the data file.        *)
Accounts(d) == d.keys \cup d.spoilt

Put(d) == /\ disk' = [disk EXCEPT !["data"] = d]
          /\ stored' = (stored \ (Accounts(disk["data"]) \ Accounts(d))) \cup (Accounts(d) \ Accounts(disk["data"]))

command(name) == /\ Begin
                 /\ \E end \in Commands[name] :
                       /\ Put(end.data)
                       /\ last' = [name |-> name, result |-> end.result]
                       /\ imported' = (imported \cap Accounts(end.data))
                                      \cup (IF name = "wallet_import"
                                            THEN end.data.spoilt \cup (end.data.keys \ disk["data"].keys) ELSE {})
                 /\ UNCHANGED <<at, broken>>

(* wallet_create: the store is created in a transaction of its own, with   *)
(* the zero key, then enter_initial_password gives it that of "".          *)
wallet_create == /\ Begin
                 /\ ~Opened(disk["data"]).wallet
                 /\ disk' = [disk EXCEPT !["data"] = [Opened(@) EXCEPT !.wallet = TRUE, !.password = "zero"]]
                 /\ at' = "rekey"
                 /\ UNCHANGED <<last, stored, imported, broken>>

enter_initial_password == /\ at = "rekey"
                          /\ disk' = [disk EXCEPT !["data"].password = "empty"]
                          /\ at' = "idle"
                          /\ last' = [name |-> "wallet_create", result |-> FALSE]
                          /\ UNCHANGED <<count, stored, imported, broken>>

(* What a run of the daemon may leave: the callback it runs rekeys a new   *)
(* store, users set a password and insert a key.                           *)
daemon == /\ Begin
          /\ LET o == Opened(disk["data"])
                 p == IF o.password = "zero" THEN "empty" ELSE o.password
             IN  \E password \in {p, "user"}, k \in SUBSET Adhoc :
                    Put(IF o.wallet THEN [o EXCEPT !.password = password, !.keys = @ \cup k, !.spoilt = @ \ k] ELSE o)
          /\ imported' = imported \cap Accounts(disk'["data"])
          /\ last' = [name |-> "daemon", result |-> FALSE]
          /\ UNCHANGED <<at, broken>>

-----------------------------------------------------------------------------

(* mdb_env_copy2 fails when the destination exists, and may fail after it  *)
(* wrote a part of it.                                                     *)
copy_with_compaction(f) ==
    LET d == [disk EXCEPT !["data"] = Opened(@)]
    IN  IF d[f].file = "absent"
        THEN {[success |-> TRUE, disk |-> [d EXCEPT ![f] = d["data"]]], [success |-> FALSE, disk |-> [d EXCEPT ![f] = Partial]]}
        ELSE {[success |-> FALSE, disk |-> d]}

snapshot == /\ Begin
            /\ \E copy \in copy_with_compaction("snapshot") : disk' = copy.disk
            /\ last' = [name |-> "snapshot", result |-> FALSE]
            /\ UNCHANGED <<at, stored, imported, broken>>

(* A copy that fails ends the command, with no error result.               *)
vacuum == /\ Begin
          /\ \E copy \in copy_with_compaction("vacuumed") :
                /\ disk' = copy.disk
                /\ at' = IF copy.success THEN "remove" ELSE "idle"
                /\ last' = IF copy.success THEN last ELSE [name |-> "vacuum", result |-> FALSE]
          /\ UNCHANGED <<stored, imported, broken>>

remove_backup == /\ at = "remove"
                 /\ disk' = [disk EXCEPT !["backup"] = Absent]
                 /\ at' = "backup"
                 /\ UNCHANGED <<last, count, stored, imported, broken>>

rename_source == /\ at = "backup"
                 /\ disk' = [disk EXCEPT !["backup"] = disk["data"], !["data"] = Absent]
                 /\ at' = "replace"
                 /\ UNCHANGED <<last, count, stored, imported, broken>>

rename_vacuumed == /\ at = "replace"
                   /\ disk' = [disk EXCEPT !["data"] = disk["vacuumed"], !["vacuumed"] = Absent]
                   /\ at' = "idle"
                   /\ last' = [name |-> "vacuum", result |-> FALSE]
                   /\ UNCHANGED <<count, stored, imported, broken>>

(* The process dies, or a file operation of the vacuum throws, which ends  *)
(* it without an error result.                                             *)
interrupted == /\ at # "idle"
               /\ at' = "idle"
               /\ broken' = (broken \/ at = "replace")
               /\ UNCHANGED <<disk, last, count, stored, imported>>

Next == \/ \E name \in DOMAIN Commands : command(name)
        \/ wallet_create \/ enter_initial_password
        \/ daemon
        \/ snapshot
        \/ vacuum \/ remove_backup \/ rename_source \/ rename_vacuumed
        \/ interrupted

Spec == Init /\ [][Next]_vars

-----------------------------------------------------------------------------
(* Wherever a vacuum is interrupted, and whatever is run after it, every   *)
(* account that was put in the wallet and not removed is in a whole file   *)
(* of the directory.                                                       *)
NothingLost == stored \subseteq UNION {Accounts(disk[f]) : f \in {g \in File : disk[g].file = "whole"}}

(* The data file itself holds them all whenever no command runs, unless a  *)
(* vacuum was interrupted between its two renames: the node then starts    *)
(* from a new, empty data file.                                            *)
DataIsCurrent == at = "idle" /\ ~broken => Accounts(disk["data"]) = stored

(* A wallet command that ends with an error has changed nothing, except    *)
(* that a database was created; wallet_import may have inserted the        *)
(* accounts before the one that could not be fetched.                      *)
FailedChangesNothing ==
    count' # count /\ at = "idle" /\ at' = "idle" /\ last'.result /\ last'.name # "wallet_import"
        => disk' \in {disk, [disk EXCEPT !["data"] = Opened(@)]}

(* The commands store no key that the wallet's password does not open      *)
(* afterwards, leaving out what wallet_import inserts.                     *)
KeysReadable == disk["data"].spoilt \subseteq imported

=============================================================================
