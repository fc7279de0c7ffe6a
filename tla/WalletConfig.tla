---------------------------- MODULE WalletConfig ----------------------------
(***************************************************************************)
(* The start and the end of the desktop wallet (run_wallet and             *)
(* update_config in src/rai/rai_wallet/entry.cpp): config.json names the   *)
(* wallet and the account to show, the node's database holds the wallets.  *)
(* A start fetches the file, finds or creates the wallet and the account   *)
(* it names, and writes both back; the end of the run does so again.       *)
(*                                                                         *)
(* The sections of the node and OpenCL settings are one value here, those  *)
(* of the RPC server another (DaemonConfig has the keys): "standard",      *)
(* "chosen" by the user, or "broken".  `extra` are the children that       *)
(* deserialize_json reads when present and serialize_json does not write:  *)
(* the TLS settings of the RPC server ("secure") and the statistics.       *)
(***************************************************************************)
EXTENDS Integers, FiniteSets

CONSTANTS
    Id,         \* wallet identifiers; the random ones are drawn from them
    Account,    \* accounts
    Zero,       \* the zero identifier, and the zero account
    Bad,        \* a text that is no account
    MaxEdit,    \* bound: edits of the file
    MaxChange,  \* bound: changes of the wallets while the program runs
    MaxCrash    \* bound: deaths of the process

VARIABLES
    shape,    \* of the file: "whole", "empty" or "partial"
    file,     \* its contents, a Config
    tree,     \* what a rewrite will write
    config,   \* the qt_wallet_config of the process
    saved,    \* the wallet and the account update_config set aside
    wallets,  \* wallet -> its accounts, in the database
    fresh,    \* the wallets whose initial password was never entered
    place,    \* where run_wallet is
    ending,   \* the window was closed
    failed,   \* the assertion after the choice of the account failed in this run
    asked,    \* what the user last set the Fields to, as far as no upgrade replaces it
    lost,     \* the Fields that a rewrite has dropped since
    edits,
    changes,
    crashes

files == <<shape, file, tree>>
bounds == <<edits, changes, crashes>>
user == <<asked, lost>>
vars == <<files, config, saved, wallets, fresh, place, ending, failed, user, bounds>>

Setting == {"standard", "chosen", "broken"}
Extra == {"secure", "statistics"}
Config == [version : 0 .. 4, wallet : Id \cup {Zero}, account : Account \cup {Zero, Bad},
           settings : Setting, rpc : Setting, extra : SUBSET Extra]

Fields == {"settings", "rpc", "extra"}
Default == [settings |-> "standard", rpc |-> "standard", extra |-> {}]

Constructed(id) ==
    [version |-> 4, wallet |-> id, account |-> Zero, settings |-> "standard", rpc |-> "standard", extra |-> {}]

\* A random identifier is one that nothing else has.
Random ==
    CHOOSE id \in Id : id \notin DOMAIN wallets \cup {file.wallet, tree.wallet, config.wallet, saved.wallet}

\* serialize_json writes what the object holds but for the optional children.
serialize_json(c) == [c EXCEPT !.version = 4, !.extra = {}]

\* Before version 3 the RPC server's settings are replaced (`rpc' is as constructed
\* when such a file is read).  Before version 2 the account is coded anew, and one
\* that does not decode becomes whatever the variable held.
upgrade_json(c) ==
    {[c EXCEPT !.version = 4,
               !.account = a,
               !.rpc = IF c.version < 3 THEN "standard" ELSE @,
               !.extra = IF c.version < 3 THEN @ \ {"secure"} ELSE @] :
        a \in IF c.version < 2 /\ c.account = Bad THEN Account \cup {Zero} ELSE {c.account}}

NoWallet == [w \in {} |-> {}]

\* The first start, or a file of any version beside at most one wallet.
Init ==
    /\ \/ wallets = NoWallet
       \/ wallets \in [{CHOOSE id \in Id : TRUE} -> SUBSET Account \ {{}}]
    /\ fresh = {}
    /\ \/ shape = "empty" /\ file = Constructed(Zero)
       \/ /\ shape = "whole"
          /\ file \in {[Constructed(w) EXCEPT !.version = v, !.account = a] :
                         w \in DOMAIN wallets \cup {Zero}, v \in 0 .. 4, a \in Account \cup {Zero}}
    /\ tree = file
    /\ config = Constructed(Zero)
    /\ saved = Constructed(Zero)
    /\ place = "off"
    /\ ending = FALSE
    /\ failed = FALSE
    /\ asked = Default /\ lost = {}
    /\ edits = 0 /\ changes = 0 /\ crashes = 0

-----------------------------------------------------------------------------
(***************************************************************************)
(* rai::fetch_object, from the reading of the file to the rewrite of an    *)
(* upgraded one.  A zero wallet gets a random identifier in the object and *)
(* not in the tree that is written back.                                   *)
(***************************************************************************)

Read(c) ==
    [c EXCEPT !.wallet = IF @ = Zero THEN Random ELSE @, !.account = IF @ = Bad THEN config.account ELSE @]

refused(c) == c.account = Bad \/ "broken" \in {c.settings, c.rpc}

fetch_object(from, rewrite, next, error) ==
    /\ place = from
    /\ CASE shape = "empty" ->
               /\ tree' = serialize_json(config)
               /\ place' = rewrite
               /\ UNCHANGED config
         [] shape = "partial" ->
               /\ place' = error
               /\ UNCHANGED <<tree, config>>
         [] shape = "whole" ->
               \E c \in upgrade_json(file) :
                   /\ config' = Read(c)
                   /\ IF refused(c) THEN place' = error /\ UNCHANGED tree
                      ELSE /\ tree' = c
                           /\ place' = IF file.version # 4 \/ file.wallet = Zero THEN rewrite ELSE next
    /\ UNCHANGED <<shape, file, saved, wallets, fresh, ending, failed, user, bounds>>

\* The file is opened again with std::ios_base::trunc, and written after that.
Truncate(from, to) ==
    /\ place = from
    /\ place' = to
    /\ shape' = "empty"
    /\ UNCHANGED <<file, tree, config, saved, wallets, fresh, ending, failed, user, bounds>>

write_json(from, to, dropped) ==
    /\ place = from
    /\ place' = to
    /\ shape' = "whole"
    /\ file' = tree
    /\ lost' = lost \cup dropped
    /\ UNCHANGED <<tree, config, saved, wallets, fresh, ending, failed, asked, bounds>>

-----------------------------------------------------------------------------
(***************************************************************************)
(* run_wallet, up to the node's start.                                     *)
(***************************************************************************)
Start ==
    /\ place = "off"
    /\ config' = Constructed(Random)
    /\ place' = "fetch"
    /\ ending' = FALSE /\ failed' = FALSE
    /\ UNCHANGED <<files, saved, wallets, fresh, user, bounds>>

Fetch ==
    \/ fetch_object("fetch", "fetch_truncate", "open", "off")
    \/ Truncate("fetch_truncate", "fetch_write")
    \/ write_json("fetch_write", "open", {})

\* The wallet of the file, or any there is, or a new one.
open_wallet ==
    /\ place = "open"
    /\ place' = "account"
    /\ \/ /\ config.wallet \in DOMAIN wallets
          /\ UNCHANGED <<config, wallets, fresh>>
       \/ /\ config.wallet \notin DOMAIN wallets
          /\ \E w \in DOMAIN wallets : config' = [config EXCEPT !.wallet = w]
          /\ UNCHANGED <<wallets, fresh>>
       \/ /\ wallets = NoWallet
          /\ wallets' = [w \in {config.wallet} |-> {}]
          /\ fresh' = {config.wallet}
          /\ UNCHANGED config
    /\ UNCHANGED <<files, saved, ending, failed, user, bounds>>

\* The account of the file, or the first of the wallet, or a new one.  No thread
\* serves the queue yet, so enter_initial_password has not run: of the wallets
\* read from the database only those never entered hold the zero key, and the
\* others give deterministic_insert no valid password: it returns the zero account
\* and the assertion that follows fails, which ends the process or, where
\* assertions are compiled out, nothing.
Held == wallets[config.wallet]

pick_account ==
    /\ place = "account"
    /\ \/ /\ config.account \in Held
          /\ UNCHANGED <<config, wallets>>
       \/ /\ config.account \notin Held
          /\ \E a \in Held : config' = [config EXCEPT !.account = a]
          /\ UNCHANGED wallets
       \/ /\ Held = {}
          /\ config.wallet \in fresh
          /\ \E a \in Account :
                /\ config' = [config EXCEPT !.account = a]
                /\ wallets' = [wallets EXCEPT ![config.wallet] = {a}]
       \/ /\ Held = {}
          /\ config.wallet \notin fresh
          /\ config' = [config EXCEPT !.account = Zero]
          /\ UNCHANGED wallets
    /\ failed' = (config'.account \notin wallets'[config.wallet])
    /\ place' \in IF failed' THEN {"off", "update"} ELSE {"update"}
    /\ saved' = config'
    /\ UNCHANGED <<files, fresh, ending, user, bounds>>

-----------------------------------------------------------------------------
(***************************************************************************)
(* update_config, at the start and at the end: the file is fetched anew,   *)
(* and written when it names another wallet or account.                    *)
(***************************************************************************)
After == IF ending THEN "off" ELSE "running"

compare ==
    /\ place = "compare"
    /\ IF saved.account # config.account \/ saved.wallet # config.wallet
       THEN /\ config' = [config EXCEPT !.account = saved.account, !.wallet = saved.wallet]
            /\ tree' = serialize_json(config')
            /\ place' = "save_truncate"
       ELSE UNCHANGED <<config, tree>> /\ place' = After
    /\ UNCHANGED <<shape, file, saved, wallets, fresh, ending, failed, user, bounds>>

update_config ==
    \/ fetch_object("update", "update_truncate", "compare", After)
    \/ Truncate("update_truncate", "update_write")
    \/ write_json("update_write", "compare", {})
    \/ compare
    \/ Truncate("save_truncate", "save_write")
    \/ write_json("save_write", After, {"extra"})

-----------------------------------------------------------------------------
(***************************************************************************)
(* The run itself: the threads enter the initial passwords, the user and   *)
(* the RPC server change the wallets, the user edits the file (while no    *)
(* start or end is under way), and the window is closed.                   *)
(***************************************************************************)
enter_initial_password ==
    /\ place = "running"
    /\ fresh # {}
    /\ fresh' = {}
    /\ UNCHANGED <<files, config, saved, wallets, place, ending, failed, user, bounds>>

Change(new) ==
    /\ place = "running"
    /\ changes < MaxChange
    /\ changes' = changes + 1
    /\ wallets' = new
    /\ fresh' = (fresh \cap DOMAIN new) \cup (DOMAIN new \ DOMAIN wallets)
    /\ UNCHANGED <<files, config, saved, place, ending, failed, user, edits, crashes>>

wallet_add(w, a) == a \notin wallets[w] /\ Change([wallets EXCEPT ![w] = @ \cup {a}])

account_remove(w, a) == a \in wallets[w] /\ Change([wallets EXCEPT ![w] = @ \ {a}])

wallet_create ==
    Change([w \in DOMAIN wallets \cup {Random} |-> IF w \in DOMAIN wallets THEN wallets[w] ELSE {}])

wallet_destroy(id) == Change([w \in DOMAIN wallets \ {id} |-> wallets[w]])

Edits(shapes) ==
    /\ shape \in shapes
    /\ edits < MaxEdit
    /\ edits' = edits + 1
    /\ UNCHANGED <<tree, config, saved, wallets, fresh, place, ending, failed, changes, crashes>>

\* What the upgrade of an old file replaces does not count as asked.
Edit(f, x) ==
    /\ Edits({"whole"})
    /\ place \in {"off", "running"}
    /\ file' = [file EXCEPT ![f] = x]
    /\ asked' = [asked EXCEPT ![f] = IF file.version >= 3 \/ f = "settings" THEN x
                                   ELSE IF f = "rpc" THEN "standard" ELSE x \ {"secure"}]
    /\ lost' = lost \ {f}
    /\ UNCHANGED shape

Misspell ==
    /\ Edits({"whole"})
    /\ place = "off"
    /\ file' = [file EXCEPT !.account = Bad]
    /\ UNCHANGED <<shape, user>>

Delete ==
    /\ Edits({"whole", "partial"})
    /\ place = "off"
    /\ shape' = "empty"
    /\ asked' = Default /\ lost' = {}
    /\ UNCHANGED file

Exit ==
    /\ place = "running"
    /\ place' = "update"
    /\ ending' = TRUE
    /\ saved' = config
    /\ UNCHANGED <<files, config, wallets, fresh, failed, user, bounds>>

\* A death between a truncation and the end of the write loses the file.
Crash ==
    /\ place # "off"
    /\ crashes < MaxCrash
    /\ crashes' = crashes + 1
    /\ place' = "off"
    /\ IF place \in {"fetch_write", "update_write", "save_write"}
       THEN shape' \in {"empty", "partial"} /\ lost' = Fields
       ELSE UNCHANGED <<shape, lost>>
    /\ UNCHANGED <<file, tree, config, saved, wallets, fresh, ending, failed, asked, edits, changes>>

Next ==
    \/ Start
    \/ Fetch
    \/ open_wallet
    \/ pick_account
    \/ update_config
    \/ enter_initial_password
    \/ \E w \in DOMAIN wallets : \E a \in Account : wallet_add(w, a) \/ account_remove(w, a)
    \/ wallet_create
    \/ \E w \in DOMAIN wallets : wallet_destroy(w)
    \/ \E f \in {"settings", "rpc"} : \E x \in Setting : Edit(f, x)
    \/ \E x \in SUBSET Extra : Edit("extra", x)
    \/ Misspell
    \/ Delete
    \/ Exit
    \/ Crash

Spec == Init /\ [][Next]_vars

-----------------------------------------------------------------------------

\* Types; while the wallet runs its configuration holds no broken settings and
\* names a wallet (never the zero identifier, which Read replaces).
TypeOK ==
    /\ shape \in {"whole", "empty", "partial"}
    /\ {file, tree, config, saved} \subseteq Config
    /\ DOMAIN wallets \subseteq Id /\ \A w \in DOMAIN wallets : wallets[w] \subseteq Account
    /\ fresh \subseteq DOMAIN wallets
    /\ place = "running" => "broken" \notin {config.settings, config.rpc} /\ config.wallet # Zero
    /\ {ending, failed} \subseteq BOOLEAN
    /\ lost \subseteq Fields
    /\ edits \in 0 .. MaxEdit /\ changes \in 0 .. MaxChange /\ crashes \in 0 .. MaxCrash

\* Starting the program never makes a second wallet beside one the user has,
\* whatever became of config.json: run_wallet creates one only when the database
\* holds none.
OneWallet == place = "open" /\ wallets # NoWallet => DOMAIN wallets' = DOMAIN wallets

\* The window shows an account of the wallet that was opened, also when the file
\* named another, none, or one that does not decode: what update_config reads back
\* from the file does not replace what run_wallet picked.  The one exception is a
\* run whose assertion failed, which shows the zero account.
ShowsPicked ==
    place # "running" /\ place' = "running" =>
        \/ config'.account \in wallets[config'.wallet]
        \/ failed /\ config'.account = Zero


\* Once the window is open the file names the wallet and the account it shows, so
\* that the next start shows them again.
FileNamesShown ==
    place = "running" =>
        /\ shape = "whole"
        /\ file.wallet = config.wallet
        /\ file.account = config.account

\* The settings in a file of this version are those the user last gave it, through
\* every rewrite by fetch_object and update_config: only a rewrite that is cut short
\* loses them, and the one that saves another wallet or account the children that
\* serialize_json does not write.
SettingsKept ==
    place \in {"off", "running"} /\ shape = "whole" /\ file.version = 4 =>
        \A f \in Fields : file[f] = IF f \in lost THEN Default[f] ELSE asked[f]

=============================================================================
