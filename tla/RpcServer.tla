----------------------------- MODULE RpcServer -----------------------------
(***************************************************************************)
(* The RPC server: rai::rpc accepts connections, rai::rpc_connection reads *)
(* one request of each, a background thread runs the handler that          *)
(* process_request picks, and `response' writes what the handler answers   *)
(* into the connection's one `res' and starts an async_write of it.        *)
(*                                                                         *)
(* A handler is the sequence of steps it runs a request through: the       *)
(* fields it needs, the conditions it tests, what it answers, and the      *)
(* state of the node it changes.  What an answer says is left out          *)
(* (RpcQueries models the answers of the ledger queries); WHETHER a        *)
(* handler answers, how often, and what it has changed by then is all      *)
(* here.  Whether a condition holds depends on the request and on the      *)
(* node, and is a free choice.                                             *)
(*                                                                         *)
(* Connections share nothing but the acceptor, so that one at a time is    *)
(* followed; the next one is accepted at any time after it.                *)
(***************************************************************************)
EXTENDS Naturals, SequencesExt

CONSTANT MaxElement                     \* elements of the list in a request

VARIABLES
    listening,                          \* an async_accept is outstanding
    control,                            \* rpc_config::enable_control
    phase,                              \* of the connection
    action,                             \* the request's "action"
    todo,                               \* the steps its handler has yet to run
    elements,                           \* the elements of its list that were seen
    answers,                            \* what `response' was called with, in order
    res,                                \* what write_result left in `res'
    written,                            \* what `res' held at each async_write of it, in order
    effects                             \* the state the handler has changed

vars == <<listening, control, phase, action, todo, elements, answers, res, written, effects>>

request == <<action, todo, elements, answers, res, written, effects>>

(***************************************************************************)
(* The steps.  Ok and Error call `response'; Return leaves the handler;    *)
(* Does(s) changes the state s; Choose goes on with one of several         *)
(* sequences; Each runs one of them for every element of a list; Later     *)
(* leaves one of them to a callback; Spin is a loop that ends only when    *)
(* the wallet is unlocked.                                                 *)
(***************************************************************************)
Ok == [op |-> "ok"]
Error == [op |-> "error"]
Return == [op |-> "return"]
Spin == [op |-> "spin"]
Does(s) == [op |-> "does", what |-> s]
Choose(seqs) == [op |-> "choose", of |-> seqs]
Each(seqs) == [op |-> "each", of |-> seqs]
Later(seqs) == [op |-> "later", of |-> seqs]
IfControl(then, else) == [op |-> "control", then |-> then, else |-> else]

(***************************************************************************)
(* The tests.  A failed Check answers with an error and leaves; a failed   *)
(* Loose one answers with an error and GOES ON; a failed Quiet one leaves  *)
(* without an answer.  Need reads a field whose absence throws, which      *)
(* process_request catches and answers with an error.                      *)
(***************************************************************************)
Check(why) == Choose ({<<>>, <<Error, Return>>})
Loose(why) == Choose ({<<>>, <<Error>>})
Quiet(why) == Choose ({<<>>, <<Return>>})
Need(field) == Choose ({<<>>, <<Error, Return>>})
Control == IfControl (<<>>, <<Error, Return>>)
Either(s) == Choose ({<<>>, <<s>>})

Wallet == <<Need ("wallet"), Check ("Bad wallet number"), Check ("Wallet not found")>>
Account == <<Need ("account"), Check ("Bad account number")>>
Hash == <<Need ("hash"), Check ("Bad hash number")>>
Count == <<Loose ("Invalid count limit")>>
Amount == <<Need ("amount"), Check ("Bad amount number")>>

-----------------------------------------------------------------------------
(* Accounts. *)

account_balance == Account \o <<Ok>>
account_block_count == Account \o <<Check ("Account not found"), Ok>>
account_count == <<Ok>>
account_create == <<Control>> \o Wallet \o <<Choose ({<<Does ("wallet"), Ok>>, <<Error>>})>>
account_get == <<Need ("key"), Check ("Bad public key"), Ok>>
account_history == <<Need ("count"), Choose ({<<Check ("Invalid block hash")>>, Account}),
                     Check ("Invalid count limit"), Check ("Invalid offset"), Ok>>
account_info == Account \o <<Check ("Account not found"), Ok>>
account_key == Account \o <<Ok>>
account_list == Wallet \o <<Ok>>
account_move == <<Control, Need ("wallet"), Need ("source"), Need ("accounts"), Check ("Bad wallet number"),
                  Check ("Wallet not found"), Check ("Bad source number"), Check ("Source not found"),
                  Either (Does ("wallet")), Ok>>
account_remove == <<Control, Need ("wallet"), Need ("account"), Check ("Bad wallet number"), Check ("Wallet not found"),
                    Check ("Wallet locked"), Check ("Bad account number"), Check ("Account not found in wallet"),
                    Does ("wallet"), Ok>>
account_representative == Account \o <<Check ("Account not found"), Ok>>

account_representative_set ==
    <<Control, Need ("wallet"), Quiet ("Bad wallet number"), Quiet ("Wallet not found")>> \o Account
    \o <<Need ("representative"), Quiet ("Bad representative"), Loose ("Bad work"),
         Choose ({<<>>, <<Error>>, <<Does ("wallet")>>}),       \* work: account not found or invalid, or put
         Later ({<<Does ("ledger"), Ok>>, <<Ok>>})>>            \* change_async
account_weight == Account \o <<Ok>>
accounts_balances == <<Need ("accounts"), Each ({<<>>, <<Error>>}), Ok>>
accounts_create == <<Control, Need ("wallet"), Check ("Bad wallet number"), Need ("count"), Check ("Invalid count limit"),
                     Check ("Wallet not found"), Each ({<<Does ("wallet")>>, <<Spin, Does ("wallet")>>}), Ok>>
accounts_frontiers == <<Need ("accounts"), Each ({<<>>, <<Error>>}), Ok>>
accounts_pending == Count \o <<Loose ("Bad threshold number"), Need ("accounts"), Each ({<<>>, <<Error>>}), Ok>>

-----------------------------------------------------------------------------
(* Blocks and the ledger. *)

available_supply == <<Ok>>
block == Hash \o <<Check ("Block not found"), Ok>>
block_confirm == Hash \o <<Check ("Block not found"), Does ("elections"), Ok>>
blocks == <<Need ("hashes"), Each ({<<>>, <<Error>>}), Ok>>
blocks_info == <<Need ("hashes"), Each ({<<>>, <<Error>>}), Ok>>
block_account == Hash \o <<Check ("Block not found"), Ok>>
block_count == <<Ok>>
block_count_type == <<Ok>>
block_create ==
    <<Control, Need ("type"), Loose ("Bad wallet number"), Loose ("Bad account number"),
      Loose ("Bad representative account"), Loose ("Bad destination account"), Loose ("Invalid source hash"),
      Loose ("Bad amount number"), Loose ("Bad work"), Loose ("wallet and account"), Loose ("Bad private key"),
      Loose ("Invalid previous hash"), Loose ("Bad balance number"), Loose ("Bad link number"),
      Check ("Private key or local wallet and account required"), Loose ("Balance mismatch for previous block"),
      Loose ("Incorrect key for given account"), Check ("the type and its fields"), Ok>>
block_hash == <<Need ("block"), Need ("block JSON"), Check ("Block is invalid"), Ok>>
successors == <<Need ("block"), Need ("count"), Check ("Invalid block hash"), Check ("Invalid count limit"), Ok>>
chain == successors
confirmation_history == <<Ok>>
delegators == Account \o <<Ok>>
delegators_count == Account \o <<Ok>>
frontiers == <<Need ("account"), Need ("count"), Check ("Invalid starting account"), Check ("Invalid count limit"), Ok>>
ledger == <<Control, Loose ("Invalid starting account")>> \o Count \o <<Ok>>
pending == Account \o Count \o <<Loose ("Bad threshold number"), Ok>>
pending_exists == Hash \o <<Check ("Block not found"), Ok>>

process == <<Need ("block"), Need ("block JSON"), Check ("Block is invalid"), Check ("Block work is invalid"),
             Does ("arrival"),
             Choose ({<<Does ("ledger"), Ok>>,                       \* progress
                      <<Does ("unchecked"), Error>>,                 \* gap_previous, gap_source
                      <<Does ("queue"), Error>>,                     \* old: queue_unchecked
                      <<Error>>,                                     \* every other code
                      <<Choose ({<<Error>>,                          \* fork
                                 <<IfControl (<<Does ("elections"), Does ("queue"), Ok>>, <<Error>>)>>})>>})>>
representatives == Count \o <<Ok>>
representatives_online == <<Ok>>
republish == Count \o <<Loose ("Invalid sources number"), Loose ("Invalid destinations number")>> \o Hash
             \o <<Check ("Block not found"), Does ("network"), Ok>>
unchecked == Count \o <<Ok>>
unchecked_clear == <<Control, Does ("unchecked"), Ok>>
unchecked_get == Hash \o <<Check ("Unchecked block not found"), Ok>>
unchecked_keys == Count \o <<Loose ("Bad key hash number"), Ok>>

-----------------------------------------------------------------------------
(* The node. *)

bootstrap == <<Need ("address"), Need ("port"), Check ("Invalid address"), Check ("Invalid port"), Does ("bootstrap"), Ok>>
bootstrap_any == <<Does ("bootstrap"), Ok>>
keepalive == <<Control, Need ("address"), Need ("port"), Check ("Invalid port"), Does ("network"), Ok>>
peers == <<Ok>>
stats == <<Check ("Invalid or missing type argument"), Ok>>
stop == <<Control, Ok, Does ("acceptor"), Does ("node")>>
version == <<Ok>>
receive_minimum == <<Control, Ok>>
receive_minimum_set == <<Control>> \o Amount \o <<Does ("config"), Ok>>

-----------------------------------------------------------------------------
(* Keys and units. *)

deterministic_key == <<Need ("seed"), Need ("index"), Check ("Bad seed"), Check ("Invalid index"), Ok>>
key_create == <<Ok>>
key_expand == <<Need ("key"), Check ("Bad private key"), Ok>>
validate_account_number == <<Need ("account"), Ok>>
krai_from_raw == Amount \o <<Ok>>
krai_to_raw == Amount \o <<Check ("Amount too big"), Ok>>
mrai_from_raw == Amount \o <<Ok>>
mrai_to_raw == Amount \o <<Check ("Amount too big"), Ok>>
rai_from_raw == Amount \o <<Ok>>
rai_to_raw == Amount \o <<Check ("Amount too big"), Ok>>

-----------------------------------------------------------------------------
(* Payments. *)

payment_begin == <<Need ("wallet"), Check ("Bad wallet number"), Check ("Unable to find wallets"), Check ("Wallet locked"),
                   Each ({<<Does ("pool")>>}),                       \* free accounts that are gone or not empty
                   Choose ({<<Does ("pool"), Ok>>, <<Does ("wallet"), Ok>>, <<Error>>})>>
payment_init == <<Need ("wallet"), Check ("Bad transaction wallet number"), Choose ({<<Does ("pool"), Ok>>, <<Ok>>})>>
payment_end == <<Need ("wallet"), Need ("account"), Check ("Bad wallet number"), Check ("Unable to find wallet"),
                 Check ("Invalid account number"), Check ("Account not in wallet"),
                 Check ("Account has non-zero balance"), Does ("pool"), Ok>>
payment_wait == <<Need ("account"), Need ("amount"), Need ("timeout"), Check ("Bad account number"),
                  Check ("Bad amount number"), Check ("Bad timeout number"), Does ("observers"), Later ({<<Ok>>})>>

-----------------------------------------------------------------------------
(* Wallets. *)

password_change == <<Control>> \o Wallet \o <<Need ("password"), Either (Does ("wallet")), Ok>>
password_enter == Wallet \o <<Need ("password"), Does ("password"), Ok>>
password_valid == Wallet \o <<Ok>>

\* A "work" that does not decode is answered, and the digits before the fault are
\* then tested and put like any other; only receive_async is left out.
receive == <<Control>> \o Wallet \o Account
           \o <<Check ("Account not found in wallet"), Need ("block"), Check ("Bad block number"),
                Check ("Block not found"), Check ("Block is not available to receive"),
                Choose ({<<Choose ({<<>>, <<Error, Return>>, <<Does ("wallet")>>})>>,
                         <<Error, Choose ({<<>>, <<Error>>, <<Does ("wallet")>>}), Return>>}),
                Later ({<<Does ("ledger"), Ok>>, <<Ok>>})>>
search_pending == <<Control, Need ("wallet"), Quiet ("Bad wallet number"), Check ("Wallet not found"),
                    Choose ({<<Does ("search"), Ok>>, <<Ok>>})>>
search_pending_all == <<Control, Does ("search"), Ok>>

\* mutant: a "work" that does not decode is answered and the send goes on
send_anyway == <<Control>> \o Wallet
    \o <<Need ("source"), Check ("Bad source account"), Need ("destination"), Check ("Bad destination account"),
         Need ("amount"), Check ("Bad amount format"), Loose ("Bad work"), Check ("Account not found"),
         Choose ({<<>>, <<Error, Return>>, <<Does ("wallet")>>}), Check ("Insufficient balance"),
         Later ({<<Does ("ledger"), Ok>>, <<Error>>})>>

send == <<Control>> \o Wallet
    \o <<Need ("source"), Check ("Bad source account"), Need ("destination"), Check ("Bad destination account"),
         Need ("amount"), Check ("Bad amount format"), Check ("Bad work"), Check ("Account not found"),
         Choose ({<<>>, <<Error, Return>>, <<Does ("wallet")>>}),              \* work: invalid, or put
         Check ("Insufficient balance"),
         Later ({<<Does ("ledger"), Ok>>, <<Error>>})>>                        \* send_async
wallet_add == <<Control, Need ("key"), Need ("wallet"), Check ("Bad private key"), Check ("Bad wallet number"),
                Check ("Wallet not found"), Choose ({<<Does ("wallet"), Ok>>, <<Error>>})>>
wallet_add_watch == <<Control>> \o Wallet
                    \o <<Check ("Wallet locked"), Need ("accounts"), Each ({<<Does ("wallet")>>, <<Error>>}), Ok>>
wallet_balance_total == Wallet \o <<Ok>>
wallet_balances == <<Need ("wallet"), Check ("Bad wallet number"), Loose ("Bad threshold number"),
                     Check ("Wallet not found"), Ok>>
wallet_change_seed == <<Control, Need ("seed"), Need ("wallet"), Check ("Bad seed"), Check ("Bad wallet number"),
                        Check ("Wallet not found"), Check ("Wallet locked"), Does ("wallet"), Ok>>
wallet_contains == <<Need ("account"), Need ("wallet"), Check ("Bad account number"), Check ("Bad wallet number"),
                     Check ("Wallet not found"), Ok>>
wallet_create == <<Control, Choose ({<<Does ("wallet"), Ok>>, <<Error>>})>>

wallet_destroy == <<Control>> \o Wallet \o <<Does ("wallet"), Ok>>
wallet_export == Wallet \o <<Ok>>
wallet_frontiers == Wallet \o <<Ok>>
wallet_key_valid == Wallet \o <<Ok>>
wallet_ledger == Wallet \o <<Ok>>
wallet_lock == <<Control>> \o Wallet \o <<Does ("password"), Ok>>
wallet_pending == Wallet \o Count \o <<Loose ("Bad threshold number"), Ok>>
wallet_representative == Wallet \o <<Ok>>
wallet_representative_set == <<Control>> \o Wallet
                             \o <<Need ("representative"), Check ("Invalid account number"), Does ("wallet"), Ok>>
wallet_republish == <<Control>> \o Wallet \o <<Need ("count"), Check ("Invalid count limit"), Does ("network"), Ok>>
wallet_work_get == <<Control>> \o Wallet \o <<Ok>>

-----------------------------------------------------------------------------
(* Work. *)

work_generate == <<Control, Need ("hash"), Check ("Bad block hash"), Later ({<<Ok>>, <<Error>>})>>
work_cancel == <<Control, Need ("hash"), Check ("Bad block hash"), Does ("work"), Ok>>
work_get == <<Control>> \o Wallet \o Account \o <<Check ("Account not found in wallet"), Ok>>
work_set == <<Control>> \o Wallet \o Account
            \o <<Check ("Account not found in wallet"), Need ("work"), Check ("Bad work"), Does ("wallet"), Ok>>
work_validate == Hash \o <<Need ("work"), Check ("Bad work"), Ok>>
work_peer_add == <<Control, Need ("address"), Need ("port"), Check ("Invalid port"), Does ("config"), Ok>>
work_peers == <<Control, Ok>>
work_peers_clear == <<Control, Does ("config"), Ok>>

-----------------------------------------------------------------------------
(* The chain of comparisons in process_request.  password_change,          *)
(* password_enter and wallet_unlock run before the request is logged.      *)
Handlers ==
    [account_balance |-> account_balance, account_block_count |-> account_block_count,
     account_count |-> account_count, account_create |-> account_create, account_get |-> account_get,
     account_history |-> account_history, account_info |-> account_info, account_key |-> account_key,
     account_list |-> account_list, account_move |-> account_move, account_remove |-> account_remove,
     account_representative |-> account_representative,
     account_representative_set |-> account_representative_set, account_weight |-> account_weight,
     accounts_balances |-> accounts_balances, accounts_create |-> accounts_create,
     accounts_frontiers |-> accounts_frontiers, accounts_pending |-> accounts_pending,
     available_supply |-> available_supply, block |-> block, block_confirm |-> block_confirm,
     blocks |-> blocks, blocks_info |-> blocks_info, block_account |-> block_account,
     block_count |-> block_count, block_count_type |-> block_count_type, block_create |-> block_create,
     block_hash |-> block_hash, successors |-> successors, bootstrap |-> bootstrap,
     bootstrap_any |-> bootstrap_any, chain |-> chain, delegators |-> delegators,
     delegators_count |-> delegators_count, deterministic_key |-> deterministic_key,
     confirmation_history |-> confirmation_history, frontiers |-> frontiers, keepalive |-> keepalive,
     key_create |-> key_create, key_expand |-> key_expand, krai_from_raw |-> krai_from_raw,
     krai_to_raw |-> krai_to_raw, ledger |-> ledger, mrai_from_raw |-> mrai_from_raw,
     mrai_to_raw |-> mrai_to_raw, password_change |-> password_change, password_enter |-> password_enter,
     password_valid |-> password_valid, payment_begin |-> payment_begin, payment_init |-> payment_init,
     payment_end |-> payment_end, payment_wait |-> payment_wait, peers |-> peers, pending |-> pending,
     pending_exists |-> pending_exists, process |-> process, rai_from_raw |-> rai_from_raw,
     rai_to_raw |-> rai_to_raw, receive |-> receive, receive_minimum |-> receive_minimum,
     receive_minimum_set |-> receive_minimum_set, representatives |-> representatives,
     representatives_online |-> representatives_online, republish |-> republish,
     search_pending |-> search_pending, search_pending_all |-> search_pending_all, send |-> send,
     stats |-> stats, stop |-> stop, unchecked |-> unchecked, unchecked_clear |-> unchecked_clear,
     unchecked_get |-> unchecked_get, unchecked_keys |-> unchecked_keys,
     validate_account_number |-> validate_account_number, version |-> version, wallet_add |-> wallet_add,
     wallet_add_watch |-> wallet_add_watch, wallet_balance_total |-> wallet_balance_total,
     wallet_balances |-> wallet_balances, wallet_change_seed |-> wallet_change_seed,
     wallet_contains |-> wallet_contains, wallet_create |-> wallet_create, wallet_destroy |-> wallet_destroy,
     wallet_export |-> wallet_export, wallet_frontiers |-> wallet_frontiers,
     wallet_key_valid |-> wallet_key_valid, wallet_ledger |-> wallet_ledger, wallet_lock |-> wallet_lock,
     wallet_pending |-> wallet_pending, wallet_representative |-> wallet_representative,
     wallet_representative_set |-> wallet_representative_set, wallet_republish |-> wallet_republish,
     wallet_work_get |-> wallet_work_get, work_generate |-> work_generate, work_cancel |-> work_cancel,
     work_get |-> work_get, work_set |-> work_set, work_validate |-> work_validate,
     work_peer_add |-> work_peer_add, work_peers |-> work_peers, work_peers_clear |-> work_peers_clear,
     frontier_count |-> account_count, history |-> <<Need ("hash")>> \o account_history,
     wallet_unlock |-> password_enter, wallet_locked |-> password_valid, unknown_command |-> <<Error>>]

NoRequest == /\ action = "none"
             /\ todo = <<>>
             /\ elements = 0
             /\ answers = <<>>
             /\ res = "none"
             /\ written = <<>>
             /\ effects = {}

Fresh == /\ action' = "none"
         /\ todo' = <<>>
         /\ elements' = 0
         /\ answers' = <<>>
         /\ res' = "none"
         /\ written' = <<>>
         /\ effects' = {}

TypeOK == /\ listening \in BOOLEAN
          /\ control \in BOOLEAN
          /\ phase \in {"none", "reading", "running", "waiting", "done"}
          /\ action \in DOMAIN Handlers \cup {"none", "not_a_post"}
          /\ elements \in 0 .. MaxElement
          /\ \A i \in DOMAIN answers : answers[i] \in {"ok", "error"}
          /\ res \in {"none", "ok", "error"}
          /\ (phase = "waiting") => Len (todo) = 1

-----------------------------------------------------------------------------
Init == /\ listening = TRUE
        /\ control \in BOOLEAN
        /\ phase = "none"
        /\ NoRequest

(* rpc::accept: the next accept is started before the connection is read.  *)
(* An accept that fails, as after acceptor.close (), starts no other.      *)
accept == /\ listening
          /\ phase \in {"none", "done"}
          /\ phase' = "reading"
          /\ Fresh
          /\ UNCHANGED <<listening, control>>

accept_fails == /\ listening
                /\ phase \in {"none", "done"}
                /\ listening' = FALSE
                /\ UNCHANGED <<control, phase, request>>

(* rpc::start, of the next process. *)
start == /\ ~listening
         /\ phase \in {"none", "done"}
         /\ listening' = TRUE
         /\ control' \in BOOLEAN
         /\ phase' = "none"
         /\ Fresh

(* rpc_connection::read, without and with an error. *)
read == /\ phase = "reading"
        /\ phase' = "running"
        /\ \/ \E a \in DOMAIN Handlers : action' = a /\ todo' = Handlers[a]
           \/ action' = "not_a_post" /\ todo' = <<Error>>
        /\ UNCHANGED <<listening, control, elements, answers, res, written, effects>>

read_fails == /\ phase = "reading"
              /\ phase' = "none"
              /\ UNCHANGED <<listening, control, request>>

-----------------------------------------------------------------------------
(* The handler's next step. *)
Step(op) == phase = "running" /\ todo # <<>> /\ Head (todo).op = op

(* write_result: the first answer is what `res' holds; a later one meets   *)
(* the assertion, and leaves `res' where assertions are compiled out.      *)
write_result(answer) == res' = IF res = "none" THEN answer ELSE res

respond == \E answer \in {"ok", "error"} :
              /\ Step (answer)
              /\ answers' = Append (answers, answer)
              /\ write_result (answer)
              /\ written' = Append (written, res')
              /\ todo' = Tail (todo)
              /\ UNCHANGED <<listening, control, phase, action, elements, effects>>

change_state == /\ Step ("does")
                /\ effects' = effects \cup {Head (todo).what}
                /\ listening' = (listening /\ Head (todo).what # "acceptor")
                /\ todo' = Tail (todo)
                /\ UNCHANGED <<control, phase, action, elements, answers, res, written>>

Branch(steps) == /\ todo' = steps \o Tail (todo)
                 /\ UNCHANGED <<listening, control, phase, action, elements, answers, res, written, effects>>

test == Step ("choose") /\ \E steps \in Head (todo).of : Branch (steps)

test_control == /\ Step ("control")
                /\ Branch (IF control THEN Head (todo).then ELSE Head (todo).else)

next_element == /\ Step ("each")
                /\ elements < MaxElement
                /\ \E steps \in Head (todo).of : todo' = steps \o todo
                /\ elements' = elements + 1
                /\ UNCHANGED <<listening, control, phase, action, answers, res, written, effects>>

end_of_list == Step ("each") /\ Branch (<<>>)

(* Another request unlocks the wallet the loop of accounts_create needs.   *)
unlocked == Step ("spin") /\ Branch (<<>>)

return == /\ Step ("return")
          /\ todo' = <<>>
          /\ UNCHANGED <<listening, control, phase, action, elements, answers, res, written, effects>>

(* The handler ends; what it left to a callback goes on in another thread. *)
returned == /\ phase = "running"
            /\ \/ todo = <<>> /\ phase' = "done"
               \/ Step ("later") /\ phase' = "waiting"
            /\ UNCHANGED <<listening, control, request>>

callback == /\ phase = "waiting"
            /\ phase' = "running"
            /\ \E steps \in Head (todo).of : todo' = steps
            /\ UNCHANGED <<listening, control, action, elements, answers, res, written, effects>>

Handle == respond \/ change_state \/ test \/ test_control \/ next_element \/ end_of_list \/ return \/ returned

Next == accept \/ accept_fails \/ start \/ read \/ read_fails \/ Handle \/ unlocked \/ callback

Spec == Init /\ [][Next]_vars

-----------------------------------------------------------------------------

(* What write_result asserts of every handler: it answers once.            *)
RespondsOnce == Len (answers) <= 1

(* The handlers that go on after they have answered with an error, and may *)
(* answer again, against RespondsOnce: those with an optional field or     *)
(* with a list of elements.                                                *)
GoesOn == {"account_representative_set", "accounts_balances", "accounts_frontiers", "accounts_pending", "blocks",
           "blocks_info", "block_create", "ledger", "pending", "receive", "representatives", "republish",
           "unchecked", "unchecked_keys", "wallet_add_watch", "wallet_balances", "wallet_pending"}

(* Outside these, a request has one answer; and an answer that succeeds is *)
(* never the first of two: `res' holds an error whenever some test of the  *)
(* request failed.                                                         *)
OthersRespondOnce == Len (answers) > 1 => action \in GoesOn /\ answers[1] = "error"

(* write_result does not change a `res' that an async_write may still be   *)
(* reading: each write is of the first answer.  A handler of GoesOn may    *)
(* have several writes of it under way at once.                            *)
FirstAnswerStands == written = [i \in DOMAIN answers |-> answers[1]]

(* A caller that reads an error may try again: the request has changed     *)
(* nothing.  The exceptions: a block that `process' refuses stays among    *)
(* the recent arrivals, and in unchecked if it has a gap; a work value     *)
(* that was valid stays in the wallet when `send' then fails, or when      *)
(* `receive' read it in front of what did not decode; payment_begin has    *)
(* dropped free accounts; and the handlers that go on.                     *)
MayLeave == [process |-> {"arrival", "unchecked", "queue"}, send |-> {"wallet"}, receive |-> {"wallet"},
             payment_begin |-> {"pool"}, account_representative_set |-> {"wallet", "ledger"},
             wallet_add_watch |-> {"wallet"}, republish |-> {"network"}]

ErrorChangesNothing ==
    res = "error" => \/ effects = {}
                     \/ action \in DOMAIN MayLeave /\ effects \subseteq MayLeave[action]

(* Without enable_control no request changes a wallet, the configuration,  *)
(* the network's peers or the process, except that payment_begin inserts   *)
(* an account.                                                             *)
ControlIsNeeded ==
    ~control => \/ effects \cap {"wallet", "config", "work", "search", "acceptor", "node"} = {}
                \/ action = "payment_begin"

=============================================================================
