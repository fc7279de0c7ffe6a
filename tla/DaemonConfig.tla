---------------------------- MODULE DaemonConfig ----------------------------
(***************************************************************************)
(* The configuration file of the node: what rai::daemon_config,            *)
(* rai::node_config, rai::logging, rai::rpc_config and rai::opencl_config  *)
(* read from a property tree, how they carry the tree of an earlier        *)
(* version forward, and the life of a daemon's config.json:                *)
(* rai_daemon::daemon::run fetches it with rai::fetch_object at every      *)
(* start, which upgrades an older file and writes the upgraded tree back,  *)
(* by truncating the file and writing it anew.  The file may come from any *)
(* earlier version, the user edits it between the starts and while the     *)
(* daemon runs, opening or writing it may fail, and the process may die    *)
(* between the truncation and the write.                                   *)
(*                                                                         *)
(* A tree is [version, keys]: the version (None: no such key, NaN: not a   *)
(* number) and a function from the keys present to their values.  A value  *)
(* is Standard (what this program would write), Former (what an upgrade    *)
(* writes instead), Chosen (another valid value, set by the user), Broken  *)
(* (it does not parse, or is out of range) or Stray (valid, and nobody     *)
(* chose it).                                                              *)
(***************************************************************************)
EXTENDS Integers, FiniteSets, Functions

Standard == "standard"
Former   == "former"
Chosen   == "chosen"
Broken   == "broken"
Stray    == "stray"

None == 0
NaN  == -1

put(keys, ks, x) == [k \in DOMAIN keys \cup ks |-> IF k \in ks THEN x ELSE keys[k]]

erase(keys, ks) == Restrict(keys, DOMAIN keys \ ks)

\* tree.get <...> of every key in ks: present, and it converts.
gets(keys, ks) == \A k \in ks : k \in DOMAIN keys /\ keys[k] # Broken

\* A key read only when it is there: an optional child.
gets_optional(keys, k) == k \notin DOMAIN keys \/ keys[k] # Broken

\* The keys a section reads, with what the constructor set for those missing.
Read(keys, ks) == [k \in ks |-> IF k \in DOMAIN keys THEN keys[k] ELSE Standard]

Written(version, ks) == [version |-> version, keys |-> [k \in ks |-> Standard]]

-----------------------------------------------------------------------------
(***************************************************************************)
(* The logging section.                                                    *)
(***************************************************************************)
logging_version == 3

logging_keys ==
    {"ledger", "ledger_duplicate", "vote", "network", "network_message", "network_publish",
     "network_packet", "network_keepalive", "node_lifetime_tracing", "insufficient_work",
     "log_rpc", "bulk_pull", "work_generation_time", "log_to_cerr", "max_size",
     "rotation_size", "flush"}

\* What the step from version v puts.
logging_puts == <<{"vote"}, {"rotation_size", "flush"}>>

\* The cases of the switch fall through, from the version of the tree to the last.
logging_upgrade_json(tree) ==
    LET At[v \in tree.version .. logging_version] ==
            IF v = tree.version THEN tree.keys ELSE put(At[v - 1], logging_puts[v - 1], Standard)
    IN [version |-> logging_version, keys |-> At[logging_version]]

\* A tree without a version is of version 1, and gets a child that belongs to
\* the node section.
Versioned(tree) ==
    IF tree.version # None THEN tree
    ELSE [version |-> 1,
          keys |-> IF "work_peers" \in DOMAIN tree.keys THEN tree.keys
                   ELSE put(tree.keys, {"work_peers"}, Standard)]

logging_deserialize_json(tree) ==
    LET old == Versioned(tree)
        new == logging_upgrade_json(old)
    IN IF old.version \in 1 .. logging_version
       THEN [tree |-> new,
             error |-> ~ ( /\ gets(new.keys, logging_keys \ {"rotation_size", "flush"})
                           /\ gets_optional(new.keys, "rotation_size")
                           /\ gets_optional(new.keys, "flush") ),
             upgraded |-> tree.version # logging_version]
       ELSE [tree |-> old, error |-> TRUE, upgraded |-> FALSE]

-----------------------------------------------------------------------------
(***************************************************************************)
(* The node section.                                                       *)
(***************************************************************************)
node_version == 12

node_keys ==
    {"peering_port", "bootstrap_fraction_numerator", "receive_minimum", "work_peers",
     "preconfigured_peers", "preconfigured_representatives", "online_weight_minimum",
     "online_weight_quorum", "password_fanout", "io_threads", "work_threads", "enable_voting",
     "bootstrap_connections", "bootstrap_connections_max", "callback_address", "callback_port",
     "callback_target", "lmdb_max_dbs", "state_block_parse_canary",
     "state_block_generate_canary"}

\* What the step from version v puts, and what it erases for good.
node_puts ==
    <<{},
      {"inactive_supply", "password_fanout", "io_threads", "work_threads"},
      {"receive_minimum"},
      {"receive_minimum"},
      {"enable_voting"},
      {"bootstrap_connections", "callback_address", "callback_port", "callback_target"},
      {"lmdb_max_dbs"},
      {"bootstrap_connections_max"},
      {"state_block_parse_canary", "state_block_generate_canary"},
      {"online_weight_minimum", "online_weight_quorom"},
      {}>>

node_erases ==
    [v \in 1 .. 11 |->
        CASE v = 5  -> {"packet_delay_microseconds", "rebroadcast_delay", "creation_rebroadcast"}
          [] v = 10 -> {"inactive_supply"}
          [] v = 11 -> {"online_weight_quorom"}
          [] OTHER  -> {}]

\* Version 1 held the representatives in an encoding of its own: one that does
\* not decode is written back as whatever the account variable held.
recode(x) == IF x = Broken THEN Stray ELSE x

\* The step from version 6 puts 16 bootstrap connections; the constructor has 4.
FormerKeys == {"bootstrap_connections"}

node_step(v, keys) ==
    LET carried ==
            CASE v = 1  -> put(keys, {"preconfigured_representatives"},
                               recode(keys["preconfigured_representatives"]))
              [] v = 6  -> put(put(keys, node_puts[v], Standard), FormerKeys, Former)
              [] v = 11 -> put(keys, {"online_weight_quorum"}, keys["online_weight_quorom"])
              [] OTHER  -> put(keys, node_puts[v], Standard)
    IN erase(carried, node_erases[v])

node_upgrade_json(tree) ==
    LET At[v \in tree.version .. node_version] ==
            IF v = tree.version THEN tree.keys ELSE node_step(v - 1, At[v - 1])
    IN [version |-> node_version, keys |-> At[node_version]]

\* The two steps that read what they rewrite throw when it is missing.
CanUpgrade(tree) ==
    /\ tree.version \in 1 .. node_version
    /\ tree.version = 1 => "preconfigured_representatives" \in DOMAIN tree.keys
    /\ tree.version = 11 => "online_weight_quorom" \in DOMAIN tree.keys

\* The logging section is a child of the node section, upgraded in place.  A
\* version that is no number is an exception that the node section does not
\* catch; the same in the logging section it does.
node_deserialize_json(tree, logging) ==
    LET old == Versioned(tree)
        log == logging_deserialize_json(logging)
    IN CASE old.version = NaN ->
              [tree |-> old, logging |-> logging, error |-> TRUE, throws |-> TRUE, upgraded |-> FALSE]
         [] old.version # NaN /\ ~ CanUpgrade(old) ->
              [tree |-> old, logging |-> logging, error |-> TRUE, throws |-> FALSE, upgraded |-> FALSE]
         [] OTHER ->
              LET new == node_upgrade_json(old)
              IN [tree |-> new,
                  logging |-> log.tree,
                  error |-> \/ ~ gets(new.keys, node_keys)
                            \/ ~ gets_optional(new.keys, "statistics")
                            \/ log.error,
                  throws |-> FALSE,
                  upgraded |-> tree.version # node_version \/ log.upgraded]

-----------------------------------------------------------------------------
(***************************************************************************)
(* The sections without a version, and the whole file.  A file is          *)
(* [top, rpc, opencl, node, logging]; opencl may be missing from a file of *)
(* version 1, and is then Nowhere.                                         *)
(***************************************************************************)
rpc_keys == {"address", "port", "enable_control", "frontier_request_limit", "chain_request_limit"}

opencl_keys == {"platform", "device", "threads"}

top_keys == {"rpc_enable", "opencl_enable"}

daemon_version == 2

Nowhere == [k \in {} |-> Standard]

StandardKeys(ks) == [k \in ks |-> Standard]

\* The child "secure" is read first, and its error leaves the rest unread.
rpc_deserialize_json(keys) == ~ (gets_optional(keys, "secure") /\ gets(keys, rpc_keys))

opencl_deserialize_json(keys) == ~ gets(keys, opencl_keys)

\* The file a fresh daemon writes.
daemon_serialize_json ==
    [top |-> Written(daemon_version, top_keys),
     rpc |-> StandardKeys(rpc_keys),
     opencl |-> StandardKeys(opencl_keys),
     node |-> Written(node_version, node_keys),
     logging |-> Written(logging_version, logging_keys)]


\* An opencl_enable that does not convert counts as missing.
daemon_upgrade_json(file) ==
    IF file.top.version = daemon_version THEN file
    ELSE [file EXCEPT
            !.top = [version |-> daemon_version,
                     keys |-> IF gets(file.top.keys, {"opencl_enable"}) THEN file.top.keys
                              ELSE put(file.top.keys, {"opencl_enable"}, Standard)],
            !.opencl = IF file.opencl = Nowhere THEN StandardKeys(opencl_keys) ELSE file.opencl]

\* Every section, in the order of the code: a thrown exception ends the reading.
daemon_deserialize_json(file) ==
    LET first == IF file.top.version = None THEN [file EXCEPT !.top.version = 1] ELSE file
        up    == daemon_upgrade_json(first)
        node  == node_deserialize_json(up.node, up.logging)
        Fails(throws) == [file |-> file, error |-> TRUE, throws |-> throws, upgraded |-> FALSE]
    IN CASE first.top.version = NaN -> Fails(TRUE)
         [] first.top.version \notin {NaN} \cup (1 .. daemon_version) -> Fails(FALSE)
         [] OTHER ->
              IF ~ gets(up.top.keys, {"rpc_enable"}) THEN Fails(FALSE)
              ELSE IF node.throws THEN Fails(TRUE)
              ELSE [file |-> [up EXCEPT !.node = node.tree, !.logging = node.logging],
                    error |-> \/ rpc_deserialize_json(up.rpc)
                              \/ node.error
                              \/ ~ gets(up.top.keys, {"opencl_enable"})
                              \/ opencl_deserialize_json(up.opencl),
                    throws |-> FALSE,
                    upgraded |-> first.top.version # daemon_version \/ node.upgraded]

\* What the process holds once a file has been read.
Configured(file) ==
    [top |-> Read(file.top.keys, top_keys),
     rpc |-> Read(file.rpc, rpc_keys \cup {"secure"}),
     opencl |-> Read(file.opencl, opencl_keys),
     node |-> Read(file.node.keys, node_keys \cup {"statistics"}),
     logging |-> Read(file.logging.keys, logging_keys)]

-----------------------------------------------------------------------------
CONSTANTS
    Editable,   \* the <<section, key>> pairs the user edits
    MaxEdit,    \* bound: edits
    MaxFault    \* bound: failures to open or to write, and deaths

VARIABLES
    shape,    \* of the file: "whole", "empty" or "partial"
    file,     \* its contents, when it is whole
    place,    \* the daemon: "stopped", "rewrite", "truncated" or "running"
    tree,     \* the tree fetch_object holds
    config,   \* the configuration the daemon runs with
    outcome,  \* of the last start: "none", "runs", "ignored", "refused", "throws" or "unwritten"
    asked,    \* setting -> what the file gives it, with what the user set and no upgrade replaces
    lost,     \* settings that went with a file whose rewrite was cut short
    spoilt,   \* the user broke or removed something
    edits,
    faults

vars == <<shape, file, place, tree, config, outcome, asked, lost, spoilt, edits, faults>>

-----------------------------------------------------------------------------
(***************************************************************************)
(* The files earlier versions wrote.                                       *)
(***************************************************************************)
\* The keys of the first files (the tests of the upgrades build one).
FirstNodeKeys ==
    {"peering_port", "packet_delay_microseconds", "bootstrap_fraction_numerator",
     "creation_rebroadcast", "rebroadcast_delay", "receive_minimum", "preconfigured_peers",
     "preconfigured_representatives"}

FirstLoggingKeys ==
    {"ledger", "ledger_duplicate", "network", "network_message", "network_publish",
     "network_packet", "network_keepalive", "node_lifetime_tracing", "insufficient_work",
     "log_rpc", "bulk_pull", "work_generation_time", "log_to_cerr", "max_size"}

\* A later file holds what the steps up to its version put and did not erase.
NodeLayout(v) ==
    LET Keys[w \in 1 .. v] ==
            IF w = 1 THEN FirstNodeKeys \cup {"work_peers"}
            ELSE (Keys[w - 1] \cup node_puts[w - 1] \cup (IF w = 12 THEN {"online_weight_quorum"} ELSE {}))
                    \ node_erases[w - 1]
    IN Keys[v]

LoggingLayout(v) == FirstLoggingKeys \cup UNION {logging_puts[w] : w \in 1 .. (v - 1)}

\* Before the first version there was none, and no list of work peers.
OldNode ==
    {Written(v, NodeLayout(v)) : v \in 1 .. node_version}
        \cup {Written(None, FirstNodeKeys)}

OldLogging ==
    {Written(v, LoggingLayout(v)) : v \in 1 .. logging_version} \cup {Written(None, LoggingLayout(1))}

\* OpenCL came with version 2, and some files had its keys before.
OldTop ==
    {[top |-> Written(None, {"rpc_enable"}), opencl |-> Nowhere],
     [top |-> Written(1, top_keys), opencl |-> StandardKeys(opencl_keys)],
     [top |-> Written(2, top_keys), opencl |-> StandardKeys(opencl_keys)]}

OldFiles ==
    {[top |-> t.top, rpc |-> StandardKeys(rpc_keys), opencl |-> t.opencl, node |-> n, logging |-> l] :
        t \in OldTop, n \in OldNode, l \in OldLogging}

Settings == {<<"top", k>> : k \in top_keys} \cup {<<"rpc", k>> : k \in rpc_keys \cup {"secure"}}
    \cup {<<"opencl", k>> : k \in opencl_keys} \cup {<<"logging", k>> : k \in logging_keys}
    \cup {<<"node", k>> : k \in node_keys \cup {"statistics"}}

\* The settings that the steps from an older version leave as Former.
BeforeSeven(version) == IF version \in None .. 6 THEN {<<"node", k>> : k \in FormerKeys} ELSE {}

Init ==
    /\ \/ shape = "whole" /\ file \in OldFiles
       \/ shape = "empty" /\ file = daemon_serialize_json
    /\ place = "stopped"
    /\ tree = file
    /\ config = Configured(daemon_serialize_json)
    /\ outcome = "none"
    /\ asked = [e \in Settings |-> IF e \in BeforeSeven(file.node.version) THEN Former ELSE Standard]
    /\ lost = {}
    /\ spoilt = FALSE
    /\ edits = 0
    /\ faults = 0

-----------------------------------------------------------------------------
(***************************************************************************)
(* What a start reads.  An empty file is an empty tree, which the daemon   *)
(* fills with what it writes itself; a file that ends early does not parse.*)
(***************************************************************************)
Fetched ==
    CASE shape = "empty" ->
            [file |-> daemon_serialize_json, error |-> FALSE, throws |-> FALSE, upgraded |-> TRUE]
      [] shape = "partial" ->
            [file |-> file, error |-> TRUE, throws |-> FALSE, upgraded |-> FALSE]
      [] shape = "whole" -> daemon_deserialize_json(file)

\* The fetch up to the rewrite.  An exception that is no std::runtime_error
\* leaves the daemon altogether.
fetch_object ==
    /\ place = "stopped"
    /\ LET f == Fetched
       IN /\ tree' = f.file
          /\ IF f.error \/ f.throws
             THEN /\ outcome' = IF f.throws THEN "throws" ELSE "refused"
                  /\ UNCHANGED <<place, config>>
             ELSE /\ config' = Configured(f.file)
                  /\ place' = IF f.upgraded THEN "rewrite" ELSE "running"
                  /\ outcome' = "runs"
    /\ UNCHANGED <<shape, file, asked, lost, spoilt, edits, faults>>

\* A file that cannot be opened is no error: the daemon runs as constructed.
OpenFails ==
    /\ place = "stopped"
    /\ faults < MaxFault
    /\ faults' = faults + 1
    /\ config' = Configured(daemon_serialize_json)
    /\ place' = "running"
    /\ outcome' = "ignored"
    /\ UNCHANGED <<shape, file, tree, asked, lost, spoilt, edits>>

\* The file is closed and opened again with std::ios_base::trunc.
Truncate ==
    /\ place = "rewrite"
    /\ place' = "truncated"
    /\ shape' = "empty"
    /\ UNCHANGED <<file, tree, config, outcome, asked, lost, spoilt, edits, faults>>

write_json ==
    /\ place = "truncated"
    /\ place' = "running"
    /\ shape' = "whole"
    /\ file' = tree
    /\ UNCHANGED <<tree, config, outcome, asked, lost, spoilt, edits, faults>>

\* The write fails, or the process dies before it or in it.
Interrupted(how) ==
    /\ place = "truncated"
    /\ faults < MaxFault
    /\ faults' = faults + 1
    /\ place' = "stopped"
    /\ outcome' = how
    /\ shape' \in {"empty", "partial"}
    /\ lost' = Settings
    /\ UNCHANGED <<file, tree, config, asked, spoilt, edits>>

write_fails == Interrupted("unwritten")

Crash == Interrupted("none")

Stop ==
    /\ place = "running"
    /\ place' = "stopped"
    /\ UNCHANGED <<shape, file, tree, config, outcome, asked, lost, spoilt, edits, faults>>

-----------------------------------------------------------------------------
(***************************************************************************)
(* The user's edits.                                                       *)
(***************************************************************************)
Strings == {"callback_address", "callback_target", "preconfigured_peers"}

Optional == {<<"rpc", "secure">>, <<"node", "statistics">>}

KeysOf(s) == IF s \in {"rpc", "opencl"} THEN file[s] ELSE file[s].keys

WithKeys(s, keys) ==
    IF s \in {"rpc", "opencl"} THEN [file EXCEPT ![s] = keys] ELSE [file EXCEPT ![s].keys = keys]

\* The setting a key of an older file stands for.
Meaning(s, k) == <<s, IF k = "online_weight_quorom" THEN "online_weight_quorum" ELSE k>>

\* Versions before 5 replace the receive minimum.
Kept(s, k) == k = "receive_minimum" => file.node.version \notin None .. 4

Editing ==
    /\ shape = "whole"
    /\ place \in {"stopped", "running"}
    /\ edits < MaxEdit
    /\ edits' = edits + 1
    /\ outcome' = "none"
    /\ UNCHANGED <<shape, place, tree, config, faults>>

Sets(e, x) ==
    /\ asked' = IF e \in Settings THEN [asked EXCEPT ![e] = x] ELSE asked
    /\ lost' = lost \ {e}

Edit(s, k, x) ==
    /\ Editing
    /\ k \in DOMAIN KeysOf(s) \/ <<s, k>> \in Optional
    /\ x = Broken => k \notin Strings
    /\ file' = WithKeys(s, put(KeysOf(s), {k}, x))
    /\ Sets(Meaning(s, k), IF x = Chosen /\ Kept(s, k) THEN Chosen ELSE Standard)
    /\ spoilt' = (spoilt \/ x = Broken)

Remove(s, k) ==
    /\ Editing
    /\ k \in DOMAIN KeysOf(s)
    /\ file' = WithKeys(s, erase(KeysOf(s), {k}))
    /\ Sets(Meaning(s, k), Standard)
    /\ spoilt' = TRUE

EditVersion(s, v) ==
    /\ Editing
    /\ file' = [file EXCEPT ![s].version = v]
    /\ spoilt' = TRUE
    /\ UNCHANGED <<asked, lost>>

Next ==
    \/ fetch_object
    \/ OpenFails
    \/ Truncate
    \/ write_json
    \/ write_fails
    \/ Crash
    \/ Stop
    \/ \E e \in Editable : \E x \in {Chosen, Broken} : Edit(e[1], e[2], x)
    \/ \E e \in Editable : Remove(e[1], e[2])
    \/ \E s \in {"top", "node", "logging"} : \E v \in {NaN, 99} : EditVersion(s, v)

Spec == Init /\ [][Next]_vars

-----------------------------------------------------------------------------
Values == {Standard, Former, Chosen, Broken, Stray}

Versions == {NaN, None, 99} \cup (1 .. node_version)

\* Types, and what the daemon runs with has passed every test: no value of a
\* running daemon is one that rai::fetch_object should have refused.
TypeOK ==
    /\ shape \in {"whole", "empty", "partial"}
    /\ place \in {"stopped", "rewrite", "truncated", "running"}
    /\ outcome \in {"none", "runs", "ignored", "refused", "throws", "unwritten"}
    /\ {file.top.version, file.node.version, file.logging.version} \subseteq Versions
    /\ \A e \in Settings : config[e[1]][e[2]] \in Values \ {Broken}
    /\ lost \subseteq Settings /\ spoilt \in BOOLEAN /\ edits \in 0 .. MaxEdit /\ faults \in 0 .. MaxFault

\* A file that some version wrote, in which the user set valid values only, is
\* never refused: the steps of upgrade_json together put every key that
\* deserialize_json reads.  What is refused was spoilt by the user, or cut short
\* by an earlier rewrite.
OldFilesLoad ==
    outcome \in {"refused", "throws"} => spoilt \/ shape = "partial"

\* The daemon runs with exactly what the user set, whatever upgrades lie between,
\* and otherwise with what it would write itself.  The exceptions: a file from
\* before version 7 gives 16 bootstrap connections where a new one gives 4; a file
\* whose rewrite was cut short is gone, with all that was set in it; and a
\* representative of a version 1 file that does not decode is replaced by an
\* account nobody chose.
RunsAsAsked ==
    place = "running" /\ outcome = "runs" =>
        \A e \in Settings :
            \/ config[e[1]][e[2]] = IF e \in lost THEN Standard ELSE asked[e]
            \/ e = <<"node", "preconfigured_representatives">> /\ config[e[1]][e[2]] = Stray /\ spoilt

\* An upgrade is done once: the file of a running daemon is read again without
\* error, without a change, and to the same configuration.
RestartIsSame ==
    place = "running" /\ outcome = "runs" =>
        /\ shape = "whole"
        /\ ~ Fetched.error /\ ~ Fetched.throws /\ ~ Fetched.upgraded
        /\ Configured(Fetched.file) = config

\* A start that fails to read the file leaves it as the user wrote it, so that
\* they can mend it: nothing of a half-done upgrade reaches the disk.
RefusedKeepsFile == outcome' \in {"refused", "throws"} => file' = file /\ shape' = shape

=============================================================================
