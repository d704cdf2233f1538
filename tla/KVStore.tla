------------------------------ MODULE KVStore ------------------------------
(***************************************************************************)
(* The two maps of one key-value server and the five private operations on *)
(* them (KeyValueStore_server.cpp, _Get to _RemoveFromList).  A key is a   *)
(* name and the suffix the Tribbler server appends to it.                  *)
(***************************************************************************)
EXTENDS Message

Suffix == {"", "_sub", "_tribble"}
Key    == Text \X Suffix

UserList     == <<"user_list", "">>
ServerStatus == <<"server_status", "">>
ServerId     == <<"server_id", "">>
ServerSyscmd == <<"server_syscmd", "">>
UserKey(u)   == <<u, "">>
SubKey(u)    == <<u, "_sub">>
TribbleKey(u) == <<u, "_tribble">>

\* The strings the code itself uses; "id" stands for any server's own number.
Reserved == {"user_list", "server_status", "server_id", "server_syscmd",
             "syncing", "running", "id", "join cluster", ""}

ASSUME TextAssumption == Reserved \subseteq Text

\* isTribble: the suffix alone, with nothing before it, does not count.
IsTribble(k) == k[2] = "_tribble" /\ k[1] # ""

\* A map with some of the keys, all of whose values are in V: _simpleStorage is
\* a map<string, string>, _listStorage a map<string, set<string>>.
IsMap(f, V) == DOMAIN f \subseteq Key /\ f \in [DOMAIN f -> V]

NoMap == [k \in {} |-> ""]

Bind(f, k, v) == [x \in DOMAIN f \cup {k} |-> IF x = k THEN v ELSE f[x]]

ItemsAt(lists, k) == IF k \in DOMAIN lists THEN lists[k] ELSE {}

\* setServerInfo: operator[], so the key is overwritten.
SetServerInfo(simple, k, text) == Bind(simple, k, text)

\* What the constructor has stored when it starts looking for other servers.
BootInfo ==
    SetServerInfo(SetServerInfo(NoMap, ServerId, "id"), ServerStatus, "syncing")

-----------------------------------------------------------------------------
(* Reads: a status and the values found. *)

StoreGet(simple, k) ==
    IF k \in DOMAIN simple
    THEN [status |-> "OK", values |-> {Plain(simple[k])}]
    ELSE [status |-> "EKEYNOTFOUND", values |-> {}]

StoreGetList(lists, k) ==
    IF k \in DOMAIN lists
    THEN [status |-> "OK", values |-> lists[k]]
    ELSE [status |-> "EKEYNOTFOUND", values |-> {}]

(* Writes: a status and the map left behind. *)

\* map::insert: a key that is there keeps its value.
StorePut(simple, k, text) ==
    IF k \in DOMAIN simple
    THEN [status |-> "EPUTFAILED", map |-> simple]
    ELSE [status |-> "OK", map |-> Bind(simple, k, text)]

StoreAddToList(lists, k, item) ==
    IF item \in ItemsAt(lists, k)
    THEN [status |-> "EITEMEXISTS", map |-> lists]
    ELSE [status |-> "OK", map |-> Bind(lists, k, ItemsAt(lists, k) \cup {item})]

\* The key stays when its last item goes: an empty list is not a missing one.
StoreRemoveFromList(lists, k, item) ==
    IF k \notin DOMAIN lists
    THEN [status |-> "EKEYNOTFOUND", map |-> lists]
    ELSE IF item \notin lists[k]
    THEN [status |-> "EITEMNOTFOUND", map |-> lists]
    ELSE [status |-> "OK", map |-> Bind(lists, k, lists[k] \ {item})]
=============================================================================
