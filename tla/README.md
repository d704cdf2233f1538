# d-tribbler: TLA+ models, checks and proofs

d-tribbler is a small replicated micro-blogging service. Clients talk to *Tribbler
servers*, which keep no data; each Tribbler server talks to one *key-value server*
(its entry); the key-value servers hold complete replicas and send each other every
write. All calls are synchronous Thrift calls, and every server is one thread
(`TSimpleServer`) that serves one connection at a time.

The specifications here follow the source under `src/`. Line numbers without a file
name are of `src/src/KeyValueStore_server.cpp`.

## 1. Inventory

| Part | Source | State | Operations | Modelled in |
|---|---|---|---|---|
| Cluster: boot, membership, replication | `src/src/KeyValueStore_server.cpp` | `_status`, `_runningServer`, where the thread stands, calls in progress | constructor (`FindRunningServer`, `GetDataFromServer`, `JoinCluster`), `Get`, `GetList`, `Put`, `AddToList`, `RemoveFromList`, `processCommand`, `RPC_*` | `KVCluster` |
| Storage of one server | same, 505-597 | `_simpleStorage`, `_listStorage` | `_Get`, `_GetList`, `_Put`, `_AddToList`, `_RemoveFromList`, `setServerInfo`, `isTribble` | `KVStore` |
| Vector timestamps | `src/src/VectorTimestamp.cpp` | the vector | constructors, `Inc`, `Update`, `operator<` | `VectorTimestamp` |
| Messages | `src/src/Message.cpp` | contents and stamp | `ToJSON`, `ToMessage` | `Message` |
| Tribbler server | `src/src/Tribbler_server.cpp` | none between calls | `CreateUser`, `AddSubscription`, `RemoveSubscription`, `PostTribble`, `GetTribbles`, `GetTribblesBySubscription`, `GetSubscriptions` | `Tribbler`, its queue of tribbles in `TribbleFeed`; what it promises in `SocialNetwork` |
| RPC layer | `src/*.thrift`, `src/include/*` (generated) | connections | `send_*`, `recv_*`, `dispatchCall`, `process_*`, `read` and `write` of every struct | `ThriftRpc` with `ThriftStruct`, `KeyValueStoreService`, `TribblerService`; what it promises in `RemoteCall` |
| Test client | `src/src/Tribbler_client.cpp` | none | one script over one connection (41-129), which ends when a call throws | `TribblerClient` |
| jsoncpp | `src/src/jsoncpp` | - | JSON parser | vendored; what is needed of it is in `ToMessage` |

**How they interact.** A Tribbler server opens a connection to its entry server, sends
one request, waits, and closes it. The entry server applies a write to its own maps
and then calls every peer in `_runningServer` in turn, in the order of their indices,
from inside the handler: while it does so it serves nobody. Peers tell a Tribbler
server's request from a peer's by the client id and apply a peer's write without
passing it on. An operation of a Tribbler server is one to many such calls, one after
the other, with nothing locked in between. A server that boots asks every peer for its status, copies users and
subscriptions from the first one that runs, and sends every peer the command
`join cluster`; a peer that takes the command adds it to its `_runningServer`. A
server that fails to answer is erased from the caller's `_runningServer`.

**What is hard here.** Nested synchronous calls between single-threaded servers
(mutual waiting); writes of several entry servers that cross each other; a server that
joins while writes go on; a peer that dies, or is not listening yet, in the middle of a
broadcast; requests that outlive their callers; operations that check with one call and
act with another; answers that are told apart by nothing but their order on a connection; vector clocks that have to order
tribbles the same way on replicas that store different stamps of them; contents that are
pasted into JSON without being escaped, so that a reader may find anything in a tribble, or
fail on it; and undefined behaviour: the broadcast loop's iterator stands on the element
that a failed call erases (452, 476, 500), and `Update` writes as many components as it was
given.

**What makes each part correct.**

* Storage: the operations return the status that the state justifies and change nothing
  when they fail.
* Timestamps and messages: a server's clock covers the stamp of every tribble it stores
  that is read back as it was posted; a new one sorts after everything its author could
  have seen; any two replicas show them in the same order.
* Replication: replicas differ only while a write is on its way; no broadcast stops
  half-way; nobody holds anything that was not written.
* Membership: only servers that have finished copying are members; a server that has
  joined holds the data and answers.
* Tribbler server: a user is created once, and completely; whoever follows or is followed
  exists, and nobody follows himself; a client who is told that something is done finds
  it done at every server, and one who is told why it is not is told the truth; seen
  through one entry server, an operation happens at one moment.
* Feeds: a feed is the newest tribbles there are, newest first, and of those there is
  room for none is missing.
* RPC layer: the answer a caller gets is what the handler returned to this call; a call
  is run once at most; every call ends.
* Calls: a caller waits exactly when its request is alive at the server it called;
  every call returns; no servers wait for each other.

Not all of this holds; section 4 says what does, under which circumstances, and
section 5 lists where the code does something else than its documentation says.
`PROJECT.json` lists the hazards of the code line by line with the properties that
guard against each.

## 2. Modules

| Module | Contents |
|---|---|
| `VectorTimestamp` | stamps, `Inc`, `Update`, the two orders in use |
| `Message` | items of lists and the conversion of tribbles to text and back |
| `KVStore` | keys and the operations on one server's two maps |
| `KVCluster` | the state machine |
| `KVClusterProperties` | the properties and the invariants used in proofs |
| `MCKVCluster` | plans of calls and constraints for TLC |
| `KVClusterProofs` | the inductive invariant, type correctness; that members have their copy, and that a cluster with one entry never waits for itself |
| `KVClusterTimestampProofs` | proofs about stamps, about calls, and that tribbles are in one order everywhere |
| `KVClusterReplicationProofs` | proofs that replicas stay alike and that a joining server invents nothing |
| `Feed` | what a feed of some tribbles is |
| `TribbleFeed` | the two loops over the priority queue |
| `MCTribbleFeed`, `TribbleFeedProofs` | six tribbles for TLC; proofs that both loops are right |
| `Tribbler` | the Tribbler servers' operations on top of `KVCluster` |
| `TribblerProperties` | what clients can rely on |
| `TribblerClient` | the script of `Tribbler_client.cpp` and what it expects |
| `SocialNetwork` | abstract: users, subscriptions and tribbles without servers |
| `TribblerRefinement` | how `Tribbler` implements `SocialNetwork` |
| `MCTribbler` | scripts for TLC |
| `TribblerProofs` | proofs about the composition: types, the order of tribbles, sources of entries, replicas, users, subscriptions, statuses |
| `TribblerFeedProofs` | proofs about feeds: that they are complete and in order |
| `TribblerRefinementProofs` | proofs that `Tribbler` implements `SocialNetwork` and that the sample client's script works |
| `ThriftStruct` | classes by their fields, objects, `read` and `write` |
| `KeyValueStoreService`, `TribblerService` | the classes, client objects and processors of the two `.thrift` files |
| `RemoteCall` | abstract: what a caller relies on |
| `ThriftRpc` | connections between client objects and one server |
| `ThriftRpcProperties` | the properties and the inductive invariant |
| `MCThriftRpc`, `ThriftRpcProofs` | a Tribbler server and three clients for TLC; the proofs |

From `VectorTimestamp` to `KVClusterProperties` each module extends the one before it.
`Tribbler` extends `KVCluster`, so that its behaviours are those of a whole system: the
Tribbler servers' calls go through the queues, broadcasts and crashes of the cluster, and
not to a store that answers at once. `ThriftRpc` stands on its own; what it shows is the
assumption that `Send` and `Reply` of `KVCluster` make about a call, that its answer is the
handler's answer to it and that only a broken connection loses it. `TribbleFeed` stands on
its own too: its loop touches nothing but local variables, so `Tribbler` takes a feed in
one step, as the `Feeds` of `Feed` that the loops are shown to produce.

### State of `KVCluster`

| Variable | Code |
|---|---|
| `pc[s]` | where the only thread of server `s` is: `down`, in one of the constructor's loops (`find`, `users`, `subs`, `join`), in `serve()` or in the middle of a broadcast (`bcast`). `_status` is a function of it: RUNNING exactly in the last two. |
| `idx[s]` | `i` of the boot loops, `*it` of the broadcast loop; `N - 1` is past the end |
| `target[s]`, `todo[s]` | `target` of the constructor; the users `GetDataFromServer` has not come to |
| `job[s]` | the arguments of the handler that is broadcasting, with the caller's connection |
| `running[s]` | `_runningServer`, a set of indices into the peers of the command line |
| `simple[s]`, `lists[s]`, `vt[s]` | `_simpleStorage`, `_listStorage`, `_vt` |
| `call[p]` | the outgoing call of server or Tribbler server `p`: `idle`, `waiting`, `done` with an answer, or `broken` (an exception) |
| `inbox[s]` | connections to `s` in the order they were opened: the listen backlog |
| `plan[c]`, `faults` | calls a Tribbler server may still make; processes that have died and handlers of servers that threw, so far |
| `starts[s]` | how often `s` has come to serve; it belongs to no process and only states properties |

### Actions

An action is what a thread does between two points where another process can have
an influence: from the answer of one call to the sending of the next. The handlers for
calls that do not broadcast are one action each. A handler that broadcasts is the action
that writes locally (`Put`, `AddToList`, `PostTribble`, `RemoveFromList`) followed by
the `Bcast*` actions of the loop. The constructor is cut at its calls in the same way.

* A call to a server that is not listening fails at once (the connection is refused).
  A server listens from the end of its constructor (627-634), not from its start.
* There is no socket timeout anywhere, so a call ends with the answer or with the
  callee's death and in no other way.
* When a caller dies its request stays in the callee's queue and is executed; the
  answer goes nowhere (`Orphaned`). This is how a TCP backlog behaves.
* `BcastErased` and `BcastFault` are the outcomes of incrementing an iterator to a freed
  node of the set: the loop goes on at any element that is left (an earlier one
  included), at the end, or the process dies. Which one depends on the allocator and on
  the shape of the tree.
* `GiveUp` is `exit(1)` (73-78).
* Strings are abstract: a key is a name and one of three suffixes, contents are
  elements of `Text`. `Unescaped` are contents with a character that `ToJSON` ought to
  escape (`Message.cpp:18`). What `ToMessage` makes of a tribble with such contents is
  determined by the contents, and `Misread` is any function that says so: it may return
  another value, with the tribble's own stamp (`own`), none, or any other vector of any
  length; throw, since `asString` and `asInt` do on a member of another type (33, 36); or
  abort the process, by an assertion of jsoncpp. That the parser was not content is printed
  and otherwise ignored (27). `Bare` is the same for a text that `ToJSON` did not print, as
  tribbles of the user without a name are stored (`isTribble`, 269) and yet read by
  `ToMessage`. The runs take contents of each kind.
* A peer reads every tribble it is sent. `ReceiveTribble` merges the stamp that was read,
  whichever it is, and stores the text as it came. `ReceiveThrows` answers the broadcast
  with an exception, after which the broadcasting server erases the peer (476).
  `ReceiveFault` is the death of the process, by an assertion or because `Update` wrote
  past the end of the clock; a write past the end may also go unnoticed, and then
  `ReceiveTribble` is what happens.

### State and actions of `Tribbler`

| Variable | Code |
|---|---|
| `work[c]` | where the only thread of Tribbler server `c` is inside an operation: which call to the store is out (`stage`), the operation's arguments (`task`), the rest of the loop over the subscriptions (`subs`) and the tribbles collected (`found`) |
| `script[c]` | calls the client of `c` has still to make |
| `told` | every answer given to a client, with what had been answered before the operation began (`known`); it belongs to no process and only states properties |

A handler is cut at its calls to the store, and an action takes one answer and makes the
next call. `Accept` starts every operation with `CheckUser`; `CreateUser` and
`CreateListed` are `CreateUser`'s check and its two writes; `UserChecked` branches into the
other operations and `OtherChecked` is the second check of the two subscription operations;
`Written`, `PostsRead`, `SubscriptionsRead` are the ends of the short ones. `CheckedAgain`,
`FeedBegins` and `FeedGoesOn` are `GetTribblesBySubscription`, whose call of
`GetSubscriptions` looks up its user once more and whose loop asks for one subscription
after the other. `Throws` is any of them when the call to the key-value server fails, and
`ReadThrows` one of the two feeds when `ToMessage` throws: the handler does not catch the
exception, the client gets it (`Excepts`), and its script ends. `TribblerAborts` is a feed
in which jsoncpp ends the process, `TribblerCrash` any other death of it.

### State and actions of `ThriftRpc`

`client[x]` and `link[x]` are what the two ends of connection `x` are doing, `sent[x]` and
`replied[x]` the messages between them, `backlog` the connections not accepted yet, `job`
the call in the hands of `process_*`. `SendCall` and `Receive` are `send_*` and `recv_*`
(with the exceptions and the reply types and names that `recv_*` looks at; one it does not
expect leaves it `stuck`, reading for the struct that does not follow); `Dispatch` and
`Reject` are `dispatchCall` with the reading of the arguments; `Handle` and `Reply` are
the rest of `process_*`. A struct is written as the list of its fields and read field by
field; one that is missing or has another type leaves the object's as it was, and
`__isset` says which were there. The Thrift library's server is `Accept`,
`HangUp` and the crashes: one connection at a time, until its end.

### Initial states

`Init` of `KVCluster` is a cluster of which servers `1..B` have booted one after the other and no
Tribbler server has made a call; with `B = 1` the boot of the others is part of the
behaviour. `TInit` adds clients with scripts that have not begun; `ThriftRpc` begins
with a server that listens and no connections.

## 3. Properties and runs

The runs about the cluster use three servers (`N = 3`): one may broadcast to two peers, so
that a broadcast can be cut between them, a third one can write or join in the meantime,
and an erased member can be the first or the last of the loop. Two Tribbler servers make
at most three or four calls each (`Plan`), because a conflict takes two, and a third shows what
follows from it. The runs about Tribbler servers use two servers (`N = 2`), since what an
operation sees of another server is what one broadcast brings. `MaxCrashes` bounds the
kills that the environment makes; a fault of the broadcast loop and a handler that throws or
dies of what it reads count too, and the constraint `FewCrashes` cuts off what follows one
after the last kill. Stamps are not bounded: each plan has few calls.

| Run | Instance | Checks | Distinct states |
|---|---|---|---|
| `writes` | all up; writes through servers 1 and 3, of one of two plans (`OnePlan`). Posts, one of them (`OneUnreadable`) of contents that are read as others, with a forged stamp, with one that is too long, that throw or that abort, and a creation that only advances a clock; one crash or other fault of any process; reboots. Or, without crashes, users, the list of users, a tribble and subscriptions, each key through one of the servers | `NewPostIsNewest`, `TypeOK`, `StampsKnown`, `OneRequestPerCall`, `DifferOnlyInBroadcasts`, `PeersNeverReject` | 1.0 million |
| `order` | servers 1 and 2 up, server 3 boots; posts by two users through servers 1 and 3, one of them read as another; one crash of any server or Tribbler server; reboots | `OwnClockLeads`, `OrderAgreement` | 2.9 million |
| `joins` | server 1 up; the others boot at any time, together or not, while additions go to server 1 | `MembersSynced`, `NothingInvented` | 857 thousand |
| `liveness` | servers 1 and 2 up; one write and one read through server 1; one crash; boots | `CallsReturn`, `BootEnds`, `NoWaitCycle` | 255 thousand |
| `shared` | two Tribbler servers with an entry server each; scripts that create the same users, and users with reserved names; add and remove the same subscription; post by the same user (perhaps something that is read as another post, or with a stamp of its own) and show the feed, which has room for two of four tribbles; post by a user without a name, one thing twice or something that throws or aborts, and show that | `TribblerTypeOK`, `CreatedOnce`, `ToldIsStored`, `SubscriptionsSound`, `StatusesTrue`, `FeedsComplete`, `FeedsInOrder` | 699 thousand |
| `network` | two Tribbler servers with one entry server and a replica; the sample client's script alone, or one client who posts while another subscribes and follows; one crash | `ImplementsSocialNetwork`, `OperationsEnd`, `ScriptWorks`, `FeedsComplete` | 550 thousand |
| `rpc` | a Tribbler server, two clients, and a third with the client object of the other service; two calls each; one crash of either side; restarts | `ImplementsRemoteCall`, `CallsEnd`, `InStep`, `AnswersFit` | 83 thousand |
| `feed` | both loops over six tribbles, with room for three: one without a stamp, two with the same, two that are concurrent, in every order of the lists | `KeepsNewest`, `AnswersFeed` | 146 |
| `ready`, `sync`, `duplicate`, `notfound` | see section 5 | one property each, violated | - |

What they show:

* `NewPostIsNewest`: a readable post that a server takes from a Tribbler server sorts after
  every readable tribble that the server stores (in the order `GetTribbles` uses), hence a
  reply after what it replies to. `StampsKnown` is the reason: the clock covers what is
  stored. A tribble is readable (`IsReadable`) if it is read back as it was posted. Of the
  others nothing of the kind can be said: the author's server stores them without reading
  them, and they are shown with whatever stamp their contents bring. What the two
  properties say is that they do no harm to the readable ones, although every peer merges
  such a stamp into its clock.
* `OwnClockLeads`, `OrderAgreement`: nobody knows more of a clock than its owner, and any
  two servers order any two readable tribbles alike, although the author's server stores
  each one with the stamp before the one it sends. Crashes of servers and Tribbler servers
  do not end this, nor does a server that boots for the first time; a server that comes to
  serve for a second time does, since its clock starts at zero (46). Both are stated under
  `NobodyIsBack`, which is `starts[s] <= 1`. A forged stamp ends it too: a peer that merges
  one knows more of a clock than its owner and may stamp two posts alike. Hence the
  theorems assume `NoForgery`, and the run posts no contents with a stamp of their own
  making (with such contents TLC finds `OwnClockLeads` violated).
* `DifferOnlyInBroadcasts`, `PeersNeverReject`: without crashes and late joins, and with
  every key written through one server, two servers differ in a key only while a
  write to it is being broadcast, and no broadcast is turned down. The proofs showed that
  the condition is needed, for additions too. When two of three servers, 2 and 3, accept
  the same addition at once, one of the broadcasts reaches server 1 first, and server 1
  turns the other one down. With four servers the broadcasts of 2 and 3 can stop each
  other before either has come to server 4, which never hears of the addition; the list of
  users is written this way when two `CreateUser`s of one name meet. With two servers
  both wait for ever instead. The runs with two entries turn TLC's deadlock check off for
  that reason (`writes`, `order`, `notfound`, `shared`); the other runs leave it on.
* `MembersSynced`: nobody is in anybody's `_runningServer` before it has its copy.
  `NothingInvented`: a joining server ends up with nothing that the entry server does
  not have, with the exception the definition names. (The converse is false: writes
  between copy and announcement are lost to the joining server, and so are tribbles.)
* `OneRequestPerCall`: no answer is lost or given to the wrong call, whatever crashes,
  comes back and calls again while an old request of its is still queued.
* `NoWaitCycle`: when all Tribbler servers use one entry, there is never a set of servers
  that wait for each other. `CallsReturn` and `BootEnds` draw the consequence.

* `CreatedOnce`, `ToldIsStored`, `SubscriptionsSound`, `StatusesTrue`: what the clients of
  Tribbler servers at different entries can build on although `CreateUser`, for instance, is
  three calls with nothing locked. Two `CreateUser`s of one name may both pass the check
  and both write; `Put` or a peer's refusal then lets one of them answer OK at most. What
  was answered OK is at every server by the time of the answer. These hold until the
  first crash (`faults = 0`), and not for a user `server_syscmd`, whose `Put` is taken
  for a command and stored nowhere. `CreatedOnce` is proved for any entries; the others for
  one entry server and checked with two servers in all, because of the addition above:
  with four servers and two entries, `CreateUser` ignores that the list of users was not
  written everywhere and answers OK. `StatusesTrue` says of every status but
  OK when it may be given. `EEXISTS` and `STORE_FAILED` mean that somebody else has asked for
  the same creation, subscription or post, or that the servers use the name themselves
  (`OwnNames`); a failed removal that nobody else has asked for means that nothing had been
  added: of two that meet, the loser may hear of it first. A post is only ever there already
  for the user without a name, whose tribbles carry no stamp (its key is only the suffix, 269).
  An exception means that the operation shows somebody who has posted what `ToMessage` throws
  on; nothing else fails inside.
* `FeedsComplete`, `FeedsInOrder`: a feed leaves no tribble out that was answered before the
  feed was asked for, unless it is full, and shows each in the way it is read back
  (`SeenAs`), readable or not; a post that another one could know of never stands
  above it, whichever servers the two went through. `FeedsInOrder` needs the order of the
  stamps to be the same on replicas that store different stamps. It speaks of legible posts
  (`Legible`): readable ones that no unreadable post of the same user looks like, for that
  one stands where the stamp it is read with puts it.
* `ImplementsSocialNetwork`: through one entry server, `Home`, operations are atomic. The
  network's users, subscriptions and tribbles are what `Home` stores; an operation takes
  effect when `Home` handles its last call, even if replicas hear of it later, and its
  answer is decided then. A tribble's number in the network is its place in the order of
  the stamps, so the refinement also says that every post is numbered after all others.
  Only the feed by subscription is several steps in `SocialNetwork` too, one for each user
  looked at. It starts with the two names that the servers' own keys make users of
  (`server_id`, `server_status`). The refinement holds for tribbles that can be read back,
  for users with names of their own (`ScriptsFit`), and until a process crashes.
* `ScriptWorks`: the answers the sample client checks or prints are the ones its script
  expects, among them an empty feed, and no failure, for a user whose only subscription
  has posted nothing.
* `InStep`, `AnswersFit`: a caller that waits has exactly one message under way, of the call
  it made, so that `recv_*` may take the next answer for its own, and it never meets an
  answer without a result. Neither holds by a check in the code: the sequence number is 0
  in every message.
* `ImplementsRemoteCall`: each call runs at most once, with its own arguments, and its
  outcome is the run's, or a failure. A failed call may have run, or may run yet.
* `KeepsNewest`, `AnswersFeed`: `GetTribbles` compares an index before it counts and
  `GetTribblesBySubscription` a count after it, with `>=` and `>`; both keep the newest
  tribbles, no fewer and no more than there is room for, through a reversed `operator<`,
  and reverse them at the end.

**Fairness.** `CallsReturn` and `BootEnds` assume weak fairness of what each key-value
server's process does by itself (`ServerStep`) and of each Tribbler server taking its answer
(`ClientReturn`); `OperationsEnd` of the same and of each Tribbler server's `OperationStep`.
`CallsEnd` assumes it of the server and of each caller receiving what is there and closing
its connection: no program here keeps a connection open without using it, and a client
that did would keep the server's one thread for itself. All this is the operating system's
scheduling of runnable threads: a thread with something to do is never disabled by others,
so weak fairness is enough. Nobody is obliged to start a server, to crash or to make a
call.

**Mutants.** Each property of a passing run is listed in `PROJECT.json` with a variant of a
definition (a loop that retries, an index that is off by one, an ignored merge ...), kept
next to the definition it varies, under which the run must fail.

## 4. Proofs

TLAPS proves the following for every `N`, every set of Tribbler servers, `Entry`, `Plan`,
`B` and `MaxCrashes`, every set of `Unescaped` contents and whatever they are read as,
from the assumptions named in the modules (`NAssumption`, `MessageAssumption`,
`TextAssumption`, `ClusterAssumption`, `PlanAssumption`), of which the last says that a
Tribbler server sends plain items and never the command `join cluster`.
(For a Tribbler server's id `processCommand` would compute the index -1; `CreateUser`
stores a name under itself only, so that the key `server_syscmd` never comes with that
value. The proofs need neither part; the runs stay within both.)

| Theorem | Statement |
|---|---|
| `TypeCorrect` | `Spec => []TypeOK` |
| `CoreCorrect` | `Spec => []CoreInv` |
| `RequestsMatchCalls` | `Spec => []OneRequestPerCall` |
| `StampsAreKnown` | `Spec => []StampsKnown` |
| `NewPostsAreNewest` | `Spec => NewPostIsNewest` |
| `OwnClocksLead` | `NoForgery` implies `Spec => []OwnClockLeads` |
| `TribblesStayInOrder` | `PostedOnce` and `NoForgery` imply `Spec => []OrderAgreement` |
| `NoMutualWait` | `OneEntryOnly` implies `Spec => []NoWaitCycle` |
| `MembersAreSynced` | `Spec => []MembersSynced` |
| `ReplicasStayAlike` | `B = N`, one writer for each key and several entries imply `Spec => [](DifferOnlyInBroadcasts /\ PeersNeverReject)` |
| `NothingInventedAlways` | `OneEntryOnly`, `AddsOnly` and `EntriesUp` imply `Spec => []NothingInvented` |

For every set of scripts and every `MaxTribbles` (`ScriptAssumption`, `NoPlanAssumption`),
for the composition of Tribbler servers and cluster:

| Theorem | Statement |
|---|---|
| `TribblerTypesCorrect` | `TSpec => []TribblerTypeOK` |
| `StoreServesTribblers` | `TSpec => [](TypeOK /\ StampsKnown /\ OneRequestPerCall) /\ NewPostIsNewest` |
| `TribblersNeverBlock` | `OneEntryOnly` implies `TSpec => []NoWaitCycle` |
| `TribblersSyncMembers` | `TSpec => []MembersSynced` |
| `TribblersKeepClocks` | `NoForgery` implies `TSpec => []OwnClockLeads` |
| `TribblersAgreeOnOrder` | `ScriptsPostOnce` and `NoForgery` imply `TSpec => []OrderAgreement` |
| `TribblersInventNothing` | `OneEntryOnly`, `ScriptsAdd` and `EntriesUp` imply `TSpec => []NothingInvented` |
| `UsersCreatedOnce` | `B = N` implies `TSpec => []CreatedOnce` |
| `TribblersKeepReplicas` | `B = N`, `OneEntryOnly` imply `TSpec => [](DifferOnlyInBroadcasts /\ PeersNeverReject)` |
| `ToldIsStoredAlways` | the same imply `TSpec => []ToldIsStored` |
| `SubscriptionsSoundAlways` | the same imply `TSpec => []SubscriptionsSound` |
| `StatusesTrueAlways` | the same imply `TSpec => []StatusesTrue` |
| `FeedsCompleteAlways` | the same imply `TSpec => []FeedsComplete` |
| `FeedsInOrderAlways` | the same imply `TSpec => []FeedsInOrder` |
| `NetworkImplemented` | the same and `ScriptsFit` imply `TSpec => ImplementsSocialNetwork` |
| `SampleWorks` | the same and `MaxTribbles > 0` imply `SampleAlone /\ TSpec => []ScriptWorks` |

`NoForgery` says that contents which are read back at all are read with the tribble's own
stamp or with none. `B = N` says that the cluster is complete at the start: servers that join later lack tribbles
(section 5). `OneEntryOnly` says that all Tribbler servers are configured with one key-value
server, `Hub` in the proofs; with several the properties fail as section 3 tells. `ScriptsFit` leaves out the name
`server_syscmd`, which the key-value server takes for a command, posts by the user with the
empty name, which it stores without a stamp, and contents that cannot be read back.
`SampleAlone` says of the first state that one client is to run the sample script and nobody
else anything, as in half of the initial states of the run `network`.

For every set of connections, services, calls and answers whose classes fit
(`RpcAssumption`, `ClassesAgree`: both sides are generated from one file), and for every
finite set of tribbles with an order whose ties are transitive (`FeedAssumption`,
`OlderAssumption`):

| Theorem | Statement |
|---|---|
| `RpcInvariant` | `Spec => []RpcInv` |
| `InStepAlways`, `AnswersFitAlways` | `Spec => []InStep`, `Spec => []AnswersFit` |
| `Implements` | `Spec => ImplementsRemoteCall` |
| `QueueIsNewest`, `FeedIsRight` | `Spec => []KeepsNewest`, `Spec => []AnswersFeed` |

**The inductive invariant.** `TypeOK` is not inductive: `idx[s] + 1` stays in range only if
the loop has not ended, an answer is only usable if it finds its caller in the loop that
asked for it, and `processCommand` computes a peer's index only if the caller is not the
server itself. `LoopsOK` and `NoSelfCalls` say so, and `CallsOK` (a waiting caller has
exactly one live request, at the server it called) is what keeps answers away from callers
that have moved on, also through crashes. `CoreInv` is their conjunction. Its proof
has lemmas for what is common to actions (sending, answering, forgetting a call, taking a
request, halting), then one step for every action of `Next`.

**Stamps.** `StampsInv` adds that what a booting server copies is never a list of
tribbles, so that `AddToList` is the only way for a tribble into a map; there `Update`
makes the clock cover it if it is readable, and whatever else is merged makes the clock
larger (`KnownGrows`). `CausesSortFirst` (a stamp that is covered and smaller in
one component comes first lexicographically) then gives `NewPostsAreNewest`.

**Clocks.** `LeadInv` says of a server that serves what `OwnClockLeads` says, and of every
stamp that may yet reach a clock too: those in queues and those being broadcast. `Update`
takes maxima, so a clock passes on only what it has read, and what is read of a stamped
tribble is its own stamp or none (`ReadStamp`, from `NoForgery`). The invariant speaks of the
servers whose clock has never been lost (`Trusted`): those that serve and those that never
did, whose component is zero everywhere. A server that boots for the first time passes from
the one to the other, and one that crashes drops out for good while `NobodyIsBack` holds;
`starts` only grows, so once that is false it stays false (`TrustLasts`).

**Order.** `LeadInv` alone does not give `OrderAgreement`: that compares stamps of two tribbles
which different servers hold different copies of. `Authored(by, sent)` traces each copy to its
post: `by` is the server that stamped it and `sent` the stamp it was broadcast under; a copy
has that stamp, or, at its author, one less in the author's component (`Own`). A server that
knows a post's own component knows the whole post (`Merged`), and so of two posts either one
author knew the other's post or neither did (`PostsKnown`); in both cases the two stamps are
compared the same way in all four pairs of copies. `by` and `sent` are not in the state: the
induction chooses them anew when a post is made (`Agrees`), which is where `PostedOnce` is
needed, that no two calls post the same contents by the same user: else one tribble has two
authors, and each server may list one or both. The request of a Tribbler server that died is
among those that may still be served, once each: `AskedAt` says of a post at which place of
which queue it waits, live or not. `Fresh(L)` carries that assumption through
queues to the handler, for any set `L` of posts that are still to be asked for: a post leaves
`L` when its call is made and has no copies until the call is served. For the cluster's own
clients `L` is what is left of the plans (`PlannedPosts`); for Tribbler servers it is what is
left of the scripts and of the operations that are still looking up their user (`PostsAhead`),
and the assumption is one about scripts, `ScriptsPostOnce`. Neither needs a complete cluster
or one entry server.

**Waiting.** `RoutesInv` says that Tribbler servers' requests lie at the one entry, so
that only that server can be in `bcast`, and that only listening servers have requests,
so that nobody waits for a booting server. A cycle would need a broadcasting server
that is waited for by another one that broadcasts too.

**Members.** `MembersInv` follows an announcement from its sender to the member set: what
is in `running[s]` has joined; a request `join cluster` in a queue comes from a server that
has; and whoever answers a booting server that it runs is past its own copy. All of it ends
with the first crash, which the property allows for.

**Composition.** A Tribbler server's step ends one call and makes the next, which the
cluster's own `Next` never does in one step, so the theorems about `Spec` do not carry over by
themselves. `ClientForgetCore` and `ClientSendCore` split such a step: forgetting an answer
keeps `CoreInv`, and so does sending a call that is idle. `AcceptProceeds` and
`OperationProceeds` show that every action of `Tribbler` has that form, with a call of the
right type, or is the end of its process (`Dies`); the invariants of the cluster follow for
`TSpec`, and with them what needs no more of the calls than that (`TribblerRoutes`,
`TribblerMembers`, `TribblerLeads`). Where a theorem about `Spec` has a
hypothesis on plans, the one about `TSpec` has it on scripts, and an invariant on the operations
that run carries it to their calls: `PostsOnce` that no post is ahead twice, `TasksAdd` that
none of them removes.

**Connections.** `RpcInv` says where the one message of a call is: sent, in the hands of
`process_*`, concluded, or replied; or nowhere, if the connection was cut. It says with it
what has been made, run and answered, which is all that `RemoteCall` talks about. `ReadBack`
and `ResponseBack` are the lemmas on data: reading what was written gives back the object,
for any class. `Implements` then maps each action to a step of `RemoteCall` or to none.

**Feeds.** The invariant is that the queue holds a newest part of what has been pushed, of
the size the loop allows; an oldest member that is popped leaves a newest part, and a list
filled with oldest members and reversed is a feed of the whole.

**Replicas.** While nobody crashes in a complete cluster, `Up` says that every server is
every other's member and that nobody boots. `Rep(W)`, for a function `W` from keys to the
servers that write them, says of two servers and a key that their values are the same but for
what the writer `W[k]` has still to send: the item or user of its `job`, at the peers its
loop has not come to (`Untold`) and whose request is not yet taken. Stamps differ on
purpose, so contents are compared by `Mark`, which forgets those of tribbles; that
a tribble is never turned down at a peer needs that no two tribbles of a list have the same
stamp there, hence `WriterStamps`: the writer's clock is ahead of all it has stored or sent in
its own component. `Rep` gives both properties at once.

**Sources.** `SourceHas(E)` follows whatever a server may come to hold back to the one entry
server `E`: every item that is stored, being broadcast, queued between servers or just answered
to a booting server is at `E`, and so is every user that a booting server has yet to copy;
every name is at `E` or in its list of users, which `CreateUser` writes first. `E` only grows
(`Keeps`) and stores what it is told before it broadcasts it. A joining server copies from any
that runs, not from `E` alone, hence the induction over all of them at once. `CopyCalls` and
`AddRequests` give that an answer is to the list that was asked for. The hypotheses are that
nobody removes (`AddsOnly`: a server that copied before a removal and joins after it keeps the
item) and that `E` is up at the start (`EntriesUp`); the argument ends with the first crash.

**Users.** `CreateInv` follows a name through every server: once any server has the name or
a `Put` of it has been answered OK, a second `Put` cannot be, whatever entries they use.
The argument is the order of the broadcast loops: of two servers that both accepted the name,
neither can get past the other, which already has it or waits.

**Answers.** `HubInv` is `Rep` with one writer and what `Hub`'s job has already stored there.
`ToldInv` says that what was answered OK is kept at every server, and that an answer on its way
to a Tribbler server is true at `Hub`; the step is `AnsweredByHub`: when a call is answered,
the broadcast is over and all servers are alike. `PairInv` adds what operations between two
calls rely on: a user that was looked up is still there when the addition is made.
`StatusInv` numbers answers (`NumbersOK`), so that "had been answered when it began" never
changes, and says of a look-up that failed that no creation had been answered by then, and
of a removal under way that its subscription is still at `Hub`, or somebody else asked for the
same thing, or it was this removal that took it. `Origins` says of a user, a subscription or
an unstamped post at `Hub` that somebody has asked for it, and `Refusals` of an operation that
is being turned down that somebody `Elsewhere` did; the operation itself cannot be the one, as
it writes once. That exceptions are true (`ThrowsTrue`) rests on what a feed finds and is part
of `FeedInv`, hence `StatusesTrueAlways` in `TribblerFeedProofs`.

**Feeds over several calls.** `FeedInv` says of a `GetTribblesBySubscription` between two
calls: for every followed user that it has dealt with, `found` holds every tribble whose post
was answered before the operation began, and everything found was posted by somebody
subscribed to. The lists of tribbles only grow (`PostsGrow`), so what was true when
a list was read remains true. `FeedShows` turns this into what the feed shows; `SeenRight`
says that a stored tribble is shown as its contents are read back, whatever its stamp. `OrderInv` says
that the stamps of two posts at `Hub` are in the order in which one was answered and the other
begun. A new readable tribble is stamped after every readable one (`NewPostLast`), so this can
only fail where a third post of the same contents takes part, which `IsUnique` leaves out, or
one that looks like them, which `Legible` does.

**Refinement.** The mapping reads everything from `Hub` (`HomeIsHub`), and from an operation its
answer as soon as `Hub` has handled the call that decides it: `DoingIn` gives that as a
function of the operation, the call and `Hub`'s status. `HubStep` sorts the steps of
servers by what they mean to clients: nothing; an answer without a write (`RepliesSeen`); a
write, from which the broadcast goes on (`TakesSeen`); the end of that broadcast
(`EndsSeen`), which the network does not see. `RepliesTrue` says that an answer about to be
given is what `Hub` stores at that moment, from `Rep` and the invariants of the other
theorems; `WriteSeen` and `NewTribble` say what a write makes of users, subscriptions and
tribbles. `NetInv` adds what only the refinement needs: that the tribbles at `Hub` are
sorted by their stamps, so that a new one gets the next number and the others keep theirs
(`NextNumber`, `NumbersStay`). That answers agree needs that there is one feed of some
tribbles and not two: `OneFeed` counts, for any order, how many tribbles are newer than the
one shown in a place (`Place`), `FeedExists` inverts that count, and `FeedsAgree` carries a
feed by stamps to one by numbers. The steps of a Tribbler server begin an operation
(`BeginsSeen`), change nothing in the network (`TurnsSeen`) or give the answer that has
been decided before (`TellsSeen`). None of them fails on what it reads, for scripts that fit
(`NothingThrows`).

**Sample client.** `SampleWorks` uses the refinement: of the network it is enough to know
which call the client has come to. `SampleRuns(c, n, m)` says that `n` calls of the script have
begun and `m` have taken effect, what the users, subscriptions and tribbles are after that many
(`UsersAfter`, `FollowsAfter`, `PostsAfter`), and that each answer is the right one for its
call. Every step of `SocialNetwork` keeps that (`SampleNext`), and every step of the
servers is one of those or none (`StepSeen`); `ToldPlain` takes an answer of the network back
to the one the client was given.

**Model-checked only.** `CallsReturn`, `BootEnds`, `OperationsEnd` and `CallsEnd` are liveness
under fairness, which is out of the prover's reach and stays with TLC, and so does induction
over data.

## 5. Where code and documentation differ

* `ready`: the constructor tells the others "I am ready" (79-81) before `main` opens the
  socket (627-634). A write broadcast in between is refused, and the writer erases the
  server from its members.
* `sync`: a server that joins "gets data from running server" (66) but no tribbles (163-175).
  The run lets servers boot only while Tribbler servers are silent (`QuietBoots`), so that
  no write interferes.
* `duplicate`: after a peer has died, the loop may visit a peer again from the erased
  iterator; its `EITEMEXISTS`, "duplicate in lists" (`KeyValueStore.thrift:16`), is
  returned for an item that was added once.
* `notfound`: a removal made at one server overtakes another server's broadcast of the
  addition at a third: it works, its client is told `EITEMNOTFOUND`, "item not found in
  lists" (`KeyValueStore.thrift:14`), and the replicas differ from then on.

## 6. Plan

Done: the storage, stamps, messages and the cluster, with proofs of its types, stamps,
clocks, calls, waiting, members, replicas and what a joining server copies; the feeds and the
RPC layer, proved throughout except for liveness; the Tribbler servers on the cluster and their
abstract specification, with proofs of all their invariants and of the refinement for one entry
server, and from that of the sample client's answers.

Left: the answers of Tribbler servers (`ToldIsStored` and the theorems after it) in a cluster
that servers join while it is used. What is told of every server then fails, as section 3 says of
`NothingInvented`'s converse, and so do statuses: a server that missed an addition while it
joined turns down the removal. What an operation reads comes from its one entry server alone, so
that `FeedsComplete` and `FeedsInOrder` should need `EntriesUp` in place of `B = N`; their proofs
use the replicas where they could do with that server.

## 7. Not modelled

* Broken links between live processes, and timeouts: there are none in the code, and TCP
  either delivers or the process waits. A network partition is therefore not a crash.
* The width of stamp components (64 bits, read back as 32): 2^31 writes are out of reach, and
  contents that bring a component of that size along, after which the next `Inc` would leave
  what `asInt` reads, are left out with them. Larger numbers that `asInt` refuses are contents
  that throw.
* jsoncpp, and which contents are read as what: vendored code, of which the model has the
  outcomes that the repository's own code can get out of it (`Reading`), one for each text. What
  a write past the end of the clock destroys is cut down to two outcomes, nothing that is used
  and the end of the process.
* Thrift's library: the bytes of its protocol and the insides of its server and sockets.
  `ThriftRpc` takes from it that a connection is two streams, that a reader skips fields it
  does not know, and that the server takes one connection at a time.
* What the programs print.
* How the two halves of `CreateUser` look after a crash between them: the cluster's runs crash
  at every point of such a plan, but the properties of users hold until the first crash only,
  because the code repairs nothing.
* `_notJoinedServer`, which is written and never read; the comparison operators of
  `Message` and `ToVectorTimestamp`, which have no caller.
* Command-line mistakes: ids that are not `1..N` in the order of the peers.
