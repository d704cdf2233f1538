----------------------------- MODULE KVCluster -----------------------------
(***************************************************************************)
(* The cluster of key-value servers (KeyValueStore_server.cpp).  Every     *)
(* server is one thread: it boots (finds the running servers, copies the   *)
(* users from the first of them, tells everyone it joins) and only then    *)
(* listens, serving one connection at a time in the order they arrive.  A  *)
(* write that comes from a Tribbler server is stored and then sent to the  *)
(* peers in _runningServer, one synchronous call after the other.          *)
(*                                                                         *)
(* A call blocks its caller until the callee answers (there is no socket   *)
(* timeout) or dies.  A server that is not listening refuses the call at   *)
(* once.  The call of a caller that died stays in the callee's queue and   *)
(* is executed all the same.                                               *)
(***************************************************************************)
EXTENDS KVStore, Sequences, FiniteSets

CONSTANTS
    Client,                     \* Tribbler servers
    Entry,                      \* the key-value server each of them talks to
    Plan,                       \* the calls each of them may still make
    B,                          \* servers 1..B have booted, one after the other
    MaxCrashes                  \* no process is killed after this many faults

Kind == {"Get", "GetList", "Put", "AddToList", "RemoveFromList"}

\* A call, with the plain part of KeyValueStore.thrift's five signatures.
Op == [kind : Kind, key : Key, item : Item]

ASSUME ClusterAssumption ==
    /\ Client \cap Server = {}
    /\ Entry \in [Client -> Server]
    /\ Plan \in [Client -> SUBSET Op]
    /\ B \in 0..N
    /\ MaxCrashes \in Nat

\* Tribbler servers send plain text, and put a name nowhere but under itself, so
\* that none of them ever asks to join, which an id like theirs could not do.
ASSUME PlanAssumption ==
    \A c \in Client : \A op \in Plan[c] :
        /\ op.item.vt = NoStamp
        /\ op.key = ServerSyscmd => op.item.value # "join cluster"

VARIABLES
    pc,         \* what each server's only thread is doing
    idx,        \* the index its current loop has reached (N - 1: past the end)
    target,     \* FindRunningServer's result, -1 for none
    todo,       \* GetDataFromServer: users not copied yet
    job,        \* the write being broadcast
    running,    \* _runningServer
    simple,     \* _simpleStorage
    lists,      \* _listStorage
    vt,         \* _vt
    call,       \* the outgoing call of every server and Tribbler server
    inbox,      \* connections accepted or waiting to be, with their requests
    plan,       \* calls the Tribbler servers have not made yet
    faults,     \* processes that have crashed, and servers' handlers that threw
    starts      \* how often each server has come to serve, which no process knows

vars == <<pc, idx, target, todo, job, running, simple, lists, vt, call, inbox, plan,
          faults, starts>>

Proc == Server \cup Client

\* "live" is FALSE once the caller has died and nobody reads the answer.
Request == [from : Proc, live : BOOLEAN, kind : Kind, key : Key, item : Item]

Status == {"OK", "EKEYNOTFOUND", "EITEMNOTFOUND", "EPUTFAILED", "EITEMEXISTS",
           "INTERNAL_FAILURE"}

Call == [st : {"idle", "waiting", "done", "broken"}, to : Server, op : Op,
         status : Status, values : SUBSET Item]

Phase == {"down", "find", "users", "subs", "join", "serve", "bcast"}

-----------------------------------------------------------------------------
(* Peers.  A server knows the others by their place on its command line,    *)
(* which lists them in the order of their ids.                              *)

Index == 0..(N - 2)
End   == N - 1

Peer(s, i) == IF i + 1 < s THEN i + 1 ELSE i + 2

\* Mutant of IndexOf: the caller's own place is counted.
IndexOfUnshifted(s, c) == c - 1

IndexOf(s, c) == IF c > s THEN c - 2 ELSE c - 1

\* Mutant of IsNext: the iterator is not advanced.
IsNextStuck(R, i, j) ==
    /\ j \in R \cup {End}
    /\ i <= j
    /\ \A k \in R : i <= k => j <= k

\* j is where an iterator over the index set R stands after i.
IsNext(R, i, j) ==
    /\ j \in R \cup {End}
    /\ i < j
    /\ \A k \in R : i < k => j <= k

-----------------------------------------------------------------------------
(* Calls. *)

NoOp == [kind |-> "Get", key |-> ServerStatus, item |-> Plain("")]

MakeCall(st, to, op, status, values) ==
    [st |-> st, to |-> to, op |-> op, status |-> status, values |-> values]

NoCall == MakeCall("idle", 1, NoOp, "OK", {})

\* The call as its caller sees it when it has been answered or has failed.
Ended(c, st, status, values) == MakeCall(st, c.to, c.op, status, values)

NoJob == [from |-> 1, live |-> FALSE, kind |-> "Get", key |-> ServerStatus,
          item |-> Plain("")]

MakeOp(kind, key, item) == [kind |-> kind, key |-> key, item |-> item]

OpOf(req) == MakeOp(req.kind, req.key, req.item)

\* Mutant of Listening: the socket is opened before the constructor runs.
ListeningEarly(s) == pc[s] # "down"

Listening(s) == pc[s] \in {"serve", "bcast"}

\* transport->open() and the write of the request.
Send(p, s, op) ==
    IF Listening(s)
    THEN /\ call' = [call EXCEPT ![p] = MakeCall("waiting", s, op, "OK", {})]
         /\ inbox' = [inbox EXCEPT ![s] =
                        Append(@, [from |-> p, live |-> TRUE, kind |-> op.kind,
                                   key |-> op.key, item |-> op.item])]
    ELSE /\ call' = [call EXCEPT ![p] =
                        MakeCall("broken", s, op, "INTERNAL_FAILURE", {})]
         /\ UNCHANGED inbox

\* The answer to req, which nobody reads if the caller has died.
Reply(req, status, values) ==
    call' = IF req.live
            THEN [call EXCEPT ![req.from] = Ended(@, "done", status, values)]
            ELSE call

Idle(p)     == call[p].st = "idle"
Answered(p) == call[p].st = "done"
Broken(p)   == call[p].st = "broken"

Forget(p) == call' = [call EXCEPT ![p] = NoCall]

\* Mutant of Orphaned: an answer goes to whoever has the caller's id by then.
OrphanedNever(req, p) == req

\* A request whose caller p has died is still there.
Orphaned(req, p) == IF req.from = p THEN [req EXCEPT !.live = FALSE] ELSE req

OrphanedCalls(q, p) == [n \in DOMAIN q |-> Orphaned(q[n], p)]

\* Process s ends: its callers see the connection close and it forgets everything.
Halt(s) ==
    /\ pc' = [pc EXCEPT ![s] = "down"]
    /\ idx' = [idx EXCEPT ![s] = 0]
    /\ target' = [target EXCEPT ![s] = -1]
    /\ todo' = [todo EXCEPT ![s] = {}]
    /\ job' = [job EXCEPT ![s] = NoJob]
    /\ running' = [running EXCEPT ![s] = {}]
    /\ simple' = [simple EXCEPT ![s] = NoMap]
    /\ lists' = [lists EXCEPT ![s] = NoMap]
    /\ vt' = [vt EXCEPT ![s] = Zero]
    /\ call' = [p \in Proc |->
                 IF p = s THEN NoCall
                 ELSE IF call[p].st = "waiting" /\ call[p].to = s
                 THEN Ended(call[p], "broken", "INTERNAL_FAILURE", {})
                 ELSE call[p]]
    /\ inbox' = [t \in Server |->
                   IF t = s THEN <<>>
                   ELSE OrphanedCalls(inbox[t], s)]
    /\ UNCHANGED <<plan, starts>>

-----------------------------------------------------------------------------
(* Initially servers 1..B have booted in turn, without clients, and each    *)
(* has told those before it, so that they all know each other; every        *)
(* "join cluster" was a Put, which advanced its receiver's own component.   *)

RunningInfo == SetServerInfo(BootInfo, ServerStatus, "running")

Init ==
    /\ pc = [s \in Server |-> IF s <= B THEN "serve" ELSE "down"]
    /\ idx = [s \in Server |-> 0]
    /\ target = [s \in Server |-> -1]
    /\ todo = [s \in Server |-> {}]
    /\ job = [s \in Server |-> NoJob]
    /\ running = [s \in Server |->
                    IF s <= B THEN {IndexOf(s, t) : t \in (1..B) \ {s}} ELSE {}]
    /\ simple = [s \in Server |-> IF s <= B THEN RunningInfo ELSE NoMap]
    /\ lists = [s \in Server |-> NoMap]
    /\ vt = [s \in Server |->
                IF s <= B THEN [Zero EXCEPT ![s] = B - s] ELSE Zero]
    /\ call = [p \in Proc |-> NoCall]
    /\ inbox = [s \in Server |-> <<>>]
    /\ plan = Plan
    /\ faults = 0
    /\ starts = [s \in Server |-> IF s <= B THEN 1 ELSE 0]

-----------------------------------------------------------------------------
(* The constructor: FindRunningServer, GetDataFromServer, JoinCluster.      *)

Boot(s) ==
    /\ pc[s] = "down"
    /\ pc' = [pc EXCEPT ![s] = "find"]
    /\ simple' = [simple EXCEPT ![s] = BootInfo]
    /\ UNCHANGED <<idx, target, todo, job, running, lists, vt, call, inbox, plan,
                   faults, starts>>

\* Mutant of FindCall: the server announces itself before it has copied anything.
FindCallAnnounced(s) ==
    /\ pc[s] = "find" /\ idx[s] # End /\ Idle(s)
    /\ Send(s, Peer(s, idx[s]), MakeOp("Put", ServerSyscmd, Plain("join cluster")))
    /\ UNCHANGED <<pc, idx, target, todo, job, running, simple, lists, vt, plan,
                   faults, starts>>

FindCall(s) ==
    /\ pc[s] = "find" /\ idx[s] # End /\ Idle(s)
    /\ Send(s, Peer(s, idx[s]), MakeOp("Get", ServerStatus, Plain("")))
    /\ UNCHANGED <<pc, idx, target, todo, job, running, simple, lists, vt, plan,
                   faults, starts>>

FindAnswer(s) ==
    /\ pc[s] = "find" /\ Answered(s)
    /\ IF call[s].status = "OK" /\ call[s].values = {Plain("running")}
       THEN /\ running' = [running EXCEPT ![s] = @ \cup {idx[s]}]
            /\ target' = [target EXCEPT ![s] = IF @ = -1 THEN idx[s] ELSE @]
       ELSE UNCHANGED <<running, target>>
    /\ idx' = [idx EXCEPT ![s] = @ + 1]
    /\ Forget(s)
    /\ UNCHANGED <<pc, todo, job, simple, lists, vt, inbox, plan, faults, starts>>

\* Mutant of FindRefused: the peer is tried until it answers.
FindRetried(s) ==
    /\ pc[s] = "find" /\ Broken(s)
    /\ Forget(s)
    /\ UNCHANGED <<pc, idx, target, todo, job, running, simple, lists, vt, inbox,
                   plan, faults, starts>>

\* RPC_Get erases the peer, which is not in _runningServer, and goes on.
FindRefused(s) ==
    /\ pc[s] = "find" /\ Broken(s)
    /\ running' = [running EXCEPT ![s] = @ \ {idx[s]}]
    /\ idx' = [idx EXCEPT ![s] = @ + 1]
    /\ Forget(s)
    /\ UNCHANGED <<pc, target, todo, job, simple, lists, vt, inbox, plan, faults,
                   starts>>

\* The end of the constructor; main goes on to listen.
FinishBoot(s) ==
    /\ pc' = [pc EXCEPT ![s] = "serve"]
    /\ simple' = [simple EXCEPT ![s] = SetServerInfo(@, ServerStatus, "running")]
    /\ starts' = [starts EXCEPT ![s] = @ + 1]
    /\ UNCHANGED lists

\* The first server up has nobody to copy from and does not announce itself.
FindDone(s) ==
    /\ pc[s] = "find" /\ idx[s] = End /\ Idle(s)
    /\ IF target[s] = -1
       THEN FinishBoot(s) /\ UNCHANGED target
       ELSE /\ pc' = [pc EXCEPT ![s] = "users"]
            /\ UNCHANGED <<simple, lists, target, starts>>
    /\ idx' = [idx EXCEPT ![s] = 0]
    /\ UNCHANGED <<todo, job, running, vt, call, inbox, plan, faults>>

UsersCall(s) ==
    /\ pc[s] = "users" /\ Idle(s)
    /\ Send(s, Peer(s, target[s]), MakeOp("GetList", UserList, Plain("")))
    /\ UNCHANGED <<pc, idx, target, todo, job, running, simple, lists, vt, plan,
                   faults, starts>>

UsersAnswer(s) ==
    /\ pc[s] = "users" /\ Answered(s)
    /\ IF call[s].status = "EKEYNOTFOUND"
       THEN pc' = [pc EXCEPT ![s] = "join"] /\ UNCHANGED todo
       ELSE /\ pc' = [pc EXCEPT ![s] = "subs"]
            /\ todo' = [todo EXCEPT ![s] = {item.value : item \in call[s].values}]
    /\ Forget(s)
    /\ UNCHANGED <<idx, target, job, running, simple, lists, vt, inbox, plan,
                   faults, starts>>

\* The copy of one user: _AddToList, then _Put.
UserCopied(s, u) ==
    LET added == StoreAddToList(lists[s], UserList, Plain(u))
        put   == StorePut(simple[s], UserKey(u), u)
    IN  /\ added.status = "OK" /\ put.status = "OK"
        /\ lists' = [lists EXCEPT ![s] = added.map]
        /\ simple' = [simple EXCEPT ![s] = put.map]

\* One of them fails.
CannotCopy(s, u) ==
    \/ StoreAddToList(lists[s], UserList, Plain(u)).status # "OK"
    \/ StorePut(simple[s], UserKey(u), u).status # "OK"

\* One round of the loop up to RPC_GetList; the order of the users is left open.
CopyUser(s, u) ==
    /\ pc[s] = "subs" /\ Idle(s) /\ u \in todo[s]
    /\ UserCopied(s, u)
    /\ todo' = [todo EXCEPT ![s] = @ \ {u}]
    /\ Send(s, Peer(s, target[s]), MakeOp("GetList", SubKey(u), Plain("")))
    /\ UNCHANGED <<pc, idx, target, job, running, vt, plan, faults, starts>>

\* Mutant of CopySubs: the items go to the list of users.
CopySubsMisfiled(s) ==
    /\ pc[s] = "subs" /\ Answered(s)
    /\ lists' = [lists EXCEPT ![s] =
                    Bind(@, UserList, ItemsAt(@, UserList) \cup call[s].values)]
    /\ Forget(s)
    /\ UNCHANGED <<pc, idx, target, todo, job, running, simple, vt, inbox, plan,
                   faults, starts>>

\* A subscription list that is missing or empty leaves nothing behind.
CopySubs(s) ==
    /\ pc[s] = "subs" /\ Answered(s)
    /\ lists' = [lists EXCEPT ![s] =
                    IF call[s].values = {} THEN @
                    ELSE Bind(@, call[s].op.key,
                              ItemsAt(@, call[s].op.key) \cup call[s].values)]
    /\ Forget(s)
    /\ UNCHANGED <<pc, idx, target, todo, job, running, simple, vt, inbox, plan,
                   faults, starts>>

\* exit(1): the target is gone, or a user has the name of a reserved key.
GiveUp(s) ==
    /\ \/ pc[s] \in {"users", "subs"} /\ Broken(s)
       \/ /\ pc[s] = "subs" /\ Idle(s)
          /\ \E u \in todo[s] : CannotCopy(s, u)
    /\ Halt(s)
    /\ UNCHANGED faults

CopyDone(s) ==
    /\ pc[s] = "subs" /\ Idle(s) /\ todo[s] = {}
    /\ pc' = [pc EXCEPT ![s] = "join"]
    /\ UNCHANGED <<idx, target, todo, job, running, simple, lists, vt, call, inbox,
                   plan, faults, starts>>

JoinCall(s) ==
    /\ pc[s] = "join" /\ idx[s] # End /\ Idle(s)
    /\ Send(s, Peer(s, idx[s]), MakeOp("Put", ServerSyscmd, Plain("join cluster")))
    /\ UNCHANGED <<pc, idx, target, todo, job, running, simple, lists, vt, plan,
                   faults, starts>>

\* Whatever the answer is, the loop goes on; no answer erases the peer.
JoinAnswer(s) ==
    /\ pc[s] = "join" /\ (Answered(s) \/ Broken(s))
    /\ running' = IF Broken(s) THEN [running EXCEPT ![s] = @ \ {idx[s]}] ELSE running
    /\ idx' = [idx EXCEPT ![s] = @ + 1]
    /\ Forget(s)
    /\ UNCHANGED <<pc, target, todo, job, simple, lists, vt, inbox, plan, faults,
                   starts>>

JoinDone(s) ==
    /\ pc[s] = "join" /\ idx[s] = End /\ Idle(s)
    /\ FinishBoot(s)
    /\ idx' = [idx EXCEPT ![s] = 0]
    /\ UNCHANGED <<target, todo, job, running, vt, call, inbox, plan, faults>>

-----------------------------------------------------------------------------
(* The handlers.  One takes the first connection and runs to its end, except *)
(* that a Tribbler server's write stops at every call of the broadcast.      *)

HasRequest(s, kinds) ==
    /\ pc[s] = "serve"
    /\ inbox[s] # <<>>
    /\ Head(inbox[s]).kind \in kinds

Take(s) == inbox' = [inbox EXCEPT ![s] = Tail(@)]

\* return status;
Finish(s, req, status, values) ==
    /\ Reply(req, status, values)
    /\ UNCHANGED <<pc, idx, job>>

\* The loop over _runningServer is about to make its first call.
Broadcast(s, req) ==
    /\ pc' = [pc EXCEPT ![s] = "bcast"]
    /\ job' = [job EXCEPT ![s] = req]
    /\ \E j \in 0..End : IsNext(running[s], -1, j) /\ idx' = [idx EXCEPT ![s] = j]
    /\ UNCHANGED call

\* Mutants of Conclude: nothing is broadcast; a removal stays on the server that made it.
ConcludeLocally(s, req, status) ==
    IF req.from \in Client /\ status = "OK" /\ req.kind # "RemoveFromList"
    THEN Broadcast(s, req)
    ELSE Finish(s, req, status, {})

\* After the local write: when it is a Tribbler server's and worked, its broadcast.
Conclude(s, req, status) ==
    IF req.from \in Client /\ status = "OK"
    THEN Broadcast(s, req)
    ELSE Finish(s, req, status, {})

\* The local write to a list.
WriteList(s, req, result) ==
    /\ lists' = [lists EXCEPT ![s] = result.map]
    /\ Conclude(s, req, result.status)
    /\ UNCHANGED simple

Read(s) ==
    /\ HasRequest(s, {"Get", "GetList"})
    /\ Take(s)
    /\ LET req == Head(inbox[s])
           r   == IF req.kind = "Get" THEN StoreGet(simple[s], req.key)
                                      ELSE StoreGetList(lists[s], req.key)
       IN  Finish(s, req, r.status, r.values)
    /\ UNCHANGED <<target, todo, running, simple, lists, vt, plan, faults, starts>>

\* processCommand: the caller's id is turned into its index here.
ProcessCommand(s, req) ==
    running' = IF req.item.value = "join cluster" /\ req.from \in Server
               THEN [running EXCEPT ![s] = @ \cup {IndexOf(s, req.from)}]
               ELSE running

Put(s) ==
    /\ HasRequest(s, {"Put"})
    /\ Take(s)
    /\ vt' = [vt EXCEPT ![s] = Inc(@, s)]
    /\ LET req == Head(inbox[s])
       IN  IF req.key = ServerSyscmd
           THEN /\ ProcessCommand(s, req)
                /\ Finish(s, req, "OK", {})
                /\ UNCHANGED simple
           ELSE LET result == StorePut(simple[s], req.key, req.item.value)
                IN  /\ simple' = [simple EXCEPT ![s] = result.map]
                    /\ Conclude(s, req, result.status)
                    /\ UNCHANGED running
    /\ UNCHANGED <<target, todo, lists, plan, faults, starts>>

\* AddToList of anything but a tribble.
AddToList(s) ==
    /\ HasRequest(s, {"AddToList"})
    /\ ~IsTribble(Head(inbox[s]).key)
    /\ Take(s)
    /\ LET req == Head(inbox[s])
       IN  WriteList(s, req, StoreAddToList(lists[s], req.key, req.item))
    /\ UNCHANGED <<target, todo, running, vt, plan, faults, starts>>

\* A Tribbler server's tribble is stored with one stamp and sent with the next.
PostTribble(s) ==
    /\ HasRequest(s, {"AddToList"})
    /\ IsTribble(Head(inbox[s]).key)
    /\ Head(inbox[s]).from \in Client
    /\ Take(s)
    /\ LET req    == Head(inbox[s])
           stamp  == Inc(vt[s], s)
           result == StoreAddToList(lists[s], req.key, ToJSON(req.item.value, stamp))
           resent == [req EXCEPT !.item = ToJSON(req.item.value, Inc(stamp, s))]
       IN  /\ vt' = [vt EXCEPT ![s] = IF result.status = "OK" THEN Inc(stamp, s) ELSE stamp]
           /\ WriteList(s, resent, result)
    /\ UNCHANGED <<target, todo, running, plan, faults, starts>>

\* A tribble from a peer, which the handler tries to read.
HasTribble(s, ends) ==
    /\ HasRequest(s, {"AddToList"})
    /\ IsTribble(Head(inbox[s]).key)
    /\ Head(inbox[s]).from \in Server
    /\ ReadEnds(Head(inbox[s]).item) = ends

\* It is stored as it came, after its stamp is merged.
ReceiveTribble(s) ==
    /\ HasTribble(s, "returns")
    /\ Take(s)
    /\ LET req == Head(inbox[s])
       IN  /\ vt' = [vt EXCEPT ![s] = Update(Inc(@, s), ToMessage(req.item).vt)]
           /\ WriteList(s, req, StoreAddToList(lists[s], req.key, req.item))
    /\ UNCHANGED <<target, todo, running, plan, faults, starts>>

\* process_AddToList catches what ToMessage throws and answers with an exception.
ReceiveThrows(s) ==
    /\ HasTribble(s, "throws")
    /\ Take(s)
    /\ vt' = [vt EXCEPT ![s] = Inc(@, s)]
    /\ LET req == Head(inbox[s])
       IN  call' = IF req.live
                   THEN [call EXCEPT ![req.from] =
                            Ended(@, "broken", "INTERNAL_FAILURE", {})]
                   ELSE call
    /\ faults' = faults + 1
    /\ UNCHANGED <<pc, idx, target, todo, job, running, simple, lists, plan, starts>>

\* An assertion fails, or Update has written past the end of _vt.
ReceiveFault(s) ==
    /\ \/ HasTribble(s, "aborts")
       \/ /\ HasTribble(s, "returns")
          /\ N < Len(ToMessage(Head(inbox[s]).item).vt)
    /\ Halt(s)
    /\ faults' = faults + 1

RemoveFromList(s) ==
    /\ HasRequest(s, {"RemoveFromList"})
    /\ Take(s)
    /\ LET req == Head(inbox[s])
       IN  WriteList(s, req, StoreRemoveFromList(lists[s], req.key, req.item))
    /\ UNCHANGED <<target, todo, running, vt, plan, faults, starts>>

-----------------------------------------------------------------------------
(* The broadcast loop of Put, AddToList and RemoveFromList.                 *)

BcastCall(s) ==
    /\ pc[s] = "bcast" /\ idx[s] # End /\ Idle(s)
    /\ Send(s, Peer(s, idx[s]), OpOf(job[s]))
    /\ UNCHANGED <<pc, idx, target, todo, job, running, simple, lists, vt, plan,
                   faults, starts>>

\* OK: on to the next peer.
BcastAnswer(s) ==
    /\ pc[s] = "bcast" /\ Answered(s)
    /\ call[s].status \in {"OK", "INTERNAL_FAILURE"}
    /\ \E j \in 0..End : IsNext(running[s], idx[s], j) /\ idx' = [idx EXCEPT ![s] = j]
    /\ Forget(s)
    /\ UNCHANGED <<pc, target, todo, job, running, simple, lists, vt, inbox,
                   plan, faults, starts>>

\* return status; to the Tribbler server, and no later peer hears of the write.
\* The call is forgotten and the job answered in one step.
BcastStop(s, status) ==
    /\ pc' = [pc EXCEPT ![s] = "serve"]
    /\ idx' = [idx EXCEPT ![s] = 0]
    /\ job' = [job EXCEPT ![s] = NoJob]
    /\ call' = [p \in Proc |->
                  IF p = s THEN NoCall
                  ELSE IF job[s].live /\ p = job[s].from
                  THEN Ended(call[p], "done", status, {})
                  ELSE call[p]]
    /\ UNCHANGED <<target, todo, running, simple, lists, vt, inbox, plan, faults,
                   starts>>

BcastRejected(s) ==
    /\ pc[s] = "bcast" /\ Answered(s)
    /\ call[s].status \notin {"OK", "INTERNAL_FAILURE"}
    /\ BcastStop(s, call[s].status)

\* Mutant of BcastErased: the peer is kept and tried until it answers.
BcastRetried(s) ==
    /\ pc[s] = "bcast" /\ Broken(s)
    /\ Forget(s)
    /\ UNCHANGED <<pc, idx, target, todo, job, running, simple, lists, vt, inbox,
                   plan, faults, starts>>

\* RPC_* erases the index its caller's iterator stands on, and the loop then
\* increments that iterator: it goes on at any index that is left, at the end ...
BcastErased(s) ==
    /\ pc[s] = "bcast" /\ Broken(s)
    /\ running' = [running EXCEPT ![s] = @ \ {idx[s]}]
    /\ \E j \in running'[s] \cup {End} : idx' = [idx EXCEPT ![s] = j]
    /\ Forget(s)
    /\ UNCHANGED <<pc, target, todo, job, simple, lists, vt, inbox, plan, faults,
                   starts>>

\* ... or nowhere: the freed node sends the process to a bad address.
BcastFault(s) ==
    /\ pc[s] = "bcast" /\ Broken(s)
    /\ Halt(s)
    /\ faults' = faults + 1

BcastDone(s) ==
    /\ pc[s] = "bcast" /\ idx[s] = End /\ Idle(s)
    /\ BcastStop(s, "OK")

-----------------------------------------------------------------------------
(* The environment: crashes, and the Tribbler servers' calls.               *)

Crash(s) ==
    /\ pc[s] # "down"
    /\ faults < MaxCrashes
    /\ faults' = faults + 1
    /\ Halt(s)

ClientCall(c) ==
    /\ Idle(c)
    /\ \E op \in plan[c] :
          /\ Send(c, Entry[c], op)
          /\ plan' = [plan EXCEPT ![c] = @ \ {op}]
    /\ UNCHANGED <<pc, idx, target, todo, job, running, simple, lists, vt,
                   faults, starts>>

\* The process of a Tribbler server ends in the middle of an operation.
ClientEnds(c) ==
    /\ faults' = faults + 1
    /\ Forget(c)
    /\ job' = [t \in Server |-> Orphaned(job[t], c)]
    /\ inbox' = [t \in Server |-> OrphanedCalls(inbox[t], c)]
    /\ UNCHANGED <<pc, idx, target, todo, running, simple, lists, vt, plan, starts>>

\* It is restarted then.
ClientCrash(c) ==
    /\ ~Idle(c)
    /\ faults < MaxCrashes
    /\ ClientEnds(c)

ClientReturn(c) ==
    /\ Answered(c) \/ Broken(c)
    /\ Forget(c)
    /\ UNCHANGED <<pc, idx, target, todo, job, running, simple, lists, vt, inbox,
                   plan, faults, starts>>

-----------------------------------------------------------------------------

BootStep(s) ==
    \/ FindCall(s) \/ FindAnswer(s) \/ FindRefused(s) \/ FindDone(s)
    \/ UsersCall(s) \/ UsersAnswer(s)
    \/ (\E u \in todo[s] : CopyUser(s, u)) \/ CopySubs(s) \/ CopyDone(s)
    \/ GiveUp(s)
    \/ JoinCall(s) \/ JoinAnswer(s) \/ JoinDone(s)

Handler(s) ==
    \/ Read(s) \/ Put(s) \/ RemoveFromList(s)
    \/ AddToList(s) \/ PostTribble(s) \/ ReceiveTribble(s)

\* A handler that does not return.
HandlerFails(s) == ReceiveThrows(s) \/ ReceiveFault(s)

BcastStep(s) ==
    \/ BcastCall(s) \/ BcastAnswer(s) \/ BcastRejected(s)
    \/ BcastErased(s) \/ BcastFault(s) \/ BcastDone(s)

\* What the running process of a server does by itself.
ServerStep(s) == BootStep(s) \/ Handler(s) \/ HandlerFails(s) \/ BcastStep(s)

ClientStep(c) == ClientCall(c) \/ ClientReturn(c) \/ ClientCrash(c)

\* Nothing is left to do: every call was made and answered, every server is up.
Settled ==
    /\ \A c \in Client : plan[c] = {} /\ Idle(c)
    /\ \A s \in Server : pc[s] = "serve" /\ inbox[s] = <<>>
    /\ UNCHANGED vars

Next ==
    \/ \E s \in Server : Boot(s) \/ ServerStep(s) \/ Crash(s)
    \/ \E c \in Client : ClientStep(c)
    \/ Settled

Spec == Init /\ [][Next]_vars

\* A process that can go on does; a Tribbler server takes its answers.  Nobody
\* is obliged to start a server, to crash one or to make a call.
Fairness ==
    /\ \A s \in Server : WF_vars(ServerStep(s))
    /\ \A c \in Client : WF_vars(ClientReturn(c))

FairSpec == Spec /\ Fairness
=============================================================================
