--------------------- MODULE KVClusterReplicationProofs ---------------------
(***************************************************************************)
(* Replicas agree: while all N servers are up and every key is written     *)
(* through one server, no peer turns a broadcast down, and two servers     *)
(* differ in a key only while a write to it is being broadcast.  Whoever   *)
(* joins, nobody holds what an only entry server does not have.            *)
(***************************************************************************)
EXTENDS KVClusterTimestampProofs

\* The call o may change what the server stores and be broadcast.
Writes(o) ==
    \/ o.kind \in {"AddToList", "RemoveFromList"}
    \/ o.kind = "Put" /\ o.key # ServerSyscmd

-----------------------------------------------------------------------------
(* A cluster that booted completely and in which nothing has crashed.  None *)
(* of this depends on where writes enter.                                   *)

\* Everybody listens, is known to everybody, and answers.
AllUp ==
    /\ \A s \in Server : Listening(s) /\ running[s] = Index
    /\ \A p \in Proc : ~Broken(p)

\* A request is the call that its caller is waiting for.
RequestsAsked ==
    \A s \in Server : \A n \in DOMAIN inbox[s] :
        /\ inbox[s][n].live
        /\ OpOf(inbox[s][n]) = call[inbox[s][n].from].op

\* A tribble is passed on with a stamp of the server's; anything else as it came.
SameWrite(o, r) ==
    /\ o.kind = r.kind /\ o.key = r.key /\ o.item.value = r.item.value
    /\ ~(r.kind = "AddToList" /\ IsTribble(r.key)) => o.item = r.item

\* A job is the write that a Tribbler server is waiting for, and the broadcast calls
\* are about it.
JobsAsked ==
    \A s \in Server : pc[s] = "bcast" =>
        /\ job[s].live /\ Writes(job[s])
        /\ SameWrite(call[job[s].from].op, job[s])
        /\ ~Idle(s) => call[s].to = Peer(s, idx[s]) /\ call[s].op = OpOf(job[s])

Up == AllUp /\ RequestsAsked /\ JobsAsked

UpInv == faults = 0 => Up

-----------------------------------------------------------------------------
(* One writer for each key. *)

\* Contents of k at s, the stamps of tribbles apart.
Held(s, k) ==
    IF IsTribble(k) THEN {item.value : item \in ItemsAt(lists[s], k)}
                    ELSE ItemsAt(lists[s], k)

\* What an item of the list k is known by.
Mark(k, item) == IF IsTribble(k) THEN item.value ELSE item

SimpleAlike(s, t, k) == k \in DOMAIN simple[s] <=> k \in DOMAIN simple[t]

ListAlike(s, t, k) ==
    /\ k \in DOMAIN lists[s] <=> k \in DOMAIN lists[t]
    /\ Held(s, k) = Held(t, k)

Alike(s, t, k) == SimpleAlike(s, t, k) /\ ListAlike(s, t, k)

\* u has not had t's answer to its broadcast of k.
Untold(u, t) ==
    \/ idx[u] < IndexOf(u, t)
    \/ idx[u] = IndexOf(u, t) /\ ~Answered(u)

Pending(u, t, k) == pc[u] = "bcast" /\ job[u].key = k /\ Untold(u, t)

\* t lacks what u broadcasts and nothing else: what u did, t can still do.
LacksPut(u, t, k) ==
    /\ k \in DOMAIN simple[u] /\ k \notin DOMAIN simple[t]
    /\ ListAlike(u, t, k)

LacksItem(u, t, k, item) ==
    /\ SimpleAlike(u, t, k)
    /\ k \in DOMAIN lists[u]
    /\ Held(u, k) = Held(t, k) \cup {Mark(k, item)}
    /\ IF IsTribble(k)
       THEN item.vt \in Stamp /\ \A x \in ItemsAt(lists[t], k) : x.vt[u] < item.vt[u]
       ELSE item \notin ItemsAt(lists[t], k)

LacksRemoval(u, t, k, item) ==
    /\ SimpleAlike(u, t, k)
    /\ k \in DOMAIN lists[u] /\ k \in DOMAIN lists[t] /\ ~IsTribble(k)
    /\ item \in ItemsAt(lists[t], k)
    /\ Held(u, k) = Held(t, k) \ {item}

Lacks(u, t) ==
    LET r == job[u]
    IN  \/ r.kind = "Put" /\ LacksPut(u, t, r.key)
        \/ r.kind = "AddToList" /\ LacksItem(u, t, r.key, r.item)
        \/ r.kind = "RemoveFromList" /\ LacksRemoval(u, t, r.key, r.item)

\* W gives the server that each key is written through.
WritesRouted(W) ==
    /\ \A s \in Server : \A n \in DOMAIN inbox[s] :
          inbox[s][n].from \in Client /\ Writes(inbox[s][n]) =>
              W[inbox[s][n].key] = s /\ inbox[s][n].item.vt = NoStamp
    /\ \A s \in Server : pc[s] = "bcast" => W[job[s].key] = s

\* The writer of a tribble key stamps its tribbles one after the other.
WriterStamps(W) ==
    /\ \A s \in Server : \A k \in Key : IsTribble(k) =>
          \A x \in ItemsAt(lists[s], k) :
              x.vt \in Stamp /\ x.vt[W[k]] <= vt[W[k]][W[k]]
    /\ \A s \in Server :
          pc[s] = "bcast" /\ job[s].kind = "AddToList" /\ IsTribble(job[s].key) =>
              job[s].item.vt \in Stamp /\ job[s].item.vt[s] = vt[s][s]

\* A server and the writer of a key agree on it, once the server has been told.
KeyAgreed(u, t, k) == IF Pending(u, t, k) THEN Lacks(u, t) ELSE Alike(u, t, k)

KeysAgreed(W) ==
    \A t \in Server : \A k \in Key : W[k] # t => KeyAgreed(W[k], t, k)

\* No broadcast is turned down.
AnswersOK == \A s \in Server : pc[s] = "bcast" /\ Answered(s) => call[s].status = "OK"

ReplicaInv(W) ==
    faults = 0 => WritesRouted(W) /\ WriterStamps(W) /\ KeysAgreed(W) /\ AnswersOK

-----------------------------------------------------------------------------
(* What a handler does, seen from outside. *)

\* The maps of s take in a write.
StoresPut(s, k) ==
    /\ k \notin DOMAIN simple[s] /\ DOMAIN simple'[s] = DOMAIN simple[s] \cup {k}
    /\ lists'[s] = lists[s]

StoresItem(s, k, item) ==
    /\ item \notin ItemsAt(lists[s], k)
    /\ lists'[s] = Bind(lists[s], k, ItemsAt(lists[s], k) \cup {item})
    /\ simple'[s] = simple[s]

StoresRemoval(s, k, item) ==
    /\ k \in DOMAIN lists[s] /\ item \in ItemsAt(lists[s], k)
    /\ lists'[s] = Bind(lists[s], k, ItemsAt(lists[s], k) \ {item})
    /\ simple'[s] = simple[s]

\* s stores what the request h says; r is what it would tell its peers.
Stores(s, h, r) ==
    \E item \in Item :
        /\ item.value = h.item.value
        /\ \/ h.kind = "Put" /\ StoresPut(s, h.key)
           \/ h.kind = "AddToList" /\ StoresItem(s, h.key, item)
           \/ h.kind = "RemoveFromList" /\ StoresRemoval(s, h.key, item)
        /\ IF IsPost(h) /\ h.from \in Client
           THEN /\ item.vt \in Stamp /\ r.item.vt \in Stamp
                /\ vt[s][s] < item.vt[s] /\ item.vt[s] < r.item.vt[s]
                /\ r.item.vt[s] = vt'[s][s]
           ELSE r = h /\ item = h.item

\* What a server that stores nothing answers to h.
Says(s, h, status, values) ==
    \/ /\ h.kind = "Get"
       /\ status = StoreGet(simple[s], h.key).status
       /\ values = StoreGet(simple[s], h.key).values
    \/ /\ h.kind = "GetList"
       /\ status = StoreGetList(lists[s], h.key).status
       /\ values = StoreGetList(lists[s], h.key).values
    \/ h.kind = "Put" /\ h.key = ServerSyscmd /\ status = "OK"
    \/ /\ h.kind = "Put" /\ h.key # ServerSyscmd /\ h.key \in DOMAIN simple[s]
       /\ status = "EPUTFAILED"
    \/ /\ h.kind = "AddToList" /\ status = "EITEMEXISTS"
       /\ IF IsPost(h) /\ h.from \in Client
          THEN \E item \in ItemsAt(lists[s], h.key) : item.vt[s] = vt[s][s] + 1
          ELSE h.item \in ItemsAt(lists[s], h.key)
    \/ /\ h.kind = "RemoveFromList" /\ status # "OK"
       /\ h.key \notin DOMAIN lists[s] \/ h.item \notin ItemsAt(lists[s], h.key)

HandlerStays(s, h) ==
    /\ UNCHANGED <<pc, idx, job, simple, lists>>
    /\ \E status, values : Reply(h, status, values) /\ Says(s, h, status, values)

HandlerStores(s, h) ==
    /\ Writes(h)
    /\ \E r \in Request :
          /\ r.from = h.from /\ r.live = h.live /\ SameWrite(h, r)
          /\ Stores(s, h, r)
          /\ Conclude(s, r, "OK")

\* A handler takes one request; it stores it or stores nothing.
LEMMA Handled ==
    ASSUME CoreInv, NEW s \in Server, Handler(s)
    PROVE  /\ pc[s] = "serve" /\ inbox[s] # <<>> /\ Take(s)
           /\ UNCHANGED <<target, todo, plan, faults, starts>>
           /\ \A t \in Server : /\ running[t] \subseteq running'[t]
                                /\ vt[t][t] <= vt'[t][t]
                                /\ t # s => /\ vt'[t] = vt[t] /\ simple'[t] = simple[t]
                                            /\ lists'[t] = lists[t]
           /\ HandlerStays(s, Head(inbox[s])) \/ HandlerStores(s, Head(inbox[s]))
<1> DEFINE h == Head(inbox[s])
           stamp == Inc(vt[s], s)
<1>1. /\ pc[s] = "serve" /\ inbox[s] # <<>> /\ Take(s)
      /\ UNCHANGED <<target, todo, plan, faults, starts>>
  BY DEF Handler, Read, Put, AddToList, PostTribble, ReceiveTribble, HasTribble, RemoveFromList,
     HasRequest
<1>2. TypeOK /\ h \in Request /\ vt[s] \in Stamp /\ vt[s][s] \in Nat
  BY <1>1, ServedCaller DEF CoreInv, TypeInv, TypeOK, Stamp
<1>3. \A v \in Stamp : Inc(v, s) \in Stamp /\ Inc(v, s)[s] = v[s] + 1 /\ v[s] \in Nat
  BY IncType DEF Stamp
<1>4. \A t \in Server : /\ running[t] \subseteq running'[t]
                        /\ t # s => /\ vt'[t] = vt[t] /\ simple'[t] = simple[t]
                                    /\ lists'[t] = lists[t]
  <2>1. CASE Read(s) \/ AddToList(s) \/ PostTribble(s) \/ ReceiveTribble(s) \/ RemoveFromList(s)
    <3>1. /\ UNCHANGED <<running, simple>>
          /\ UNCHANGED vt \/ \E v : vt' = [vt EXCEPT ![s] = v]
          /\ UNCHANGED lists \/ \E m : lists' = [lists EXCEPT ![s] = m]
      BY <2>1 DEF Read, AddToList, PostTribble, ReceiveTribble, RemoveFromList, WriteList
    <3> QED
      BY <1>2, <3>1 DEF TypeOK, AreMaps
  <2>2. CASE Put(s)
    <3>1. /\ UNCHANGED lists /\ vt' = [vt EXCEPT ![s] = stamp]
          /\ UNCHANGED simple \/ \E m : simple' = [simple EXCEPT ![s] = m]
          /\ UNCHANGED running \/ \E i : running' = [running EXCEPT ![s] = @ \cup {i}]
      BY <2>2 DEF Put, ProcessCommand
    <3> QED
      BY <1>2, <3>1 DEF TypeOK, AreMaps
  <2> QED
    BY <2>1, <2>2 DEF Handler
<1>5. vt[s][s] <= vt'[s][s]
  <2>1. CASE Read(s) \/ AddToList(s) \/ RemoveFromList(s)
    BY <1>2, <2>1 DEF Read, AddToList, RemoveFromList
  <2>2. CASE Put(s)
    BY <1>2, <1>3, <2>2 DEF Put, TypeOK
  <2>3. CASE PostTribble(s)
    <3>1. vt'[s] \in {stamp, Inc(stamp, s)}
      BY <1>2, <2>3 DEF PostTribble, TypeOK
    <3> QED
      BY <1>2, <1>3, <3>1
  <2>4. CASE ReceiveTribble(s)
    <3> DEFINE w == ToMessage(h.item).vt
    <3>1. vt'[s] = Update(stamp, w) /\ w \in Seq(Int)
      BY <1>2, <2>4, ToMessageType DEF ReceiveTribble, TypeOK, Request
    <3>2. stamp \in Stamp /\ Update(stamp, w) \in Stamp /\ Leq(stamp, Update(stamp, w))
      BY <1>2, <1>3, <3>1, UpdateType, UpdateBounds
    <3>3. stamp[s] <= vt'[s][s] /\ vt'[s][s] \in Nat
      BY <3>1, <3>2 DEF Leq, Stamp
    <3> QED
      BY <1>2, <1>3, <3>3
  <2> QED
    BY <2>1, <2>2, <2>3, <2>4 DEF Handler
<1>6. \A t \in Server : vt[t][t] <= vt'[t][t]
  <2>1. \A t \in Server : vt[t][t] \in Nat
    BY <1>2 DEF TypeOK, Stamp
  <2> QED
    BY <1>4, <1>5, <2>1
<1>7. ASSUME NEW status, status # "OK", Conclude(s, h, status), UNCHANGED <<simple, lists>>,
             Says(s, h, status, {})
      PROVE  HandlerStays(s, h)
  BY <1>7 DEF Conclude, Finish, HandlerStays
<1>8. ASSUME Writes(h), Conclude(s, h, "OK"), Stores(s, h, h)
      PROVE  HandlerStores(s, h)
  <2>1. SameWrite(h, h)
    BY DEF SameWrite
  <2> QED
    BY <1>2, <1>8, <2>1 DEF HandlerStores
<1>9. h.item \in Item
  BY <1>2 DEF Request
<1>10. CASE Read(s)
  <2>1. UNCHANGED <<pc, idx, job, simple, lists>> /\ h.kind \in {"Get", "GetList"}
    BY <1>10 DEF Read, Finish, HasRequest
  <2>2. ASSUME h.kind = "Get" PROVE HandlerStays(s, h)
    <3> DEFINE r == StoreGet(simple[s], h.key)
    <3>1. Reply(h, r.status, r.values)
      BY <1>10, <2>2 DEF Read, Finish
    <3>2. Says(s, h, r.status, r.values)
      BY <2>2 DEF Says
    <3> QED
      BY <2>1, <3>1, <3>2 DEF HandlerStays
  <2>3. ASSUME h.kind = "GetList" PROVE HandlerStays(s, h)
    <3> DEFINE r == StoreGetList(lists[s], h.key)
    <3>1. Reply(h, r.status, r.values)
      BY <1>10, <2>3 DEF Read, Finish
    <3>2. Says(s, h, r.status, r.values)
      BY <2>3 DEF Says
    <3> QED
      BY <2>1, <3>1, <3>2 DEF HandlerStays
  <2> QED
    BY <1>1, <1>4, <1>6, <2>1, <2>2, <2>3
<1>11. CASE Put(s)
  <2>1. h.kind = "Put" /\ UNCHANGED lists
    BY <1>11 DEF Put, HasRequest
  <2>2. CASE h.key = ServerSyscmd
    <3>1. Reply(h, "OK", {}) /\ UNCHANGED <<pc, idx, job, simple>>
      BY <1>11, <2>2 DEF Put, Finish
    <3>2. Says(s, h, "OK", {})
      BY <2>1, <2>2 DEF Says
    <3> QED
      BY <1>1, <1>4, <1>6, <2>1, <3>1, <3>2 DEF HandlerStays
  <2>3. CASE h.key # ServerSyscmd
    <3> DEFINE result == StorePut(simple[s], h.key, h.item.value)
    <3>1. simple' = [simple EXCEPT ![s] = result.map] /\ Conclude(s, h, result.status)
      BY <1>11, <2>3 DEF Put
    <3>2. simple'[s] = result.map
      BY <1>2, <3>1 DEF TypeOK, AreMaps
    <3>3. CASE h.key \in DOMAIN simple[s]
      <4>1. result.status = "EPUTFAILED" /\ result.map = simple[s]
        BY <3>3 DEF StorePut
      <4>2. simple' = simple
        BY <1>2, <3>1, <4>1 DEF TypeOK, AreMaps
      <4>3. Says(s, h, "EPUTFAILED", {})
        BY <2>1, <2>3, <3>3 DEF Says
      <4> QED
        BY <1>1, <1>4, <1>6, <1>7, <2>1, <3>1, <4>1, <4>2, <4>3
    <3>4. CASE h.key \notin DOMAIN simple[s]
      <4>1. result.status = "OK" /\ DOMAIN result.map = DOMAIN simple[s] \cup {h.key}
        BY <3>4 DEF StorePut, Bind
      <4>2. StoresPut(s, h.key)
        BY <2>1, <3>2, <3>4, <4>1 DEF StoresPut
      <4>3. Writes(h) /\ ~IsPost(h)
        BY <2>1, <2>3 DEF Writes, IsPost
      <4>4. Stores(s, h, h)
        BY <1>9, <2>1, <4>2, <4>3 DEF Stores
      <4> QED
        BY <1>1, <1>4, <1>6, <1>8, <3>1, <4>1, <4>3, <4>4
    <3> QED
      BY <3>3, <3>4
  <2> QED
    BY <2>2, <2>3
<1>12. CASE AddToList(s) \/ ReceiveTribble(s)
  <2> DEFINE result == StoreAddToList(lists[s], h.key, h.item)
  <2>1. /\ h.kind = "AddToList" /\ ~(IsPost(h) /\ h.from \in Client)
        /\ UNCHANGED simple /\ lists' = [lists EXCEPT ![s] = result.map]
        /\ Conclude(s, h, result.status)
    BY <1>12, ClusterAssumption
       DEF AddToList, ReceiveTribble, HasTribble, WriteList, HasRequest, IsPost
  <2>2. lists'[s] = result.map
    BY <1>2, <2>1 DEF TypeOK, AreMaps
  <2>3. CASE h.item \in ItemsAt(lists[s], h.key)
    <3>1. result.status = "EITEMEXISTS" /\ result.map = lists[s]
      BY <2>3 DEF StoreAddToList
    <3>2. lists' = lists
      BY <1>2, <2>1, <3>1 DEF TypeOK, AreMaps
    <3>3. Says(s, h, "EITEMEXISTS", {})
      BY <2>1, <2>3 DEF Says
    <3> QED
      BY <1>1, <1>4, <1>6, <1>7, <2>1, <3>1, <3>2, <3>3
  <2>4. CASE h.item \notin ItemsAt(lists[s], h.key)
    <3>1. /\ result.status = "OK"
          /\ result.map = Bind(lists[s], h.key, ItemsAt(lists[s], h.key) \cup {h.item})
      BY <2>4 DEF StoreAddToList
    <3>2. StoresItem(s, h.key, h.item) /\ Writes(h)
      BY <2>1, <2>2, <2>4, <3>1 DEF StoresItem, Writes
    <3>3. Stores(s, h, h)
      BY <1>9, <2>1, <3>2 DEF Stores
    <3> QED
      BY <1>1, <1>4, <1>6, <1>8, <2>1, <3>1, <3>2, <3>3
  <2> QED
    BY <2>3, <2>4
<1>13. CASE RemoveFromList(s)
  <2> DEFINE result == StoreRemoveFromList(lists[s], h.key, h.item)
  <2>1. /\ h.kind = "RemoveFromList" /\ ~IsPost(h) /\ Writes(h)
        /\ UNCHANGED simple /\ lists' = [lists EXCEPT ![s] = result.map]
        /\ Conclude(s, h, result.status)
    BY <1>13 DEF RemoveFromList, WriteList, HasRequest, IsPost, Writes
  <2>2. lists'[s] = result.map
    BY <1>2, <2>1 DEF TypeOK, AreMaps
  <2>3. h.key \in DOMAIN lists[s] => ItemsAt(lists[s], h.key) = lists[s][h.key]
    BY DEF ItemsAt
  <2>4. CASE h.key \notin DOMAIN lists[s] \/ h.item \notin ItemsAt(lists[s], h.key)
    <3>1. result.status # "OK" /\ result.map = lists[s]
      BY <2>3, <2>4 DEF StoreRemoveFromList
    <3>2. lists' = lists
      BY <1>2, <2>1, <3>1 DEF TypeOK, AreMaps
    <3>3. Says(s, h, result.status, {})
      BY <2>1, <2>4, <3>1 DEF Says
    <3> QED
      BY <1>1, <1>4, <1>6, <1>7, <2>1, <3>1, <3>2, <3>3
  <2>5. CASE h.key \in DOMAIN lists[s] /\ h.item \in ItemsAt(lists[s], h.key)
    <3>1. /\ result.status = "OK"
          /\ result.map = Bind(lists[s], h.key, ItemsAt(lists[s], h.key) \ {h.item})
      BY <2>3, <2>5 DEF StoreRemoveFromList
    <3>2. StoresRemoval(s, h.key, h.item)
      BY <2>1, <2>2, <2>5, <3>1 DEF StoresRemoval
    <3>3. Stores(s, h, h)
      BY <1>9, <2>1, <3>2 DEF Stores
    <3> QED
      BY <1>1, <1>4, <1>6, <1>8, <2>1, <3>1, <3>3
  <2> QED
    BY <2>4, <2>5
<1>14. CASE PostTribble(s)
  <2> DEFINE item   == ToJSON(h.item.value, stamp)
             sent   == ToJSON(h.item.value, Inc(stamp, s))
             r      == [h EXCEPT !.item = sent]
             result == StoreAddToList(lists[s], h.key, item)
  <2>1. /\ h.kind = "AddToList" /\ IsPost(h) /\ h.from \in Client
        /\ UNCHANGED simple /\ lists' = [lists EXCEPT ![s] = result.map]
        /\ vt' = [vt EXCEPT ![s] = IF result.status = "OK" THEN Inc(stamp, s) ELSE stamp]
        /\ Conclude(s, r, result.status)
    BY <1>14 DEF PostTribble, WriteList, HasRequest, IsPost
  <2>2. lists'[s] = result.map
    BY <1>2, <2>1 DEF TypeOK, AreMaps
  <2>3. /\ stamp \in Stamp /\ Inc(stamp, s) \in Stamp
        /\ stamp[s] = vt[s][s] + 1 /\ Inc(stamp, s)[s] = vt[s][s] + 2
    BY <1>2, <1>3
  <2>4. /\ item \in Item /\ sent \in Item
        /\ item.vt = stamp /\ sent.vt = Inc(stamp, s)
        /\ item.value = h.item.value /\ sent.value = h.item.value
    BY <1>9, <2>3 DEF ToJSON, Item, AnyStamp
  <2>5. /\ r \in Request /\ r.from = h.from /\ r.live = h.live
        /\ r.kind = h.kind /\ r.key = h.key /\ r.item = sent
    BY <1>2, <2>4 DEF Request
  <2> HIDE DEF stamp, item, sent, r
  <2>6. CASE item \in ItemsAt(lists[s], h.key)
    <3>1. result.status = "EITEMEXISTS" /\ result.map = lists[s]
      BY <2>6 DEF StoreAddToList
    <3>2. lists' = lists
      BY <1>2, <2>1, <3>1 DEF TypeOK, AreMaps
    <3>3. Says(s, h, "EITEMEXISTS", {})
      BY <2>1, <2>3, <2>4, <2>6 DEF Says
    <3>4. Reply(h, "EITEMEXISTS", {}) /\ UNCHANGED <<pc, idx, job>>
      BY <2>1, <2>5, <3>1 DEF Conclude, Finish, Reply
    <3> QED
      BY <1>1, <1>4, <1>6, <2>1, <3>2, <3>3, <3>4 DEF HandlerStays
  <2>7. CASE item \notin ItemsAt(lists[s], h.key)
    <3>1. /\ result.status = "OK"
          /\ result.map = Bind(lists[s], h.key, ItemsAt(lists[s], h.key) \cup {item})
      BY <2>7 DEF StoreAddToList
    <3>2. StoresItem(s, h.key, item) /\ Writes(h)
      BY <2>1, <2>2, <2>7, <3>1 DEF StoresItem, Writes
    <3>3. vt'[s] = Inc(stamp, s)
      BY <1>2, <2>1, <3>1 DEF TypeOK
    <3>4. vt[s][s] < item.vt[s] /\ item.vt[s] < r.item.vt[s] /\ r.item.vt[s] = vt'[s][s]
      BY <1>2, <2>3, <2>4, <2>5, <3>3
    <3>5. Stores(s, h, r)
      BY <2>1, <2>3, <2>4, <2>5, <3>2, <3>4 DEF Stores
    <3>6. SameWrite(h, r)
      BY <2>1, <2>4, <2>5 DEF SameWrite, IsPost
    <3>7. HandlerStores(s, h)
      BY <2>1, <2>5, <3>1, <3>2, <3>5, <3>6 DEF HandlerStores
    <3> QED
      BY <1>1, <1>4, <1>6, <3>7
  <2> QED
    BY <2>6, <2>7
<1> QED
  BY <1>10, <1>11, <1>12, <1>13, <1>14 DEF Handler

-----------------------------------------------------------------------------
(* While nothing crashes, a complete cluster stays complete. *)

\* The loop over all peers visits one after the other.
LEMMA NextIndex ==
    ASSUME NEW i \in {-1} \cup Index, NEW j, IsNext(Index, i, j)
    PROVE  j = i + 1
<1>1. i \in Int /\ i < End /\ (j \in Index \/ j = End)
  BY NAssumption DEF IsNext, Index, End
<1>2. CASE i + 1 \in Index
  BY <1>1, <1>2, NAssumption DEF IsNext, Index, End
<1>3. CASE i + 1 \notin Index
  BY <1>1, <1>3, NAssumption DEF IsNext, Index, End
<1> QED
  BY <1>2, <1>3

\* Nobody holds anything of a caller that does not wait.
LEMMA OthersAsk ==
    ASSUME CoreInv, NEW p \in Proc, ~Waiting(p), NEW s \in Server
    PROVE  /\ \A n \in DOMAIN inbox[s] : inbox[s][n].live => inbox[s][n].from # p
           /\ pc[s] = "bcast" /\ job[s].live => job[s].from # p
<1>1. RequestsAt(p, s) = {}
  BY NoRequests DEF CoreInv, CallsOK
<1> QED
  BY <1>1 DEF RequestsAt

\* The requests in a queue, and the writes being broadcast, are what was asked for,
\* as long as only a caller that does not wait makes a new call or forgets one.
LEMMA StillAsked ==
    ASSUME CoreInv, Up, NEW p \in Proc, ~Waiting(p),
           \A q \in Proc : q # p => call'[q] = call[q]
    PROVE  /\ \A s \in Server : \A n \in DOMAIN inbox[s] :
                 OpOf(inbox[s][n]) = call'[inbox[s][n].from].op
           /\ \A s \in Server : pc[s] = "bcast" => SameWrite(call'[job[s].from].op, job[s])
<1>1. TypeOK
  BY DEF CoreInv, TypeInv
<1>2. ASSUME NEW s \in Server, NEW n \in DOMAIN inbox[s]
      PROVE  OpOf(inbox[s][n]) = call'[inbox[s][n].from].op
  <2>1. inbox[s] \in Seq(Request)
    BY <1>1 DEF TypeOK
  <2>2. inbox[s][n] \in Request
    BY <2>1
  <2>3. inbox[s][n].from \in Proc /\ inbox[s][n].from # p
    BY <2>2, OthersAsk DEF Up, RequestsAsked, Request
  <2> QED
    BY <2>3 DEF Up, RequestsAsked
<1>3. ASSUME NEW s \in Server, pc[s] = "bcast"
      PROVE  SameWrite(call'[job[s].from].op, job[s])
  <2>1. job[s].from \in Proc /\ job[s].from # p
    BY <1>1, <1>3, OthersAsk DEF TypeOK, Request, Up, JobsAsked
  <2> QED
    BY <1>3, <2>1 DEF Up, JobsAsked
<1> QED
  BY <1>2, <1>3

\* A call is received by whom it is sent to.
LEMMA SendUp ==
    ASSUME CoreInv, Up, NEW p \in Proc, ~Waiting(p), NEW t \in Server, NEW o \in Op,
           Send(p, t, o), UNCHANGED <<pc, idx, job, running>>,
           p \in Server /\ pc[p] = "bcast" => t = Peer(p, idx[p]) /\ o = OpOf(job[p])
    PROVE  Up'
<1> DEFINE r == [from |-> p, live |-> TRUE, kind |-> o.kind, key |-> o.key, item |-> o.item]
<1>1. /\ TypeOK
      /\ call' = [call EXCEPT ![p] = MakeCall("waiting", t, o, "OK", {})]
      /\ inbox' = [inbox EXCEPT ![t] = Append(@, r)]
  BY DEF Up, AllUp, Send, CoreInv, TypeInv
<1>2. /\ \A q \in Proc : q # p => call'[q] = call[q]
      /\ call'[p].st = "waiting" /\ call'[p].to = t /\ call'[p].op = o
  BY <1>1 DEF TypeOK, MakeCall
<1>3. AllUp'
  BY <1>2 DEF Up, AllUp, Listening, Broken
<1>4. RequestsAsked'
  <2>1. ASSUME NEW s \in Server, NEW n \in DOMAIN inbox'[s]
        PROVE  inbox'[s][n].live /\ OpOf(inbox'[s][n]) = call'[inbox'[s][n].from].op
    <3>1. inbox[s] \in Seq(Request) /\ r \in Request
      BY <1>1 DEF TypeOK, Request, Op
    <3>2. inbox'[s] = IF s = t THEN Append(inbox[s], r) ELSE inbox[s]
      BY <1>1 DEF TypeOK
    <3>3. r.live /\ r.from = p /\ OpOf(r) = o
      BY DEF OpOf, MakeOp, Op
    <3> HIDE DEF r
    <3>4. CASE n \in DOMAIN inbox[s] /\ inbox'[s][n] = inbox[s][n]
      BY <1>2, <3>4, StillAsked DEF Up, RequestsAsked
    <3>5. CASE inbox'[s][n] = r
      BY <1>2, <3>3, <3>5
    <3> QED
      BY <3>1, <3>2, <3>4, <3>5
  <2> QED
    BY <2>1 DEF RequestsAsked
<1>5. JobsAsked'
  <2>1. ASSUME NEW s \in Server, pc'[s] = "bcast"
        PROVE  /\ job'[s].live /\ Writes(job'[s])
               /\ SameWrite(call'[job'[s].from].op, job'[s])
               /\ ~Idle(s)' => call'[s].to = Peer(s, idx'[s]) /\ call'[s].op = OpOf(job'[s])
    <3>1. /\ job'[s].live /\ Writes(job'[s])
          /\ SameWrite(call'[job'[s].from].op, job'[s])
      BY <1>2, <2>1, StillAsked DEF Up, JobsAsked
    <3>2. CASE s = p
      BY <1>2, <2>1, <3>1, <3>2
    <3>3. CASE s # p
      BY <1>2, <2>1, <3>1, <3>3 DEF Up, JobsAsked, Idle, Proc
    <3> QED
      BY <3>2, <3>3
  <2> QED
    BY <2>1 DEF JobsAsked
<1> QED
  BY <1>3, <1>4, <1>5 DEF Up

\* A caller forgets the answer it has.
LEMMA ForgetUp ==
    ASSUME CoreInv, Up, NEW p \in Proc, ~Waiting(p), Forget(p),
           UNCHANGED <<pc, job, running, inbox>>,
           \A s \in Server : s # p => idx'[s] = idx[s]
    PROVE  Up'
<1>1. TypeOK
  BY DEF CoreInv, TypeInv
<1>2. /\ \A q \in Proc : q # p => call'[q] = call[q]
      /\ call'[p].st = "idle"
  BY <1>1, ForgetType
<1>3. AllUp'
  BY <1>2 DEF Up, AllUp, Listening, Broken
<1>4. RequestsAsked'
  BY <1>2, StillAsked DEF Up, RequestsAsked
<1>5. JobsAsked'
  <2>1. ASSUME NEW s \in Server, pc'[s] = "bcast"
        PROVE  /\ job'[s].live /\ Writes(job'[s])
               /\ SameWrite(call'[job'[s].from].op, job'[s])
               /\ ~Idle(s)' => call'[s].to = Peer(s, idx'[s]) /\ call'[s].op = OpOf(job'[s])
    <3>1. /\ job'[s].live /\ Writes(job'[s])
          /\ SameWrite(call'[job'[s].from].op, job'[s])
      BY <1>2, <2>1, StillAsked DEF Up, JobsAsked
    <3>2. CASE s = p
      BY <1>2, <3>1, <3>2 DEF Idle
    <3>3. CASE s # p
      BY <1>2, <2>1, <3>1, <3>3 DEF Up, JobsAsked, Idle, Proc
    <3> QED
      BY <3>2, <3>3
  <2> QED
    BY <2>1 DEF JobsAsked
<1> QED
  BY <1>3, <1>4, <1>5 DEF Up

\* An answer or a stop leaves what was asked in the calls.
LEMMA KeptAsked ==
    ASSUME CoreInv, Up, \A q \in Proc : call'[q].op = call[q].op,
           \A q \in Proc : call'[q].st # "broken",
           NEW s \in Server,
           \A t \in Server : \A n \in DOMAIN inbox'[t] :
              \E m \in DOMAIN inbox[t] : inbox'[t][n] = inbox[t][m],
           \A t \in Server : running[t] \subseteq running'[t],
           running' \in [Server -> SUBSET Index],
           pc'[s] \in {"serve", "bcast"},
           pc'[s] = "bcast" => /\ job'[s].live /\ Writes(job'[s]) /\ job'[s].from \in Proc
                               /\ SameWrite(call[job'[s].from].op, job'[s])
                               /\ Idle(s)',
           \A t \in Server : t # s => /\ pc'[t] = pc[t] /\ idx'[t] = idx[t] /\ job'[t] = job[t]
                                      /\ Idle(t) => Idle(t)'
                                      /\ call'[t].to = call[t].to
    PROVE  Up'
<1>1. TypeOK
  BY DEF CoreInv, TypeInv
<1>2. AllUp'
  <2>1. ASSUME NEW t \in Server
        PROVE  Listening(t)' /\ running'[t] = Index
    <3>1. running[t] = Index /\ running'[t] \subseteq Index /\ running[t] \subseteq running'[t]
      BY DEF Up, AllUp
    <3>2. Listening(t)'
      BY DEF Up, AllUp, Listening
    <3> QED
      BY <3>1, <3>2
  <2> QED
    BY <2>1 DEF AllUp, Broken
<1>3. RequestsAsked'
  <2>1. ASSUME NEW t \in Server, NEW n \in DOMAIN inbox'[t]
        PROVE  inbox'[t][n].live /\ OpOf(inbox'[t][n]) = call'[inbox'[t][n].from].op
    <3>1. PICK m \in DOMAIN inbox[t] : inbox'[t][n] = inbox[t][m]
      OBVIOUS
    <3>2. inbox[t] \in Seq(Request)
      BY <1>1 DEF TypeOK
    <3>3. inbox[t][m] \in Request
      BY <3>2
    <3>4. inbox[t][m].from \in Proc
      BY <3>3 DEF Request
    <3> QED
      BY <3>1, <3>4 DEF Up, RequestsAsked
  <2> QED
    BY <2>1 DEF RequestsAsked
<1>4. JobsAsked'
  <2>1. ASSUME NEW t \in Server, t # s, pc'[t] = "bcast"
        PROVE  /\ job'[t].live /\ Writes(job'[t])
               /\ SameWrite(call'[job'[t].from].op, job'[t])
               /\ ~Idle(t)' => call'[t].to = Peer(t, idx'[t]) /\ call'[t].op = OpOf(job'[t])
    <3>1. job[t].from \in Proc /\ t \in Proc
      BY <1>1 DEF TypeOK, Request, Proc
    <3> QED
      BY <2>1, <3>1 DEF Up, JobsAsked
  <2> QED
    BY <2>1 DEF JobsAsked
<1> QED
  BY <1>2, <1>3, <1>4 DEF Up

\* The peers that a broadcast has still to call are the ones it has not called.
LEMMA BroadcastBegins ==
    ASSUME Up, NEW s \in Server, TypeOK, NEW r, Broadcast(s, r)
    PROVE  /\ pc' = [pc EXCEPT ![s] = "bcast"] /\ pc'[s] = "bcast"
           /\ job' = [job EXCEPT ![s] = r] /\ job'[s] = r
           /\ idx' = [idx EXCEPT ![s] = 0] /\ idx'[s] = 0
           /\ UNCHANGED call
<1>1. PICK j \in 0..End : IsNext(running[s], -1, j) /\ idx' = [idx EXCEPT ![s] = j]
  BY DEF Broadcast
<1>2. j = 0
  BY <1>1, NextIndex DEF Up, AllUp
<1> QED
  BY <1>1, <1>2 DEF Broadcast, TypeOK

\* A handler.
LEMMA HandlerUp ==
    ASSUME CoreInv, CoreInv', Up, NEW s \in Server, Handler(s)
    PROVE  Up'
<1> DEFINE h == Head(inbox[s])
<1>1. /\ pc[s] = "serve" /\ inbox[s] # <<>> /\ Take(s)
      /\ \A t \in Server : running[t] \subseteq running'[t]
      /\ HandlerStays(s, h) \/ HandlerStores(s, h)
  BY Handled
<1>2. /\ TypeOK /\ TypeOK' /\ h \in Request /\ Idle(s) /\ (h.live => Waiting(h.from))
      /\ s \in Proc
  BY <1>1, ServedCaller DEF CoreInv, TypeInv, Proc
<1>3. /\ inbox[s] \in Seq(Request)
      /\ \A t \in Server : inbox'[t] = IF t = s THEN Tail(inbox[s]) ELSE inbox[t]
  BY <1>1, <1>2 DEF TypeOK, Take
<1>4. \A n \in DOMAIN Tail(inbox[s]) :
         n + 1 \in DOMAIN inbox[s] /\ Tail(inbox[s])[n] = inbox[s][n + 1]
  BY <1>1, <1>3
<1>5. \A t \in Server : \A n \in DOMAIN inbox'[t] :
         \E m \in DOMAIN inbox[t] : inbox'[t][n] = inbox[t][m]
  BY <1>3, <1>4
<1>6. 1 \in DOMAIN inbox[s] /\ inbox[s][1] = h
  BY <1>1, <1>3
<1>7. h.live /\ OpOf(h) = call[h.from].op /\ h.from \in Proc
  BY <1>2, <1>6 DEF Up, RequestsAsked, Request
<1>8. running' \in [Server -> SUBSET Index]
  BY <1>2 DEF TypeOK
<1>9. ASSUME NEW r, r.from = h.from, r.live = h.live, NEW status, NEW values,
             Reply(r, status, values)
      PROVE  \A q \in Proc : /\ call'[q].op = call[q].op /\ call'[q].to = call[q].to
                             /\ call'[q].st # "broken" /\ (Idle(q) => Idle(q)')
  <2>1. call' = [call EXCEPT ![h.from] = Ended(@, "done", status, values)]
    BY <1>7, <1>9 DEF Reply
  <2>2. \A q \in Proc : call'[q] \in {call[q], Ended(call[q], "done", status, values)}
                        /\ (q # h.from => call'[q] = call[q])
    BY <1>2, <2>1 DEF TypeOK
  <2>3. \A q \in Proc : call[q].st # "broken"
    BY DEF Up, AllUp, Broken
  <2> QED
    BY <1>2, <1>7, <2>2, <2>3 DEF Ended, MakeCall, Idle, Waiting
<1>10. CASE HandlerStays(s, h)
  <2>1. PICK status, values : Reply(h, status, values)
    BY <1>10 DEF HandlerStays
  <2>2. UNCHANGED <<pc, idx, job>>
    BY <1>10 DEF HandlerStays
  <2>3. \A q \in Proc : /\ call'[q].op = call[q].op /\ call'[q].to = call[q].to
                        /\ call'[q].st # "broken" /\ (Idle(q) => Idle(q)')
    BY <1>9, <2>1
  <2>4. pc'[s] = "serve"
    BY <1>1, <2>2
  <2> QED
    BY <1>1, <1>5, <1>8, <2>2, <2>3, <2>4, KeptAsked DEF Proc
<1>11. CASE HandlerStores(s, h)
  <2>1. PICK r \in Request : /\ r.from = h.from /\ r.live = h.live /\ SameWrite(h, r)
                             /\ Conclude(s, r, "OK")
    BY <1>11 DEF HandlerStores
  <2>2. CASE r.from \in Client /\ Broadcast(s, r)
    <3>1. /\ pc' = [pc EXCEPT ![s] = "bcast"] /\ job' = [job EXCEPT ![s] = r]
          /\ idx' = [idx EXCEPT ![s] = 0] /\ UNCHANGED call
          /\ pc'[s] = "bcast" /\ job'[s] = r
      BY <1>2, <2>2, BroadcastBegins
    <3>2. Writes(r)
      BY <1>11, <2>1 DEF HandlerStores, SameWrite, Writes
    <3>3. SameWrite(call[r.from].op, r)
      <4>1. /\ OpOf(h).kind = h.kind /\ OpOf(h).key = h.key /\ OpOf(h).item = h.item
        BY DEF OpOf, MakeOp
      <4> QED
        BY <1>7, <2>1, <4>1 DEF SameWrite
    <3>4. \A q \in Proc : call'[q].st # "broken"
      BY <3>1 DEF Up, AllUp, Broken
    <3>5. /\ job'[s].live /\ Writes(job'[s]) /\ job'[s].from \in Proc
          /\ SameWrite(call[job'[s].from].op, job'[s]) /\ Idle(s)'
      BY <1>2, <1>7, <2>1, <3>1, <3>2, <3>3 DEF Idle
    <3>6. \A t \in Server : t # s => /\ pc'[t] = pc[t] /\ idx'[t] = idx[t] /\ job'[t] = job[t]
                                     /\ (Idle(t) => Idle(t)') /\ call'[t].to = call[t].to
      BY <1>2, <3>1 DEF Idle, TypeOK
    <3> QED
      BY <1>1, <1>5, <1>8, <3>1, <3>4, <3>5, <3>6, KeptAsked
  <2>3. CASE Finish(s, r, "OK", {})
    <3>1. UNCHANGED <<pc, idx, job>> /\ Reply(r, "OK", {})
      BY <2>3 DEF Finish
    <3>2. \A q \in Proc : /\ call'[q].op = call[q].op /\ call'[q].to = call[q].to
                          /\ call'[q].st # "broken" /\ (Idle(q) => Idle(q)')
      BY <1>9, <2>1, <3>1
    <3>3. pc'[s] = "serve"
      BY <1>1, <3>1
    <3> QED
      BY <1>1, <1>5, <1>8, <3>1, <3>2, <3>3, KeptAsked DEF Proc
  <2> QED
    BY <2>1, <2>2, <2>3 DEF Conclude
<1> QED
  BY <1>1, <1>10, <1>11

\* The end of a broadcast.
LEMMA StopUp ==
    ASSUME CoreInv, CoreInv', Up, NEW s \in Server, pc[s] = "bcast", ~Waiting(s),
           NEW status, BcastStop(s, status)
    PROVE  Up'
<1>1. TypeOK /\ TypeOK' /\ s \in Proc
  BY DEF CoreInv, TypeInv, Proc
<1>2. /\ pc' = [pc EXCEPT ![s] = "serve"] /\ idx' = [idx EXCEPT ![s] = 0]
      /\ job' = [job EXCEPT ![s] = NoJob] /\ UNCHANGED <<running, inbox>>
  BY DEF BcastStop
<1>3. \A q \in Proc : q # s => call'[q] \in {call[q], Ended(call[q], "done", status, {})}
  BY DEF BcastStop
<1>4. call'[s] = NoCall
  BY <1>1 DEF BcastStop
<1>5. job[s].from \in Proc /\ job[s].from # s /\ (job[s].live => Waiting(job[s].from))
  <2>1. job[s].from \in Client
    BY DEF CoreInv, TypeInv, LoopsOK
  <2>2. ~Waiting(job[s].from) => ~job[s].live
    BY <2>1, OthersAsk DEF Proc
  <2> QED
    BY <2>1, <2>2, ClusterAssumption DEF Proc
<1>6. \A t \in Server : t # s => call'[t] = call[t]
  <2>1. job[s].from \in Client
    BY DEF CoreInv, TypeInv, LoopsOK
  <2> QED
    BY <2>1, ClusterAssumption DEF BcastStop, Proc
<1> DEFINE c == call'
<1>7. AllUp'
  <2>1. \A q \in Proc : call'[q].st # "broken"
    BY <1>3, <1>4, NoCallType DEF Up, AllUp, Broken, Ended, MakeCall
  <2>2. \A t \in Server : Listening(t)'
    BY <1>1, <1>2 DEF Up, AllUp, Listening, TypeOK
  <2> QED
    BY <1>2, <2>1, <2>2 DEF Up, AllUp, Broken
<1>8. \A q \in Proc : q # s => call'[q].op = call[q].op
  BY <1>3 DEF Ended, MakeCall
<1>9. RequestsAsked'
  <2>1. ASSUME NEW t \in Server, NEW n \in DOMAIN inbox[t]
        PROVE  inbox[t][n].live /\ OpOf(inbox[t][n]) = call'[inbox[t][n].from].op
    <3>1. inbox[t] \in Seq(Request)
      BY <1>1 DEF TypeOK
    <3>2. inbox[t][n] \in Request
      BY <3>1
    <3>3. inbox[t][n].live /\ inbox[t][n].from \in Proc /\ inbox[t][n].from # s
      BY <1>1, <3>2, OthersAsk DEF Up, RequestsAsked, Request
    <3> QED
      BY <1>8, <3>3 DEF Up, RequestsAsked
  <2> QED
    BY <1>2, <2>1 DEF RequestsAsked
<1>10. JobsAsked'
  <2>1. ASSUME NEW t \in Server, pc'[t] = "bcast"
        PROVE  /\ job'[t].live /\ Writes(job'[t])
               /\ SameWrite(call'[job'[t].from].op, job'[t])
               /\ ~Idle(t)' => call'[t].to = Peer(t, idx'[t]) /\ call'[t].op = OpOf(job'[t])
    <3>1. t # s /\ pc[t] = "bcast" /\ job'[t] = job[t] /\ idx'[t] = idx[t]
      BY <1>1, <1>2, <2>1 DEF TypeOK
    <3>2. job[t].from \in Proc /\ job[t].from # s
      <4>1. job[t].from \in Client
        BY <3>1 DEF CoreInv, TypeInv, LoopsOK
      <4> QED
        BY <4>1, ClusterAssumption DEF Proc
    <3> QED
      BY <1>6, <1>8, <3>1, <3>2 DEF Up, JobsAsked, Idle
  <2> QED
    BY <2>1 DEF JobsAsked
<1> QED
  BY <1>7, <1>9, <1>10 DEF Up

\* A step of a server is at most one fault.
LEMMA FaultsMove ==
    ASSUME NEW s \in Server, Boot(s) \/ ServerStep(s) \/ Crash(s)
    PROVE  faults' \in {faults, faults + 1}
<1>1. CASE Boot(s) \/ Crash(s)
  BY <1>1 DEF Boot, Crash
<1>2. CASE BootStep(s)
  BY <1>2 DEF BootStep, FindCall, FindAnswer, FindRefused, FindDone, UsersCall, UsersAnswer,
     CopyUser, CopySubs, CopyDone, GiveUp, JoinCall, JoinAnswer, JoinDone
<1>3. CASE Handler(s) \/ HandlerFails(s)
  BY <1>3 DEF Handler, HandlerFails, Read, Put, AddToList, PostTribble, ReceiveTribble,
     RemoveFromList, ReceiveThrows, ReceiveFault
<1>4. CASE BcastStep(s)
  BY <1>4 DEF BcastStep, BcastCall, BcastAnswer, BcastRejected, BcastErased, BcastFault, BcastDone,
     BcastStop
<1> QED
  BY <1>1, <1>2, <1>3, <1>4 DEF ServerStep

\* Without crashes, a server that is up only serves and broadcasts.
LEMMA UpSteps ==
    ASSUME CoreInv, Up, NEW s \in Server, Boot(s) \/ ServerStep(s) \/ Crash(s),
           faults' = 0
    PROVE  /\ faults = 0
           /\ Handler(s) \/ BcastCall(s) \/ BcastAnswer(s) \/ BcastRejected(s) \/ BcastDone(s)
<1>1. faults \in Nat
  BY DEF CoreInv, TypeInv, TypeOK
<1>2. pc[s] \in {"serve", "bcast"} /\ ~Broken(s)
  BY DEF Up, AllUp, Listening, Proc
<1>3. CASE Boot(s)
  BY <1>2, <1>3 DEF Boot
<1>4. CASE BootStep(s)
  BY <1>2, <1>4 DEF BootStep, FindCall, FindAnswer, FindRefused, FindDone, UsersCall, UsersAnswer,
     CopyUser, CopySubs, CopyDone, GiveUp, JoinCall, JoinAnswer, JoinDone
<1>5. CASE Crash(s) \/ BcastFault(s) \/ HandlerFails(s)
  BY <1>1, <1>5 DEF Crash, BcastFault, HandlerFails, ReceiveThrows, ReceiveFault
<1>6. CASE BcastErased(s)
  BY <1>2, <1>6 DEF BcastErased
<1>7. ASSUME \/ Handler(s) \/ BcastCall(s) \/ BcastAnswer(s) \/ BcastRejected(s)
             \/ BcastDone(s)
      PROVE  faults = 0
  BY <1>7 DEF Handler, Read, Put, AddToList, PostTribble, ReceiveTribble, RemoveFromList,
     BcastCall, BcastAnswer, BcastRejected, BcastDone, BcastStop
<1> QED
  BY <1>3, <1>4, <1>5, <1>6, <1>7 DEF ServerStep, BcastStep

\* A broadcast's call goes to a peer.
LEMMA BcastCallSends ==
    ASSUME CoreInv, NEW s \in Server, BcastCall(s)
    PROVE  /\ idx[s] \in Index /\ Peer(s, idx[s]) \in Server /\ OpOf(job[s]) \in Op
           /\ Send(s, Peer(s, idx[s]), OpOf(job[s])) /\ Idle(s) /\ pc[s] = "bcast"
           /\ UNCHANGED <<pc, idx, target, todo, job, running, simple, lists, vt,
                          plan, faults, starts>>
<1>1. idx[s] \in 0..End /\ job[s] \in Request
  BY DEF CoreInv, TypeInv, TypeOK
<1>2. idx[s] \in Index
  BY <1>1, NAssumption DEF BcastCall, Index, End
<1> QED
  BY <1>1, <1>2, PeerType, OpType DEF BcastCall

\* An answer moves the loop on by one.
LEMMA BcastAnswerMoves ==
    ASSUME CoreInv, Up, NEW s \in Server, BcastAnswer(s)
    PROVE  /\ idx[s] \in Index /\ idx' = [idx EXCEPT ![s] = idx[s] + 1]
           /\ Answered(s) /\ Forget(s) /\ pc[s] = "bcast"
           /\ UNCHANGED <<pc, target, todo, job, running, simple, lists, vt,
                          inbox, plan, faults, starts>>
<1>1. /\ pc[s] = "bcast" /\ Answered(s) /\ Forget(s)
      /\ UNCHANGED <<pc, target, todo, job, running, simple, lists, vt, inbox,
                     plan, faults, starts>>
  BY DEF BcastAnswer
<1>2. idx[s] \in Index
  BY <1>1 DEF CoreInv, TypeInv, LoopsOK, Idle, Answered
<1>3. PICK j \in 0..End : IsNext(running[s], idx[s], j) /\ idx' = [idx EXCEPT ![s] = j]
  BY DEF BcastAnswer
<1>4. j = idx[s] + 1
  BY <1>2, <1>3, NextIndex DEF Up, AllUp
<1> QED
  BY <1>1, <1>2, <1>3, <1>4

\* Every step of a server.
LEMMA ServerUp ==
    ASSUME CoreInv, CoreInv', UpInv, NEW s \in Server, Boot(s) \/ ServerStep(s) \/ Crash(s)
    PROVE  UpInv'
<1> SUFFICES ASSUME faults' = 0 PROVE Up'
  BY DEF UpInv
<1>0. faults \in Nat /\ TypeOK /\ s \in Proc
  BY DEF CoreInv, TypeInv, TypeOK, Proc
<1>1. faults = 0
  <2>1. faults' \in {faults, faults + 1}
    BY FaultsMove
  <2> QED
    BY <1>0, <2>1
<1>2. Up
  BY <1>1 DEF UpInv
<1>3. CASE Handler(s)
  BY <1>2, <1>3, HandlerUp
<1>4. CASE BcastCall(s)
  BY <1>0, <1>2, <1>4, BcastCallSends, SendUp DEF Idle, Waiting
<1>5. CASE BcastAnswer(s)
  <2>1. \A t \in Server : t # s => idx'[t] = idx[t]
    BY <1>0, <1>2, <1>5, BcastAnswerMoves DEF TypeOK
  <2> QED
    BY <1>0, <1>2, <1>5, <2>1, BcastAnswerMoves, ForgetUp DEF Answered, Waiting
<1>6. CASE BcastRejected(s) \/ BcastDone(s)
  <2>1. /\ pc[s] = "bcast" /\ ~Waiting(s)
        /\ \E status : BcastStop(s, status)
    BY <1>6 DEF BcastRejected, BcastDone, Answered, Idle, Waiting
  <2> QED
    BY <1>2, <2>1, StopUp
<1> QED
  BY <1>2, <1>3, <1>4, <1>5, <1>6, UpSteps

\* A Tribbler server's call, and its end.
LEMMA ClientSendUp ==
    ASSUME CoreInv, UpInv, NEW c \in Client, ~Waiting(c), NEW o \in Op, Send(c, Entry[c], o),
           UNCHANGED <<pc, idx, job, running, faults>>
    PROVE  UpInv'
<1>1. c \in Proc /\ c \notin Server /\ Entry[c] \in Server
  BY ClusterAssumption DEF Proc
<1> QED
  BY <1>1, SendUp DEF UpInv

\* So does the end of a call.
LEMMA ClientForgetUp ==
    ASSUME CoreInv, UpInv, NEW c \in Client, ~Waiting(c), Forget(c),
           UNCHANGED <<pc, idx, job, running, inbox, faults>>
    PROVE  UpInv'
<1>1. c \in Proc
  BY DEF Proc
<1> QED
  BY <1>1, ForgetUp DEF UpInv

\* A Tribbler server crashes.
LEMMA ClientCrashEnds ==
    ASSUME CoreInv, NEW c \in Client, ClientCrash(c)
    PROVE  faults' # 0
<1>1. faults \in Nat
  BY DEF CoreInv, TypeInv, TypeOK
<1> QED
  BY <1>1 DEF ClientCrash, ClientEnds

\* Every step of the cluster.
LEMMA UpNext == CoreInv /\ UpInv /\ [Next]_vars => UpInv'
<1> SUFFICES ASSUME CoreInv, UpInv, [Next]_vars PROVE UpInv'
  OBVIOUS
<1>1. CoreInv'
  BY NextCore
<1>2. ASSUME NEW s \in Server, Boot(s) \/ ServerStep(s) \/ Crash(s)
      PROVE  UpInv'
  BY <1>1, <1>2, ServerUp
<1>3. ASSUME NEW c \in Client, ClientCall(c)
      PROVE  UpInv'
  <2>1. PICK o \in plan[c] : Send(c, Entry[c], o)
    BY <1>3 DEF ClientCall
  <2>2. o \in Op
    BY DEF CoreInv, TypeInv, TypeOK
  <2> QED
    BY <1>3, <2>1, <2>2, ClientSendUp DEF ClientCall, Idle, Waiting
<1>4. ASSUME NEW c \in Client, ClientReturn(c)
      PROVE  UpInv'
  BY <1>4, ClientForgetUp DEF ClientReturn, Answered, Broken, Waiting
<1>5. ASSUME NEW c \in Client, ClientCrash(c)
      PROVE  UpInv'
  BY <1>5, ClientCrashEnds DEF UpInv
<1>6. CASE UNCHANGED vars
  BY <1>6 DEF vars, UpInv, Up, AllUp, RequestsAsked, JobsAsked, Listening, Broken, Idle
<1> QED
  BY <1>2, <1>3, <1>4, <1>5, <1>6 DEF Next, ClientStep, Settled

\* When all servers have booted, everybody knows everybody.
LEMMA InitUp ==
    ASSUME B = N, Init
    PROVE  UpInv
<1>1. \A s \in Server : pc[s] = "serve" /\ running[s] = {IndexOf(s, t) : t \in (1..N) \ {s}}
  BY NAssumption DEF Init, Server
<1>2. ASSUME NEW s \in Server
      PROVE  Listening(s) /\ running[s] = Index
  <2>1. running[s] \subseteq Index
    BY <1>1, PeerOfIndex DEF Server
  <2>2. ASSUME NEW i \in Index
        PROVE  i \in running[s]
    <3>1. Peer(s, i) \in (1..N) \ {s}
      BY PeerType DEF Server
    <3>2. IndexOf(s, Peer(s, i)) = i
      BY NAssumption DEF Index, Server, IndexOf, Peer
    <3> QED
      BY <1>1, <3>1, <3>2
  <2> QED
    BY <1>1, <2>1, <2>2 DEF Listening
<1>3. \A p \in Proc : ~Broken(p)
  BY NoCallType DEF Init, Broken
<1>4. RequestsAsked /\ JobsAsked
  BY <1>1 DEF Init, RequestsAsked, JobsAsked
<1> QED
  BY <1>2, <1>3, <1>4 DEF UpInv, Up, AllUp

-----------------------------------------------------------------------------
(* What is held under a key, before and after. *)

\* s holds under k what it held.
SameAt(s, k) ==
    /\ k \in DOMAIN simple'[s] <=> k \in DOMAIN simple[s]
    /\ k \in DOMAIN lists'[s] <=> k \in DOMAIN lists[s]
    /\ ItemsAt(lists'[s], k) = ItemsAt(lists[s], k)

\* What is held where nothing has changed.
LEMMA SameHeld ==
    ASSUME NEW s, NEW k, SameAt(s, k)
    PROVE  Held(s, k)' = Held(s, k)
  BY DEF SameAt, Held

\* There, two servers stay alike, or one stays behind the other.
LEMMA SameAlike ==
    ASSUME NEW u, NEW t, NEW k, SameAt(u, k), SameAt(t, k), Alike(u, t, k)
    PROVE  Alike(u, t, k)'
<1>1. Held(u, k)' = Held(u, k) /\ Held(t, k)' = Held(t, k)
  BY SameHeld
<1> QED
  BY <1>1 DEF Alike, SimpleAlike, ListAlike, SameAt

\* What a broadcast's peer lacks stays what it lacks while neither stores anything
\* under the key.
LEMMA SameLacks ==
    ASSUME NEW u, NEW t, job'[u] = job[u], SameAt(u, job[u].key), SameAt(t, job[u].key),
           Lacks(u, t)
    PROVE  Lacks(u, t)'
<1> DEFINE k == job[u].key
<1>1. Held(u, k)' = Held(u, k) /\ Held(t, k)' = Held(t, k)
  BY SameHeld
<1>2. LacksPut(u, t, k) => LacksPut(u, t, k)'
  BY <1>1 DEF LacksPut, ListAlike, SameAt
<1>3. \A i : LacksItem(u, t, k, i) => LacksItem(u, t, k, i)'
  BY <1>1 DEF LacksItem, SimpleAlike, SameAt
<1>4. \A i : LacksRemoval(u, t, k, i) => LacksRemoval(u, t, k, i)'
  BY <1>1 DEF LacksRemoval, SimpleAlike, SameAt
<1> QED
  BY <1>2, <1>3, <1>4 DEF Lacks

\* A put, an addition and a removal, at their key and at others.
LEMMA PutHeld ==
    ASSUME NEW s, NEW k, StoresPut(s, k)
    PROVE  /\ k \notin DOMAIN simple[s] /\ k \in DOMAIN simple'[s]
           /\ DOMAIN lists'[s] = DOMAIN lists[s]
           /\ ItemsAt(lists'[s], k) = ItemsAt(lists[s], k)
           /\ Held(s, k)' = Held(s, k)
           /\ \A x : x # k => SameAt(s, x)
  BY DEF StoresPut, Held, SameAt

\* What storing an item adds to what a server holds.
LEMMA ItemHeld ==
    ASSUME NEW s, NEW k, NEW item, StoresItem(s, k, item)
    PROVE  /\ simple'[s] = simple[s] /\ k \in DOMAIN lists'[s]
           /\ item \notin ItemsAt(lists[s], k)
           /\ ItemsAt(lists'[s], k) = ItemsAt(lists[s], k) \cup {item}
           /\ Held(s, k)' = Held(s, k) \cup {Mark(k, item)}
           /\ \A x : x # k => SameAt(s, x)
<1>1. \A x : ItemsAt(lists'[s], x) = IF x = k THEN ItemsAt(lists[s], k) \cup {item}
                                              ELSE ItemsAt(lists[s], x)
  BY BindItems DEF StoresItem
<1>2. DOMAIN lists'[s] = DOMAIN lists[s] \cup {k}
  BY DEF StoresItem, Bind
<1>3. Held(s, k)' = Held(s, k) \cup {Mark(k, item)}
  BY <1>1 DEF Held, Mark
<1> QED
  BY <1>1, <1>2, <1>3 DEF StoresItem, SameAt

\* What removing an item takes from what a server holds.
LEMMA RemovalHeld ==
    ASSUME NEW s, NEW k, NEW item, StoresRemoval(s, k, item)
    PROVE  /\ simple'[s] = simple[s] /\ k \in DOMAIN lists[s] /\ k \in DOMAIN lists'[s]
           /\ item \in ItemsAt(lists[s], k)
           /\ ItemsAt(lists'[s], k) = ItemsAt(lists[s], k) \ {item}
           /\ ~IsTribble(k) => Held(s, k)' = Held(s, k) \ {item}
           /\ \A x : x # k => SameAt(s, x)
<1>1. \A x : ItemsAt(lists'[s], x) = IF x = k THEN ItemsAt(lists[s], k) \ {item}
                                              ELSE ItemsAt(lists[s], x)
  BY BindItems DEF StoresRemoval
<1>2. k \in DOMAIN lists[s] /\ DOMAIN lists'[s] = DOMAIN lists[s]
  BY DEF StoresRemoval, Bind
<1> QED
  BY <1>1, <1>2 DEF StoresRemoval, SameAt, Held

\* Nothing moves at other keys.
LEMMA StoresElsewhere ==
    ASSUME NEW s, NEW h, NEW r, Stores(s, h, r), NEW x, x # h.key
    PROVE  SameAt(s, x)
  BY PutHeld, ItemHeld, RemovalHeld DEF Stores

-----------------------------------------------------------------------------
(* A peer takes what it is told. *)

\* The request that a server has sent is its broadcast's.
LEMMA ServerRequest ==
    ASSUME CoreInv, Up, NEW s \in Server, pc[s] = "serve", inbox[s] # <<>>,
           Head(inbox[s]).from \in Server
    PROVE  LET h == Head(inbox[s])
               u == h.from
           IN  /\ u # s /\ pc[u] = "bcast" /\ Waiting(u) /\ h.live /\ Writes(h)
               /\ h.kind = job[u].kind /\ h.key = job[u].key /\ h.item = job[u].item
               /\ idx[u] \in Index /\ IndexOf(u, s) = idx[u]
<1> DEFINE h == Head(inbox[s])
           u == h.from
<1>1. TypeOK /\ h \in Request /\ u # s /\ inbox[s] \in Seq(Request) /\ u \in Proc
  BY ServedCaller DEF CoreInv, TypeInv, TypeOK, Proc
<1>2. 1 \in DOMAIN inbox[s] /\ inbox[s][1] = h
  BY <1>1
<1>3. h.live /\ OpOf(h) = call[u].op
  BY <1>2 DEF Up, RequestsAsked
<1>4. 1 \in RequestsAt(u, s)
  BY <1>2, <1>3 DEF RequestsAt
<1>5. Waiting(u) /\ call[u].to = s
  BY <1>1, <1>4 DEF CoreInv, CallsOK, CallOK
<1>6. pc[u] = "bcast" /\ ~Idle(u)
  BY <1>5 DEF CoreInv, TypeInv, LoopsOK, Up, AllUp, Listening, Idle, Waiting
<1>7. s = Peer(u, idx[u]) /\ OpOf(h) = OpOf(job[u]) /\ Writes(job[u])
  BY <1>3, <1>5, <1>6 DEF Up, JobsAsked
<1>8. h.kind = job[u].kind /\ h.key = job[u].key /\ h.item = job[u].item
  BY <1>7 DEF OpOf, MakeOp
<1>9. idx[u] \in Index
  BY <1>6 DEF CoreInv, TypeInv, LoopsOK
<1>10. IndexOf(u, s) = idx[u]
  BY <1>7, <1>9, NAssumption DEF Index, Server, IndexOf, Peer
<1> QED
  BY <1>1, <1>3, <1>5, <1>6, <1>7, <1>8, <1>9, <1>10 DEF Writes

\* What t lacks it takes, and then it is like the writer.
LEMMA LackingTakes ==
    ASSUME NEW u \in Server, NEW t, Lacks(u, t), NEW h,
           h.kind = job[u].kind, h.key = job[u].key, h.item = job[u].item
    PROVE  /\ \A status, values :
                 (Writes(h) /\ h.from \notin Client) => ~Says(t, h, status, values)
           /\ \A r : /\ Stores(t, h, r) /\ h.from \notin Client
                     /\ simple'[u] = simple[u] /\ lists'[u] = lists[u]
                     => Alike(u, t, h.key)'
<1> DEFINE k == h.key
<1>1. /\ job[u].kind = "Put" => LacksPut(u, t, k)
      /\ job[u].kind = "AddToList" => LacksItem(u, t, k, h.item)
      /\ job[u].kind = "RemoveFromList" => LacksRemoval(u, t, k, h.item)
      /\ h.kind \in {"Put", "AddToList", "RemoveFromList"}
  BY DEF Lacks
<1>2. ASSUME NEW status, NEW values, Writes(h), h.from \notin Client, Says(t, h, status, values)
      PROVE  FALSE
  <2>1. CASE h.kind = "Put"
    BY <1>1, <1>2, <2>1 DEF Says, LacksPut, Writes
  <2>2. CASE h.kind = "AddToList"
    <3>1. h.item \in ItemsAt(lists[t], k)
      BY <1>2, <2>2 DEF Says
    <3>2. CASE IsTribble(k)
      <4>1. h.item.vt[u] < h.item.vt[u] /\ h.item.vt \in Stamp
        BY <1>1, <2>2, <3>1, <3>2 DEF LacksItem
      <4>2. h.item.vt[u] \in Nat
        BY <4>1 DEF Stamp
      <4> QED
        BY <4>1, <4>2
    <3>3. CASE ~IsTribble(k)
      BY <1>1, <2>2, <3>1, <3>3 DEF LacksItem
    <3> QED
      BY <3>2, <3>3
  <2>3. CASE h.kind = "RemoveFromList"
    BY <1>1, <1>2, <2>3 DEF Says, LacksRemoval
  <2> QED
    BY <1>1, <2>1, <2>2, <2>3
<1>3. ASSUME NEW r, Stores(t, h, r), h.from \notin Client,
             simple'[u] = simple[u], lists'[u] = lists[u]
      PROVE  Alike(u, t, k)'
  <2>1. PICK item \in Item :
           /\ \/ h.kind = "Put" /\ StoresPut(t, k)
              \/ h.kind = "AddToList" /\ StoresItem(t, k, item)
              \/ h.kind = "RemoveFromList" /\ StoresRemoval(t, k, item)
           /\ item = h.item
    BY <1>3 DEF Stores
  <2>2. Held(u, k)' = Held(u, k)
    BY <1>3 DEF Held
  <2>3. CASE h.kind = "Put"
    BY <1>1, <1>3, <2>1, <2>2, <2>3, PutHeld
       DEF LacksPut, Alike, SimpleAlike, ListAlike
  <2>4. CASE h.kind = "AddToList"
    BY <1>1, <1>3, <2>1, <2>2, <2>4, ItemHeld
       DEF LacksItem, Alike, SimpleAlike, ListAlike
  <2>5. CASE h.kind = "RemoveFromList"
    BY <1>1, <1>3, <2>1, <2>2, <2>5, RemovalHeld
       DEF LacksRemoval, Alike, SimpleAlike, ListAlike
  <2> QED
    BY <1>1, <2>3, <2>4, <2>5
<1> QED
  BY <1>2, <1>3

-----------------------------------------------------------------------------
(* The replicas stay in step. *)

Rep(W) == WritesRouted(W) /\ WriterStamps(W) /\ KeysAgreed(W) /\ AnswersOK

\* A server's place among u's peers is its own.
LEMMA OwnIndex ==
    ASSUME NEW u \in Server, NEW t \in Server, u # t
    PROVE  /\ IndexOf(u, t) \in Index /\ IndexOf(u, t) \in Int
           /\ IndexOf(u, t) < End /\ 0 <= IndexOf(u, t)
           /\ \A s \in Server : s # u /\ IndexOf(u, s) = IndexOf(u, t) => s = t
  BY NAssumption DEF Server, Index, End, IndexOf

\* Steps that store nothing and leave the broadcasts where they are.
LEMMA QuietRep ==
    ASSUME NEW W \in [Key -> Server], TypeOK, TypeOK', Rep(W), WritesRouted(W)', AnswersOK',
           UNCHANGED <<simple, lists>>,
           \A s \in Server : vt[s][s] <= vt'[s][s],
           \A s \in Server : pc'[s] = "bcast" =>
               pc[s] = "bcast" /\ job'[s] = job[s] /\ vt'[s] = vt[s],
           \A s, t \in Server : s # t /\ pc[s] = "bcast" =>
               IF pc'[s] = "bcast" THEN Untold(s, t)' <=> Untold(s, t) ELSE ~Untold(s, t)
    PROVE  Rep(W)'
<1>1. \A s : \A k : SameAt(s, k)
  BY DEF SameAt
<1>2. WriterStamps(W)'
  <2>1. ASSUME NEW s \in Server, NEW k \in Key, IsTribble(k), NEW x \in ItemsAt(lists'[s], k)
        PROVE  x.vt \in Stamp /\ x.vt[W[k]] <= vt'[W[k]][W[k]]
    <3>1. x.vt \in Stamp /\ x.vt[W[k]] <= vt[W[k]][W[k]] /\ W[k] \in Server
      BY <2>1 DEF Rep, WriterStamps
    <3>2. x.vt[W[k]] \in Nat /\ vt[W[k]][W[k]] \in Nat /\ vt'[W[k]][W[k]] \in Nat
      BY <3>1 DEF TypeOK, Stamp
    <3>3. vt[W[k]][W[k]] <= vt'[W[k]][W[k]]
      BY <3>1
    <3> QED
      BY <3>1, <3>2, <3>3
  <2> QED
    BY <2>1 DEF Rep, WriterStamps
<1>3. ASSUME NEW t \in Server, NEW k \in Key, W[k] # t
      PROVE  KeyAgreed(W[k], t, k)'
  <2> DEFINE u == W[k]
  <2>1. u \in Server /\ KeyAgreed(u, t, k)
    BY <1>3 DEF Rep, KeysAgreed
  <2>2. CASE Pending(u, t, k)'
    <3>1. Pending(u, t, k) /\ job'[u] = job[u]
      BY <1>3, <2>1, <2>2 DEF Pending
    <3>2. Lacks(u, t)
      BY <2>1, <3>1 DEF KeyAgreed
    <3>3. Lacks(u, t)'
      BY <1>1, <3>1, <3>2, SameLacks
    <3> QED
      BY <2>2, <3>3 DEF KeyAgreed
  <2>3. CASE ~Pending(u, t, k)'
    <3>1. ~Pending(u, t, k)
      BY <1>3, <2>1, <2>3 DEF Pending
    <3>2. Alike(u, t, k)
      BY <2>1, <3>1 DEF KeyAgreed
    <3>3. Alike(u, t, k)'
      BY <1>1, <3>2, SameAlike
    <3> QED
      BY <2>3, <3>3 DEF KeyAgreed
  <2> QED
    BY <2>2, <2>3
<1>4. KeysAgreed(W)'
  BY <1>3 DEF KeysAgreed
<1> QED
  BY <1>2, <1>4 DEF Rep

\* A handler keeps the other requests of its queue.
LEMMA HandlerQueue ==
    ASSUME CoreInv, NEW s \in Server, pc[s] = "serve", inbox[s] # <<>>, Take(s)
    PROVE  /\ \A t \in Server : \A n \in DOMAIN inbox'[t] :
                 \E m \in DOMAIN inbox[t] : inbox'[t][n] = inbox[t][m]
           /\ 1 \in DOMAIN inbox[s] /\ inbox[s][1] = Head(inbox[s])
<1>1. inbox[s] \in Seq(Request)
  BY DEF CoreInv, TypeInv, TypeOK
<1>2. \A t \in Server : inbox'[t] = IF t = s THEN Tail(inbox[s]) ELSE inbox[t]
  BY DEF CoreInv, TypeInv, TypeOK, Take
<1>3. \A n \in DOMAIN Tail(inbox[s]) :
         n + 1 \in DOMAIN inbox[s] /\ Tail(inbox[s])[n] = inbox[s][n + 1]
  BY <1>1
<1>4. \A t \in Server : \A n \in DOMAIN inbox'[t] :
         \E m \in DOMAIN inbox[t] : inbox'[t][n] = inbox[t][m]
  BY <1>2, <1>3
<1>5. 1 \in DOMAIN inbox[s] /\ inbox[s][1] = Head(inbox[s])
  BY <1>1
<1> QED
  BY <1>4, <1>5

\* Requests that were there before are routed as before.
LEMMA RoutedStill ==
    ASSUME NEW W, WritesRouted(W),
           \A t \in Server : \A n \in DOMAIN inbox'[t] :
              \E m \in DOMAIN inbox[t] : inbox'[t][n] = inbox[t][m],
           \A t \in Server : pc'[t] = "bcast" => W[job'[t].key] = t
    PROVE  WritesRouted(W)'
<1>1. ASSUME NEW t \in Server, NEW n \in DOMAIN inbox'[t],
             inbox'[t][n].from \in Client, Writes(inbox'[t][n])
      PROVE  W[inbox'[t][n].key] = t /\ inbox'[t][n].item.vt = NoStamp
  BY <1>1 DEF WritesRouted
<1> QED
  BY <1>1 DEF WritesRouted

\* A server that handles a request and stores nothing was not asked by a server.
LEMMA HandlerStaysRep ==
    ASSUME NEW W \in [Key -> Server], CoreInv, CoreInv', Up, Rep(W), NEW s \in Server,
           Handler(s), HandlerStays(s, Head(inbox[s]))
    PROVE  Rep(W)'
<1> DEFINE h == Head(inbox[s])
<1>1. /\ pc[s] = "serve" /\ inbox[s] # <<>> /\ Take(s)
      /\ \A t \in Server : vt[t][t] <= vt'[t][t] /\ (t # s => vt'[t] = vt[t])
  BY Handled
<1>2. TypeOK /\ TypeOK' /\ h \in Request /\ h.from # s
  BY <1>1, ServedCaller DEF CoreInv, TypeInv
<1>3. PICK status, values : Reply(h, status, values) /\ Says(s, h, status, values)
  BY DEF HandlerStays
<1>4. h.from \in Client
  <2> SUFFICES ASSUME h.from \in Server PROVE FALSE
    BY <1>2 DEF Request, Proc
  <2> DEFINE u == h.from
  <2>1. /\ u # s /\ pc[u] = "bcast" /\ Waiting(u) /\ Writes(h)
        /\ h.kind = job[u].kind /\ h.key = job[u].key /\ h.item = job[u].item
        /\ IndexOf(u, s) = idx[u]
    BY <1>1, ServerRequest
  <2>2. W[h.key] = u /\ h.key \in Key
    BY <1>2, <2>1 DEF Rep, WritesRouted, Request
  <2>3. Pending(u, s, h.key)
    BY <2>1 DEF Pending, Untold, Answered, Waiting
  <2>4. Lacks(u, s)
    BY <2>1, <2>2, <2>3 DEF Rep, KeysAgreed, KeyAgreed
  <2>5. h.from \notin Client
    BY ClusterAssumption
  <2> QED
    BY <1>3, <2>1, <2>4, <2>5, LackingTakes
<1>5. UNCHANGED <<pc, idx, job, simple, lists>>
  BY DEF HandlerStays
<1>6. \A t \in Server : call'[t] = call[t]
  BY <1>2, <1>3, <1>4, ClusterAssumption DEF Reply, TypeOK, Proc
<1>7. AnswersOK'
  BY <1>5, <1>6 DEF Rep, AnswersOK, Answered
<1>8. WritesRouted(W)'
  BY <1>1, <1>5, HandlerQueue, RoutedStill DEF Rep, WritesRouted
<1>9. \A t \in Server : pc'[t] = "bcast" =>
         pc[t] = "bcast" /\ job'[t] = job[t] /\ vt'[t] = vt[t]
  BY <1>1, <1>5
<1>10. \A u, t \in Server : u # t /\ pc[u] = "bcast" =>
         IF pc'[u] = "bcast" THEN Untold(u, t)' <=> Untold(u, t) ELSE ~Untold(u, t)
  BY <1>5, <1>6 DEF Untold, Answered
<1> QED
  BY <1>1, <1>2, <1>5, <1>7, <1>8, <1>9, <1>10, QuietRep

\* A peer that stores what it is told has what the writer has.
LEMMA PeerStoresRep ==
    ASSUME NEW W \in [Key -> Server], CoreInv, CoreInv', Up, Rep(W), NEW s \in Server,
           Handler(s), NEW h, h = Head(inbox[s]), NEW u \in Server, u = h.from,
           HandlerStores(s, h)
    PROVE  Rep(W)'
<1>1. /\ pc[s] = "serve" /\ inbox[s] # <<>> /\ Take(s)
      /\ \A t \in Server : /\ vt[t][t] <= vt'[t][t]
                           /\ t # s => /\ vt'[t] = vt[t] /\ simple'[t] = simple[t]
                                       /\ lists'[t] = lists[t]
  BY Handled
<1>2. TypeOK /\ TypeOK' /\ h \in Request /\ u \notin Client /\ h.key \in Key
  BY <1>1, ServedCaller, ClusterAssumption DEF CoreInv, TypeInv, Request
<1>3. /\ u # s /\ pc[u] = "bcast" /\ Waiting(u) /\ h.live /\ Writes(h)
      /\ h.kind = job[u].kind /\ h.key = job[u].key /\ h.item = job[u].item
      /\ IndexOf(u, s) = idx[u]
  BY <1>1, ServerRequest
<1>4. PICK r \in Request : /\ r.from = u /\ r.live = h.live
                           /\ Stores(s, h, r) /\ Conclude(s, r, "OK")
  BY DEF HandlerStores
<1>5. UNCHANGED <<pc, idx, job>> /\ call' = [call EXCEPT ![u] = Ended(@, "done", "OK", {})]
  BY <1>2, <1>3, <1>4 DEF Conclude, Finish, Reply
<1>6. /\ \A t \in Server : t # u => call'[t] = call[t]
      /\ call'[u].st = "done" /\ call'[u].status = "OK"
  BY <1>2, <1>5 DEF TypeOK, Proc, Ended, MakeCall
<1>7. W[h.key] = u
  BY <1>3 DEF Rep, WritesRouted
<1>8. Lacks(u, s)
  <2>1. Pending(u, s, h.key)
    BY <1>3 DEF Pending, Untold, Answered, Waiting
  <2> QED
    BY <1>2, <1>3, <1>7, <2>1 DEF Rep, KeysAgreed, KeyAgreed
<1>9. Alike(u, s, h.key)'
  BY <1>1, <1>2, <1>3, <1>4, <1>8, LackingTakes
<1>10. \A t \in Server : \A k : t # s \/ k # h.key => SameAt(t, k)
  <2>1. \A k : k # h.key => SameAt(s, k)
    BY <1>4, StoresElsewhere
  <2> QED
    BY <1>1, <2>1 DEF SameAt
<1>11. AnswersOK'
  BY <1>5, <1>6 DEF Rep, AnswersOK, Answered
<1>12. WritesRouted(W)'
  BY <1>1, <1>5, HandlerQueue, RoutedStill DEF Rep, WritesRouted
<1>13. ASSUME NEW w \in Server, NEW t \in Server, w # t, w # u \/ t # s, pc[w] = "bcast"
       PROVE  Untold(w, t)' <=> Untold(w, t)
  <2>1. CASE w # u
    BY <1>5, <1>6, <2>1 DEF Untold, Answered
  <2>2. CASE w = u
    <3>1. IndexOf(u, t) # idx[u]
      BY <1>3, <1>13, <2>2, OwnIndex
    <3> QED
      BY <1>5, <2>2, <3>1 DEF Untold
  <2> QED
    BY <2>1, <2>2
<1>14. ~Untold(u, s)'
  <2>1. idx[u] \in 0..End
    BY <1>2 DEF TypeOK
  <2>2. ~(idx[u] < IndexOf(u, s))
    BY <1>3, <2>1
  <2> QED
    BY <1>5, <1>6, <2>2 DEF Untold, Answered
<1>15. ASSUME NEW t \in Server, NEW k \in Key, W[k] # t
       PROVE  KeyAgreed(W[k], t, k)'
  <2> DEFINE w == W[k]
  <2>1. w \in Server /\ KeyAgreed(w, t, k)
    BY <1>15 DEF Rep, KeysAgreed
  <2>2. CASE t = s /\ k = h.key
    BY <1>7, <1>9, <1>14, <2>2 DEF KeyAgreed, Pending
  <2>3. CASE ~(t = s /\ k = h.key)
    <3>1. SameAt(t, k) /\ SameAt(w, k)
      BY <1>3, <1>7, <1>10, <2>1, <2>3
    <3>2. Pending(w, t, k)' <=> Pending(w, t, k)
      <4>1. CASE w # u \/ t # s
        BY <1>5, <1>13, <1>15, <2>1, <4>1 DEF Pending
      <4>2. CASE w = u /\ t = s
        BY <1>3, <1>5, <2>3, <4>2 DEF Pending
      <4> QED
        BY <4>1, <4>2
    <3>3. CASE Pending(w, t, k)
      <4>1. job[w].key = k /\ Lacks(w, t) /\ job'[w] = job[w]
        BY <1>5, <2>1, <3>3 DEF Pending, KeyAgreed
      <4>2. Lacks(w, t)'
        BY <3>1, <4>1, SameLacks
      <4> QED
        BY <3>2, <3>3, <4>2 DEF KeyAgreed
    <3>4. CASE ~Pending(w, t, k)
      <4>1. Alike(w, t, k)
        BY <2>1, <3>4 DEF KeyAgreed
      <4>2. Alike(w, t, k)'
        BY <3>1, <4>1, SameAlike
      <4> QED
        BY <3>2, <3>4, <4>2 DEF KeyAgreed
    <3> QED
      BY <3>3, <3>4
  <2> QED
    BY <2>2, <2>3
<1>16. \A v \in Server : \A w \in Server : vt[v][w] \in Nat /\ vt'[v][w] \in Nat
  <2>1. vt \in [Server -> Stamp] /\ vt' \in [Server -> Stamp]
    BY <1>2 DEF TypeOK
  <2> QED
    BY <2>1 DEF Stamp
<1>17. ASSUME NEW t \in Server, NEW k \in Key, IsTribble(k), NEW x \in ItemsAt(lists'[t], k)
       PROVE  x.vt \in Stamp /\ x.vt[W[k]] <= vt'[W[k]][W[k]]
  <2> DEFINE w == W[k]
  <2>1. x.vt \in Stamp /\ x.vt[w] <= vt[w][w]
    <3>1. CASE x \in ItemsAt(lists[t], k)
      BY <1>17, <3>1 DEF Rep, WriterStamps
    <3>2. CASE x \notin ItemsAt(lists[t], k)
      <4>1. t = s /\ k = h.key
        BY <1>10, <1>17, <3>2 DEF SameAt
      <4>2. h.kind = "AddToList" /\ x = h.item
        <5>1. PICK item \in Item :
                 /\ \/ h.kind = "Put" /\ StoresPut(s, k)
                    \/ h.kind = "AddToList" /\ StoresItem(s, k, item)
                    \/ h.kind = "RemoveFromList" /\ StoresRemoval(s, k, item)
                 /\ item = h.item
          BY <1>2, <1>4, <4>1 DEF Stores
        <5>2. CASE StoresPut(s, k)
          BY <1>17, <3>2, <4>1, <5>2, PutHeld
        <5>3. CASE h.kind = "AddToList" /\ StoresItem(s, k, item)
          <6>1. ItemsAt(lists'[s], k) = ItemsAt(lists[s], k) \cup {item}
            BY <5>3, ItemHeld
          <6> QED
            BY <1>17, <3>2, <4>1, <5>1, <5>3, <6>1
        <5>4. CASE StoresRemoval(s, k, item)
          <6>1. ItemsAt(lists'[s], k) = ItemsAt(lists[s], k) \ {item}
            BY <5>4, RemovalHeld
          <6> QED
            BY <1>17, <3>2, <4>1, <6>1
        <5> QED
          BY <5>1, <5>2, <5>3, <5>4
      <4>3. h.item.vt \in Stamp /\ h.item.vt[u] = vt[u][u]
        BY <1>3, <1>17, <4>1, <4>2 DEF Rep, WriterStamps
      <4>4. vt[u][u] \in Nat
        BY <1>16
      <4>5. w = u /\ x.vt[u] = vt[u][u] /\ x.vt \in Stamp
        BY <1>7, <4>1, <4>2, <4>3
      <4>6. x.vt[u] <= vt[u][u]
        BY <4>4, <4>5
      <4> QED
        BY <4>5, <4>6
    <3> QED
      BY <3>1, <3>2
  <2>2. w \in Server
    BY <1>17
  <2>3. vt[w][w] \in Nat /\ vt'[w][w] \in Nat /\ x.vt[w] \in Nat
    BY <1>16, <2>1, <2>2 DEF Stamp
  <2>4. vt[w][w] <= vt'[w][w]
    BY <1>1, <2>2
  <2> QED
    BY <2>1, <2>3, <2>4
<1>18. WriterStamps(W)'
  <2>1. \A t \in Server : pc'[t] = "bcast" => t # s /\ vt'[t] = vt[t]
    BY <1>1, <1>5
  <2> QED
    BY <1>5, <1>17, <2>1 DEF Rep, WriterStamps
<1>19. KeysAgreed(W)'
  BY <1>15 DEF KeysAgreed
<1> QED
  BY <1>11, <1>12, <1>18, <1>19 DEF Rep

\* The writer of a key has not begun to tell its peers: they lack just what it stores.
LEMMA StoringLacks ==
    ASSUME NEW s \in Server, NEW h, NEW r, Writes(h), h.from \in Client, SameWrite(h, r),
           Stores(s, h, r), job'[s] = r, NEW t, Alike(s, t, h.key),
           simple'[t] = simple[t], lists'[t] = lists[t],
           IsTribble(h.key) => h.kind # "RemoveFromList",
           IsTribble(h.key) /\ h.kind = "AddToList" =>
              /\ r.item.vt \in Stamp
              /\ \A x \in ItemsAt(lists[t], h.key) : x.vt[s] < r.item.vt[s]
    PROVE  Lacks(s, t)'
<1> DEFINE k == h.key
<1>1. PICK item \in Item :
         /\ item.value = h.item.value
         /\ \/ h.kind = "Put" /\ StoresPut(s, k)
            \/ h.kind = "AddToList" /\ StoresItem(s, k, item)
            \/ h.kind = "RemoveFromList" /\ StoresRemoval(s, k, item)
         /\ ~(IsPost(h) /\ h.from \in Client) => r = h /\ item = h.item
  BY DEF Stores
<1>2. r.kind = h.kind /\ r.key = k /\ r.item.value = h.item.value
  BY DEF SameWrite
<1>3. Held(t, k)' = Held(t, k)
  BY DEF Held
<1>4. CASE h.kind = "Put" /\ StoresPut(s, k)
  <2>1. LacksPut(s, t, k)'
    BY <1>3, <1>4, PutHeld DEF Alike, SimpleAlike, ListAlike, LacksPut
  <2> QED
    BY <1>2, <1>4, <2>1 DEF Lacks
<1>5. CASE h.kind = "AddToList" /\ StoresItem(s, k, item)
  <2>1. CASE IsTribble(k)
    <3>1. Held(s, k)' = Held(t, k)' \cup {Mark(k, r.item)}
      BY <1>1, <1>2, <1>3, <1>5, <2>1, ItemHeld DEF Alike, ListAlike, Mark
    <3>2. /\ r.item.vt \in Stamp
          /\ \A x \in ItemsAt(lists'[t], k) : x.vt[s] < r.item.vt[s]
      BY <1>5, <2>1
    <3>3. SimpleAlike(s, t, k)' /\ k \in DOMAIN lists'[s]
      BY <1>5, ItemHeld DEF Alike, SimpleAlike
    <3>4. LacksItem(s, t, k, r.item)'
      BY <2>1, <3>1, <3>2, <3>3 DEF LacksItem
    <3> QED
      BY <1>2, <1>5, <3>4 DEF Lacks
  <2>2. CASE ~IsTribble(k)
    <3>1. r = h /\ item = h.item
      BY <1>1, <2>2 DEF IsPost
    <3>2. Held(s, k)' = Held(t, k)' \cup {Mark(k, r.item)}
      BY <1>3, <1>5, <3>1, ItemHeld DEF Alike, ListAlike
    <3>3. item \notin ItemsAt(lists[t], k)
      BY <1>5, <2>2, ItemHeld DEF Alike, ListAlike, Held
    <3>4. SimpleAlike(s, t, k)' /\ k \in DOMAIN lists'[s]
      BY <1>5, ItemHeld DEF Alike, SimpleAlike
    <3>5. LacksItem(s, t, k, r.item)'
      BY <2>2, <3>1, <3>2, <3>3, <3>4 DEF LacksItem
    <3> QED
      BY <1>2, <1>5, <3>5 DEF Lacks
  <2> QED
    BY <2>1, <2>2
<1>6. CASE h.kind = "RemoveFromList" /\ StoresRemoval(s, k, item)
  <2>1. ~IsTribble(k) /\ r = h /\ item = h.item
    BY <1>1, <1>6 DEF IsPost
  <2>2. /\ simple'[s] = simple[s] /\ k \in DOMAIN lists[s] /\ k \in DOMAIN lists'[s]
        /\ item \in ItemsAt(lists[s], k) /\ Held(s, k)' = Held(s, k) \ {item}
    BY <1>6, <2>1, RemovalHeld
  <2>3. item \in ItemsAt(lists[t], k)
    BY <2>1, <2>2 DEF Alike, ListAlike, Held
  <2>4. LacksRemoval(s, t, k, r.item)'
    BY <1>3, <2>1, <2>2, <2>3 DEF LacksRemoval, Alike, SimpleAlike, ListAlike
  <2> QED
    BY <1>2, <1>6, <2>4 DEF Lacks
<1> QED
  BY <1>1, <1>4, <1>5, <1>6

\* The server that a key is written through stores a write.
LEMMA WriterStoresRep ==
    ASSUME NEW W \in [Key -> Server], CoreInv, CoreInv', Up, Rep(W), NEW s \in Server,
           Handler(s), NEW h, h = Head(inbox[s]), h.from \in Client, HandlerStores(s, h)
    PROVE  Rep(W)'
<1>1. /\ pc[s] = "serve" /\ inbox[s] # <<>> /\ Take(s)
      /\ \A t \in Server : /\ vt[t][t] <= vt'[t][t]
                           /\ t # s => /\ vt'[t] = vt[t] /\ simple'[t] = simple[t]
                                       /\ lists'[t] = lists[t]
  BY Handled
<1>2. TypeOK /\ TypeOK' /\ h \in Request /\ Idle(s) /\ h.key \in Key /\ h.item \in Item
  BY <1>1, ServedCaller DEF CoreInv, TypeInv, Request
<1>3. \A v \in Server : \A w \in Server : vt[v][w] \in Nat /\ vt'[v][w] \in Nat
  <2>1. vt \in [Server -> Stamp] /\ vt' \in [Server -> Stamp]
    BY <1>2 DEF TypeOK
  <2> QED
    BY <2>1 DEF Stamp
<1>4. Writes(h) /\ W[h.key] = s /\ h.item.vt = NoStamp
  <2>1. 1 \in DOMAIN inbox[s] /\ inbox[s][1] = h
    BY <1>1, HandlerQueue
  <2> QED
    BY <2>1 DEF HandlerStores, Rep, WritesRouted
<1>5. PICK r \in Request : /\ r.from = h.from /\ SameWrite(h, r)
                           /\ Stores(s, h, r) /\ Conclude(s, r, "OK")
  BY DEF HandlerStores
<1>6. r.key = h.key /\ r.kind = h.kind
  BY <1>5 DEF SameWrite
<1>7. /\ pc' = [pc EXCEPT ![s] = "bcast"] /\ pc'[s] = "bcast"
      /\ job' = [job EXCEPT ![s] = r] /\ job'[s] = r
      /\ idx' = [idx EXCEPT ![s] = 0] /\ idx'[s] = 0
      /\ UNCHANGED call
  BY <1>2, <1>5, BroadcastBegins DEF Conclude
<1>8. \A t \in Server : t # s => pc'[t] = pc[t] /\ job'[t] = job[t] /\ idx'[t] = idx[t]
  BY <1>2, <1>7 DEF TypeOK
<1>9. AnswersOK'
  BY <1>2, <1>7, <1>8 DEF Rep, AnswersOK, Answered, Idle
<1>10. WritesRouted(W)'
  BY <1>1, <1>4, <1>6, <1>7, <1>8, HandlerQueue, RoutedStill DEF Rep, WritesRouted
<1>11. \A t \in Server : \A k : t # s \/ k # h.key => SameAt(t, k)
  <2>1. \A k : k # h.key => SameAt(s, k)
    BY <1>5, StoresElsewhere
  <2> QED
    BY <1>1, <2>1 DEF SameAt
<1>12. PICK item \in Item :
         /\ \/ h.kind = "Put" /\ StoresPut(s, h.key)
            \/ h.kind = "AddToList" /\ StoresItem(s, h.key, item)
            \/ h.kind = "RemoveFromList" /\ StoresRemoval(s, h.key, item)
         /\ IF IsPost(h)
            THEN /\ item.vt \in Stamp /\ r.item.vt \in Stamp
                 /\ vt[s][s] < item.vt[s] /\ item.vt[s] < r.item.vt[s]
                 /\ r.item.vt[s] = vt'[s][s]
            ELSE r = h /\ item = h.item
  BY <1>5 DEF Stores
<1>13. ASSUME IsTribble(h.key)
       PROVE  h.kind # "RemoveFromList"
  <2> SUFFICES ASSUME h.kind = "RemoveFromList" PROVE FALSE
    OBVIOUS
  <2>1. item = h.item /\ StoresRemoval(s, h.key, item)
    BY <1>12 DEF IsPost
  <2>2. item \in ItemsAt(lists[s], h.key)
    BY <2>1, RemovalHeld
  <2>3. NoStamp \in Stamp
    BY <1>2, <1>4, <1>13, <2>1, <2>2 DEF Rep, WriterStamps
  <2>4. DOMAIN NoStamp = {} /\ 1 \in Server
    BY NAssumption DEF NoStamp, Server
  <2> QED
    BY <2>3, <2>4 DEF Stamp
<1>14. ASSUME IsTribble(h.key), NEW t \in Server, h.kind = "AddToList"
       PROVE  /\ r.item.vt \in Stamp
              /\ \A x \in ItemsAt(lists[t], h.key) : x.vt[s] < r.item.vt[s]
  <2>1. /\ r.item.vt \in Stamp /\ item.vt \in Stamp
        /\ vt[s][s] < item.vt[s] /\ item.vt[s] < r.item.vt[s]
    BY <1>12, <1>14 DEF IsPost
  <2>2. ASSUME NEW x \in ItemsAt(lists[t], h.key)
        PROVE  x.vt[s] < r.item.vt[s]
    <3>1. x.vt \in Stamp /\ x.vt[s] <= vt[s][s]
      BY <1>2, <1>4, <1>14, <2>2 DEF Rep, WriterStamps
    <3>2. x.vt[s] \in Nat /\ item.vt[s] \in Nat /\ r.item.vt[s] \in Nat /\ vt[s][s] \in Nat
      BY <1>3, <2>1, <3>1 DEF Stamp
    <3> QED
      BY <2>1, <3>1, <3>2
  <2> QED
    BY <2>1, <2>2
<1>15. ASSUME NEW t \in Server, NEW k \in Key, W[k] # t
       PROVE  KeyAgreed(W[k], t, k)'
  <2> DEFINE w == W[k]
  <2>1. w \in Server /\ KeyAgreed(w, t, k)
    BY <1>15 DEF Rep, KeysAgreed
  <2>2. CASE k = h.key
    <3>1. w = s /\ t # s
      BY <1>4, <1>15, <2>2
    <3>2. Alike(s, t, k)
      BY <1>1, <2>1, <3>1 DEF KeyAgreed, Pending
    <3>3. Lacks(s, t)'
      BY <1>1, <1>4, <1>5, <1>7, <1>13, <1>14, <2>2, <3>1, <3>2, StoringLacks
    <3>4. Pending(s, t, k)'
      <4>1. 0 <= IndexOf(s, t) /\ IndexOf(s, t) \in Int
        BY <3>1, OwnIndex
      <4>2. Untold(s, t)'
        BY <1>2, <1>7, <4>1 DEF Untold, Answered, Idle
      <4> QED
        BY <1>6, <1>7, <2>2, <4>2 DEF Pending
    <3> QED
      BY <3>1, <3>3, <3>4 DEF KeyAgreed
  <2>3. CASE k # h.key
    <3>1. SameAt(t, k) /\ SameAt(w, k)
      BY <1>11, <2>1, <2>3
    <3>2. /\ Pending(w, t, k)' <=> Pending(w, t, k)
          /\ Pending(w, t, k) => job'[w] = job[w]
      <4>1. CASE w = s
        BY <1>1, <1>6, <1>7, <2>3, <4>1 DEF Pending
      <4>2. CASE w # s
        BY <1>7, <1>8, <2>1, <4>2 DEF Pending, Untold, Answered
      <4> QED
        BY <4>1, <4>2
    <3>3. CASE Pending(w, t, k)
      <4>1. job[w].key = k /\ Lacks(w, t) /\ job'[w] = job[w]
        BY <2>1, <3>2, <3>3 DEF Pending, KeyAgreed
      <4>2. Lacks(w, t)'
        BY <3>1, <4>1, SameLacks
      <4> QED
        BY <3>2, <3>3, <4>2 DEF KeyAgreed
    <3>4. CASE ~Pending(w, t, k)
      <4>1. Alike(w, t, k)
        BY <2>1, <3>4 DEF KeyAgreed
      <4>2. Alike(w, t, k)'
        BY <3>1, <4>1, SameAlike
      <4> QED
        BY <3>2, <3>4, <4>2 DEF KeyAgreed
    <3> QED
      BY <3>3, <3>4
  <2> QED
    BY <2>2, <2>3
<1>16. ASSUME NEW t \in Server, NEW k \in Key, IsTribble(k), NEW x \in ItemsAt(lists'[t], k)
       PROVE  x.vt \in Stamp /\ x.vt[W[k]] <= vt'[W[k]][W[k]]
  <2> DEFINE w == W[k]
  <2>1. CASE x \in ItemsAt(lists[t], k)
    <3>1. x.vt \in Stamp /\ x.vt[w] <= vt[w][w] /\ w \in Server
      BY <1>16, <2>1 DEF Rep, WriterStamps
    <3>2. x.vt[w] \in Nat /\ vt[w][w] \in Nat /\ vt'[w][w] \in Nat
      BY <1>3, <3>1 DEF Stamp
    <3>3. vt[w][w] <= vt'[w][w]
      BY <1>1, <3>1
    <3> QED
      BY <3>1, <3>2, <3>3
  <2>2. CASE x \notin ItemsAt(lists[t], k)
    <3>1. t = s /\ k = h.key
      BY <1>11, <1>16, <2>2 DEF SameAt
    <3>2. h.kind = "AddToList" /\ x = item
      <4>1. CASE StoresPut(s, k)
        BY <1>16, <2>2, <3>1, <4>1, PutHeld
      <4>2. CASE h.kind = "AddToList" /\ StoresItem(s, k, item)
        <5>1. ItemsAt(lists'[s], k) = ItemsAt(lists[s], k) \cup {item}
          BY <4>2, ItemHeld
        <5> QED
          BY <1>16, <2>2, <3>1, <4>2, <5>1
      <4>3. CASE StoresRemoval(s, k, item)
        <5>1. ItemsAt(lists'[s], k) = ItemsAt(lists[s], k) \ {item}
          BY <4>3, RemovalHeld
        <5> QED
          BY <1>16, <2>2, <3>1, <5>1
      <4> QED
        BY <1>12, <3>1, <4>1, <4>2, <4>3
    <3>3. /\ x.vt \in Stamp /\ r.item.vt \in Stamp /\ x.vt[s] < r.item.vt[s]
          /\ r.item.vt[s] = vt'[s][s]
      BY <1>12, <1>16, <3>1, <3>2 DEF IsPost
    <3>4. x.vt[s] \in Nat /\ vt'[s][s] \in Nat
      BY <1>3, <3>3 DEF Stamp
    <3>5. x.vt[s] <= vt'[s][s]
      BY <3>3, <3>4
    <3> QED
      BY <1>4, <3>1, <3>3, <3>5
  <2> QED
    BY <2>1, <2>2
<1>17. ASSUME NEW t \in Server, pc'[t] = "bcast", job'[t].kind = "AddToList",
              IsTribble(job'[t].key)
       PROVE  job'[t].item.vt \in Stamp /\ job'[t].item.vt[t] = vt'[t][t]
  <2>1. CASE t = s
    BY <1>6, <1>7, <1>12, <1>17, <2>1 DEF IsPost
  <2>2. CASE t # s
    BY <1>1, <1>8, <1>17, <2>2 DEF Rep, WriterStamps
  <2> QED
    BY <2>1, <2>2
<1>18. WriterStamps(W)'
  BY <1>16, <1>17 DEF WriterStamps
<1>19. KeysAgreed(W)'
  BY <1>15 DEF KeysAgreed
<1> QED
  BY <1>9, <1>10, <1>18, <1>19 DEF Rep

\* Every step of a server.
LEMMA ServerRep ==
    ASSUME NEW W \in [Key -> Server], CoreInv, CoreInv', Up, Rep(W), faults' = 0,
           NEW s \in Server, Boot(s) \/ ServerStep(s) \/ Crash(s)
    PROVE  Rep(W)'
<1>1. TypeOK /\ TypeOK' /\ s \in Proc /\ job[s] \in Request /\ idx[s] \in 0..End
  BY DEF CoreInv, TypeInv, TypeOK, Proc
<1>2. \A t \in Server : vt[t][t] <= vt[t][t]
  <2>1. \A t \in Server : vt[t][t] \in Nat
    BY <1>1 DEF TypeOK, Stamp
  <2> QED
    BY <2>1
<1>3. CASE Handler(s)
  <2> DEFINE h == Head(inbox[s])
  <2>1. h.from \in Client \/ h.from \in Server
    <3>1. pc[s] = "serve" /\ inbox[s] # <<>>
      BY <1>3, Handled
    <3>2. h \in Request
      BY <3>1, ServedCaller
    <3> QED
      BY <3>2 DEF Request, Proc
  <2>2. HandlerStays(s, h) \/ HandlerStores(s, h)
    BY <1>3, Handled
  <2>3. CASE HandlerStays(s, h)
    BY <1>3, <2>3, HandlerStaysRep
  <2>4. CASE HandlerStores(s, h)
    BY <1>3, <2>1, <2>4, WriterStoresRep, PeerStoresRep
  <2> QED
    BY <2>2, <2>3, <2>4
<1>4. CASE BcastCall(s)
  <2>1. /\ Peer(s, idx[s]) \in Server /\ OpOf(job[s]) \in Op /\ Idle(s)
        /\ Send(s, Peer(s, idx[s]), OpOf(job[s]))
        /\ UNCHANGED <<pc, idx, job, simple, lists, vt>>
    BY <1>4, BcastCallSends
  <2> DEFINE p == Peer(s, idx[s])
             o == OpOf(job[s])
             r == [from |-> s, live |-> TRUE, kind |-> o.kind, key |-> o.key, item |-> o.item]
  <2>2. /\ call' = [call EXCEPT ![s] = MakeCall("waiting", p, o, "OK", {})]
        /\ inbox' = [inbox EXCEPT ![p] = Append(@, r)]
    BY <2>1 DEF Send, Up, AllUp
  <2>3. /\ \A t \in Server : t # s => call'[t] = call[t]
        /\ ~Answered(s) /\ ~Answered(s)'
    BY <1>1, <2>1, <2>2 DEF TypeOK, Proc, MakeCall, Answered, Idle
  <2>4. WritesRouted(W)'
    <3>1. ASSUME NEW t \in Server, NEW n \in DOMAIN inbox'[t],
                 inbox'[t][n].from \in Client, Writes(inbox'[t][n])
          PROVE  W[inbox'[t][n].key] = t /\ inbox'[t][n].item.vt = NoStamp
      <4>1. inbox[t] \in Seq(Request)
        BY <1>1 DEF TypeOK
      <4>2. inbox'[t] = IF t = p THEN Append(inbox[t], r) ELSE inbox[t]
        BY <1>1, <2>1, <2>2 DEF TypeOK
      <4>3. r.from \notin Client /\ r \in Request
        BY <1>1, <2>1, ClusterAssumption DEF Request, Op
      <4>4. n \in DOMAIN inbox[t] /\ inbox'[t][n] = inbox[t][n]
        <5> HIDE DEF r
        <5> QED
          BY <3>1, <4>1, <4>2, <4>3
      <4> QED
        BY <3>1, <4>4 DEF Rep, WritesRouted
    <3> QED
      BY <2>1, <3>1 DEF Rep, WritesRouted
  <2>5. AnswersOK'
    BY <2>1, <2>3 DEF Rep, AnswersOK, Answered
  <2>6. \A u, t \in Server : u # t /\ pc[u] = "bcast" =>
          IF pc'[u] = "bcast" THEN Untold(u, t)' <=> Untold(u, t) ELSE ~Untold(u, t)
    <3>1. \A u \in Server : Answered(u)' <=> Answered(u)
      BY <2>3 DEF Answered
    <3> QED
      BY <2>1, <3>1 DEF Untold
  <2> QED
    BY <1>1, <1>2, <2>1, <2>4, <2>5, <2>6, QuietRep
<1>5. CASE BcastAnswer(s)
  <2>1. /\ idx[s] \in Index /\ idx' = [idx EXCEPT ![s] = idx[s] + 1]
        /\ Answered(s) /\ Forget(s)
        /\ UNCHANGED <<pc, job, simple, lists, vt, inbox>>
    BY <1>5, BcastAnswerMoves
  <2>2. /\ \A t \in Server : t # s => call'[t] = call[t] /\ idx'[t] = idx[t]
        /\ ~Answered(s)' /\ idx'[s] = idx[s] + 1
    BY <1>1, <2>1, ForgetType DEF TypeOK, Proc, Answered
  <2>3. AnswersOK'
    BY <2>1, <2>2 DEF Rep, AnswersOK, Answered
  <2>4. WritesRouted(W)'
    BY <2>1 DEF Rep, WritesRouted
  <2>5. ASSUME NEW u \in Server, NEW t \in Server, u # t, pc[u] = "bcast"
        PROVE  Untold(u, t)' <=> Untold(u, t)
    <3>1. CASE u = s
      <4>1. idx[s] \in Int /\ IndexOf(s, t) \in Int
        BY <1>1, <2>5, <3>1, OwnIndex
      <4> QED
        BY <2>1, <2>2, <3>1, <4>1 DEF Untold
    <3>2. CASE u # s
      BY <2>2, <3>2 DEF Untold, Answered
    <3> QED
      BY <3>1, <3>2
  <2> QED
    BY <1>1, <1>2, <2>1, <2>3, <2>4, <2>5, QuietRep
<1>6. CASE BcastRejected(s)
  BY <1>6 DEF Rep, AnswersOK, BcastRejected
<1>7. CASE BcastDone(s)
  <2>1. /\ pc[s] = "bcast" /\ idx[s] = End
        /\ pc' = [pc EXCEPT ![s] = "serve"] /\ idx' = [idx EXCEPT ![s] = 0]
        /\ job' = [job EXCEPT ![s] = NoJob] /\ UNCHANGED <<simple, lists, vt, inbox>>
    BY <1>7 DEF BcastDone, BcastStop
  <2>2. /\ pc'[s] = "serve"
        /\ \A t \in Server : t # s => pc'[t] = pc[t] /\ idx'[t] = idx[t] /\ job'[t] = job[t]
    BY <1>1, <2>1 DEF TypeOK
  <2>3. \A t \in Server : t # s => call'[t] = call[t]
    <3>1. job[s].from \in Client
      BY <2>1 DEF CoreInv, TypeInv, LoopsOK
    <3> QED
      BY <1>7, <3>1, ClusterAssumption DEF BcastDone, BcastStop, Proc
  <2>4. AnswersOK'
    BY <2>2, <2>3 DEF Rep, AnswersOK, Answered
  <2>5. WritesRouted(W)'
    BY <2>1, <2>2 DEF Rep, WritesRouted
  <2>6. ASSUME NEW t \in Server, t # s
        PROVE  ~Untold(s, t)
    <3>1. IndexOf(s, t) \in Int /\ IndexOf(s, t) < End /\ End \in Int
      BY <2>6, OwnIndex, NAssumption DEF End
    <3> QED
      BY <2>1, <3>1 DEF Untold
  <2>7. \A u, t \in Server : u # t /\ pc[u] = "bcast" =>
          IF pc'[u] = "bcast" THEN Untold(u, t)' <=> Untold(u, t) ELSE ~Untold(u, t)
    BY <2>2, <2>3, <2>6 DEF Untold, Answered
  <2>8. \A t \in Server : pc'[t] = "bcast" => pc[t] = "bcast" /\ job'[t] = job[t]
    BY <2>2
  <2> QED
    BY <1>1, <1>2, <2>1, <2>4, <2>5, <2>7, <2>8, QuietRep
<1> QED
  BY <1>3, <1>4, <1>5, <1>6, <1>7, UpSteps

\* The cluster and the store of an operation's call, which is written where W says.
LEMMA ClientSendRep ==
    ASSUME NEW W \in [Key -> Server], CoreInv, CoreInv', Rep(W), NEW c \in Client,
           NEW o \in Op, Writes(o) => W[o.key] = Entry[c] /\ o.item.vt = NoStamp,
           Send(c, Entry[c], o), UNCHANGED <<pc, idx, job, simple, lists, vt>>
    PROVE  Rep(W)'
<1> DEFINE e == Entry[c]
           r == [from |-> c, live |-> TRUE, kind |-> o.kind, key |-> o.key, item |-> o.item]
<1>1. TypeOK /\ TypeOK' /\ c \in Proc /\ c \notin Server /\ e \in Server
  BY ClusterAssumption DEF CoreInv, TypeInv, Proc
<1>2. \A t \in Server : call'[t] = call[t]
  <2>1. \E x : call' = [call EXCEPT ![c] = x]
    BY DEF Send
  <2> QED
    BY <1>1, <2>1 DEF TypeOK, Proc
<1>3. WritesRouted(W)'
  <2>1. ASSUME NEW t \in Server, NEW n \in DOMAIN inbox'[t],
               inbox'[t][n].from \in Client, Writes(inbox'[t][n])
        PROVE  W[inbox'[t][n].key] = t /\ inbox'[t][n].item.vt = NoStamp
    <3>1. inbox[t] \in Seq(Request)
      BY <1>1 DEF TypeOK
    <3>2. inbox'[t] = inbox[t] \/ (t = e /\ inbox'[t] = Append(inbox[t], r))
      BY <1>1 DEF TypeOK, Send
    <3>3. r.kind = o.kind /\ r.key = o.key /\ r.item = o.item /\ r \in Request
      BY <1>1 DEF Request, Op
    <3> HIDE DEF r
    <3>4. (n \in DOMAIN inbox[t] /\ inbox'[t][n] = inbox[t][n]) \/ (t = e /\ inbox'[t][n] = r)
      BY <2>1, <3>1, <3>2, <3>3
    <3>5. CASE n \in DOMAIN inbox[t] /\ inbox'[t][n] = inbox[t][n]
      BY <2>1, <3>5 DEF Rep, WritesRouted
    <3>6. CASE t = e /\ inbox'[t][n] = r
      BY <2>1, <3>3, <3>6 DEF Writes
    <3> QED
      BY <3>4, <3>5, <3>6
  <2> QED
    BY <2>1 DEF Rep, WritesRouted
<1>4. AnswersOK'
  BY <1>2 DEF Rep, AnswersOK, Answered
<1>5. \A u, t \in Server : u # t /\ pc[u] = "bcast" =>
         IF pc'[u] = "bcast" THEN Untold(u, t)' <=> Untold(u, t) ELSE ~Untold(u, t)
  BY <1>2 DEF Untold, Answered
<1>6. \A t \in Server : vt[t][t] <= vt'[t][t]
  <2>1. \A t \in Server : vt[t][t] \in Nat
    BY <1>1 DEF TypeOK, Stamp
  <2> QED
    BY <2>1
<1> QED
  BY <1>1, <1>3, <1>4, <1>5, <1>6, QuietRep

\* A Tribbler server that has its answer.
LEMMA ClientForgetRep ==
    ASSUME NEW W \in [Key -> Server], CoreInv, CoreInv', Rep(W), NEW c \in Client,
           Forget(c), UNCHANGED <<pc, idx, job, simple, lists, vt, inbox>>
    PROVE  Rep(W)'
<1>1. TypeOK /\ TypeOK' /\ c \in Proc /\ c \notin Server
  BY ClusterAssumption DEF CoreInv, TypeInv, Proc
<1>2. \A t \in Server : call'[t] = call[t]
  BY <1>1, ForgetType DEF Proc
<1>3. WritesRouted(W)' /\ AnswersOK'
  BY <1>2 DEF Rep, WritesRouted, AnswersOK, Answered
<1>4. \A u, t \in Server : u # t /\ pc[u] = "bcast" =>
         IF pc'[u] = "bcast" THEN Untold(u, t)' <=> Untold(u, t) ELSE ~Untold(u, t)
  BY <1>2 DEF Untold, Answered
<1>5. \A t \in Server : vt[t][t] <= vt'[t][t]
  <2>1. \A t \in Server : vt[t][t] \in Nat
    BY <1>1 DEF TypeOK, Stamp
  <2> QED
    BY <2>1
<1> QED
  BY <1>1, <1>3, <1>4, <1>5, QuietRep

-----------------------------------------------------------------------------
(* Every step, and the theorem. *)

\* The Tribbler servers' plans write every key through the server that W gives.
WrittenThrough(W) ==
    \A c \in Client : \A o \in Plan[c] : Writes(o) => W[o.key] = Entry[c]

\* Crashes are not taken back.
LEMMA CrashesStay ==
    ASSUME CoreInv, Next, faults' = 0
    PROVE  faults = 0
<1>1. faults \in Nat
  BY DEF CoreInv, TypeInv, TypeOK
<1>2. faults' \in {faults, faults + 1}
  <2>1. ASSUME NEW s \in Server, Boot(s) \/ ServerStep(s) \/ Crash(s)
        PROVE  faults' \in {faults, faults + 1}
    BY <2>1, FaultsMove
  <2>2. CASE \E c \in Client : ClientStep(c)
    BY <2>2 DEF ClientStep, ClientCall, ClientReturn, ClientCrash, ClientEnds
  <2>3. CASE Settled
    BY <2>3 DEF Settled, vars
  <2> QED
    BY <2>1, <2>2, <2>3 DEF Next
<1> QED
  BY <1>1, <1>2

\* A step that changes nothing.
LEMMA StillRep ==
    ASSUME NEW W \in [Key -> Server], TypeOK, TypeOK', Rep(W), UNCHANGED vars
    PROVE  Rep(W)'
<1>1. UNCHANGED <<pc, idx, job, simple, lists, vt, call, inbox>>
  BY DEF vars
<1>2. WritesRouted(W)' /\ AnswersOK'
  BY <1>1 DEF Rep, WritesRouted, AnswersOK, Answered
<1>3. \A u, t : Untold(u, t)' <=> Untold(u, t)
  BY <1>1 DEF Untold, Answered
<1>4. \A s \in Server : vt[s][s] <= vt[s][s]
  <2>1. \A s \in Server : vt[s][s] \in Nat
    BY DEF TypeOK, Stamp
  <2> QED
    BY <2>1
<1> QED
  BY <1>1, <1>2, <1>3, <1>4, QuietRep

\* Every step of the cluster.
LEMMA ReplicaNext ==
    ASSUME NEW W \in [Key -> Server], WrittenThrough(W),
           CoreInv, PlansKept, UpInv, ReplicaInv(W), [Next]_vars
    PROVE  ReplicaInv(W)'
<1>1. CoreInv'
  BY NextCore
<1>2. CASE UNCHANGED vars
  <2>1. TypeOK /\ TypeOK'
    BY <1>1 DEF CoreInv, TypeInv
  <2> QED
    BY <1>2, <2>1, StillRep DEF vars, ReplicaInv, Rep
<1>3. CASE Next
  <2> SUFFICES ASSUME faults' = 0 PROVE Rep(W)'
    BY DEF ReplicaInv, Rep
  <2>1. Up /\ Rep(W)
    BY <1>3, CrashesStay DEF UpInv, ReplicaInv, Rep
  <2>2. ASSUME NEW s \in Server, Boot(s) \/ ServerStep(s) \/ Crash(s)
        PROVE  Rep(W)'
    BY <1>1, <2>1, <2>2, ServerRep
  <2>3. ASSUME NEW c \in Client, ClientCall(c)
        PROVE  Rep(W)'
    <3>1. PICK o \in plan[c] : Send(c, Entry[c], o)
      BY <2>3 DEF ClientCall
    <3>2. o \in Op /\ o \in Plan[c]
      BY DEF CoreInv, TypeInv, TypeOK, PlansKept
    <3>3. Writes(o) => W[o.key] = Entry[c] /\ o.item.vt = NoStamp
      BY <3>2, PlanAssumption DEF WrittenThrough
    <3> QED
      BY <1>1, <2>1, <2>3, <3>1, <3>2, <3>3, ClientSendRep DEF ClientCall
  <2>4. ASSUME NEW c \in Client, ClientReturn(c)
        PROVE  Rep(W)'
    BY <1>1, <2>1, <2>4, ClientForgetRep DEF ClientReturn
  <2>5. ASSUME NEW c \in Client, ClientCrash(c)
        PROVE  Rep(W)'
    BY <2>5, ClientCrashEnds
  <2> QED
    BY <1>2, <1>3, <2>2, <2>3, <2>4, <2>5 DEF Next, ClientStep, Settled, ReplicaInv, Rep
<1> QED
  BY <1>2, <1>3

\* What is alike, stamps apart, has the same contents.
LEMMA AlikeContents ==
    ASSUME NEW u, NEW t, NEW k, Alike(u, t, k)
    PROVE  Contents(u, k) = Contents(t, k)
<1>1. {item.value : item \in ItemsAt(lists[u], k)} = {item.value : item \in ItemsAt(lists[t], k)}
  <2>1. CASE IsTribble(k)
    BY <2>1 DEF Alike, ListAlike, Held
  <2>2. CASE ~IsTribble(k)
    <3>1. ItemsAt(lists[u], k) = ItemsAt(lists[t], k)
      BY <2>2 DEF Alike, ListAlike, Held
    <3> QED
      BY <3>1
  <2> QED
    BY <2>1, <2>2
<1>2. /\ k \in DOMAIN simple[u] <=> k \in DOMAIN simple[t]
      /\ k \in DOMAIN lists[u] <=> k \in DOMAIN lists[t]
  BY DEF Alike, SimpleAlike, ListAlike
<1>3. /\ (k \in DOMAIN simple[u]) = (k \in DOMAIN simple[t])
      /\ (k \in DOMAIN lists[u]) = (k \in DOMAIN lists[t])
  BY <1>2
<1> QED
  BY <1>1, <1>3, Zenon DEF Contents

\* The invariant is what was to be shown, and more.
LEMMA ReplicasAgree ==
    ASSUME NEW W \in [Key -> Server], CoreInv, ReplicaInv(W)
    PROVE  DifferOnlyInBroadcasts /\ PeersNeverReject
<1>1. PeersNeverReject
  BY DEF ReplicaInv, AnswersOK, PeersNeverReject
<1>2. ASSUME faults = 0, NEW k \in StoredKeys, ~ \E u \in Server : pc[u] = "bcast" /\ job[u].key = k,
             NEW t \in Server
      PROVE  Contents(W[k], k) = Contents(t, k)
  <2>1. k \in Key
    BY <1>2 DEF StoredKeys, CoreInv, TypeInv, TypeOK, AreMaps, IsMap
  <2>2. CASE W[k] # t
    <3>1. KeyAgreed(W[k], t, k) /\ W[k] \in Server
      BY <1>2, <2>1, <2>2 DEF ReplicaInv, KeysAgreed
    <3>2. Alike(W[k], t, k)
      BY <1>2, <3>1 DEF KeyAgreed, Pending
    <3> QED
      BY <3>2, AlikeContents
  <2> QED
    BY <2>2
<1>3. DifferOnlyInBroadcasts
  <2>1. ASSUME faults = 0, NEW s \in Server, NEW t \in Server, NEW k \in StoredKeys,
               ~ \E u \in Server : pc[u] = "bcast" /\ job[u].key = k
        PROVE  Contents(s, k) = Contents(t, k)
    <3>1. Contents(W[k], k) = Contents(s, k) /\ Contents(W[k], k) = Contents(t, k)
      BY <1>2, <2>1
    <3> QED
      BY <3>1
  <2> QED
    BY <2>1 DEF DifferOnlyInBroadcasts
<1> QED
  BY <1>1, <1>3

\* Initially every server has the same two keys and no list.
LEMMA InitReplica ==
    ASSUME NEW W \in [Key -> Server], B = N, Init
    PROVE  ReplicaInv(W)
<1>1. \A s \in Server : /\ pc[s] = "serve" /\ simple[s] = RunningInfo /\ lists[s] = NoMap
                        /\ inbox[s] = <<>>
  BY NAssumption DEF Init, Server
<1>2. \A s \in Server : \A k : ItemsAt(lists[s], k) = {}
  BY <1>1 DEF ItemsAt, NoMap
<1>3. ASSUME NEW s \in Server, NEW t \in Server, NEW k
      PROVE  Alike(s, t, k)
  <2>1. simple[s] = simple[t] /\ lists[s] = lists[t]
    BY <1>1
  <2> QED
    BY <2>1 DEF Alike, SimpleAlike, ListAlike, Held
<1>4. WritesRouted(W)
  BY <1>1 DEF WritesRouted
<1>5. WriterStamps(W) /\ AnswersOK
  BY <1>1, <1>2 DEF WriterStamps, AnswersOK
<1>6. KeysAgreed(W)
  BY <1>1, <1>3 DEF KeysAgreed, KeyAgreed, Pending
<1> QED
  BY <1>4, <1>5, <1>6 DEF ReplicaInv

\* While all servers of a complete cluster stay up, and if every key is written
\* through one server, replicas differ only in keys that are being broadcast, and
\* no peer turns a broadcast down.
THEOREM ReplicasStayAlike ==
    ASSUME B = N, NEW CONSTANT W, W \in [Key -> Server], WrittenThrough(W)
    PROVE  Spec => [](DifferOnlyInBroadcasts /\ PeersNeverReject)
<1> DEFINE Inv == CoreInv /\ PlansKept /\ UpInv /\ ReplicaInv(W)
<1>1. Init => Inv
  BY InitCore, InitUp, InitReplica DEF Init, PlansKept
<1>2. Inv /\ [Next]_vars => Inv'
  BY NextCore, PlansNext, UpNext, ReplicaNext
<1>3. Inv => DifferOnlyInBroadcasts /\ PeersNeverReject
  BY ReplicasAgree
<1> HIDE DEF Inv
<1> QED
  BY <1>1, <1>2, <1>3, PTL DEF Spec

-----------------------------------------------------------------------------
(* What a caller sees.  The store's steps while everything is up, in terms  *)
(* of the calls of the Tribbler servers.                                    *)

\* The call of p is answered.
Gets(p, status, values) ==
    /\ Waiting(p)
    /\ call'[p].st = "done" /\ call'[p].op = call[p].op
    /\ call'[p].status = status /\ call'[p].values = values

\* The calls of the other processes stay as they are.
OthersKeep(P) == \A q \in Proc \ P : call'[q] = call[q]

\* The head of the queue is what its caller asks.
Asks(h) == /\ h \in Request /\ h.live /\ Waiting(h.from)
           /\ call[h.from].op.kind = h.kind /\ call[h.from].op.key = h.key
           /\ call[h.from].op.item = h.item

\* A request that is only answered.
Refuses(s, h) ==
    /\ UNCHANGED <<pc, idx, job, simple, lists>>
    /\ OthersKeep({h.from})
    /\ \E status, values : Gets(h.from, status, values) /\ Says(s, h, status, values)

\* A peer's write.
Obeys(s, h) ==
    /\ h.from \in Server /\ Writes(h) /\ Stores(s, h, h)
    /\ UNCHANGED <<pc, idx, job>>
    /\ OthersKeep({h.from}) /\ Gets(h.from, "OK", {})

\* A Tribbler server's write.
Accepts(s, h) ==
    /\ h.from \in Client /\ Writes(h)
    /\ pc'[s] = "bcast" /\ idx'[s] = 0
    /\ \A t \in Server \ {s} : pc'[t] = pc[t] /\ idx'[t] = idx[t] /\ job'[t] = job[t]
    /\ OthersKeep({})
    /\ job'[s].from = h.from /\ SameWrite(h, job'[s]) /\ Stores(s, h, job'[s])

\* The broadcast of s is over.
Concludes(s, status) ==
    /\ pc[s] = "bcast" /\ pc'[s] = "serve"
    /\ \A t \in Server \ {s} : pc'[t] = pc[t] /\ idx'[t] = idx[t] /\ job'[t] = job[t]
    /\ UNCHANGED <<simple, lists>>
    /\ Idle(s)' /\ OthersKeep({s, job[s].from})
    /\ job[s].from \in Client /\ Gets(job[s].from, status, {})

\* s handles the request h.
Serves(s, h) ==
    /\ pc[s] = "serve" /\ inbox[s] # <<>> /\ h = Head(inbox[s])
    /\ Asks(h) /\ h.from # s
    /\ \A t \in Server \ {s} : simple'[t] = simple[t] /\ lists'[t] = lists[t]
    /\ Refuses(s, h) \/ Obeys(s, h) \/ Accepts(s, h)

\* An answer changes one call.
LEMMA ReplyGets ==
    ASSUME TypeOK, NEW p \in Proc, Waiting(p), NEW r, r.live, r.from = p, NEW status, NEW values,
           Reply(r, status, values)
    PROVE  Gets(p, status, values) /\ OthersKeep({p})
  BY DEF Reply, Gets, OthersKeep, TypeOK, Ended, MakeCall

\* A handler, by what it was asked and what comes of it.
LEMMA Serving ==
    ASSUME CoreInv, Up, NEW s \in Server, Handler(s)
    PROVE  Serves(s, Head(inbox[s]))
<1> DEFINE h == Head(inbox[s])
<1>1. /\ pc[s] = "serve" /\ inbox[s] # <<>> /\ Take(s)
      /\ \A t \in Server : t # s => simple'[t] = simple[t] /\ lists'[t] = lists[t]
      /\ HandlerStays(s, h) \/ HandlerStores(s, h)
  BY Handled
<1>2. TypeOK /\ h \in Request /\ h.from # s /\ (h.live => Waiting(h.from))
  BY <1>1, ServedCaller DEF CoreInv, TypeInv
<1>3. h.from \in Proc
  BY <1>2 DEF Request
<1>4. Asks(h)
  <2>1. 1 \in DOMAIN inbox[s] /\ inbox[s][1] = h
    BY <1>1, HandlerQueue
  <2>2. h.live /\ OpOf(h) = call[h.from].op
    BY <2>1 DEF Up, RequestsAsked
  <2>3. OpOf(h).kind = h.kind /\ OpOf(h).key = h.key /\ OpOf(h).item = h.item
    BY DEF OpOf, MakeOp
  <2> QED
    BY <1>2, <2>2, <2>3 DEF Asks
<1>5. CASE HandlerStays(s, h)
  <2>1. PICK status, values : Reply(h, status, values) /\ Says(s, h, status, values)
    BY <1>5 DEF HandlerStays
  <2>2. Gets(h.from, status, values) /\ OthersKeep({h.from})
    BY <1>2, <1>3, <1>4, <2>1, ReplyGets DEF Asks
  <2>3. Refuses(s, h)
    BY <1>5, <2>1, <2>2 DEF Refuses, HandlerStays
  <2> QED
    BY <1>1, <1>2, <1>4, <2>3 DEF Serves
<1>6. CASE HandlerStores(s, h)
  <2>1. PICK r \in Request : /\ r.from = h.from /\ r.live = h.live /\ SameWrite(h, r)
                             /\ Stores(s, h, r) /\ Conclude(s, r, "OK")
    BY <1>6 DEF HandlerStores
  <2>2. CASE r.from \in Client
    <3>1. /\ pc' = [pc EXCEPT ![s] = "bcast"] /\ pc'[s] = "bcast"
          /\ job' = [job EXCEPT ![s] = r] /\ job'[s] = r
          /\ idx' = [idx EXCEPT ![s] = 0] /\ idx'[s] = 0
          /\ UNCHANGED call
      BY <1>2, <2>1, <2>2, BroadcastBegins DEF Conclude
    <3>2. \A t \in Server \ {s} : pc'[t] = pc[t] /\ idx'[t] = idx[t] /\ job'[t] = job[t]
      BY <1>2, <3>1 DEF TypeOK
    <3>3. Accepts(s, h)
      BY <1>6, <2>1, <2>2, <3>1, <3>2 DEF Accepts, HandlerStores, OthersKeep
    <3> QED
      BY <1>1, <1>2, <1>4, <3>3 DEF Serves
  <2>3. CASE r.from \notin Client
    <3>1. UNCHANGED <<pc, idx, job>> /\ Reply(r, "OK", {})
      BY <2>1, <2>3 DEF Conclude, Finish
    <3>2. Gets(h.from, "OK", {}) /\ OthersKeep({h.from})
      BY <1>2, <1>3, <1>4, <2>1, <3>1, ReplyGets DEF Asks
    <3>3. h.from \in Server /\ Stores(s, h, h)
      BY <1>3, <2>1, <2>3 DEF Proc, Stores
    <3>4. Obeys(s, h)
      BY <1>6, <3>1, <3>2, <3>3 DEF Obeys, HandlerStores
    <3> QED
      BY <1>1, <1>2, <1>4, <3>4 DEF Serves
  <2> QED
    BY <2>2, <2>3
<1> QED
  BY <1>1, <1>5, <1>6

\* The end of a broadcast, by who is told of it.
LEMMA Concluding ==
    ASSUME CoreInv, Up, NEW s \in Server, pc[s] = "bcast", NEW status, BcastStop(s, status)
    PROVE  Concludes(s, status)
<1>1. TypeOK /\ s \in Proc /\ job[s].from \in Client /\ job[s].live
  BY DEF CoreInv, TypeInv, LoopsOK, Up, JobsAsked, Proc
<1>2. job[s].from \in Proc /\ job[s].from # s
  BY <1>1, ClusterAssumption DEF Proc
<1>3. Waiting(job[s].from)
  BY <1>1, <1>2, OthersAsk
<1>4. /\ pc' = [pc EXCEPT ![s] = "serve"] /\ idx' = [idx EXCEPT ![s] = 0]
      /\ job' = [job EXCEPT ![s] = NoJob] /\ UNCHANGED <<simple, lists>>
  BY DEF BcastStop
<1>5. /\ call'[s] = NoCall
      /\ call'[job[s].from] = Ended(call[job[s].from], "done", status, {})
      /\ OthersKeep({s, job[s].from})
  BY <1>1, <1>2 DEF BcastStop, OthersKeep
<1>6. pc'[s] = "serve"
      /\ \A t \in Server \ {s} : pc'[t] = pc[t] /\ idx'[t] = idx[t] /\ job'[t] = job[t]
  BY <1>1, <1>4 DEF TypeOK
<1>7. Gets(job[s].from, status, {}) /\ Idle(s)'
  BY <1>3, <1>5, NoCallType DEF Gets, Ended, MakeCall, Idle
<1> QED
  BY <1>1, <1>4, <1>5, <1>6, <1>7 DEF Concludes

\* The steps of a server that neither serve nor conclude.
Calls(s) ==
    /\ pc[s] = "bcast" /\ Idle(s)
    /\ UNCHANGED <<pc, idx, job, simple, lists>>
    /\ OthersKeep({s}) /\ Waiting(s)' /\ call'[s].op = OpOf(job[s])

MovesOn(s) ==
    /\ pc[s] = "bcast" /\ Answered(s) /\ call[s].status \in {"OK", "INTERNAL_FAILURE"}
    /\ idx[s] \in Index /\ idx'[s] = idx[s] + 1 /\ \A t \in Server \ {s} : idx'[t] = idx[t]
    /\ UNCHANGED <<pc, job, simple, lists>>
    /\ OthersKeep({s}) /\ Idle(s)'

\* What a server does while everything is up.
LEMMA ServerDoes ==
    ASSUME CoreInv, Up, faults' = 0, NEW s \in Server, Boot(s) \/ ServerStep(s) \/ Crash(s)
    PROVE  \/ Serves(s, Head(inbox[s]))
           \/ Calls(s)
           \/ MovesOn(s)
           \/ Answered(s) /\ call[s].status \notin {"OK", "INTERNAL_FAILURE"}
              /\ Concludes(s, call[s].status)
           \/ idx[s] = End /\ Concludes(s, "OK")
<1>1. TypeOK /\ s \in Proc
  BY DEF CoreInv, TypeInv, Proc
<1>2. CASE Handler(s)
  BY <1>2, Serving
<1>3. CASE BcastCall(s)
  <2>1. /\ Idle(s) /\ pc[s] = "bcast" /\ Send(s, Peer(s, idx[s]), OpOf(job[s]))
        /\ UNCHANGED <<pc, idx, job, simple, lists>> /\ Peer(s, idx[s]) \in Server
    BY <1>3, BcastCallSends
  <2>2. call' = [call EXCEPT ![s] = MakeCall("waiting", Peer(s, idx[s]), OpOf(job[s]), "OK", {})]
    BY <2>1 DEF Send, Up, AllUp
  <2>3. OthersKeep({s}) /\ Waiting(s)' /\ call'[s].op = OpOf(job[s])
    BY <1>1, <2>2 DEF TypeOK, MakeCall, OthersKeep, Waiting
  <2> QED
    BY <2>1, <2>3 DEF Calls
<1>4. CASE BcastAnswer(s)
  <2>1. /\ idx[s] \in Index /\ idx' = [idx EXCEPT ![s] = idx[s] + 1]
        /\ Answered(s) /\ Forget(s) /\ pc[s] = "bcast" /\ UNCHANGED <<pc, job, simple, lists>>
    BY <1>4, BcastAnswerMoves
  <2>2. call'[s].st = "idle" /\ OthersKeep({s})
    BY <1>1, <2>1, ForgetType DEF OthersKeep
  <2>3. idx'[s] = idx[s] + 1 /\ \A t \in Server \ {s} : idx'[t] = idx[t]
    BY <1>1, <2>1 DEF TypeOK
  <2> QED
    BY <1>4, <2>1, <2>2, <2>3 DEF MovesOn, BcastAnswer, Idle
<1>5. CASE BcastRejected(s)
  BY <1>5, Concluding DEF BcastRejected
<1>6. CASE BcastDone(s)
  BY <1>6, Concluding DEF BcastDone
<1> QED
  BY <1>2, <1>3, <1>4, <1>5, <1>6, UpSteps

-----------------------------------------------------------------------------
(* Who creates a key.  Two servers may be storing a key at once and turn    *)
(* each other's broadcast down, but of all the Puts of the key, through     *)
(* whatever servers they come, one at most is answered OK.                  *)

\* s broadcasts a Put of k.
Putting(s, k) == pc[s] = "bcast" /\ job[s].kind = "Put" /\ job[s].key = k

\* t has taken s's broadcast.
Took(s, t) ==
    \/ IndexOf(s, t) < idx[s]
    \/ idx[s] = IndexOf(s, t) /\ Answered(s) /\ call[s].status = "OK"

\* c's Put of k was answered OK.
Winner(c, k) ==
    /\ Answered(c) /\ call[c].status = "OK"
    /\ call[c].op.kind = "Put" /\ call[c].op.key = k

\* Everybody has k, and nobody is told of it any more.
Taken(k) == \A s \in Server : k \in DOMAIN simple[s] /\ ~Putting(s, k)

\* The two answers to a Put.
PutsAnswered ==
    \A p \in Proc : Answered(p) /\ call[p].op.kind = "Put" =>
        call[p].status \in {"OK", "EPUTFAILED"}

\* A server that has taken k from another does not tell others of it itself.
PutsMeet(k) ==
    \A s \in Server : Putting(s, k) =>
        /\ k \in DOMAIN simple[s]
        /\ \A t \in Server : s # t /\ Took(s, t) => k \in DOMAIN simple[t] /\ ~Putting(t, k)

OneWinner(k) ==
    /\ \A c \in Client : Winner(c, k) => Taken(k)
    /\ \A c, d \in Client : Winner(c, k) /\ Winner(d, k) => c = d

PutInv(k) == PutsAnswered /\ PutsMeet(k) /\ OneWinner(k)

\* No server loses a key, and a server that begins to put one did not have it.
LEMMA KeysGrow ==
    ASSUME CoreInv, Up, faults' = 0, NEW s \in Server, Boot(s) \/ ServerStep(s) \/ Crash(s)
    PROVE  /\ \A t \in Server : DOMAIN simple[t] \subseteq DOMAIN simple'[t]
           /\ \A t \in Server : \A k : Putting(t, k)' /\ ~Putting(t, k) =>
                 /\ t = s /\ k \notin DOMAIN simple[t] /\ k \in DOMAIN simple'[t]
                 /\ idx'[t] = 0 /\ Idle(t)' /\ OthersKeep({})
<1> DEFINE h == Head(inbox[s])
<1>1. TypeOK /\ (pc[s] = "serve" => Idle(s))
  BY DEF CoreInv, TypeInv, LoopsOK
<1>2. CASE Serves(s, h) /\ Accepts(s, h)
  <2>1. /\ pc[s] = "serve" /\ pc'[s] = "bcast" /\ idx'[s] = 0 /\ OthersKeep({})
        /\ \A t \in Server \ {s} : /\ pc'[t] = pc[t] /\ job'[t] = job[t]
                                   /\ simple'[t] = simple[t]
        /\ SameWrite(h, job'[s]) /\ Stores(s, h, job'[s])
    BY <1>2 DEF Serves, Accepts
  <2>2. /\ DOMAIN simple[s] \subseteq DOMAIN simple'[s]
        /\ h.kind = "Put" => h.key \notin DOMAIN simple[s] /\ h.key \in DOMAIN simple'[s]
    BY <2>1 DEF Stores, StoresPut, StoresItem, StoresRemoval
  <2>3. job'[s].kind = h.kind /\ job'[s].key = h.key
    BY <2>1 DEF SameWrite
  <2>4. Idle(s)'
    BY <1>1, <2>1 DEF OthersKeep, Proc, Idle
  <2> QED
    BY <2>1, <2>2, <2>3, <2>4 DEF Putting
<1>3. CASE Serves(s, h) /\ (Refuses(s, h) \/ Obeys(s, h))
  <2>1. /\ UNCHANGED <<pc, job>>
        /\ \A t \in Server \ {s} : simple'[t] = simple[t]
        /\ simple'[s] = simple[s] \/ Stores(s, h, h)
    BY <1>3 DEF Serves, Refuses, Obeys
  <2>2. DOMAIN simple[s] \subseteq DOMAIN simple'[s]
    BY <2>1 DEF Stores, StoresPut, StoresItem, StoresRemoval
  <2> QED
    BY <2>1, <2>2 DEF Putting
<1>4. CASE Calls(s) \/ MovesOn(s)
  BY <1>4 DEF Calls, MovesOn, Putting
<1>5. ASSUME NEW status, Concludes(s, status)
      PROVE  /\ \A t \in Server : DOMAIN simple[t] \subseteq DOMAIN simple'[t]
             /\ \A t \in Server : \A k : Putting(t, k)' => Putting(t, k)
  BY <1>5 DEF Concludes, Putting
<1> QED
  BY <1>2, <1>3, <1>4, <1>5, ServerDoes DEF Serves

\* A Put that is answered OK had been taken by everybody.
LEMMA WinnerBegins ==
    ASSUME CoreInv, Up, faults' = 0, NEW s \in Server, Boot(s) \/ ServerStep(s) \/ Crash(s),
           NEW k \in Key, k # ServerSyscmd, NEW c \in Client, Winner(c, k)', ~Winner(c, k)
    PROVE  idx[s] = End /\ Concludes(s, "OK") /\ Putting(s, k) /\ job[s].from = c
<1> DEFINE h == Head(inbox[s])
<1>1. TypeOK /\ c \in Proc /\ c # s
  BY ClusterAssumption DEF CoreInv, TypeInv, Proc
<1>2. ASSUME call'[c] = call[c] PROVE FALSE
  BY <1>2 DEF Winner, Answered
<1>3. CASE Serves(s, h)
  <2>1. CASE Refuses(s, h)
    <3>1. PICK status, values : Gets(h.from, status, values) /\ Says(s, h, status, values)
      BY <2>1 DEF Refuses
    <3>2. h.from = c
      BY <1>1, <1>2, <2>1 DEF Refuses, OthersKeep
    <3>3. h.kind = "Put" /\ h.key = k /\ status = "OK"
      BY <1>3, <3>1, <3>2 DEF Serves, Asks, Gets, Winner
    <3> QED
      BY <3>1, <3>3 DEF Says
  <2>2. CASE Obeys(s, h)
    BY <1>1, <1>2, <2>2, ClusterAssumption DEF Obeys, OthersKeep
  <2>3. CASE Accepts(s, h)
    BY <1>1, <1>2, <2>3 DEF Accepts, OthersKeep
  <2> QED
    BY <1>3, <2>1, <2>2, <2>3 DEF Serves
<1>4. CASE Calls(s) \/ MovesOn(s)
  BY <1>1, <1>2, <1>4 DEF Calls, MovesOn, OthersKeep
<1>5. ASSUME NEW status, Concludes(s, status)
      PROVE  status = "OK" /\ Putting(s, k) /\ job[s].from = c
  <2>1. job[s].from = c /\ pc[s] = "bcast" /\ Gets(c, status, {})
    BY <1>1, <1>2, <1>5 DEF Concludes, OthersKeep
  <2>2. status = "OK" /\ call[c].op.kind = "Put" /\ call[c].op.key = k
    BY <2>1 DEF Gets, Winner
  <2>3. SameWrite(call[c].op, job[s])
    BY <2>1 DEF Up, JobsAsked
  <2> QED
    BY <2>1, <2>2, <2>3 DEF SameWrite, Putting
<1>6. CASE Answered(s) /\ call[s].status \notin {"OK", "INTERNAL_FAILURE"}
           /\ Concludes(s, call[s].status)
  BY <1>5, <1>6
<1> QED
  BY <1>3, <1>4, <1>5, <1>6, ServerDoes

\* What is taken stays so, and nobody creates it again.
LEMMA TakenStays ==
    ASSUME CoreInv, Up, faults' = 0, NEW s \in Server, Boot(s) \/ ServerStep(s) \/ Crash(s),
           NEW k \in Key, k # ServerSyscmd, Taken(k)
    PROVE  Taken(k)' /\ \A c \in Client : Winner(c, k)' => Winner(c, k)
<1>1. Taken(k)'
  BY KeysGrow DEF Taken
<1>2. ASSUME NEW c \in Client, Winner(c, k)', ~Winner(c, k) PROVE FALSE
  BY <1>2, WinnerBegins DEF Taken
<1> QED
  BY <1>1, <1>2

\* The statuses of Puts.
LEMMA PutsAnsweredStep ==
    ASSUME CoreInv, Up, faults' = 0, NEW s \in Server, Boot(s) \/ ServerStep(s) \/ Crash(s),
           PutsAnswered
    PROVE  PutsAnswered'
<1> DEFINE h == Head(inbox[s])
           Two == {"OK", "EPUTFAILED"}
<1>1. TypeOK /\ s \in Proc
  BY DEF CoreInv, TypeInv, Proc
<1>2. ASSUME NEW p \in Proc, call'[p] = call[p] \/ Idle(p)' \/ Waiting(p)',
             Answered(p)', call'[p].op.kind = "Put"
      PROVE  call'[p].status \in Two
  BY <1>2 DEF PutsAnswered, Answered, Idle, Waiting
<1>3. ASSUME NEW p \in Proc, Answered(p)', call'[p].op.kind = "Put", Serves(s, h)
      PROVE  call'[p].status \in Two
  <2>1. CASE p = h.from /\ Refuses(s, h)
    <3>1. PICK status, values : Gets(h.from, status, values) /\ Says(s, h, status, values)
      BY <2>1 DEF Refuses
    <3>2. call'[p].status = status /\ h.kind = "Put"
      BY <1>3, <2>1, <3>1 DEF Gets, Serves, Asks
    <3> QED
      BY <3>1, <3>2 DEF Says
  <2>2. CASE p = h.from /\ Obeys(s, h)
    BY <2>2 DEF Obeys, Gets
  <2>3. CASE p # h.from \/ Accepts(s, h)
    <3>1. call'[p] = call[p]
      BY <1>3, <2>3 DEF Serves, Refuses, Obeys, Accepts, OthersKeep
    <3> QED
      BY <1>2, <1>3, <3>1
  <2> QED
    BY <1>3, <2>1, <2>2, <2>3 DEF Serves
<1>4. ASSUME NEW p \in Proc, Answered(p)', call'[p].op.kind = "Put", Calls(s) \/ MovesOn(s)
      PROVE  call'[p].status \in Two
  <2>1. call'[p] = call[p] \/ Idle(p)' \/ Waiting(p)'
    BY <1>4 DEF Calls, MovesOn, OthersKeep
  <2> QED
    BY <1>2, <1>4, <2>1
<1>5. ASSUME NEW p \in Proc, Answered(p)', call'[p].op.kind = "Put", NEW status,
             Concludes(s, status), status = "OK" \/ (Answered(s) /\ status = call[s].status)
      PROVE  call'[p].status \in Two
  <2>1. CASE p = job[s].from
    <3>1. Gets(p, status, {}) /\ pc[s] = "bcast"
      BY <1>5, <2>1 DEF Concludes
    <3>2. call'[p].status = status /\ call[p].op.kind = "Put"
      BY <1>5, <3>1 DEF Gets
    <3>3. SameWrite(call[p].op, job[s]) /\ (~Idle(s) => call[s].op = OpOf(job[s]))
      BY <2>1, <3>1 DEF Up, JobsAsked
    <3>4. Answered(s) => call[s].op.kind = "Put"
      BY <3>2, <3>3 DEF SameWrite, OpOf, MakeOp, Answered, Idle
    <3>5. Answered(s) => call[s].status \in Two
      BY <1>1, <3>4 DEF PutsAnswered
    <3> QED
      BY <1>5, <3>2, <3>5
  <2>2. CASE p # job[s].from
    <3>1. call'[p] = call[p] \/ Idle(p)'
      BY <1>5, <2>2 DEF Concludes, OthersKeep
    <3> QED
      BY <1>2, <1>5, <3>1
  <2> QED
    BY <2>1, <2>2
<1>6. ASSUME NEW p \in Proc, Answered(p)', call'[p].op.kind = "Put"
      PROVE  call'[p].status \in Two
  BY <1>3, <1>4, <1>5, <1>6, ServerDoes
<1> QED
  BY <1>6 DEF PutsAnswered

\* When t takes s's broadcast of a key, t did not have it.
LEMMA TookBegins ==
    ASSUME CoreInv, Up, faults' = 0, NEW s \in Server, Boot(s) \/ ServerStep(s) \/ Crash(s),
           NEW k \in Key, k # ServerSyscmd, PutsAnswered,
           NEW u \in Server, NEW t \in Server, u # t,
           Putting(u, k), Putting(u, k)', Took(u, t)', ~Took(u, t)
    PROVE  t = s /\ k \notin DOMAIN simple[t] /\ k \in DOMAIN simple'[t] /\ UNCHANGED <<pc, job>>
<1> DEFINE h == Head(inbox[s])
<1>1. TypeOK /\ s \in Proc /\ u \in Proc /\ IndexOf(u, t) \in Int /\ idx[u] \in Int
  <2>1. TypeOK /\ s \in Proc /\ u \in Proc
    BY DEF CoreInv, TypeInv, Proc
  <2>2. idx[u] \in Int /\ IndexOf(u, t) \in Int
    BY <2>1, NAssumption, OwnIndex DEF TypeOK, End
  <2> QED
    BY <2>1, <2>2
<1>2. ASSUME idx'[u] = idx[u], call'[u] = call[u] \/ ~Answered(u)'
      PROVE  FALSE
  BY <1>2 DEF Took, Answered
<1>3. CASE Serves(s, h)
  <2>1. idx'[u] = idx[u] /\ pc[s] = "serve" /\ inbox[s] # <<>>
    <3>1. u # s
      BY <1>3 DEF Serves, Putting
    <3> QED
      BY <1>3, <3>1 DEF Serves, Refuses, Obeys, Accepts
  <2>2. u = h.from /\ ~Accepts(s, h)
    BY <1>1, <1>2, <1>3, <2>1 DEF Serves, Refuses, Obeys, Accepts, OthersKeep
  <2>3. /\ h.kind = job[u].kind /\ h.key = job[u].key /\ IndexOf(u, s) = idx[u] /\ u # s
    BY <2>1, <2>2, ServerRequest
  <2>4. h.kind = "Put" /\ h.key = k
    BY <2>3 DEF Putting
  <2>5. call'[u].status = "OK" /\ idx[u] = IndexOf(u, t)
    BY <2>1 DEF Took
  <2>6. t = s
    BY <2>3, <2>5, OwnIndex
  <2>7. ~Refuses(s, h)
    <3> SUFFICES ASSUME Refuses(s, h) PROVE FALSE
      OBVIOUS
    <3>1. PICK status, values : Gets(h.from, status, values) /\ Says(s, h, status, values)
      BY DEF Refuses
    <3>2. status = "OK"
      BY <2>2, <2>5, <3>1 DEF Gets
    <3> QED
      BY <2>4, <3>1, <3>2 DEF Says
  <2>8. Obeys(s, h)
    BY <1>3, <2>2, <2>7 DEF Serves
  <2>9. k \notin DOMAIN simple[s] /\ k \in DOMAIN simple'[s] /\ UNCHANGED <<pc, job>>
    BY <2>4, <2>8 DEF Obeys, Stores, StoresPut
  <2> QED
    BY <2>6, <2>9
<1>4. CASE Calls(s)
  <2>1. idx'[u] = idx[u] /\ (u # s => call'[u] = call[u]) /\ ~Answered(s)'
    BY <1>1, <1>4 DEF Calls, OthersKeep, Waiting, Answered
  <2> QED
    BY <1>2, <2>1
<1>5. CASE MovesOn(s)
  <2>1. u = s
    BY <1>1, <1>2, <1>5 DEF MovesOn, OthersKeep
  <2>2. /\ idx'[s] = idx[s] + 1 /\ Answered(s) /\ call[s].status \in {"OK", "INTERNAL_FAILURE"}
        /\ ~Answered(s)' /\ pc[s] = "bcast"
    BY <1>5 DEF MovesOn, Idle, Answered
  <2>3. call[s].op.kind = "Put"
    <3>1. call[s].op = OpOf(job[s]) /\ job[s].kind = "Put"
      BY <2>1, <2>2 DEF Up, JobsAsked, Putting, Idle, Answered
    <3> QED
      BY <3>1 DEF OpOf, MakeOp
  <2>4. call[s].status = "OK"
    BY <1>1, <2>2, <2>3 DEF PutsAnswered
  <2>5. IndexOf(s, t) < idx[s] + 1
    BY <2>1, <2>2 DEF Took
  <2>6. IndexOf(s, t) < idx[s] \/ IndexOf(s, t) = idx[s]
    BY <1>1, <2>1, <2>5
  <2> QED
    BY <2>1, <2>2, <2>4, <2>6 DEF Took
<1>6. ASSUME NEW status, Concludes(s, status)
      PROVE  FALSE
  <2>1. u # s
    BY <1>6 DEF Concludes, Putting
  <2>2. idx'[u] = idx[u] /\ call'[u] = call[u]
    BY <1>1, <1>6, <2>1, ClusterAssumption DEF Concludes, OthersKeep
  <2> QED
    BY <1>2, <2>2
<1> QED
  BY <1>3, <1>4, <1>5, <1>6, ServerDoes

\* Every step of a server.
LEMMA PutsStep ==
    ASSUME CoreInv, Up, faults' = 0, NEW s \in Server, Boot(s) \/ ServerStep(s) \/ Crash(s),
           NEW k \in Key, k # ServerSyscmd, PutInv(k)
    PROVE  PutInv(k)'
<1>1. PutsAnswered'
  BY PutsAnsweredStep DEF PutInv
<1>2. ASSUME NEW u \in Server, Putting(u, k)'
      PROVE  k \in DOMAIN simple'[u]
  BY <1>2, KeysGrow DEF PutInv, PutsMeet
<1>3. ASSUME NEW u \in Server, Putting(u, k)', NEW t \in Server, u # t, Took(u, t)'
      PROVE  k \in DOMAIN simple'[t] /\ ~Putting(t, k)'
  <2>1. Putting(u, k)
    <3> SUFFICES ASSUME ~Putting(u, k) PROVE FALSE
      OBVIOUS
    <3>1. idx'[u] = 0 /\ Idle(u)'
      BY <1>3, KeysGrow
    <3>2. IndexOf(u, t) < 0
      BY <1>3, <3>1 DEF Took, Answered, Idle
    <3> QED
      BY <1>3, <3>2, OwnIndex
  <2>2. CASE Took(u, t)
    BY <1>3, <2>1, <2>2, KeysGrow DEF PutInv, PutsMeet
  <2>3. CASE ~Took(u, t)
    <3>1. /\ k \notin DOMAIN simple[t] /\ k \in DOMAIN simple'[t] /\ UNCHANGED <<pc, job>>
      BY <1>3, <2>1, <2>3, TookBegins DEF PutInv
    <3>2. ~Putting(t, k)
      BY <3>1 DEF PutInv, PutsMeet
    <3> QED
      BY <3>1, <3>2 DEF Putting
  <2> QED
    BY <2>2, <2>3
<1>4. ASSUME NEW c \in Client, Winner(c, k)', ~Winner(c, k)
      PROVE  Taken(k)' /\ \A d \in Client : Winner(d, k)' => c = d
  <2>1. idx[s] = End /\ Concludes(s, "OK") /\ Putting(s, k) /\ job[s].from = c
    BY <1>4, WinnerBegins
  <2>2. \A t \in Server : t # s => k \in DOMAIN simple[t] /\ ~Putting(t, k)
    BY <2>1, OwnIndex DEF PutInv, PutsMeet, Took
  <2>3. k \in DOMAIN simple[s] /\ ~Putting(s, k)'
    BY <2>1 DEF PutInv, PutsMeet, Concludes, Putting
  <2>4. Taken(k)'
    BY <2>2, <2>3, KeysGrow DEF Taken
  <2>5. ASSUME NEW d \in Client, Winner(d, k)' PROVE c = d
    <3>1. ~Winner(d, k)
      BY <2>1 DEF PutInv, OneWinner, Taken
    <3> QED
      BY <2>1, <2>5, <3>1, WinnerBegins
  <2> QED
    BY <2>4, <2>5
<1>5. ASSUME NEW c \in Client, Winner(c, k)', Winner(c, k)
      PROVE  Taken(k)'
  BY <1>5, TakenStays DEF PutInv, OneWinner
<1>6. OneWinner(k)'
  <2>1. \A c, d \in Client : Winner(c, k) /\ Winner(d, k) => c = d
    BY DEF PutInv, OneWinner
  <2> QED
    BY <1>4, <1>5, <2>1 DEF OneWinner
<1> QED
  BY <1>1, <1>2, <1>3, <1>6 DEF PutInv, PutsMeet

\* A caller's steps create nothing.
LEMMA PutsKept ==
    ASSUME UNCHANGED <<pc, idx, job, simple>>, NEW c \in Client, OthersKeep({c}),
           ~Answered(c)', NEW k
    PROVE  /\ \A d \in Client : Winner(d, k)' => Winner(d, k)
           /\ Taken(k)' <=> Taken(k)
           /\ PutInv(k) => PutInv(k)'
<1>1. /\ \A d \in Client : Winner(d, k)' => Winner(d, k)
      /\ \A s \in Server : Putting(s, k)' <=> Putting(s, k)
      /\ \A s \in Server : call'[s] = call[s]
  BY ClusterAssumption DEF Winner, Answered, OthersKeep, Putting, Proc
<1>2. Taken(k)' <=> Taken(k)
  BY <1>1 DEF Taken
<1>3. \A s, t \in Server : Took(s, t)' <=> Took(s, t)
  BY <1>1 DEF Took, Answered
<1>4. PutsAnswered => PutsAnswered'
  BY DEF PutsAnswered, OthersKeep, Answered
<1> QED
  BY <1>1, <1>2, <1>3, <1>4 DEF PutInv, PutsMeet, OneWinner

\* Nothing is being put at first.
LEMMA InitPuts ==
    ASSUME B = N, Init, NEW k
    PROVE  PutInv(k)
<1>1. \A s \in Server : pc[s] = "serve"
  BY NAssumption DEF Init, Server
<1>2. \A p \in Proc : Idle(p)
  BY NoCallType DEF Init, Idle
<1> QED
  BY <1>1, <1>2 DEF PutInv, PutsAnswered, PutsMeet, OneWinner, Putting, Winner, Answered, Idle, Proc

\* Whom the cluster answers: the caller whose request is handled, or the one whose
\* broadcast is over.
LEMMA ClientAnswered ==
    ASSUME CoreInv, Up, faults' = 0, NEW s \in Server, Boot(s) \/ ServerStep(s) \/ Crash(s),
           NEW c \in Client, call'[c] # call[c]
    PROVE  \/ /\ Serves(s, Head(inbox[s])) /\ Refuses(s, Head(inbox[s]))
              /\ Head(inbox[s]).from = c
              /\ \E status, values :
                    Gets(c, status, values) /\ Says(s, Head(inbox[s]), status, values)
           \/ /\ pc[s] = "bcast" /\ job[s].from = c /\ UNCHANGED <<simple, lists>>
              /\ \E status : /\ Gets(c, status, {})
                             /\ \/ idx[s] = End /\ status = "OK"
                                \/ /\ Answered(s) /\ status = call[s].status
                                   /\ status \notin {"OK", "INTERNAL_FAILURE"}
<1> DEFINE h == Head(inbox[s])
<1>1. c \in Proc /\ c # s /\ c \notin Server
  BY ClusterAssumption DEF Proc
<1>2. CASE Serves(s, h)
  <2>1. ~Accepts(s, h) /\ ~Obeys(s, h)
    BY <1>1 DEF Accepts, Obeys, OthersKeep
  <2>2. Refuses(s, h) /\ h.from = c
    BY <1>1, <1>2, <2>1 DEF Serves, Refuses, OthersKeep
  <2> QED
    BY <1>2, <2>2 DEF Refuses
<1>3. ASSUME NEW status, Concludes(s, status)
      PROVE  /\ pc[s] = "bcast" /\ job[s].from = c /\ Gets(c, status, {})
             /\ UNCHANGED <<simple, lists>>
  BY <1>1, <1>3 DEF Concludes, OthersKeep
<1>4. ~Calls(s) /\ ~MovesOn(s)
  BY <1>1 DEF Calls, MovesOn, OthersKeep
<1> QED
  BY <1>2, <1>3, <1>4, ServerDoes

\* Nobody's call becomes another one.
LEMMA ClientOps ==
    ASSUME CoreInv, Up, faults' = 0, NEW s \in Server, Boot(s) \/ ServerStep(s) \/ Crash(s),
           NEW c \in Client
    PROVE  /\ call'[c].op = call[c].op /\ (Idle(c)' <=> Idle(c))
           /\ Answered(c) => call'[c] = call[c]
<1>1. CASE call'[c] # call[c]
  <2>1. PICK status, values : Gets(c, status, values)
    BY <1>1, ClientAnswered
  <2> QED
    BY <2>1 DEF Gets, Idle, Waiting, Answered
<1> QED
  BY <1>1 DEF Idle
-----------------------------------------------------------------------------
(* Where everything comes from.  When all Tribbler servers use one entry    *)
(* server, and only add, that server has what any other has, joins or      *)
(* passes on; E stands for it.                                              *)

\* Nobody removes anything.
AddsOnly == \A c \in Client : \A op \in Plan[c] : op.kind # "RemoveFromList"

\* The entry servers are up when it all begins.
EntriesUp == \A c \in Client : Entry[c] <= B

\* An item under k that a server stores or broadcasts, that is on its way to one, or that
\* one has just been given to copy.
Around(k, item) ==
    \E t \in Server :
        \/ item \in ItemsAt(lists[t], k)
        \/ /\ pc[t] = "bcast" /\ job[t].kind = "AddToList"
           /\ job[t].key = k /\ job[t].item = item
        \/ \E n \in DOMAIN inbox[t] :
              /\ inbox[t][n].from \in Server /\ inbox[t][n].kind = "AddToList"
              /\ inbox[t][n].key = k /\ inbox[t][n].item = item
        \/ /\ Answered(t) /\ call[t].op.kind = "GetList"
           /\ call[t].op.key = k /\ item \in call[t].values

\* A key that a server stores a value under, or is told to.
NameAround(k) ==
    \E t \in Server :
        \/ k \in DOMAIN simple[t]
        \/ pc[t] = "bcast" /\ job[t].kind = "Put" /\ job[t].key = k
        \/ /\ k # ServerSyscmd
           /\ \E n \in DOMAIN inbox[t] :
                 inbox[t][n].from \in Server /\ inbox[t][n].kind = "Put" /\ inbox[t][n].key = k

\* It is at E, or the name of a user in the list there.
NameKnown(E, k) ==
    \/ k \in DOMAIN simple[E]
    \/ \E u \in Text : k = UserKey(u) /\ Plain(u) \in ItemsAt(lists[E], UserList)

\* What anybody has or may get is at E, which holds plain items but for tribbles.
SourceHas(E) ==
    /\ Listening(E) /\ {ServerId, ServerStatus} \subseteq DOMAIN simple[E]
    /\ \A k \in Key, item \in Item : Around(k, item) => Mark(k, item) \in Held(E, k)
    /\ \A k \in Key : NameAround(k) => NameKnown(E, k)
    /\ \A t \in Server : \A u \in todo[t] : Plain(u) \in ItemsAt(lists[E], UserList)
    /\ \A k \in Key : ~IsTribble(k) => \A item \in ItemsAt(lists[E], k) : item.vt = NoStamp

\* Requests only add; those of Tribbler servers are plain; live ones are what their
\* callers wait for.
AddRequest(r) ==
    /\ r.kind # "RemoveFromList"
    /\ r.from \in Client => r.item.vt = NoStamp
    /\ r.live => OpOf(r) = call[r.from].op

AddRequests ==
    \A t \in Server :
        /\ \A n \in DOMAIN inbox[t] : AddRequest(inbox[t][n])
        /\ pc[t] = "bcast" => job[t].kind # "RemoveFromList"

SourceInv(E) == faults = 0 => SourceHas(E) /\ AddRequests

-----------------------------------------------------------------------------
(* What steps can add to what is around. *)

\* E loses nothing.
Keeps(E) ==
    /\ pc'[E] \in {"serve", "bcast"}
    /\ DOMAIN simple[E] \subseteq DOMAIN simple'[E]
    /\ \A k \in Key : ItemsAt(lists[E], k) \subseteq ItemsAt(lists'[E], k)

\* A request that was there before, if somebody waits for it now.
Comes(q, r) ==
    /\ q.from = r.from /\ q.kind = r.kind /\ q.key = r.key /\ q.item = r.item
    /\ q.live => r.live

\* A request that brings nothing new.
BringsNothing(q) ==
    \/ q.from \in Client
    \/ q.kind \in {"Get", "GetList"}
    \/ q.kind = "Put" /\ q.key = ServerSyscmd
    \/ \E x \in Server : pc[x] = "bcast" /\ OpOf(q) = OpOf(job[x])

QueuesBringNothing ==
    \A t \in Server : \A n \in DOMAIN inbox'[t] :
        \/ \E m \in DOMAIN inbox[t] : Comes(inbox'[t][n], inbox[t][m])
        \/ BringsNothing(inbox'[t][n])

QueuesShrink ==
    \A t \in Server : \A n \in DOMAIN inbox'[t] :
        \E m \in DOMAIN inbox[t] : Comes(inbox'[t][n], inbox[t][m])

\* What E keeps, tribbles by their contents.
LEMMA HeldKept ==
    ASSUME NEW E, NEW k \in Key, Keeps(E)
    PROVE  Held(E, k) \subseteq Held(E, k)'
<1>1. ItemsAt(lists[E], k) \subseteq ItemsAt(lists'[E], k)
  BY DEF Keeps
<1>2. ItemsAt(lists[E], k)' = ItemsAt(lists'[E], k)
  BY DEF ItemsAt
<1> QED
  BY <1>1, <1>2 DEF Held

\* Whatever is around was, or has just been stored, broadcast or read.
LEMMA AroundMoves ==
    ASSUME QueuesBringNothing, NEW k \in Key, NEW item, Around(k, item)'
    PROVE  \/ Around(k, item)
           \/ \E t \in Server : item \in ItemsAt(lists'[t], k) /\ item \notin ItemsAt(lists[t], k)
           \/ \E t \in Server :
                 /\ pc'[t] = "bcast" /\ job'[t].kind = "AddToList"
                 /\ job'[t].key = k /\ job'[t].item = item
                 /\ ~(pc[t] = "bcast" /\ job[t] = job'[t])
           \/ \E t \in Server :
                 /\ call'[t].st = "done" /\ call'[t].op.kind = "GetList"
                 /\ call'[t].op.key = k /\ item \in call'[t].values
                 /\ call'[t] # call[t]
<1>1. PICK t \in Server :
         \/ item \in ItemsAt(lists'[t], k)
         \/ /\ pc'[t] = "bcast" /\ job'[t].kind = "AddToList"
            /\ job'[t].key = k /\ job'[t].item = item
         \/ \E n \in DOMAIN inbox'[t] :
               /\ inbox'[t][n].from \in Server /\ inbox'[t][n].kind = "AddToList"
               /\ inbox'[t][n].key = k /\ inbox'[t][n].item = item
         \/ /\ call'[t].st = "done" /\ call'[t].op.kind = "GetList"
            /\ call'[t].op.key = k /\ item \in call'[t].values
  BY DEF Around, ItemsAt, Answered
<1>2. CASE item \in ItemsAt(lists'[t], k)
  BY <1>2 DEF Around
<1>3. CASE /\ pc'[t] = "bcast" /\ job'[t].kind = "AddToList"
           /\ job'[t].key = k /\ job'[t].item = item
  BY <1>3 DEF Around
<1>4. CASE \E n \in DOMAIN inbox'[t] :
               /\ inbox'[t][n].from \in Server /\ inbox'[t][n].kind = "AddToList"
               /\ inbox'[t][n].key = k /\ inbox'[t][n].item = item
  <2>1. PICK n \in DOMAIN inbox'[t] :
               /\ inbox'[t][n].from \in Server /\ inbox'[t][n].kind = "AddToList"
               /\ inbox'[t][n].key = k /\ inbox'[t][n].item = item
    BY <1>4
  <2>2. CASE \E m \in DOMAIN inbox[t] : Comes(inbox'[t][n], inbox[t][m])
    BY <2>1, <2>2 DEF Comes, Around
  <2>3. CASE BringsNothing(inbox'[t][n])
    <3>1. PICK x \in Server : pc[x] = "bcast" /\ OpOf(inbox'[t][n]) = OpOf(job[x])
      BY <2>1, <2>3, ClusterAssumption DEF BringsNothing
    <3>2. job[x].kind = "AddToList" /\ job[x].key = k /\ job[x].item = item
      BY <2>1, <3>1 DEF OpOf, MakeOp
    <3> QED
      BY <3>1, <3>2 DEF Around
  <2> QED
    BY <2>2, <2>3 DEF QueuesBringNothing
<1>5. CASE /\ call'[t].st = "done" /\ call'[t].op.kind = "GetList"
           /\ call'[t].op.key = k /\ item \in call'[t].values
  BY <1>5 DEF Around, Answered
<1> QED
  BY <1>1, <1>2, <1>3, <1>4, <1>5

\* The same of names.
LEMMA NameMoves ==
    ASSUME QueuesBringNothing, NEW k \in Key, NameAround(k)'
    PROVE  \/ NameAround(k)
           \/ \E t \in Server : k \in DOMAIN simple'[t] /\ k \notin DOMAIN simple[t]
           \/ \E t \in Server :
                 /\ pc'[t] = "bcast" /\ job'[t].kind = "Put" /\ job'[t].key = k
                 /\ ~(pc[t] = "bcast" /\ job[t] = job'[t])
<1>1. PICK t \in Server :
         \/ k \in DOMAIN simple'[t]
         \/ pc'[t] = "bcast" /\ job'[t].kind = "Put" /\ job'[t].key = k
         \/ /\ k # ServerSyscmd
            /\ \E n \in DOMAIN inbox'[t] :
                  inbox'[t][n].from \in Server /\ inbox'[t][n].kind = "Put" /\ inbox'[t][n].key = k
  BY DEF NameAround
<1>2. CASE k \in DOMAIN simple'[t]
  BY <1>2 DEF NameAround
<1>3. CASE pc'[t] = "bcast" /\ job'[t].kind = "Put" /\ job'[t].key = k
  BY <1>3 DEF NameAround
<1>4. CASE /\ k # ServerSyscmd
           /\ \E n \in DOMAIN inbox'[t] :
                  inbox'[t][n].from \in Server /\ inbox'[t][n].kind = "Put" /\ inbox'[t][n].key = k
  <2>1. PICK n \in DOMAIN inbox'[t] :
               inbox'[t][n].from \in Server /\ inbox'[t][n].kind = "Put" /\ inbox'[t][n].key = k
    BY <1>4
  <2>2. CASE \E m \in DOMAIN inbox[t] : Comes(inbox'[t][n], inbox[t][m])
    BY <1>4, <2>1, <2>2 DEF Comes, NameAround
  <2>3. CASE BringsNothing(inbox'[t][n])
    <3>1. PICK x \in Server : pc[x] = "bcast" /\ OpOf(inbox'[t][n]) = OpOf(job[x])
      BY <1>4, <2>1, <2>3, ClusterAssumption DEF BringsNothing
    <3>2. job[x].kind = "Put" /\ job[x].key = k
      BY <2>1, <3>1 DEF OpOf, MakeOp
    <3> QED
      BY <3>1, <3>2 DEF NameAround
  <2> QED
    BY <2>2, <2>3 DEF QueuesBringNothing
<1> QED
  BY <1>1, <1>2, <1>3, <1>4

\* A step under which E keeps what it has, and all that is new is at E.
LEMMA SourcesKept ==
    ASSUME TypeOK, TypeOK', NEW E \in Server, SourceHas(E), Keeps(E), QueuesBringNothing,
           \A t \in Server : \A k \in Key : \A item \in ItemsAt(lists'[t], k) :
               item \in ItemsAt(lists[t], k) \/ Mark(k, item) \in Held(E, k)',
           \A t \in Server : \A k \in Key, item \in Item :
               (pc'[t] = "bcast" /\ job'[t].key = k /\ job'[t].item = item) =>
                  \/ pc[t] = "bcast" /\ job[t] = job'[t]
                  \/ job'[t].kind = "AddToList" /\ Mark(k, item) \in Held(E, k)'
                  \/ job'[t].kind = "Put" /\ NameKnown(E, k)',
           \A t \in Server : \A k \in Key, item \in Item :
               /\ call'[t].st = "done" /\ call'[t].op.kind = "GetList"
               /\ call'[t].op.key = k /\ item \in call'[t].values
               => call'[t] = call[t] \/ Mark(k, item) \in Held(E, k)',
           \A t \in Server : \A k \in DOMAIN simple'[t] :
               k \in DOMAIN simple[t] \/ NameKnown(E, k)',
           \A t \in Server : \A u \in todo'[t] :
               u \in todo[t] \/ Plain(u) \in ItemsAt(lists'[E], UserList),
           \A k \in Key : ~IsTribble(k) => \A item \in ItemsAt(lists'[E], k) :
               item \in ItemsAt(lists[E], k) \/ item.vt = NoStamp
    PROVE  SourceHas(E)'
<1>1. Listening(E)' /\ {ServerId, ServerStatus} \subseteq DOMAIN simple'[E]
  BY DEF Keeps, SourceHas, Listening
<1>0. \A t \in Server : pc'[t] = "bcast" => job'[t].item \in Item
  BY DEF TypeOK, Request
<1>2. ASSUME NEW k \in Key, NEW item \in Item, Around(k, item)'
      PROVE  Mark(k, item) \in Held(E, k)'
  <2>1. Around(k, item) => Mark(k, item) \in Held(E, k)'
    BY HeldKept DEF SourceHas
  <2> QED
    BY <1>2, <2>1, AroundMoves
<1>3. ASSUME NEW k \in Key, NameKnown(E, k)
      PROVE  NameKnown(E, k)'
  BY <1>3, KeyType DEF Keeps, NameKnown, ItemsAt
<1>4. ASSUME NEW k \in Key, NameAround(k)'
      PROVE  NameKnown(E, k)'
  BY <1>0, <1>3, <1>4, NameMoves DEF SourceHas
<1>5. ItemsAt(lists[E], UserList) \subseteq ItemsAt(lists'[E], UserList)
  BY KeyType DEF Keeps
<1>6. \A t \in Server : \A u \in todo'[t] : Plain(u) \in ItemsAt(lists'[E], UserList)
  BY <1>5 DEF SourceHas
<1>7. \A k \in Key : ~IsTribble(k) => \A item \in ItemsAt(lists'[E], k) : item.vt = NoStamp
  BY DEF SourceHas
<1> QED
  BY <1>1, <1>2, <1>4, <1>6, <1>7 DEF SourceHas, ItemsAt

\* Requests go on adding while queues only shrink and who waits goes on waiting.
LEMMA RequestsAdd ==
    ASSUME CoreInv, AddRequests, QueuesShrink,
           \A p \in Proc : Waiting(p) => call'[p].op = call[p].op,
           \A t \in Server : pc'[t] = "bcast" =>
               (pc[t] = "bcast" /\ job'[t] = job[t]) \/ job'[t].kind # "RemoveFromList"
    PROVE  AddRequests'
<1>1. ASSUME NEW t \in Server, NEW n \in DOMAIN inbox'[t]
      PROVE  AddRequest(inbox[t][n])'
  <2>1. PICK m \in DOMAIN inbox[t] : Comes(inbox'[t][n], inbox[t][m])
    BY <1>1 DEF QueuesShrink
  <2>0. inbox[t] \in Seq(Request)
    BY DEF CoreInv, TypeInv, TypeOK
  <2>2. AddRequest(inbox[t][m]) /\ inbox[t][m].from \in Proc
    <3>1. inbox[t][m] \in Request
      BY <2>0, <2>1
    <3>2. AddRequest(inbox[t][m])
      BY <2>1 DEF AddRequests
    <3> QED
      BY <3>1, <3>2 DEF Request
  <2>3. inbox[t][m].live => Waiting(inbox[t][m].from)
    BY <2>1, <2>2, OthersAsk
  <2> QED
    BY <2>1, <2>2, <2>3 DEF AddRequest, Comes, OpOf
<1> QED
  BY <1>1 DEF AddRequests

\* A request that is sent.
LEMMA SendAdds ==
    ASSUME CoreInv, AddRequests, NEW p \in Proc, ~Waiting(p), NEW x \in Server, NEW o \in Op,
           Send(p, x, o), o.kind # "RemoveFromList", p \in Client => o.item.vt = NoStamp,
           UNCHANGED <<pc, job>>
    PROVE  AddRequests'
<1> DEFINE q == [from |-> p, live |-> TRUE, kind |-> o.kind, key |-> o.key, item |-> o.item]
<1>1. /\ inbox \in [Server -> Seq(Request)] /\ call \in [Proc -> Call]
      /\ \A r \in Proc : r # p => call'[r] = call[r]
      /\ call'[p].op = o
  BY SendKeepsOps DEF CoreInv, TypeInv, TypeOK
<1>2. ASSUME NEW t \in Server, NEW n \in DOMAIN inbox'[t]
      PROVE  AddRequest(inbox[t][n])'
  <2>1. inbox'[t] \in {inbox[t], Append(inbox[t], q)}
    BY <1>1 DEF Send
  <2>2. CASE n \in DOMAIN inbox[t] /\ inbox'[t][n] = inbox[t][n]
    <3>1. AddRequest(inbox[t][n]) /\ inbox[t][n].from \in Proc
      <4>1. inbox[t] \in Seq(Request)
        BY <1>1
      <4>2. inbox[t][n] \in Request
        BY <2>2, <4>1
      <4>3. AddRequest(inbox[t][n])
        BY <2>2 DEF AddRequests
      <4> QED
        BY <4>2, <4>3 DEF Request
    <3>2. inbox[t][n].live => inbox[t][n].from # p
      BY <2>2, OthersAsk
    <3> QED
      BY <1>1, <2>2, <3>1, <3>2 DEF AddRequest, OpOf
  <2>3. CASE inbox'[t][n] = q
    <3>1. OpOf(q) = o
      BY DEF OpOf, MakeOp, Op
    <3> QED
      BY <1>1, <2>3, <3>1 DEF AddRequest
  <2>4. inbox[t] \in Seq(Request)
    BY <1>1
  <2> HIDE DEF q
  <2> QED
    BY <2>1, <2>2, <2>3, <2>4
<1> QED
  BY <1>2 DEF AddRequests

\* It brings nothing new to a queue.
LEMMA SendBrings ==
    ASSUME TypeOK, NEW p \in Proc, NEW x \in Server, NEW o \in Op, Send(p, x, o),
           p \in Client \/ (p \in Server /\ ServerOp(p, o))
    PROVE  QueuesBringNothing
<1> DEFINE q == [from |-> p, live |-> TRUE, kind |-> o.kind, key |-> o.key, item |-> o.item]
<1>1. BringsNothing(q)
  <2>1. OpOf(q) = o
    BY DEF OpOf, MakeOp, Op
  <2> QED
    BY <2>1 DEF BringsNothing, ServerOp
<1>2. ASSUME NEW t \in Server, NEW n \in DOMAIN inbox'[t]
      PROVE  (\E m \in DOMAIN inbox[t] : Comes(inbox'[t][n], inbox[t][m])) \/ inbox'[t][n] = q
  <2>1. inbox'[t] \in {inbox[t], Append(inbox[t], q)} /\ inbox[t] \in Seq(Request)
    BY DEF Send, TypeOK
  <2> HIDE DEF q
  <2>2. (n \in DOMAIN inbox[t] /\ inbox'[t][n] = inbox[t][n]) \/ inbox'[t][n] = q
    BY <2>1
  <2> QED
    BY <2>2 DEF Comes
<1> HIDE DEF q
<1> QED
  BY <1>1, <1>2 DEF QueuesBringNothing

\* Queues that stay, lose their head, or lose a caller.
LEMMA QueuesSame ==
    ASSUME UNCHANGED inbox
    PROVE  QueuesShrink
  BY DEF QueuesShrink, Comes

\* What only shrinks gets nothing new.
LEMMA ShrinkBrings ==
    ASSUME QueuesShrink
    PROVE  QueuesBringNothing
  BY DEF QueuesShrink, QueuesBringNothing

\* Taking the head of a queue.
LEMMA TakeShrinks ==
    ASSUME CoreInv, NEW s \in Server, pc[s] = "serve", inbox[s] # <<>>, Take(s)
    PROVE  QueuesShrink
  BY HandlerQueue DEF QueuesShrink, Comes

\* The end of a server.
LEMMA HaltShrinks ==
    ASSUME TypeOK, NEW s \in Server, Halt(s)
    PROVE  QueuesShrink
<1>1. ASSUME NEW t \in Server, NEW n \in DOMAIN inbox'[t]
      PROVE  \E m \in DOMAIN inbox[t] : Comes(inbox'[t][n], inbox[t][m])
  <2>1. inbox'[t] = IF t = s THEN <<>> ELSE OrphanedCalls(inbox[t], s)
    BY DEF Halt
  <2>2. inbox[t] \in Seq(Request)
    BY DEF TypeOK
  <2>3. n \in DOMAIN inbox[t] /\ inbox'[t][n] = Orphaned(inbox[t][n], s) /\ inbox[t][n] \in Request
    BY <1>1, <2>1, <2>2 DEF OrphanedCalls
  <2> QED
    BY <2>3 DEF Orphaned, Request, Comes
<1> QED
  BY <1>1 DEF QueuesShrink

\* A step that stores, broadcasts and reads nothing new.
LEMMA QuietSources ==
    ASSUME CoreInv, CoreInv', NEW E \in Server, SourceHas(E), AddRequests, QueuesShrink,
           pc'[E] \in {"serve", "bcast"},
           DOMAIN simple'[E] = DOMAIN simple[E], lists'[E] = lists[E],
           \A t \in Server :
              /\ todo'[t] \subseteq todo[t]
              /\ DOMAIN simple'[t] \subseteq DOMAIN simple[t] \cup {ServerId, ServerStatus}
              /\ lists'[t] = lists[t] \/ lists'[t] = NoMap
              /\ pc'[t] = "bcast" => pc[t] = "bcast" /\ job'[t] = job[t]
              /\ call'[t].st = "done" => call'[t] = call[t],
           \A p \in Proc : Waiting(p) => call'[p].op = call[p].op
    PROVE  SourceHas(E)' /\ AddRequests'
<1>1. AddRequests'
  BY RequestsAdd
<1>2. Keeps(E)
  BY DEF Keeps
<1>3. \A k : ItemsAt(NoMap, k) = {}
  BY DEF ItemsAt, NoMap
<1>4. {ServerId, ServerStatus} \subseteq DOMAIN simple'[E]
  BY DEF SourceHas
<1>5. \A t \in Server : \A k \in DOMAIN simple'[t] :
               k \in DOMAIN simple[t] \/ NameKnown(E, k)'
  BY <1>4 DEF NameKnown
<1>6. SourceHas(E)'
  BY <1>2, <1>3, <1>5, ShrinkBrings, SourcesKept DEF CoreInv, TypeInv
<1> QED
  BY <1>1, <1>6

-----------------------------------------------------------------------------
(* What a booting server copies comes from E in the end. *)

\* Users and subscriptions are no tribbles.
LEMMA NotTribbles ==
    /\ ~IsTribble(UserList)
    /\ \A u : ~IsTribble(UserKey(u)) /\ ~IsTribble(SubKey(u))
  BY DEF IsTribble, UserList, UserKey, SubKey

\* What E holds under a key of plain items.
LEMMA PlainHeld ==
    ASSUME NEW E, NEW k, ~IsTribble(k), NEW item
    PROVE  /\ Mark(k, item) \in Held(E, k) <=> item \in ItemsAt(lists[E], k)
           /\ Mark(k, item) \in Held(E, k)' <=> item \in ItemsAt(lists'[E], k)
<1>1. Mark(k, item) = item /\ Held(E, k) = ItemsAt(lists[E], k)
  BY DEF Mark, Held
<1>2. Held(E, k)' = ItemsAt(lists'[E], k)
  BY DEF Held, ItemsAt
<1> QED
  BY <1>1, <1>2

\* A user is copied; his subscriptions are asked for.
LEMMA CopyUserSources ==
    ASSUME CoreInv, CoreInv', NEW E \in Server, SourceHas(E), AddRequests,
           NEW s \in Server, NEW u \in todo[s], CopyUser(s, u)
    PROVE  SourceHas(E)' /\ AddRequests'
<1> DEFINE o == MakeOp("GetList", SubKey(u), Plain(""))
           x == Peer(s, target[s])
<1>0. TypeOK /\ TypeOK'
  BY DEF CoreInv, TypeInv
<1>1. pc[s] = "subs" /\ Idle(s) /\ s # E /\ s \in Proc /\ u \in Text
  BY <1>0 DEF CopyUser, SourceHas, Listening, Proc, TypeOK
<1>2. target[s] \in Index
  BY <1>1 DEF CoreInv, TypeInv, LoopsOK
<1>3. o \in Op /\ x \in Server /\ Send(s, x, o) /\ ServerOp(s, o) /\ o.kind = "GetList"
  BY <1>1, <1>2, OpType, PeerType DEF CopyUser, ServerOp, MakeOp
<1> HIDE DEF o, x
<1>4. UNCHANGED <<pc, job>> /\ ~Waiting(s) /\ s \notin Client
  BY <1>1, ClusterAssumption DEF CopyUser, Idle, Waiting
<1>5. AddRequests' /\ QueuesBringNothing
  BY <1>0, <1>1, <1>3, <1>4, SendAdds, SendBrings
<1>6. /\ \A t \in Server : t # s => lists'[t] = lists[t] /\ simple'[t] = simple[t]
      /\ lists'[s] = StoreAddToList(lists[s], UserList, Plain(u)).map
      /\ DOMAIN simple'[s] \subseteq DOMAIN simple[s] \cup {UserKey(u)}
  BY <1>0 DEF CopyUser, UserCopied, StorePut, Bind, TypeOK, AreMaps
<1>7. Plain(u) \in ItemsAt(lists[E], UserList)
  BY DEF SourceHas
<1>8. Keeps(E)
  BY <1>1, <1>4, <1>6 DEF Keeps, SourceHas, Listening
<1>9. NameKnown(E, UserKey(u))'
  BY <1>1, <1>6, <1>7 DEF NameKnown, ItemsAt
<1>10. \A t \in Server : \A k \in Key : \A item \in ItemsAt(lists'[t], k) :
               item \in ItemsAt(lists[t], k) \/ Mark(k, item) \in Held(E, k)'
  <2> SUFFICES ASSUME NEW t \in Server, NEW k \in Key, NEW item \in ItemsAt(lists'[t], k),
                      item \notin ItemsAt(lists[t], k)
               PROVE  Mark(k, item) \in Held(E, k)'
    OBVIOUS
  <2>1. t = s /\ k = UserList /\ item = Plain(u)
    BY <1>6, AddedItems
  <2>2. item \in ItemsAt(lists'[E], UserList)
    BY <1>1, <1>6, <1>7, <2>1
  <2> QED
    BY <2>1, <2>2, NotTribbles, PlainHeld
<1>11. \A t \in Server : call'[t].st = "done" => call'[t] = call[t]
  <2>1. \A t \in Server : t # s => call'[t] = call[t]
    BY <1>0, <1>1, <1>3, SendKeepsOps DEF Proc
  <2>2. call'[s].st # "done"
    BY <1>0, <1>1, <1>3 DEF Send, MakeCall, TypeOK
  <2> QED
    BY <2>1, <2>2
<1>12. \A t \in Server : todo'[t] \subseteq todo[t]
  BY <1>0 DEF CopyUser, TypeOK
<1>13. \A t \in Server : \A k \in DOMAIN simple'[t] : k \in DOMAIN simple[t] \/ NameKnown(E, k)'
  BY <1>6, <1>9
<1>14. lists'[E] = lists[E]
  BY <1>1, <1>6
<1>15. SourceHas(E)'
  BY <1>0, <1>4, <1>5, <1>8, <1>10, <1>11, <1>12, <1>13, <1>14, SourcesKept
<1> QED
  BY <1>5, <1>15

\* The other answers: E already has what they bring.
LEMMA AnswerSources ==
    ASSUME CoreInv, CoreInv', CopyCalls, NEW E \in Server, SourceHas(E), AddRequests,
           NEW s \in Server, UsersAnswer(s) \/ CopySubs(s)
    PROVE  SourceHas(E)' /\ AddRequests'
<1>0. TypeOK /\ TypeOK'
  BY DEF CoreInv, TypeInv
<1>1. /\ pc[s] \in {"users", "subs"} /\ Answered(s) /\ s # E /\ s \in Proc /\ ~Waiting(s) /\ ~Idle(s)
      /\ Forget(s) /\ UNCHANGED <<inbox, job, simple>>
  BY <1>0 DEF UsersAnswer, CopySubs, Answered, Waiting, Idle, SourceHas, Listening, Proc
<1>2. /\ call'[s].st = "idle" /\ \A q \in Proc : q # s => call'[q] = call[q]
  BY <1>0, <1>1, ForgetType
<1>3. QueuesShrink /\ QueuesBringNothing
  BY <1>1, QueuesSame, ShrinkBrings
<1>4. \A t \in Server : pc'[t] = "bcast" => pc[t] = "bcast" /\ job'[t] = job[t]
  BY <1>0, <1>1 DEF UsersAnswer, CopySubs, TypeOK
<1>5. AddRequests'
  BY <1>1, <1>2, <1>3, <1>4, RequestsAdd
<1>6. \A t \in Server : t # s => lists'[t] = lists[t] /\ todo'[t] = todo[t] /\ pc'[t] = pc[t]
  BY <1>0 DEF UsersAnswer, CopySubs, TypeOK, AreMaps
<1>7. Keeps(E)
  BY <1>1, <1>6 DEF Keeps, SourceHas, Listening
<1>8. \A t \in Server : call'[t].st = "done" => call'[t] = call[t]
  BY <1>2 DEF Proc
<1>9. /\ call[s].op.kind = "GetList" /\ ~IsTribble(call[s].op.key)
      /\ call[s].op.key \in Key /\ call[s].values \subseteq Item
      /\ pc[s] = "users" => call[s].op.key = UserList
  BY <1>0, <1>1, NotTribbles DEF CopyCalls, TypeOK, Call, Op
<1>10. \A item \in call[s].values : Around(call[s].op.key, item)
  BY <1>1, <1>9 DEF Around
<1>11. call[s].values \subseteq ItemsAt(lists[E], call[s].op.key)
  BY <1>9, <1>10, PlainHeld DEF SourceHas
<1>12. lists'[E] = lists[E]
  BY <1>1, <1>6
<1>13. \A t \in Server : \A k \in Key : \A item \in ItemsAt(lists'[t], k) :
               item \in ItemsAt(lists[t], k) \/ Mark(k, item) \in Held(E, k)'
  <2> SUFFICES ASSUME NEW t \in Server, NEW k \in Key, NEW item \in ItemsAt(lists'[t], k),
                      item \notin ItemsAt(lists[t], k)
               PROVE  Mark(k, item) \in Held(E, k)'
    OBVIOUS
  <2>1. t = s /\ CopySubs(s)
    BY <1>6 DEF UsersAnswer
  <2>2. lists'[s] \in {lists[s], Bind(lists[s], call[s].op.key,
                            ItemsAt(lists[s], call[s].op.key) \cup call[s].values)}
    BY <1>0, <2>1 DEF CopySubs, TypeOK, AreMaps
  <2>3. k = call[s].op.key /\ item \in call[s].values
    BY <2>1, <2>2, BindItems
  <2> QED
    BY <1>9, <1>11, <1>12, <2>3, PlainHeld
<1>14. \A t \in Server : \A u \in todo'[t] :
               u \in todo[t] \/ Plain(u) \in ItemsAt(lists'[E], UserList)
  <2> SUFFICES ASSUME NEW t \in Server, NEW u \in todo'[t], u \notin todo[t]
               PROVE  Plain(u) \in ItemsAt(lists'[E], UserList)
    OBVIOUS
  <2>1. t = s /\ UsersAnswer(s)
    BY <1>6 DEF CopySubs
  <2>2. pc[s] = "users" /\ call[s].op.key = UserList
    BY <1>9, <2>1 DEF UsersAnswer
  <2>3. PICK item \in call[s].values : u = item.value
    BY <1>0, <2>1 DEF UsersAnswer, TypeOK
  <2>4. item \in Item /\ item \in ItemsAt(lists[E], UserList)
    BY <1>9, <1>11, <2>2, <2>3
  <2>5. item.vt = NoStamp
    BY <2>4, KeyType, NotTribbles DEF SourceHas
  <2>6. item = Plain(u)
    BY <2>3, <2>4, <2>5 DEF Plain, Item
  <2> QED
    BY <1>12, <2>4, <2>6
<1>15. SourceHas(E)'
  BY <1>0, <1>1, <1>3, <1>4, <1>7, <1>8, <1>12, <1>13, <1>14, SourcesKept
<1> QED
  BY <1>5, <1>15

-----------------------------------------------------------------------------
(* Handlers: what E is told by a Tribbler server it stores first, and what  *)
(* others are told it has.                                                  *)

\* A reply ends one call and keeps what every caller asked for.
LEMMA ReplyKeeps ==
    ASSUME TypeOK, NEW h \in Request, NEW status, NEW values, Reply(h, status, values)
    PROVE  /\ \A p \in Proc : call'[p].op = call[p].op
           /\ \A p \in Proc : \/ call'[p] = call[p]
                              \/ h.live /\ p = h.from /\ call'[p].values = values
<1>1. h.from \in Proc /\ call \in [Proc -> Call]
  BY DEF Request, TypeOK
<1> QED
  BY <1>1 DEF Reply, Ended, MakeCall, Call

\* A handler that only answers.
LEMMA HandlerStaysSources ==
    ASSUME CoreInv, CoreInv', NEW E \in Server, SourceHas(E), AddRequests,
           NEW s \in Server, Handler(s), HandlerStays(s, Head(inbox[s]))
    PROVE  SourceHas(E)' /\ AddRequests'
<1>0. TypeOK /\ TypeOK'
  BY DEF CoreInv, TypeInv
<1>1. /\ pc[s] = "serve" /\ inbox[s] # <<>> /\ Take(s)
      /\ UNCHANGED <<target, todo, plan, faults, starts>>
  BY Handled
<1>2. PICK h : h = Head(inbox[s])
  OBVIOUS
<1>3. h \in Request /\ 1 \in DOMAIN inbox[s] /\ inbox[s][1] = h
  BY <1>1, <1>2, HandlerQueue, ServedCaller
<1>4. UNCHANGED <<pc, idx, job, simple, lists>>
  BY DEF HandlerStays
<1>5. PICK status, values : Reply(h, status, values) /\ Says(s, h, status, values)
  BY <1>2 DEF HandlerStays
<1>6. /\ \A p \in Proc : call'[p].op = call[p].op
      /\ \A p \in Proc : \/ call'[p] = call[p]
                         \/ h.live /\ p = h.from /\ call'[p].values = values
  BY <1>0, <1>3, <1>5, ReplyKeeps
<1>7. QueuesShrink /\ QueuesBringNothing
  BY <1>1, TakeShrinks, ShrinkBrings
<1>8. AddRequests'
  BY <1>4, <1>6, <1>7, RequestsAdd
<1>9. Keeps(E)
  BY <1>4 DEF Keeps, SourceHas, Listening
<1>10. ASSUME NEW t \in Server, NEW k \in Key, NEW item \in Item,
              call'[t].op.kind = "GetList",
              call'[t].op.key = k, item \in call'[t].values, call'[t] # call[t]
       PROVE  Mark(k, item) \in Held(E, k)'
  <2>1. h.live /\ t = h.from /\ item \in values /\ t \in Proc
    BY <1>6, <1>10 DEF Proc
  <2>2. call[t].op = OpOf(h)
    BY <1>3, <2>1 DEF AddRequests, AddRequest
  <2>3. h.kind = "GetList" /\ h.key = k
    BY <1>6, <1>10, <2>1, <2>2 DEF OpOf, MakeOp
  <2>4. values = StoreGetList(lists[s], k).values
    BY <1>5, <2>3 DEF Says
  <2>5. item \in ItemsAt(lists[s], k)
    BY <2>1, <2>4 DEF StoreGetList, ItemsAt
  <2>6. Mark(k, item) \in Held(E, k)
    BY <2>5 DEF SourceHas, Around
  <2> QED
    BY <1>9, <2>6, HeldKept
<1>11. SourceHas(E)'
  BY <1>0, <1>1, <1>4, <1>7, <1>9, <1>10, SourcesKept
<1> QED
  BY <1>8, <1>11

\* What storing adds, and that it is kept.
LEMMA StoresAdds ==
    ASSUME NEW s, NEW h, NEW r, h.kind # "RemoveFromList", Stores(s, h, r)
    PROVE  /\ DOMAIN simple[s] \subseteq DOMAIN simple'[s]
           /\ \A k : ItemsAt(lists[s], k) \subseteq ItemsAt(lists'[s], k)
           /\ \A k \in DOMAIN simple'[s] :
                 k \in DOMAIN simple[s] \/ (h.kind = "Put" /\ k = h.key)
           /\ \A k : \A x \in ItemsAt(lists'[s], k) :
                 \/ x \in ItemsAt(lists[s], k)
                 \/ /\ h.kind = "AddToList" /\ k = h.key /\ x.value = h.item.value
                    /\ (IsPost(h) /\ h.from \in Client) \/ x = h.item
           /\ h.kind = "Put" => h.key \in DOMAIN simple'[s]
           /\ h.kind = "AddToList" =>
                 \E x \in ItemsAt(lists'[s], h.key) :
                    x.value = h.item.value /\ ((IsPost(h) /\ h.from \in Client) \/ x = h.item)
<1>1. PICK item \in Item :
         /\ item.value = h.item.value
         /\ \/ h.kind = "Put" /\ StoresPut(s, h.key)
            \/ h.kind = "AddToList" /\ StoresItem(s, h.key, item)
         /\ (IsPost(h) /\ h.from \in Client) \/ item = h.item
  BY DEF Stores
<1>2. CASE h.kind = "Put" /\ StoresPut(s, h.key)
  BY <1>2 DEF StoresPut
<1>3. CASE h.kind = "AddToList" /\ StoresItem(s, h.key, item)
  <2>1. \A x : ItemsAt(lists'[s], x) =
                  IF x = h.key THEN ItemsAt(lists[s], h.key) \cup {item} ELSE ItemsAt(lists[s], x)
    BY <1>3, BindItems DEF StoresItem
  <2> QED
    BY <1>1, <1>3, <2>1 DEF StoresItem
<1> QED
  BY <1>1, <1>2, <1>3

\* What E has just stored it holds.
LEMMA MarkHeld ==
    ASSUME NEW E, NEW k, NEW item, item \in ItemsAt(lists'[E], k)
    PROVE  Mark(k, item) \in Held(E, k)'
<1>1. ItemsAt(lists[E], k)' = ItemsAt(lists'[E], k)
  BY DEF ItemsAt
<1> QED
  BY <1>1 DEF Mark, Held

\* A name that E knows stays known.
LEMMA NameKept ==
    ASSUME NEW E, Keeps(E), NEW k \in Key, NameKnown(E, k)
    PROVE  NameKnown(E, k)'
  BY KeyType DEF Keeps, NameKnown, ItemsAt

\* A handler that stores.
LEMMA HandlerStoresSources ==
    ASSUME CoreInv, CoreInv', RoutesInv, NEW E \in Server, \A c \in Client : Entry[c] = E,
           SourceHas(E), AddRequests,
           NEW s \in Server, Handler(s), HandlerStores(s, Head(inbox[s]))
    PROVE  SourceHas(E)' /\ AddRequests'
<1>0. TypeOK /\ TypeOK'
  BY DEF CoreInv, TypeInv
<1>1. /\ pc[s] = "serve" /\ inbox[s] # <<>> /\ Take(s)
      /\ UNCHANGED <<target, todo, plan, faults, starts>>
      /\ \A t \in Server : t # s => simple'[t] = simple[t] /\ lists'[t] = lists[t]
  BY Handled
<1>2. PICK h : h = Head(inbox[s])
  OBVIOUS
<1>3. h \in Request /\ 1 \in DOMAIN inbox[s] /\ inbox[s][1] = h
  BY <1>1, <1>2, HandlerQueue, ServedCaller
<1>4. AddRequest(h)
  BY <1>3 DEF AddRequests
<1>5. h.from \in Client => s = E
  BY <1>3 DEF RoutesInv, RouteOK
<1>6. PICK r \in Request :
          /\ r.from = h.from /\ r.live = h.live /\ SameWrite(h, r)
          /\ Stores(s, h, r) /\ Conclude(s, r, "OK")
  BY <1>2 DEF HandlerStores
<1>7. Writes(h) /\ h.kind # "RemoveFromList" /\ h.from \in Proc /\ h.key \in Key /\ h.item \in Item
  BY <1>2, <1>3, <1>4 DEF HandlerStores, AddRequest, Request
<1>8. CASE r.from \in Client
  <2>1. /\ pc' = [pc EXCEPT ![s] = "bcast"] /\ job' = [job EXCEPT ![s] = r] /\ UNCHANGED call
    BY <1>6, <1>8 DEF Conclude, Broadcast
  <2>2. s = E /\ h.item.vt = NoStamp
    BY <1>4, <1>5, <1>6, <1>8 DEF AddRequest
  <2>3. QueuesShrink /\ QueuesBringNothing
    BY <1>1, TakeShrinks, ShrinkBrings
  <2>4. \A t \in Server : pc'[t] = "bcast" => (t = s /\ job'[t] = r) \/ (pc[t] = "bcast" /\ job[t] = job'[t])
    BY <1>0, <2>1 DEF TypeOK
  <2>5. r.kind = h.kind /\ r.key = h.key /\ r.item.value = h.item.value
        /\ (~(h.kind = "AddToList" /\ IsTribble(h.key)) => r.item = h.item)
    BY <1>6 DEF SameWrite
  <2>6. AddRequests'
    BY <1>7, <2>1, <2>3, <2>4, <2>5, RequestsAdd
  <2>7. Keeps(E)
    BY <1>0, <1>6, <1>7, <2>1, <2>2, StoresAdds DEF Keeps, TypeOK
  <2>8. \A t \in Server : \A k \in Key : \A item \in ItemsAt(lists'[t], k) :
               item \in ItemsAt(lists[t], k) \/ Mark(k, item) \in Held(E, k)'
    BY <1>1, <2>2, MarkHeld
  <2>9. ASSUME h.kind = "AddToList"
        PROVE  Mark(h.key, r.item) \in Held(E, h.key)'
    <3>1. PICK x \in ItemsAt(lists'[s], h.key) :
                 x.value = h.item.value /\ ((IsPost(h) /\ h.from \in Client) \/ x = h.item)
      BY <1>6, <1>7, <2>9, StoresAdds
    <3>2. Mark(h.key, x) = Mark(h.key, r.item)
      BY <2>5, <2>9, <3>1 DEF Mark, IsPost
    <3> QED
      BY <2>2, <3>1, <3>2, MarkHeld
  <2>10. ASSUME h.kind = "Put"
         PROVE  NameKnown(E, h.key)'
    BY <1>6, <1>7, <2>2, <2>10, StoresAdds DEF NameKnown
  <2>11. \A t \in Server : \A k \in Key, item \in Item :
               (pc'[t] = "bcast" /\ job'[t].key = k /\ job'[t].item = item) =>
                  \/ pc[t] = "bcast" /\ job[t] = job'[t]
                  \/ job'[t].kind = "AddToList" /\ Mark(k, item) \in Held(E, k)'
                  \/ job'[t].kind = "Put" /\ NameKnown(E, k)'
    BY <1>7, <2>4, <2>5, <2>9, <2>10 DEF Writes
  <2>12. \A t \in Server : \A k \in DOMAIN simple'[t] :
               k \in DOMAIN simple[t] \/ NameKnown(E, k)'
    BY <1>1, <2>2 DEF NameKnown
  <2>13. \A k \in Key : ~IsTribble(k) => \A item \in ItemsAt(lists'[E], k) :
               item \in ItemsAt(lists[E], k) \/ item.vt = NoStamp
    BY <1>6, <1>7, <2>2, StoresAdds DEF IsPost
  <2>14. SourceHas(E)'
    BY <1>0, <1>1, <2>1, <2>3, <2>7, <2>8, <2>11, <2>12, <2>13, SourcesKept
  <2> QED
    BY <2>6, <2>14
<1>9. CASE r.from \notin Client
  <2>1. UNCHANGED <<pc, job>> /\ Reply(r, "OK", {}) /\ h.from \in Server
    BY <1>6, <1>7, <1>9 DEF Conclude, Finish, Proc
  <2>2. QueuesShrink /\ QueuesBringNothing
    BY <1>1, TakeShrinks, ShrinkBrings
  <2>3. /\ \A p \in Proc : call'[p].op = call[p].op
        /\ \A p \in Proc : call'[p] = call[p] \/ call'[p].values = {}
    BY <1>0, <2>1, ReplyKeeps
  <2>4. AddRequests'
    BY <2>1, <2>2, <2>3, RequestsAdd
  <2>5. Keeps(E)
    BY <1>1, <1>6, <1>7, <2>1, StoresAdds DEF Keeps, SourceHas, Listening
  <2>6. \A t \in Server : \A k \in Key : \A item \in ItemsAt(lists'[t], k) :
               \/ item \in ItemsAt(lists[t], k)
               \/ t = s /\ h.kind = "AddToList" /\ k = h.key /\ item = h.item
    BY <1>1, <1>6, <1>7, <2>1, StoresAdds, ClusterAssumption
  <2>7. ASSUME h.kind = "AddToList"
        PROVE  Mark(h.key, h.item) \in Held(E, h.key)
    BY <1>3, <1>7, <2>1, <2>7 DEF SourceHas, Around
  <2>8. \A t \in Server : \A k \in Key : \A item \in ItemsAt(lists'[t], k) :
               item \in ItemsAt(lists[t], k) \/ Mark(k, item) \in Held(E, k)'
    BY <2>5, <2>6, <2>7, HeldKept
  <2>9. ASSUME h.kind = "Put"
        PROVE  NameKnown(E, h.key)'
    <3>1. NameAround(h.key)
      BY <1>3, <1>7, <2>1, <2>9 DEF NameAround, Writes
    <3> QED
      BY <1>7, <2>5, <3>1, NameKept DEF SourceHas
  <2>10. \A t \in Server : \A k \in DOMAIN simple'[t] :
               k \in DOMAIN simple[t] \/ NameKnown(E, k)'
    <3>1. \A t \in Server : \A k \in DOMAIN simple'[t] :
               k \in DOMAIN simple[t] \/ (h.kind = "Put" /\ k = h.key)
      BY <1>1, <1>6, <1>7, StoresAdds
    <3> QED
      BY <2>9, <3>1
  <2>11. \A k \in Key : ~IsTribble(k) => \A item \in ItemsAt(lists'[E], k) :
               item \in ItemsAt(lists[E], k) \/ item.vt = NoStamp
    BY <2>6, <2>7, PlainHeld
  <2>12. \A t \in Server : \A k \in Key, item \in Item :
               /\ call'[t].st = "done" /\ call'[t].op.kind = "GetList"
               /\ call'[t].op.key = k /\ item \in call'[t].values
               => call'[t] = call[t] \/ Mark(k, item) \in Held(E, k)'
    BY <2>3 DEF Proc
  <2>13. SourceHas(E)'
    BY <1>0, <1>1, <2>1, <2>2, <2>5, <2>8, <2>10, <2>11, <2>12, SourcesKept
  <2> QED
    BY <2>4, <2>13
<1> QED
  BY <1>8, <1>9

-----------------------------------------------------------------------------
(* Every step, and the theorem. *)

\* A server's call.
LEMMA CallSources ==
    ASSUME CoreInv, CoreInv', NEW E \in Server, SourceHas(E), AddRequests, NEW s \in Server,
           FindCall(s) \/ UsersCall(s) \/ JoinCall(s) \/ BcastCall(s)
    PROVE  SourceHas(E)' /\ AddRequests'
<1>0. TypeOK /\ TypeOK' /\ s \in Proc /\ s \notin Client
  BY ClusterAssumption DEF CoreInv, TypeInv, Proc
<1>1. /\ ~Waiting(s)
      /\ UNCHANGED <<pc, idx, target, todo, job, running, simple, lists, vt,
                     plan, faults, starts>>
  BY DEF FindCall, UsersCall, JoinCall, BcastCall, Idle, Waiting
<1>2. PICK x \in Server : \E o \in Op : Send(s, x, o) /\ ServerOp(s, o)
  BY ServerSends
<1>3. PICK o \in Op : Send(s, x, o) /\ ServerOp(s, o)
  BY <1>2
<1>4. o.kind # "RemoveFromList"
  BY <1>3 DEF ServerOp, AddRequests, OpOf, MakeOp
<1>5. AddRequests' /\ QueuesBringNothing
  BY <1>0, <1>1, <1>3, <1>4, SendAdds, SendBrings
<1>6. \A t \in Server : call'[t].st = "done" => call'[t] = call[t]
  <2>1. \A t \in Server : t # s => call'[t] = call[t]
    BY <1>0, <1>3, SendKeepsOps DEF Proc
  <2>2. call'[s].st # "done"
    BY <1>0, <1>3 DEF Send, MakeCall, TypeOK
  <2> QED
    BY <2>1, <2>2
<1>7. Keeps(E)
  BY <1>1 DEF Keeps, SourceHas, Listening
<1>8. SourceHas(E)'
  BY <1>0, <1>1, <1>5, <1>6, <1>7, SourcesKept
<1> QED
  BY <1>5, <1>8

\* The rest of the constructor.
LEMMA BootSources ==
    ASSUME CoreInv, CoreInv', NEW E \in Server, SourceHas(E), AddRequests, NEW s \in Server,
           \/ Boot(s) \/ FindAnswer(s) \/ FindRefused(s) \/ FindDone(s)
           \/ CopyDone(s) \/ GiveUp(s) \/ JoinAnswer(s) \/ JoinDone(s)
    PROVE  SourceHas(E)' /\ AddRequests'
<1>0. TypeOK /\ s \in Proc
  BY DEF CoreInv, TypeInv, Proc
<1>1. s # E /\ ~Waiting(s)
  BY DEF Boot, FindAnswer, FindRefused, FindDone, CopyDone, GiveUp, JoinAnswer, JoinDone,
         SourceHas, Listening, Waiting, Idle, Answered, Broken, CoreInv, TypeInv, LoopsOK
<1>2. CASE Boot(s) \/ FindDone(s) \/ CopyDone(s) \/ JoinDone(s)
  <2>1. /\ UNCHANGED <<todo, job, call, inbox, lists>>
        /\ \A t \in Server : t # s => pc'[t] = pc[t] /\ simple'[t] = simple[t]
        /\ pc'[s] # "bcast"
    BY <1>0, <1>2 DEF Boot, FindDone, CopyDone, JoinDone, FinishBoot, TypeOK, AreMaps
  <2>2. DOMAIN simple'[s] \subseteq DOMAIN simple[s] \cup {ServerId, ServerStatus}
    <3>1. \/ simple'[s] = BootInfo
          \/ simple'[s] = simple[s]
          \/ simple'[s] = SetServerInfo(simple[s], ServerStatus, "running")
      BY <1>0, <1>2 DEF Boot, FindDone, CopyDone, JoinDone, FinishBoot, TypeOK, AreMaps
    <3> QED
      BY <3>1 DEF BootInfo, SetServerInfo, Bind, NoMap
  <2> QED
    BY <1>1, <2>1, <2>2, QueuesSame, QuietSources DEF SourceHas, Listening
<1>3. CASE FindAnswer(s) \/ FindRefused(s) \/ JoinAnswer(s)
  <2>1. UNCHANGED <<todo, job, inbox, lists, simple, pc>> /\ Forget(s)
    BY <1>3 DEF FindAnswer, FindRefused, JoinAnswer
  <2>2. /\ \A q \in Proc : q # s => call'[q] = call[q]
        /\ call'[s].st = "idle"
    BY <1>0, <2>1, ForgetType
  <2> QED
    BY <1>1, <2>1, <2>2, QueuesSame, QuietSources DEF SourceHas, Listening, Proc
<1>4. CASE GiveUp(s)
  <2>1. Halt(s)
    BY <1>4 DEF GiveUp
  <2>2. /\ \A t \in Server : t # s => /\ pc'[t] = pc[t] /\ job'[t] = job[t]
                                      /\ simple'[t] = simple[t] /\ lists'[t] = lists[t]
                                      /\ todo'[t] = todo[t]
        /\ pc'[s] = "down" /\ simple'[s] = NoMap /\ lists'[s] = NoMap /\ todo'[s] = {}
    BY <1>0, <2>1 DEF Halt, TypeOK, AreMaps
  <2>3. \A q \in Proc :
           /\ q # s => call'[q].op = call[q].op
           /\ call'[q].st = "done" => call'[q] = call[q]
    <3>1. call' = [p \in Proc |->
                 IF p = s THEN NoCall
                 ELSE IF call[p].st = "waiting" /\ call[p].to = s
                 THEN Ended(call[p], "broken", "INTERNAL_FAILURE", {})
                 ELSE call[p]]
      BY <2>1 DEF Halt
    <3> QED
      BY <1>0, <3>1 DEF NoCall, Ended, MakeCall
  <2>4. DOMAIN NoMap = {}
    BY DEF NoMap
  <2> QED
    BY <1>0, <1>1, <2>1, <2>2, <2>3, <2>4, HaltShrinks, QuietSources DEF SourceHas, Listening, Proc
<1> QED
  BY <1>2, <1>3, <1>4

\* The broadcast loop.
LEMMA BcastSources ==
    ASSUME CoreInv, CoreInv', NEW E \in Server, SourceHas(E), AddRequests, NEW s \in Server,
           BcastAnswer(s) \/ BcastRejected(s) \/ BcastErased(s) \/ BcastDone(s)
    PROVE  SourceHas(E)' /\ AddRequests'
<1>0. TypeOK /\ s \in Proc
  BY DEF CoreInv, TypeInv, Proc
<1>1. ~Waiting(s) /\ pc[s] = "bcast"
  BY DEF BcastAnswer, BcastRejected, BcastErased, BcastDone, Waiting, Idle, Answered, Broken
<1>2. CASE BcastAnswer(s) \/ BcastErased(s)
  <2>1. UNCHANGED <<todo, job, inbox, lists, simple, pc>> /\ Forget(s)
    BY <1>2 DEF BcastAnswer, BcastErased
  <2>2. /\ \A q \in Proc : q # s => call'[q] = call[q]
        /\ call'[s].st = "idle"
    BY <1>0, <2>1, ForgetType
  <2> QED
    BY <1>1, <2>1, <2>2, QueuesSame, QuietSources DEF SourceHas, Listening, Proc
<1>3. CASE BcastRejected(s) \/ BcastDone(s)
  <2>1. PICK status : BcastStop(s, status)
    BY <1>3 DEF BcastRejected, BcastDone
  <2>2. job[s].from \in Client
    BY <1>1 DEF CoreInv, TypeInv, LoopsOK
  <2>3. \A q \in Proc :
           /\ q # s => call'[q].op = call[q].op
           /\ q \in Server => call'[q] = call[q] \/ call'[q].st = "idle"
    BY <1>0, <2>1, <2>2, ClusterAssumption DEF BcastStop, NoCall, Ended, MakeCall
  <2>4. /\ UNCHANGED <<todo, simple, lists, inbox>>
        /\ \A t \in Server : t # s => pc'[t] = pc[t] /\ job'[t] = job[t]
        /\ pc'[s] = "serve"
    BY <1>0, <2>1 DEF BcastStop, TypeOK
  <2> QED
    BY <1>1, <2>3, <2>4, QueuesSame, QuietSources DEF SourceHas, Listening, Proc
<1> QED
  BY <1>2, <1>3

\* A Tribbler server's call, also one that it makes with an answer in hand.
LEMMA SendSources ==
    ASSUME CoreInv, CoreInv', NEW E \in Server, SourceHas(E), AddRequests,
           NEW c \in Client, ~Waiting(c), NEW o \in Op, Send(c, Entry[c], o),
           o.kind # "RemoveFromList", o.item.vt = NoStamp,
           UNCHANGED <<pc, todo, job, simple, lists>>
    PROVE  SourceHas(E)' /\ AddRequests'
<1>1. TypeOK /\ TypeOK' /\ c \in Proc /\ c \notin Server /\ Entry[c] \in Server
  BY ClusterAssumption DEF CoreInv, TypeInv, Proc
<1>2. AddRequests' /\ QueuesBringNothing
  BY <1>1, SendAdds, SendBrings
<1>3. \A t \in Server : call'[t] = call[t]
  BY <1>1, SendKeepsOps DEF Proc
<1>4. Keeps(E)
  BY DEF Keeps, SourceHas, Listening
<1>5. SourceHas(E)'
  BY <1>1, <1>2, <1>3, <1>4, SourcesKept
<1> QED
  BY <1>2, <1>5

\* The end of a call.
LEMMA ForgetSources ==
    ASSUME CoreInv, CoreInv', NEW E \in Server, SourceHas(E), AddRequests,
           NEW c \in Client, ~Waiting(c), Forget(c),
           UNCHANGED <<pc, todo, job, simple, lists, inbox>>
    PROVE  SourceHas(E)' /\ AddRequests'
<1>1. TypeOK /\ c \in Proc /\ c \notin Server
  BY ClusterAssumption DEF CoreInv, TypeInv, Proc
<1>2. \A q \in Proc : q # c => call'[q] = call[q]
  BY <1>1, ForgetType
<1> QED
  BY <1>1, <1>2, QueuesSame, QuietSources DEF SourceHas, Listening, Proc

\* A client of the cluster makes the calls of its plan, and only adds.
LEMMA ClientSources ==
    ASSUME CoreInv, CoreInv', NEW E \in Server, SourceHas(E), AddRequests, AddsOnly, PlansKept,
           NEW c \in Client, ClientCall(c) \/ ClientReturn(c)
    PROVE  SourceHas(E)' /\ AddRequests'
<1>1. TypeOK /\ ~Waiting(c)
  BY DEF CoreInv, TypeInv, ClientCall, ClientReturn, Idle, Answered, Broken, Waiting
<1>2. UNCHANGED <<pc, todo, job, simple, lists>>
  BY DEF ClientCall, ClientReturn
<1>3. CASE ClientCall(c)
  <2>1. PICK o \in plan[c] : Send(c, Entry[c], o)
    BY <1>3 DEF ClientCall
  <2>2. o \in Op /\ o \in Plan[c]
    BY <1>1, <2>1 DEF TypeOK, PlansKept
  <2>3. o.kind # "RemoveFromList" /\ o.item.vt = NoStamp
    BY <2>2, PlanAssumption DEF AddsOnly
  <2> QED
    BY <1>1, <1>2, <2>1, <2>2, <2>3, SendSources
<1>4. CASE ClientReturn(c)
  BY <1>1, <1>2, <1>4, ForgetSources DEF ClientReturn
<1> QED
  BY <1>3, <1>4

\* A server's step.
LEMMA ServerSources ==
    ASSUME NEW E \in Server, \A c \in Client : Entry[c] = E,
           CoreInv, RoutesInv, CopyCalls, SourceInv(E),
           NEW s \in Server, Boot(s) \/ ServerStep(s) \/ Crash(s)
    PROVE  SourceInv(E)'
<1>1. CoreInv' /\ faults \in Nat
  BY NextCore DEF CoreInv, TypeInv, TypeOK, Next
<1> SUFFICES ASSUME faults' = 0 PROVE SourceHas(E)' /\ AddRequests'
  BY DEF SourceInv
<1>2. faults = 0
  BY CrashesStay DEF Next
<1>3. SourceHas(E) /\ AddRequests
  BY <1>2 DEF SourceInv
<1>4. ~Crash(s) /\ ~BcastFault(s) /\ ~HandlerFails(s)
  BY <1>1, <1>2 DEF Crash, BcastFault, HandlerFails, ReceiveThrows, ReceiveFault
<1>5. CASE FindCall(s) \/ UsersCall(s) \/ JoinCall(s) \/ BcastCall(s)
  BY <1>1, <1>3, <1>5, CallSources
<1>6. CASE \/ Boot(s) \/ FindAnswer(s) \/ FindRefused(s) \/ FindDone(s)
           \/ CopyDone(s) \/ GiveUp(s) \/ JoinAnswer(s) \/ JoinDone(s)
  BY <1>1, <1>3, <1>6, BootSources
<1>7. CASE BcastAnswer(s) \/ BcastRejected(s) \/ BcastErased(s) \/ BcastDone(s)
  BY <1>1, <1>3, <1>7, BcastSources
<1>8. CASE UsersAnswer(s) \/ CopySubs(s)
  BY <1>1, <1>3, <1>8, AnswerSources
<1>9. CASE \E u \in todo[s] : CopyUser(s, u)
  BY <1>1, <1>3, <1>9, CopyUserSources
<1>10. CASE Handler(s)
  BY <1>1, <1>3, <1>10, Handled, HandlerStaysSources, HandlerStoresSources
<1> QED
  BY <1>4, <1>5, <1>6, <1>7, <1>8, <1>9, <1>10 DEF ServerStep, BootStep, BcastStep

\* Every step of the cluster.
LEMMA SourceNext ==
    ASSUME NEW E \in Server, \A c \in Client : Entry[c] = E, AddsOnly,
           CoreInv, RoutesInv, CopyCalls, PlansKept, SourceInv(E), [Next]_vars
    PROVE  SourceInv(E)'
<1>0. CoreInv' /\ faults \in Nat
  BY NextCore DEF CoreInv, TypeInv, TypeOK
<1> SUFFICES ASSUME faults' = 0 PROVE SourceHas(E)' /\ AddRequests'
  BY DEF SourceInv
<1>1. faults = 0
  BY CrashesStay DEF vars
<1>2. SourceHas(E) /\ AddRequests
  BY <1>1 DEF SourceInv
<1>3. ASSUME NEW s \in Server, Boot(s) \/ ServerStep(s) \/ Crash(s)
      PROVE  SourceHas(E)' /\ AddRequests'
  BY <1>3, ServerSources DEF SourceInv
<1>4. ASSUME NEW c \in Client, ClientStep(c)
      PROVE  SourceHas(E)' /\ AddRequests'
  BY <1>0, <1>2, <1>4, ClientSources, ClientCrashEnds DEF ClientStep
<1>5. CASE UNCHANGED vars
  <2>1. UNCHANGED <<pc, todo, job, simple, lists, call, inbox>>
    BY <1>5 DEF vars
  <2> QED
    BY <1>0, <1>2, <2>1, QueuesSame, QuietSources DEF SourceHas, Listening
<1> QED
  BY <1>3, <1>4, <1>5 DEF Next, Settled

\* At first nothing is around.
LEMMA InitSource ==
    ASSUME NEW E \in Server, E <= B, Init
    PROVE  SourceInv(E)
<1>1. /\ pc[E] = "serve" /\ simple[E] = RunningInfo
      /\ \A s \in Server :
            /\ pc[s] # "bcast" /\ simple[s] \in {RunningInfo, NoMap} /\ lists[s] = NoMap
            /\ todo[s] = {} /\ inbox[s] = <<>> /\ ~Answered(s)
  BY DEF Init, NoCall, MakeCall, Proc, Answered
<1>2. {ServerId, ServerStatus} \subseteq DOMAIN RunningInfo
  BY DEF RunningInfo, BootInfo, SetServerInfo, Bind, NoMap
<1>3. DOMAIN NoMap = {} /\ \A k : ItemsAt(NoMap, k) = {}
  BY DEF NoMap, ItemsAt
<1>4. \A k, item : ~Around(k, item)
  BY <1>1, <1>3 DEF Around
<1>5. \A k : NameAround(k) => k \in DOMAIN simple[E]
  BY <1>1, <1>3 DEF NameAround
<1>6. SourceHas(E)
  BY <1>1, <1>2, <1>3, <1>4, <1>5 DEF SourceHas, Listening, NameKnown
<1>7. AddRequests
  BY <1>1 DEF AddRequests
<1> QED
  BY <1>6, <1>7 DEF SourceInv

\* What is at E is not invented.
LEMMA SourcesInvent ==
    ASSUME NEW E \in Server, \A c \in Client : Entry[c] = E, CoreInv, SourceInv(E)
    PROVE  NothingInvented
<1> SUFFICES ASSUME faults = 0, NEW c \in Client, NEW t \in Server
             PROVE  /\ \A k \in StoredKeys : Contents(t, k).values \subseteq Contents(E, k).values
                    /\ \A u \in Text : UserKey(u) \in DOMAIN simple[t] \ (DOMAIN simple[E]) =>
                          Plain(u) \in ItemsAt(lists[E], UserList)
  BY DEF NothingInvented
<1>1. SourceHas(E)
  BY DEF SourceInv
<1>2. TypeOK
  BY DEF CoreInv, TypeInv
<1>3. ASSUME NEW k \in StoredKeys, NEW v \in Contents(t, k).values
      PROVE  v \in Contents(E, k).values
  <2>1. PICK item \in ItemsAt(lists[t], k) : v = item.value
    BY <1>3 DEF Contents
  <2>2. IsMap(lists[t], SUBSET Item)
    BY <1>2 DEF TypeOK, AreMaps
  <2>3. k \in Key /\ item \in Item
    BY <2>1, <2>2 DEF ItemsAt, IsMap
  <2>4. Mark(k, item) \in Held(E, k)
    BY <1>1, <2>1, <2>3 DEF SourceHas, Around
  <2>5. \E x \in ItemsAt(lists[E], k) : x.value = v
    BY <2>1, <2>4 DEF Mark, Held
  <2> QED
    BY <2>5 DEF Contents
<1>4. ASSUME NEW u \in Text, UserKey(u) \in DOMAIN simple[t], UserKey(u) \notin DOMAIN simple[E]
      PROVE  Plain(u) \in ItemsAt(lists[E], UserList)
  <2>1. NameKnown(E, UserKey(u))
    BY <1>1, <1>4, KeyType DEF SourceHas, NameAround
  <2> QED
    BY <1>4, <2>1 DEF NameKnown, UserKey
<1> QED
  BY <1>3, <1>4

\* While nothing crashes, no server of a cluster that any servers join at any time holds an
\* item or a user that the Tribbler servers' one entry server does not have, but for users
\* that are listed there and not yet created.
THEOREM NothingInventedAlways ==
    ASSUME OneEntryOnly, AddsOnly, EntriesUp
    PROVE  Spec => []NothingInvented
<1>1. CASE Client = {}
  <2>1. NothingInvented
    BY <1>1 DEF NothingInvented
  <2> QED
    BY <2>1, PTL
<1>2. CASE Client # {}
  <2>1. PICK d \in Client : TRUE
    BY <1>2
  <2> DEFINE E == Entry[d]
             Inv == CoreInv /\ RoutesInv /\ CopyCalls /\ PlansKept /\ SourceInv(E)
  <2>2. E \in Server /\ (\A c \in Client : Entry[c] = E) /\ E <= B
    BY ClusterAssumption DEF OneEntryOnly, EntriesUp
  <2> HIDE DEF E
  <2>3. Init => Inv
    <3> SUFFICES ASSUME Init PROVE Inv
      OBVIOUS
    <3>1. RoutesInv
      BY DEF Init, RoutesInv, RouteOK, Server
    <3>2. CopyCalls
      BY InitStamps DEF StampsInv
    <3>3. PlansKept
      BY DEF Init, PlansKept
    <3> QED
      BY <2>2, <3>1, <3>2, <3>3, InitCore, InitSource
  <2>4. Inv /\ [Next]_vars => Inv'
    BY <2>2, NextCore, RoutesNext, CopyCallsNext, PlansNext, SourceNext
  <2>5. Inv => NothingInvented
    BY <2>2, SourcesInvent
  <2> HIDE DEF Inv
  <2> QED
    BY <2>3, <2>4, <2>5, PTL DEF Spec
<1> QED
  BY <1>1, <1>2
=============================================================================
