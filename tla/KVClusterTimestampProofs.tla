---------------------- MODULE KVClusterTimestampProofs ----------------------
(***************************************************************************)
(* Proofs about the timestamps of stored tribbles, and about calls, from   *)
(* the inductive invariant of KVClusterProofs.                             *)
(***************************************************************************)
EXTENDS KVClusterProofs, FiniteSetTheorems

\* A server that copies users has asked for users, and one that copies subscriptions
\* for subscriptions, so that no tribble is ever stored behind AddToList's back.
CopyCalls ==
    \A s \in Server : ~Idle(s) =>
        /\ pc[s] = "users" => call[s].op.kind = "GetList" /\ call[s].op.key = UserList
        /\ pc[s] = "subs" => call[s].op.kind = "GetList" /\ ~IsTribble(call[s].op.key)

\* The stamp of every readable tribble that server s stores under k is known to its clock.
KnownAt(s, k) ==
    IsTribble(k) =>
        \A item \in ItemsAt(lists[s], k) : IsReadable(item) => Leq(item.vt, vt[s])

StampsInv ==
    /\ \A s \in Server : \A k \in Key : KnownAt(s, k)
    /\ CopyCalls

\* The strengthening implies that every stored stamp is known to the clock.
LEMMA StampsInvKnows == TypeOK /\ StampsInv => StampsKnown
<1> SUFFICES ASSUME TypeOK, StampsInv, NEW s \in Server, NEW t \in Tribbles(s)
             PROVE  Leq(t.msg.vt, vt[s])
  BY DEF StampsKnown
<1>1. PICK k \in DOMAIN lists[s] :
        /\ IsTribble(k)
        /\ \E item \in lists[s][k] : IsReadable(item) /\ t = [key |-> k, msg |-> item]
  BY DEF Tribbles
<1>2. k \in Key
  BY DEF TypeOK, AreMaps, IsMap
<1> QED
  BY <1>1, <1>2 DEF StampsInv, KnownAt, ItemsAt

\* A server stores nothing that its clock does not cover.
LEMMA KnownGrows ==
    ASSUME TypeOK, TypeOK', NEW s \in Server, NEW k \in Key, KnownAt(s, k),
           Leq(vt[s], vt'[s]),
           IsTribble(k) =>
               \A item \in ItemsAt(lists[s], k)' :
                   \/ item \in ItemsAt(lists[s], k)
                   \/ IsReadable(item) => Leq(item.vt, vt'[s])
    PROVE  KnownAt(s, k)'
<1> SUFFICES ASSUME IsTribble(k), NEW item \in ItemsAt(lists[s], k)', IsReadable(item)
             PROVE  Leq(item.vt, vt'[s])
  BY DEF KnownAt
<1>1. CASE item \in ItemsAt(lists[s], k)
  <2>1. Leq(item.vt, vt[s])
    BY <1>1 DEF KnownAt
  <2>2. item.vt \in AnyStamp
    <3>1. IsMap(lists[s], SUBSET Item)
      BY DEF TypeOK, AreMaps
    <3>2. item \in Item
      BY <1>1, <3>1, ItemsAtType
    <3> QED
      BY <3>2 DEF Item
  <2>3. vt[s] \in Stamp /\ vt'[s] \in Stamp
    BY DEF TypeOK
  <2> QED
    BY <2>1, <2>2, <2>3, LeqTransitive
<1> QED
  BY <1>1

\* A stamp covers itself.
LEMMA LeqReflexive == \A v \in Stamp : Leq(v, v)
  BY DEF Leq, Stamp

\* Binding a key changes what is under that key and no other.
LEMMA BindItems ==
    ASSUME NEW m, NEW k, NEW V, NEW x
    PROVE  ItemsAt(Bind(m, k, V), x) = IF x = k THEN V ELSE ItemsAt(m, x)
  BY DEF ItemsAt, Bind

\* What the operations on a list leave under each key.
LEMMA AddedItems ==
    ASSUME NEW m, NEW k, NEW item, NEW x
    PROVE  ItemsAt(StoreAddToList(m, k, item).map, x) \subseteq
              ItemsAt(m, x) \cup (IF x = k THEN {item} ELSE {})
  BY BindItems DEF StoreAddToList

\* _RemoveFromList leaves nothing that was not there.
LEMMA RemovedItems ==
    ASSUME NEW m, NEW k, NEW item, NEW x
    PROVE  ItemsAt(StoreRemoveFromList(m, k, item).map, x) \subseteq ItemsAt(m, x)
<1>1. k \in DOMAIN m => ItemsAt(m, k) = m[k]
  BY DEF ItemsAt
<1> QED
  BY <1>1, BindItems DEF StoreRemoveFromList

\* Steps that leave lists and clocks alone.
LEMMA KnownFrame ==
    ASSUME StampsInv, UNCHANGED <<lists, vt>>
    PROVE  \A s \in Server : \A k \in Key : KnownAt(s, k)'
  BY DEF StampsInv, KnownAt

\* A server that ends stores nothing.
LEMMA HaltKnown ==
    ASSUME TypeOK, StampsInv, NEW s \in Server, Halt(s)
    PROVE  \A t \in Server : \A k \in Key : KnownAt(t, k)'
<1>1. /\ lists'[s] = NoMap
      /\ \A t \in Server : t # s => lists'[t] = lists[t] /\ vt'[t] = vt[t]
  BY DEF Halt, TypeOK, AreMaps
<1>2. \A k : ItemsAt(NoMap, k) = {}
  BY DEF ItemsAt, NoMap
<1> QED
  BY <1>1, <1>2 DEF StampsInv, KnownAt

-----------------------------------------------------------------------------
(* CopyCalls is inductive. *)

\* A handler gives other servers nothing but answers to their calls.
LEMMA HandlerKeepsOps ==
    ASSUME CoreInv, NEW s \in Server, Handler(s), NEW t \in Server
    PROVE  /\ t # s => pc'[t] = pc[t]
           /\ pc'[s] \notin {"users", "subs"}
           /\ call'[t].op = call[t].op
           /\ Idle(t) => Idle(t)'
<1> DEFINE h == Head(inbox[s])
<1>1. pc[s] = "serve" /\ inbox[s] # <<>> /\ Take(s) /\ TypeOK
  BY DEF Handler, Read, Put, AddToList, PostTribble, ReceiveTribble, RemoveFromList,
     HasTribble, HasRequest, CoreInv, TypeInv
<1>2. t \in Proc /\ call[t] \in Call
  BY <1>1 DEF Proc, TypeOK
<1>3. ASSUME NEW req, req.from = h.from, req.live = h.live, NEW status, NEW values,
             Finish(s, req, status, values)
      PROVE  /\ pc' = pc
             /\ call'[t].op = call[t].op
             /\ Idle(t) => Idle(t)'
  <2>1. pc' = pc /\ Reply(req, status, values)
    BY <1>3 DEF Finish
  <2>2. call'[t] = call[t] \/ (h.live /\ h.from = t /\ call'[t] = Ended(call[t], "done", status, values))
    BY <1>2, <1>3, <2>1, <1>1 DEF Reply, TypeOK
  <2>3. h.live /\ h.from = t => ~Idle(t)
    BY <1>1, ServedCaller DEF Idle, Waiting
  <2>4. Ended(call[t], "done", status, values).op = call[t].op
    BY DEF Ended, MakeCall
  <2> QED
    BY <2>1, <2>2, <2>3, <2>4 DEF Idle
<1>4. ASSUME NEW req, req.from = h.from, req.live = h.live, NEW status,
             Conclude(s, req, status)
      PROVE  /\ t # s => pc'[t] = pc[t]
             /\ pc'[s] \notin {"users", "subs"}
             /\ call'[t].op = call[t].op
             /\ Idle(t) => Idle(t)'
  <2>1. CASE Broadcast(s, req)
    <3>1. pc' = [pc EXCEPT ![s] = "bcast"] /\ call' = call
      BY <2>1 DEF Broadcast
    <3> QED
      BY <1>1, <3>1 DEF TypeOK, Idle
  <2>2. CASE Finish(s, req, status, {})
    BY <1>1, <1>3, <1>4, <2>2
  <2> QED
    BY <1>4, <2>1, <2>2 DEF Conclude
<1>5. CASE Read(s)
  BY <1>1, <1>3, <1>5 DEF Read
<1>6. CASE Put(s)
  <2>1. CASE h.key = ServerSyscmd
    BY <1>1, <1>3, <1>6, <2>1 DEF Put
  <2>2. CASE h.key # ServerSyscmd
    BY <1>4, <1>6, <2>2 DEF Put
  <2> QED
    BY <2>1, <2>2
<1>7. CASE AddToList(s)
  BY <1>4, <1>7 DEF AddToList, WriteList
<1>8. CASE RemoveFromList(s)
  BY <1>4, <1>8 DEF RemoveFromList, WriteList
<1>9. CASE PostTribble(s)
  <2> DEFINE resent == [h EXCEPT !.item = ToJSON(h.item.value, Inc(Inc(vt[s], s), s))]
  <2>1. h \in Request
    BY <1>1, ServedCaller
  <2>2. resent.from = h.from /\ resent.live = h.live
    BY <2>1 DEF Request
  <2>3. \E status : Conclude(s, resent, status)
    BY <1>9 DEF PostTribble, WriteList
  <2> QED
    BY <1>4, <2>2, <2>3
<1>10. CASE ReceiveTribble(s)
  BY <1>4, <1>10 DEF ReceiveTribble, WriteList
<1> QED
  BY <1>5, <1>6, <1>7, <1>8, <1>9, <1>10 DEF Handler

\* Neither does one that throws.
LEMMA ThrowKeepsOps ==
    ASSUME CoreInv, NEW s \in Server, ReceiveThrows(s), NEW t \in Server
    PROVE  /\ pc'[t] = pc[t]
           /\ call'[t].op = call[t].op
           /\ Idle(t) => Idle(t)'
<1> DEFINE h == Head(inbox[s])
           e == Ended(call[h.from], "broken", "INTERNAL_FAILURE", {})
<1>1. /\ pc[s] = "serve" /\ inbox[s] # <<>> /\ UNCHANGED pc /\ TypeOK
      /\ call' = IF h.live THEN [call EXCEPT ![h.from] = e] ELSE call
  BY DEF ReceiveThrows, HasTribble, HasRequest, CoreInv, TypeInv
<1>2. t \in Proc /\ call \in [Proc -> Call]
  BY <1>1 DEF Proc, TypeOK
<1>3. h.live /\ h.from = t => ~Idle(t)
  BY <1>1, ServedCaller DEF Idle, Waiting
<1>4. call'[t] = call[t] \/ (h.live /\ h.from = t /\ call'[t] = e)
  BY <1>1, <1>2
<1>5. h.from = t => e.op = call[t].op
  BY DEF Ended, MakeCall
<1> QED
  BY <1>1, <1>3, <1>4, <1>5 DEF Idle

\* The end of a server leaves the others where they are, with the calls they made.
LEMMA HaltKeepsOps ==
    ASSUME TypeOK, NEW s \in Server, Halt(s), NEW t \in Server
    PROVE  /\ t # s => pc'[t] = pc[t] /\ call'[t].op = call[t].op /\ (Idle(t) => Idle(t)')
           /\ pc'[s] \notin {"users", "subs"}
<1>1. t \in Proc /\ pc' = [pc EXCEPT ![s] = "down"]
  BY DEF Halt, Proc
<1>2. t # s => call'[t] \in {call[t], Ended(call[t], "broken", "INTERNAL_FAILURE", {})}
  BY <1>1 DEF Halt
<1>3. t # s /\ call'[t] # call[t] => call[t].st = "waiting"
  BY <1>1 DEF Halt
<1>4. Ended(call[t], "broken", "INTERNAL_FAILURE", {}).op = call[t].op
  BY DEF Ended, MakeCall
<1> QED
  BY <1>1, <1>2, <1>3, <1>4 DEF TypeOK, Idle

\* Sending a call records what was asked, and touches no other process's call.
LEMMA SendKeepsOps ==
    ASSUME TypeOK, NEW p \in Proc, NEW x, NEW o, Send(p, x, o)
    PROVE  /\ \A q \in Proc : q # p => call'[q] = call[q]
           /\ call'[p].op = o
  BY DEF Send, TypeOK, MakeCall

\* A booting server asks for users and subscriptions, and never copies a tribble.
LEMMA CopyCallsNext ==
    ASSUME CoreInv, CopyCalls, [Next]_vars
    PROVE  CopyCalls'
<1>1. TypeOK /\ CallsOK
  BY DEF CoreInv, TypeInv
<1>2. ASSUME NEW t \in Server, pc'[t] = pc[t], call'[t].op = call[t].op, Idle(t) => Idle(t)'
      PROVE  ~Idle(t)' =>
               /\ pc'[t] = "users" =>
                     call'[t].op.kind = "GetList" /\ call'[t].op.key = UserList
               /\ pc'[t] = "subs" =>
                     call'[t].op.kind = "GetList" /\ ~IsTribble(call'[t].op.key)
  BY <1>2 DEF CopyCalls
<1>3. ASSUME NEW s \in Server, Boot(s) \/ ServerStep(s) \/ Crash(s)
      PROVE  CopyCalls'
  <2>1. s \in Proc
    BY DEF Proc
  <2>2. CASE Boot(s) \/ FindDone(s) \/ CopyDone(s) \/ JoinDone(s)
    BY <1>1, <2>2 DEF Boot, FindDone, CopyDone, JoinDone, FinishBoot, CopyCalls, TypeOK, Idle
  <2>3. CASE FindCall(s) \/ UsersCall(s) \/ JoinCall(s) \/ BcastCall(s)
    <3> DEFINE users == MakeOp("GetList", UserList, Plain(""))
    <3>1. UNCHANGED pc /\ pc[s] # "subs" /\ \E x, o : Send(s, x, o) /\ (pc[s] = "users" => o = users)
      BY <2>3 DEF FindCall, UsersCall, JoinCall, BcastCall
    <3>2. users.kind = "GetList" /\ users.key = UserList
      BY DEF MakeOp
    <3> HIDE DEF users
    <3> QED
      BY <1>1, <2>1, <3>1, <3>2, SendKeepsOps DEF CopyCalls, Idle, Proc
  <2>4. CASE \E u \in todo[s] : CopyUser(s, u)
    <3>1. PICK u \in todo[s] : CopyUser(s, u)
      BY <2>4
    <3>2. UNCHANGED pc /\ Send(s, Peer(s, target[s]), MakeOp("GetList", SubKey(u), Plain("")))
      BY <3>1 DEF CopyUser
    <3>3. LET o == MakeOp("GetList", SubKey(u), Plain(""))
          IN  ~IsTribble(o.key) /\ o.kind = "GetList" /\ pc[s] = "subs"
      BY <3>1 DEF IsTribble, MakeOp, SubKey, CopyUser
    <3>4. /\ \A q \in Proc : q # s => call'[q] = call[q]
          /\ call'[s].op = MakeOp("GetList", SubKey(u), Plain(""))
      BY <1>1, <2>1, <3>2, SendKeepsOps
    <3> QED
      BY <3>2, <3>3, <3>4 DEF CopyCalls, Idle, Proc
  <2>5. CASE \/ FindAnswer(s) \/ FindRefused(s) \/ UsersAnswer(s) \/ CopySubs(s)
             \/ JoinAnswer(s) \/ BcastAnswer(s) \/ BcastErased(s)
    <3>1. Forget(s) /\ \A t \in Server : t # s => pc'[t] = pc[t]
      BY <1>1, <2>5 DEF FindAnswer, FindRefused, UsersAnswer, CopySubs, JoinAnswer, BcastAnswer,
         BcastErased, TypeOK
    <3>2. call'[s].st = "idle" /\ \A q \in Proc : q # s => call'[q] = call[q]
      BY <1>1, <2>1, <3>1, ForgetType
    <3> QED
      BY <3>1, <3>2 DEF CopyCalls, Idle, Proc
  <2>6. CASE GiveUp(s) \/ ReceiveFault(s) \/ BcastFault(s) \/ Crash(s)
    <3>1. Halt(s)
      BY <2>6 DEF GiveUp, ReceiveFault, BcastFault, Crash
    <3> QED
      BY <1>1, <1>2, <3>1, HaltKeepsOps DEF CopyCalls
  <2>7. CASE BcastRejected(s) \/ BcastDone(s)
    <3>1. pc[s] = "bcast" /\ \E status : BcastStop(s, status)
      BY <2>7 DEF BcastRejected, BcastDone
    <3>2. job[s].from \notin Server
      BY <3>1, ClusterAssumption DEF CoreInv, TypeInv, LoopsOK
    <3>3. pc' = [pc EXCEPT ![s] = "serve"] /\ \A t \in Server : t # s => call'[t] = call[t]
      BY <3>1, <3>2 DEF BcastStop, Proc
    <3> QED
      BY <1>1, <3>3 DEF CopyCalls, TypeOK, Idle
  <2>8. CASE Handler(s)
    BY <1>2, <2>8, HandlerKeepsOps DEF CopyCalls
  <2>9. CASE ReceiveThrows(s)
    BY <1>2, <2>9, ThrowKeepsOps DEF CopyCalls
  <2> QED
    BY <1>3, <2>2, <2>3, <2>4, <2>5, <2>6, <2>7, <2>8, <2>9
       DEF ServerStep, BootStep, HandlerFails, BcastStep
<1>4. ASSUME NEW c \in Client, ClientStep(c)
      PROVE  CopyCalls'
  <2>1. c \in Proc /\ \A t \in Server : t \in Proc /\ t # c
    BY ClusterAssumption DEF Proc
  <2>2. UNCHANGED pc /\ \A t \in Server : call'[t] = call[t]
    BY <1>1, <1>4, <2>1, ForgetType, SendKeepsOps
       DEF ClientStep, ClientCall, ClientReturn, ClientCrash, ClientEnds
  <2> QED
    BY <2>2 DEF CopyCalls, Idle
<1>5. CASE UNCHANGED vars
  BY <1>5 DEF vars, CopyCalls, Idle
<1> QED
  BY <1>3, <1>4, <1>5 DEF Next, Settled

-----------------------------------------------------------------------------
(* Every stored stamp stays known. *)

\* One server's list and clock change, the others' do not.
LEMMA KnownStep ==
    ASSUME TypeOK, TypeOK', StampsInv, NEW s \in Server, NEW m, NEW v,
           lists' = [lists EXCEPT ![s] = m], vt' = [vt EXCEPT ![s] = v], Leq(vt[s], v),
           \A k \in Key : IsTribble(k) =>
               \A item \in ItemsAt(m, k) :
                   \/ item \in ItemsAt(lists[s], k)
                   \/ IsReadable(item) => Leq(item.vt, v)
    PROVE  \A t \in Server : \A k \in Key : KnownAt(t, k)'
<1>1. /\ lists'[s] = m /\ vt'[s] = v
      /\ \A t \in Server : t # s => lists'[t] = lists[t] /\ vt'[t] = vt[t]
  BY DEF TypeOK, AreMaps
<1>2. ASSUME NEW k \in Key
      PROVE  KnownAt(s, k)'
  BY <1>1, KnownGrows DEF StampsInv
<1>3. ASSUME NEW t \in Server, t # s, NEW k \in Key
      PROVE  KnownAt(t, k)'
  BY <1>1, <1>3 DEF StampsInv, KnownAt
<1> QED
  BY <1>2, <1>3

\* Every handler stores only stamps that the clock then covers.
LEMMA HandlerKnown ==
    ASSUME CoreInv, CoreInv', StampsInv, NEW s \in Server, Handler(s)
    PROVE  \A t \in Server : \A k \in Key : KnownAt(t, k)'
<1> DEFINE h == Head(inbox[s])
<1>1. /\ TypeOK /\ TypeOK' /\ vt[s] \in Stamp
      /\ lists = [lists EXCEPT ![s] = lists[s]] /\ vt = [vt EXCEPT ![s] = vt[s]]
  BY DEF CoreInv, TypeInv, TypeOK, AreMaps
<1>2. Leq(vt[s], vt[s]) /\ Inc(vt[s], s) \in Stamp /\ Leq(vt[s], Inc(vt[s], s))
  BY <1>1, LeqReflexive, IncType
<1>3. CASE Read(s)
  BY <1>3, KnownFrame DEF Read
<1>4. CASE Put(s)
  <2>1. vt' = [vt EXCEPT ![s] = Inc(vt[s], s)] /\ lists' = lists
    BY <1>4 DEF Put
  <2> QED
    BY <1>1, <1>2, <2>1, KnownStep
<1>5. CASE AddToList(s)
  <2> DEFINE m == StoreAddToList(lists[s], h.key, h.item).map
  <2>1. lists' = [lists EXCEPT ![s] = m] /\ vt' = vt /\ ~IsTribble(h.key)
    BY <1>5 DEF AddToList, WriteList
  <2>2. \A k \in Key : IsTribble(k) => ItemsAt(m, k) \subseteq ItemsAt(lists[s], k)
    BY <2>1, AddedItems
  <2> QED
    BY <1>1, <1>2, <2>1, <2>2, KnownStep
<1>6. CASE RemoveFromList(s)
  <2> DEFINE m == StoreRemoveFromList(lists[s], h.key, h.item).map
  <2>1. lists' = [lists EXCEPT ![s] = m] /\ vt' = vt
    BY <1>6 DEF RemoveFromList, WriteList
  <2>2. \A k \in Key : ItemsAt(m, k) \subseteq ItemsAt(lists[s], k)
    BY RemovedItems
  <2> QED
    BY <1>1, <1>2, <2>1, <2>2, KnownStep
<1>7. CASE PostTribble(s)
  <2> DEFINE stamp  == Inc(vt[s], s)
             stored == ToJSON(h.item.value, stamp)
             result == StoreAddToList(lists[s], h.key, stored)
             v      == IF result.status = "OK" THEN Inc(stamp, s) ELSE stamp
  <2>1. lists' = [lists EXCEPT ![s] = result.map] /\ vt' = [vt EXCEPT ![s] = v]
    BY <1>7 DEF PostTribble, WriteList
  <2>2. Inc(stamp, s) \in Stamp /\ Leq(stamp, Inc(stamp, s))
    BY <1>2, IncType
  <2>3. v \in Stamp /\ Leq(vt[s], v) /\ Leq(stamp, v)
    <3>1. vt[s] \in AnyStamp /\ Leq(stamp, stamp)
      BY <1>1, <1>2, LeqReflexive DEF AnyStamp
    <3>2. Leq(vt[s], Inc(stamp, s))
      BY <1>2, <2>2, <3>1, LeqTransitive
    <3> QED
      BY <1>2, <2>2, <3>1, <3>2
  <2>4. Leq(stored.vt, v)
    BY <2>3 DEF ToJSON
  <2>5. \A k \in Key : ItemsAt(result.map, k) \subseteq ItemsAt(lists[s], k) \cup {stored}
    BY AddedItems
  <2> HIDE DEF v, result, stored
  <2>6. \A k \in Key : IsTribble(k) =>
           \A item \in ItemsAt(result.map, k) :
               item \in ItemsAt(lists[s], k) \/ (IsReadable(item) => Leq(item.vt, v))
    BY <2>4, <2>5
  <2> DEFINE m == result.map
  <2>7. lists' = [lists EXCEPT ![s] = m]
    BY <2>1
  <2> HIDE DEF m
  <2> QED
    BY <1>1, <2>1, <2>3, <2>6, <2>7, KnownStep DEF m
<1>8. CASE ReceiveTribble(s)
  <2> DEFINE result == StoreAddToList(lists[s], h.key, h.item)
             v      == Update(Inc(vt[s], s), ToMessage(h.item).vt)
  <2>1. lists' = [lists EXCEPT ![s] = result.map] /\ vt' = [vt EXCEPT ![s] = v]
    BY <1>8 DEF ReceiveTribble, WriteList
  <2>2. ToMessage(h.item).vt \in Seq(Int)
    <3>1. pc[s] = "serve" /\ inbox[s] # <<>>
      BY <1>8 DEF ReceiveTribble, HasTribble, HasRequest
    <3>2. h.item \in Item
      BY <3>1, ServedCaller DEF Request
    <3> QED
      BY <3>2, ToMessageType
  <2>3. /\ v \in Stamp /\ Leq(Inc(vt[s], s), v)
        /\ IsReadable(h.item) => Leq(h.item.vt, v)
    BY <1>2, <2>2, UpdateType, UpdateBounds DEF ToMessage
  <2>4. Leq(vt[s], v)
    BY <1>1, <1>2, <2>3, LeqTransitive DEF AnyStamp
  <2>5. \A k \in Key : ItemsAt(result.map, k) \subseteq ItemsAt(lists[s], k) \cup {h.item}
    BY AddedItems
  <2> HIDE DEF v, result
  <2>6. \A k \in Key : IsTribble(k) =>
           \A item \in ItemsAt(result.map, k) :
               item \in ItemsAt(lists[s], k) \/ (IsReadable(item) => Leq(item.vt, v))
    BY <2>3, <2>5
  <2> DEFINE m == result.map
  <2>7. lists' = [lists EXCEPT ![s] = m]
    BY <2>1
  <2> HIDE DEF m
  <2> QED
    BY <1>1, <2>1, <2>3, <2>4, <2>6, <2>7, KnownStep DEF m
<1> QED
  BY <1>3, <1>4, <1>5, <1>6, <1>7, <1>8 DEF Handler

\* No step of the constructor stores a tribble.
LEMMA BootKnown ==
    ASSUME CoreInv, CoreInv', StampsInv, NEW s \in Server, Boot(s) \/ BootStep(s)
    PROVE  \A t \in Server : \A k \in Key : KnownAt(t, k)'
<1>1. /\ TypeOK /\ TypeOK' /\ vt[s] \in Stamp
      /\ vt = [vt EXCEPT ![s] = vt[s]] /\ Leq(vt[s], vt[s])
  BY LeqReflexive DEF CoreInv, TypeInv, TypeOK
<1>2. CASE \/ Boot(s) \/ FindCall(s) \/ FindAnswer(s) \/ FindRefused(s) \/ FindDone(s)
           \/ UsersCall(s) \/ UsersAnswer(s) \/ CopyDone(s)
           \/ JoinCall(s) \/ JoinAnswer(s) \/ JoinDone(s)
  <2>1. UNCHANGED <<lists, vt>>
    BY <1>2 DEF Boot, FindCall, FindAnswer, FindRefused, FindDone, FinishBoot, UsersCall,
       UsersAnswer, CopyDone, JoinCall, JoinAnswer, JoinDone
  <2> QED
    BY <2>1, KnownFrame
<1>3. CASE \E u \in todo[s] : CopyUser(s, u)
  <2>1. PICK u \in todo[s] : CopyUser(s, u)
    BY <1>3
  <2> DEFINE m == StoreAddToList(lists[s], UserList, Plain(u)).map
  <2>2. lists' = [lists EXCEPT ![s] = m] /\ vt' = vt
    BY <2>1 DEF CopyUser, UserCopied
  <2>3. ~IsTribble(UserList)
    BY DEF IsTribble, UserList
  <2>4. \A k \in Key : IsTribble(k) => ItemsAt(m, k) \subseteq ItemsAt(lists[s], k)
    BY <2>3, AddedItems
  <2> HIDE DEF m
  <2> QED
    BY <1>1, <2>2, <2>4, KnownStep
<1>4. CASE CopySubs(s)
  <2> DEFINE c == call[s]
             m == IF c.values = {} THEN lists[s]
                  ELSE Bind(lists[s], c.op.key, ItemsAt(lists[s], c.op.key) \cup c.values)
  <2>1. lists' = [lists EXCEPT ![s] = m] /\ vt' = vt
    BY <1>4 DEF CopySubs
  <2>2. ~IsTribble(c.op.key)
    BY <1>4 DEF CopySubs, Answered, Idle, StampsInv, CopyCalls
  <2>3. \A k \in Key : IsTribble(k) => ItemsAt(m, k) = ItemsAt(lists[s], k)
    BY <2>2, BindItems
  <2> HIDE DEF m
  <2> QED
    BY <1>1, <2>1, <2>3, KnownStep
<1>5. CASE GiveUp(s)
  BY <1>1, <1>5, HaltKnown DEF GiveUp
<1> QED
  BY <1>2, <1>3, <1>4, <1>5 DEF BootStep

\* Every step preserves the strengthening.
LEMMA StampsNext ==
    ASSUME CoreInv, CoreInv', StampsInv, [Next]_vars
    PROVE  StampsInv'
<1>1. CopyCalls'
  BY CopyCallsNext DEF StampsInv
<1>2. TypeOK
  BY DEF CoreInv, TypeInv
<1>3. ASSUME NEW s \in Server, Boot(s) \/ ServerStep(s) \/ Crash(s)
      PROVE  \A t \in Server : \A k \in Key : KnownAt(t, k)'
  <2>1. CASE Boot(s) \/ BootStep(s)
    BY <2>1, BootKnown
  <2>2. CASE Handler(s)
    BY <2>2, HandlerKnown
  <2>3. CASE BcastCall(s) \/ BcastAnswer(s) \/ BcastRejected(s) \/ BcastErased(s) \/ BcastDone(s)
    <3>1. UNCHANGED <<lists, vt>>
      BY <2>3 DEF BcastCall, BcastAnswer, BcastRejected, BcastErased, BcastDone, BcastStop
    <3> QED
      BY <3>1, KnownFrame
  <2>4. CASE ReceiveFault(s) \/ BcastFault(s) \/ Crash(s)
    BY <1>2, <2>4, HaltKnown DEF ReceiveFault, BcastFault, Crash
  <2>5. CASE ReceiveThrows(s)
    <3>1. vt[s] \in Stamp /\ lists = [lists EXCEPT ![s] = lists[s]]
      BY <1>2 DEF TypeOK, AreMaps
    <3>2. vt' = [vt EXCEPT ![s] = Inc(vt[s], s)] /\ lists' = lists
      BY <2>5 DEF ReceiveThrows
    <3>3. Leq(vt[s], Inc(vt[s], s))
      BY <3>1, IncType
    <3> QED
      BY <1>2, <3>1, <3>2, <3>3, KnownStep DEF CoreInv, TypeInv
  <2> QED
    BY <1>3, <2>1, <2>2, <2>3, <2>4, <2>5 DEF ServerStep, HandlerFails, BcastStep
<1>4. ASSUME NEW c \in Client, ClientStep(c)
      PROVE  \A t \in Server : \A k \in Key : KnownAt(t, k)'
  <2>1. UNCHANGED <<lists, vt>>
    BY <1>4 DEF ClientStep, ClientCall, ClientReturn, ClientCrash, ClientEnds
  <2> QED
    BY <2>1, KnownFrame
<1>5. CASE UNCHANGED vars
  <2>1. UNCHANGED <<lists, vt>>
    BY <1>5 DEF vars
  <2> QED
    BY <1>1, <2>1, KnownFrame DEF StampsInv
<1>6. CASE \E s \in Server : Boot(s) \/ ServerStep(s) \/ Crash(s)
  <2>1. PICK s \in Server : Boot(s) \/ ServerStep(s) \/ Crash(s)
    BY <1>6
  <2>2. \A t \in Server : \A k \in Key : KnownAt(t, k)'
    BY <1>3, <2>1
  <2> QED
    BY <1>1, <2>2 DEF StampsInv
<1>7. CASE \E c \in Client : ClientStep(c)
  <2>1. \A t \in Server : \A k \in Key : KnownAt(t, k)'
    BY <1>4, <1>7
  <2> QED
    BY <1>1, <2>1 DEF StampsInv
<1> QED
  BY <1>5, <1>6, <1>7 DEF Next, Settled

\* No tribble is stored at first.
LEMMA InitStamps == Init => StampsInv
<1> SUFFICES ASSUME Init PROVE StampsInv
  OBVIOUS
<1>1. \A k : ItemsAt(NoMap, k) = {}
  BY DEF ItemsAt, NoMap
<1> QED
  BY <1>1 DEF Init, StampsInv, KnownAt, CopyCalls

\* The inductive invariant behind the next two theorems holds in every state.
THEOREM StampsCorrect == Spec => [](CoreInv /\ StampsInv)
<1>1. Init => CoreInv /\ StampsInv
  BY InitCore, InitStamps
<1>2. CoreInv /\ StampsInv /\ [Next]_vars => (CoreInv /\ StampsInv)'
  BY NextCore, StampsNext
<1> QED
  BY <1>1, <1>2, PTL DEF Spec

\* No readable tribble is stored with a stamp later than its server's own clock, whatever
\* crashes, and whatever the contents of others make their readers merge.
THEOREM StampsAreKnown == Spec => []StampsKnown
<1>1. CoreInv /\ StampsInv => StampsKnown
  BY StampsInvKnows DEF CoreInv, TypeInv
<1> QED
  BY <1>1, StampsCorrect, PTL

-----------------------------------------------------------------------------
(* A tribble just posted is the newest. *)

\* The one tribble that PostTribble adds.
LEMMA PostedTribble ==
    ASSUME TypeOK, TypeOK', NEW s \in Server, inbox[s] # <<>>, PostTribble(s),
           NEW new \in Tribbles(s)', new \notin Tribbles(s)
    PROVE  new.msg = ToJSON(Head(inbox[s]).item.value, Inc(vt[s], s))
<1> DEFINE h      == Head(inbox[s])
           stored == ToJSON(h.item.value, Inc(vt[s], s))
           m      == StoreAddToList(lists[s], h.key, stored).map
<1>1. lists'[s] = m
  BY DEF PostTribble, WriteList, TypeOK, AreMaps
<1>2. PICK k \in DOMAIN m : IsTribble(k)
                          /\ \E item \in m[k] : IsReadable(item) /\ new = [key |-> k, msg |-> item]
  BY <1>1 DEF Tribbles
<1>3. PICK item \in m[k] : IsReadable(item) /\ new = [key |-> k, msg |-> item]
  BY <1>2
<1>4. item \in ItemsAt(m, k) /\ ItemsAt(m, k) \subseteq ItemsAt(lists[s], k) \cup {stored}
  BY <1>2, <1>3, AddedItems DEF ItemsAt
<1>5. item \notin ItemsAt(lists[s], k)
  BY <1>2, <1>3 DEF Tribbles, ItemsAt
<1> QED
  BY <1>3, <1>4, <1>5

\* A Tribbler server's post sorts after every tribble stored where it is made.
LEMMA PostsNewest ==
    ASSUME CoreInv, CoreInv', StampsInv, NEW s \in Server, inbox[s] # <<>>, PostTribble(s),
           NEW new \in Tribbles(s)' \ Tribbles(s), NEW old \in Tribbles(s)
    PROVE  PostedLess(old.msg.vt, new.msg.vt)
<1>1. TypeOK /\ TypeOK' /\ vt[s] \in Stamp /\ StampsKnown
  BY StampsInvKnows DEF CoreInv, TypeInv, TypeOK
<1> DEFINE stamp == Inc(vt[s], s)
<1>2. stamp \in Stamp /\ stamp[s] = vt[s][s] + 1 /\ Leq(vt[s], stamp)
  BY <1>1, IncType
<1>3. new.msg.vt = stamp
  <2>1. new.msg = ToJSON(Head(inbox[s]).item.value, stamp)
    BY <1>1, PostedTribble
  <2> QED
    BY <2>1 DEF ToJSON
<1>4. old.msg.vt \in AnyStamp /\ Leq(old.msg.vt, vt[s])
  <2>1. Leq(old.msg.vt, vt[s])
    BY <1>1 DEF StampsKnown
  <2>2. PICK k \in DOMAIN lists[s] : \E item \in lists[s][k] : old = [key |-> k, msg |-> item]
    BY DEF Tribbles
  <2>3. old.msg \in Item
    BY <1>1, <2>2 DEF TypeOK, AreMaps, IsMap
  <2> QED
    BY <2>1, <2>3 DEF Item
<1>5. Leq(old.msg.vt, stamp)
  BY <1>1, <1>2, <1>4, LeqTransitive
<1>6. old.msg.vt \in Stamp => old.msg.vt[s] < stamp[s]
  <2>1. ASSUME old.msg.vt \in Stamp
        PROVE  old.msg.vt[s] <= vt[s][s] /\ old.msg.vt[s] \in Nat /\ vt[s][s] \in Nat
    BY <1>1, <1>4, <2>1 DEF Leq, Stamp
  <2> QED
    BY <1>2, <2>1
<1> QED
  BY <1>2, <1>3, <1>4, <1>5, <1>6, CausesSortFirst

\* The step of NewPostIsNewest.
PostsComeLast ==
    \A s \in Server :
        (inbox[s] # <<>> /\ Head(inbox[s]).from \in Client /\ PostTribble(s)) =>
           \A new \in Tribbles(s)' \ Tribbles(s) : \A old \in Tribbles(s) :
              PostedLess(old.msg.vt, new.msg.vt)

\* A readable tribble that a server takes from a Tribbler server is sorted after every
\* readable tribble the server stores already, whatever stamps others are read with.
THEOREM NewPostsAreNewest == Spec => NewPostIsNewest
<1>1. CoreInv /\ StampsInv /\ (CoreInv /\ StampsInv)' => PostsComeLast
  BY PostsNewest DEF PostsComeLast
<1> QED
  BY <1>1, StampsCorrect, PTL DEF NewPostIsNewest, PostsComeLast

-----------------------------------------------------------------------------
(* Nobody leads a server's own clock.                                        *)

\* A call or a broadcast of a tribble.
IsPost(req) == req.kind = "AddToList" /\ IsTribble(req.key)

\* A tribble that a server has been sent by another one, or is sending.
OnItsWay(k, item) ==
    \E t \in Server :
        \/ \E n \in DOMAIN inbox[t] :
              /\ inbox[t][n].from \in Server /\ IsPost(inbox[t][n])
              /\ inbox[t][n].key = k /\ inbox[t][n].item = item
        \/ pc[t] = "bcast" /\ IsPost(job[t]) /\ job[t].key = k /\ job[t].item = item

\* The item is stamped, and server s has counted as far as the stamp says of it.
Counted(item, s) == item.vt # NoStamp /\ item.vt[s] <= vt[s][s]

\* No clock and no stamp that may yet reach one is ahead of s in its own component.
Leads(s) ==
    /\ \A t \in Server : vt[t][s] <= vt[s][s]
    /\ \A k \in Key, item \in Item : OnItsWay(k, item) => Counted(item, s)

\* A server whose clock has never been lost: it serves, or has not done so yet.
Trusted(s) == Listening(s) \/ starts[s] = 0

\* Servers that serve have begun to, and the clock of one that does not is at zero.
StartsInv == \A s \in Server : IF Listening(s) THEN starts[s] # 0 ELSE vt[s] = Zero

LeadInv ==
    /\ StartsInv
    /\ NobodyIsBack => \A s \in Server : Trusted(s) => Leads(s)

\* What the strengthening says of the clocks.
LEMMA LeadInvLeads == LeadInv => OwnClockLeads
  BY DEF LeadInv, OwnClockLeads, Trusted, Leads

\* Unless its contents are read with a stamp of their own making, what is read of a
\* tribble that was stamped has its stamp or none.
LEMMA ReadStamp ==
    ASSUME NoForgery, NEW item \in Item, item.vt # NoStamp, ReadEnds(item) = "returns"
    PROVE  ToMessage(item).vt \in {NoStamp, item.vt}
<1>1. CASE IsReadable(item)
  BY <1>1 DEF ToMessage
<1>2. CASE ~IsReadable(item)
  <2>1. item.value \in Unescaped /\ ReadingOf(item) = Misread[item.value]
    BY <1>2 DEF IsReadable, ReadingOf
  <2>2. ReadingOf(item).ends = "returns"
    BY <1>2 DEF ReadEnds
  <2> QED
    BY <1>2, <2>1, <2>2 DEF NoForgery, ToMessage
<1> QED
  BY <1>1, <1>2

\* A stamp is not missing.
LEMMA StampsExist == \A v \in Stamp : v # NoStamp
<1>1. 1 \in Server
  BY NAssumption DEF Server
<1> QED
  BY <1>1 DEF Stamp, NoStamp

\* Only the process that takes a step comes to serve, ceases to, or counts.
LEMMA StartsMove ==
    ASSUME TypeOK, NEW s \in Server, Boot(s) \/ ServerStep(s) \/ Crash(s)
    PROVE  /\ \A t \in Server : t # s => /\ starts'[t] = starts[t] /\ vt'[t] = vt[t]
                                         /\ Listening(t)' <=> Listening(t)
           /\ \/ starts'[s] = starts[s] /\ (Listening(s)' => Listening(s))
              \/ starts'[s] = starts[s] + 1 /\ ~Listening(s) /\ Listening(s)'
           /\ ~Listening(s)' => \/ vt'[s] = Zero
                                \/ ~Listening(s) /\ vt'[s] = vt[s]
<1>1. CASE /\ pc'[s] = pc[s] \/ (Listening(s) <=> Listening(s)')
           /\ \A t \in Server : t # s => pc'[t] = pc[t] /\ vt'[t] = vt[t]
           /\ starts' = starts
           /\ ~Listening(s) => vt'[s] = vt[s]
  BY <1>1 DEF Listening
<1>2. CASE \/ FindCall(s) \/ FindAnswer(s) \/ FindRefused(s) \/ UsersCall(s) \/ CopySubs(s)
           \/ JoinCall(s) \/ JoinAnswer(s) \/ Read(s)
           \/ BcastCall(s) \/ BcastAnswer(s) \/ BcastErased(s)
           \/ \E u \in todo[s] : CopyUser(s, u)
  <2>1. UNCHANGED <<pc, vt, starts>>
    BY <1>2 DEF FindCall, FindAnswer, FindRefused, UsersCall, CopySubs, JoinCall, JoinAnswer,
       Read, Finish, BcastCall, BcastAnswer, BcastErased, CopyUser
  <2> QED
    BY <1>1, <2>1
<1>3. CASE Boot(s) \/ UsersAnswer(s) \/ CopyDone(s)
  <2>1. /\ UNCHANGED <<vt, starts>> /\ ~Listening(s) /\ ~Listening(s)'
        /\ \A t \in Server : t # s => pc'[t] = pc[t]
    BY <1>3 DEF Boot, UsersAnswer, CopyDone, TypeOK, Listening
  <2> QED
    BY <1>1, <2>1
<1>4. CASE FindDone(s) /\ target[s] # -1
  <2>1. /\ UNCHANGED <<vt, starts>> /\ ~Listening(s) /\ ~Listening(s)'
        /\ \A t \in Server : t # s => pc'[t] = pc[t]
    BY <1>4 DEF FindDone, TypeOK, Listening
  <2> QED
    BY <1>1, <2>1
<1>5. CASE (FindDone(s) /\ target[s] = -1) \/ JoinDone(s)
  <2>1. /\ UNCHANGED vt /\ ~Listening(s) /\ FinishBoot(s)
    BY <1>5 DEF FindDone, JoinDone, Listening
  <2>2. /\ starts'[s] = starts[s] + 1 /\ Listening(s)'
        /\ \A t \in Server : t # s => pc'[t] = pc[t] /\ starts'[t] = starts[t]
    BY <2>1 DEF FinishBoot, TypeOK, Listening
  <2> QED
    BY <2>1, <2>2 DEF Listening
<1>6. CASE Handler(s) \/ ReceiveThrows(s) \/ BcastRejected(s) \/ BcastDone(s)
  <2>1. pc[s] \in {"serve", "bcast"} /\ starts' = starts
    BY <1>6 DEF Handler, Read, Put, AddToList, PostTribble, ReceiveTribble, RemoveFromList,
       HasTribble, HasRequest, WriteList, ReceiveThrows, BcastRejected, BcastDone, BcastStop
  <2>2. \/ pc' = pc
        \/ pc' = [pc EXCEPT ![s] = "bcast"]
        \/ pc' = [pc EXCEPT ![s] = "serve"]
    BY <1>6 DEF Handler, Read, Put, AddToList, PostTribble, ReceiveTribble, RemoveFromList,
       WriteList, Conclude, Finish, Broadcast, ReceiveThrows, BcastRejected, BcastDone,
       BcastStop
  <2>3. vt' = vt \/ \E v : vt' = [vt EXCEPT ![s] = v]
    BY <1>6 DEF Handler, Read, Put, AddToList, PostTribble, ReceiveTribble, RemoveFromList,
       ReceiveThrows, BcastRejected, BcastDone, BcastStop
  <2>4. \A t \in Server : t # s => vt'[t] = vt[t]
    BY <2>3 DEF TypeOK
  <2> QED
    BY <1>1, <2>1, <2>2, <2>4 DEF TypeOK, Listening
<1>7. CASE GiveUp(s) \/ ReceiveFault(s) \/ BcastFault(s) \/ Crash(s)
  <2>1. /\ starts' = starts /\ pc' = [pc EXCEPT ![s] = "down"]
        /\ vt' = [vt EXCEPT ![s] = Zero]
    BY <1>7 DEF GiveUp, ReceiveFault, BcastFault, Crash, Halt
  <2>2. /\ ~Listening(s)' /\ vt'[s] = Zero
        /\ \A t \in Server : t # s => (Listening(t)' <=> Listening(t)) /\ vt'[t] = vt[t]
    BY <2>1 DEF TypeOK, Listening
  <2> QED
    BY <2>1, <2>2
<1> QED
  BY <1>2, <1>3, <1>4, <1>5, <1>6, <1>7
     DEF ServerStep, BootStep, HandlerFails, BcastStep

\* As long as nobody is back, nobody was; and whoever can be trusted could be before.
LEMMA TrustLasts ==
    ASSUME TypeOK, NobodyIsBack',
           \/ \E s \in Server : Boot(s) \/ ServerStep(s) \/ Crash(s)
           \/ UNCHANGED <<pc, starts>>
    PROVE  NobodyIsBack /\ \A u \in Server : Trusted(u)' => Trusted(u)
<1>1. \A u \in Server : starts[u] \in Nat
  BY DEF TypeOK
<1>2. CASE UNCHANGED <<pc, starts>>
  BY <1>2 DEF NobodyIsBack, Trusted, Listening
<1>3. ASSUME NEW s \in Server, Boot(s) \/ ServerStep(s) \/ Crash(s), NEW u \in Server
      PROVE  starts[u] <= 1 /\ (Trusted(u)' => Trusted(u))
  <2>1. starts'[u] <= 1
    BY DEF NobodyIsBack
  <2>2. CASE u # s
    BY <1>3, <2>1, <2>2, StartsMove DEF Trusted
  <2>3. CASE u = s
    BY <1>1, <1>3, <2>1, <2>3, StartsMove DEF Trusted
  <2> QED
    BY <2>2, <2>3
<1> QED
  BY <1>2, <1>3 DEF NobodyIsBack

\* Who does not serve has nothing to lose.
LEMMA StartsNext ==
    ASSUME TypeOK, StartsInv, NEW s \in Server, Boot(s) \/ ServerStep(s) \/ Crash(s)
    PROVE  StartsInv'
<1>1. ASSUME NEW t \in Server, t # s
      PROVE  IF Listening(t)' THEN starts'[t] # 0 ELSE vt'[t] = Zero
  BY <1>1, StartsMove DEF StartsInv
<1>2. IF Listening(s)' THEN starts'[s] # 0 ELSE vt'[s] = Zero
  <2>1. starts[s] \in Nat
    BY DEF TypeOK
  <2> QED
    BY <2>1, StartsMove DEF StartsInv
<1> QED
  BY <1>1, <1>2 DEF StartsInv, Zero

\* Sending a call puts no tribble on its way that was not on it.
LEMMA SentItems ==
    ASSUME TypeOK, NEW p \in Proc, NEW x \in Server, NEW o, Send(p, x, o),
           UNCHANGED <<pc, job>>, p \in Server /\ IsPost(o) => OnItsWay(o.key, o.item),
           NEW k, NEW item, OnItsWay(k, item)'
    PROVE  OnItsWay(k, item)
<1> DEFINE r == [from |-> p, live |-> TRUE, kind |-> o.kind, key |-> o.key, item |-> o.item]
<1>1. CASE UNCHANGED inbox
  BY <1>1 DEF OnItsWay, IsPost
<1>2. CASE inbox' = [inbox EXCEPT ![x] = Append(@, r)]
  <2>1. PICK t \in Server :
          \/ \E n \in DOMAIN inbox'[t] :
                /\ inbox'[t][n].from \in Server /\ IsPost(inbox'[t][n])
                /\ inbox'[t][n].key = k /\ inbox'[t][n].item = item
          \/ pc[t] = "bcast" /\ IsPost(job[t]) /\ job[t].key = k /\ job[t].item = item
    BY DEF OnItsWay, IsPost
  <2>2. CASE pc[t] = "bcast" /\ IsPost(job[t]) /\ job[t].key = k /\ job[t].item = item
    BY <2>2 DEF OnItsWay
  <2>3. CASE \E n \in DOMAIN inbox'[t] :
                /\ inbox'[t][n].from \in Server /\ IsPost(inbox'[t][n])
                /\ inbox'[t][n].key = k /\ inbox'[t][n].item = item
    <3>1. PICK n \in DOMAIN inbox'[t] :
                /\ inbox'[t][n].from \in Server /\ IsPost(inbox'[t][n])
                /\ inbox'[t][n].key = k /\ inbox'[t][n].item = item
      BY <2>3
    <3>2. (n \in DOMAIN inbox[t] /\ inbox'[t][n] = inbox[t][n]) \/ inbox'[t][n] = r
      <4>1. inbox[t] \in Seq(Request) /\ inbox'[t] \in {inbox[t], Append(inbox[t], r)}
        BY <1>2 DEF TypeOK
      <4> QED
        BY <3>1, <4>1
    <3>3. CASE inbox'[t][n] = r
      BY <3>1, <3>3 DEF IsPost
    <3> QED
      BY <3>1, <3>2, <3>3 DEF OnItsWay
  <2> QED
    BY <2>1, <2>2, <2>3
<1> QED
  BY <1>1, <1>2 DEF Send

\* Queues that lose requests or their callers put nothing on its way.
LEMMA KeptItems ==
    ASSUME \A t \in Server :
              /\ \A n \in DOMAIN inbox'[t] :
                    \E m \in DOMAIN inbox[t] :
                        /\ inbox'[t][n].from = inbox[t][m].from
                        /\ inbox'[t][n].kind = inbox[t][m].kind
                        /\ inbox'[t][n].key = inbox[t][m].key
                        /\ inbox'[t][n].item = inbox[t][m].item
              /\ pc'[t] = "bcast" =>
                    /\ pc[t] = "bcast" /\ job'[t].kind = job[t].kind
                    /\ job'[t].key = job[t].key /\ job'[t].item = job[t].item,
           NEW k, NEW item, OnItsWay(k, item)'
    PROVE  OnItsWay(k, item)
  BY DEF OnItsWay, IsPost

\* Forgetting who made a request changes nothing else of it.
LEMMA OrphanedSame ==
    ASSUME TypeOK, NEW p \in Proc, NEW t \in Server
    PROVE  /\ Orphaned(job[t], p).kind = job[t].kind /\ Orphaned(job[t], p).key = job[t].key
           /\ Orphaned(job[t], p).item = job[t].item
           /\ DOMAIN OrphanedCalls(inbox[t], p) = DOMAIN inbox[t]
           /\ \A n \in DOMAIN inbox[t] :
                 /\ OrphanedCalls(inbox[t], p)[n].from = inbox[t][n].from
                 /\ OrphanedCalls(inbox[t], p)[n].kind = inbox[t][n].kind
                 /\ OrphanedCalls(inbox[t], p)[n].key = inbox[t][n].key
                 /\ OrphanedCalls(inbox[t], p)[n].item = inbox[t][n].item
<1>1. \A r \in Request : /\ Orphaned(r, p).from = r.from /\ Orphaned(r, p).kind = r.kind
                         /\ Orphaned(r, p).key = r.key /\ Orphaned(r, p).item = r.item
  BY DEF Orphaned, Request
<1>2. /\ inbox[t] \in Seq(Request) /\ job[t] \in Request
      /\ \A n \in DOMAIN inbox[t] : inbox[t][n] \in Request
  BY DEF TypeOK
<1> QED
  BY <1>1, <1>2 DEF OrphanedCalls

\* A server that ends takes tribbles with it and sends none.
LEMMA HaltItems ==
    ASSUME TypeOK, NEW s \in Server, Halt(s), NEW k, NEW item, OnItsWay(k, item)'
    PROVE  OnItsWay(k, item)
<1>1. ASSUME NEW t \in Server
      PROVE  /\ inbox'[t] = <<>> \/ inbox'[t] = OrphanedCalls(inbox[t], s)
             /\ pc'[t] = "bcast" => pc[t] = "bcast" /\ job'[t] = job[t]
  <2>1. inbox'[t] = IF t = s THEN <<>> ELSE OrphanedCalls(inbox[t], s)
    BY DEF Halt
  <2>2. pc'[t] = "bcast" => pc[t] = "bcast" /\ job'[t] = job[t]
    BY DEF Halt, TypeOK
  <2> QED
    BY <2>1, <2>2
<1>2. s \in Proc
  BY DEF Proc
<1> QED
  BY <1>1, <1>2, OrphanedSame, KeptItems

\* A Tribbler server that ends takes nothing with it.
LEMMA ClientEndsItems ==
    ASSUME TypeOK, NEW c \in Client, ClientEnds(c), NEW k, NEW item, OnItsWay(k, item)'
    PROVE  OnItsWay(k, item)
<1>1. ASSUME NEW t \in Server
      PROVE  /\ inbox'[t] = OrphanedCalls(inbox[t], c)
             /\ pc'[t] = pc[t] /\ job'[t] = Orphaned(job[t], c)
  BY DEF ClientEnds
<1>2. c \in Proc
  BY DEF Proc
<1> QED
  BY <1>1, <1>2, OrphanedSame, KeptItems

\* A request that is taken is no longer on its way.
LEMMA TakenItems ==
    ASSUME TypeOK, NEW s \in Server, inbox[s] # <<>>, Take(s), UNCHANGED <<pc, job>>,
           NEW k, NEW item, OnItsWay(k, item)'
    PROVE  OnItsWay(k, item)
<1>1. inbox[s] \in Seq(Request) /\ inbox' = [inbox EXCEPT ![s] = Tail(@)]
  BY DEF TypeOK, Take
<1>2. \A n \in DOMAIN Tail(inbox[s]) :
         n + 1 \in DOMAIN inbox[s] /\ Tail(inbox[s])[n] = inbox[s][n + 1]
  BY <1>1
<1>3. \A t \in Server : \A n \in DOMAIN inbox'[t] :
         \E m \in DOMAIN inbox[t] : inbox'[t][n] = inbox[t][m]
  BY <1>1, <1>2 DEF TypeOK
<1> QED
  BY <1>3, KeptItems

\* A handler takes a request out of its queue, and begins to send what it posts.
LEMMA HandledItems ==
    ASSUME TypeOK, NEW s \in Server, pc[s] = "serve", inbox[s] # <<>>, Take(s),
           NEW req, NEW status, Conclude(s, req, status),
           NEW k, NEW item, OnItsWay(k, item)'
    PROVE  \/ OnItsWay(k, item)
           \/ req.from \in Client /\ status = "OK" /\ IsPost(req) /\ k = req.key /\ item = req.item
<1>1. inbox[s] \in Seq(Request) /\ inbox' = [inbox EXCEPT ![s] = Tail(@)]
  BY DEF TypeOK, Take
<1>2. \A n \in DOMAIN Tail(inbox[s]) :
         n + 1 \in DOMAIN inbox[s] /\ Tail(inbox[s])[n] = inbox[s][n + 1]
  BY <1>1
<1>3. \A t \in Server : \A n \in DOMAIN inbox'[t] :
         \E m \in DOMAIN inbox[t] : inbox'[t][n] = inbox[t][m]
  BY <1>1, <1>2 DEF TypeOK
<1>4. CASE Finish(s, req, status, {})
  <2>1. UNCHANGED <<pc, job>>
    BY <1>4 DEF Finish
  <2> QED
    BY <1>3, <2>1, KeptItems
<1>5. CASE req.from \in Client /\ status = "OK" /\ Broadcast(s, req)
  <2>1. pc' = [pc EXCEPT ![s] = "bcast"] /\ job' = [job EXCEPT ![s] = req]
    BY <1>5 DEF Broadcast
  <2>2. CASE IsPost(req) /\ k = req.key /\ item = req.item
    BY <1>5, <2>2
  <2>3. CASE ~(IsPost(req) /\ k = req.key /\ item = req.item)
    <3>1. PICK t \in Server :
            \/ \E n \in DOMAIN inbox'[t] :
                  /\ inbox'[t][n].from \in Server /\ IsPost(inbox'[t][n])
                  /\ inbox'[t][n].key = k /\ inbox'[t][n].item = item
            \/ pc'[t] = "bcast" /\ IsPost(job'[t]) /\ job'[t].key = k /\ job'[t].item = item
      BY DEF OnItsWay, IsPost
    <3>2. pc'[t] = "bcast" /\ IsPost(job'[t]) /\ job'[t].key = k /\ job'[t].item = item => t # s
      BY <2>1, <2>3 DEF TypeOK
    <3> QED
      BY <1>3, <2>1, <3>1, <3>2 DEF OnItsWay, TypeOK
  <2> QED
    BY <2>2, <2>3
<1> QED
  BY <1>4, <1>5 DEF Conclude

-----------------------------------------------------------------------------

\* Steps after which no clock has moved but one, and that not past its owner's.
LEMMA ClockMoves ==
    ASSUME TypeOK, NEW s \in Server, NEW v \in Stamp, vt' = [vt EXCEPT ![s] = v],
           vt[s][s] <= v[s], NEW u \in Server, Leads(u), u # s => v[u] <= vt[u][u],
           \A k \in Key, item \in Item : OnItsWay(k, item)' =>
               \/ OnItsWay(k, item)
               \/ item.vt # NoStamp /\ item.vt[u] <= vt'[u][u]
    PROVE  Leads(u)'
<1>1. /\ vt'[s] = v /\ \A t \in Server : t # s => vt'[t] = vt[t]
      /\ \A t, w \in Server : vt[t][w] \in Nat
      /\ \A w \in Server : v[w] \in Nat
  BY DEF TypeOK, Stamp
<1>2. vt[u][u] <= vt'[u][u]
  BY <1>1
<1>3. ASSUME NEW t \in Server
      PROVE  vt'[t][u] <= vt'[u][u]
  <2>1. vt[t][u] <= vt[u][u]
    BY DEF Leads
  <2>2. CASE t = s
    BY <1>1, <1>2, <2>2
  <2>3. CASE t # s
    BY <1>1, <1>2, <2>1, <2>3
  <2> QED
    BY <2>2, <2>3
<1>4. ASSUME NEW k \in Key, NEW item \in Item, OnItsWay(k, item)'
      PROVE  Counted(item, u)'
  <2>1. CASE OnItsWay(k, item)
    <3>1. item.vt # NoStamp /\ item.vt[u] <= vt[u][u]
      BY <2>1 DEF Leads, Counted
    <3>2. item.vt[u] \in Nat
      BY <3>1 DEF Item, AnyStamp, Stamp
    <3> QED
      BY <1>1, <1>2, <3>1, <3>2 DEF Counted
  <2>2. CASE ~OnItsWay(k, item)
    BY <1>4, <2>2 DEF Counted
  <2> QED
    BY <2>1, <2>2
<1> QED
  BY <1>3, <1>4 DEF Leads

\* Steps that leave the clocks alone.
LEMMA ClocksStay ==
    ASSUME UNCHANGED vt, NEW u \in Server, Leads(u),
           \A k \in Key, item \in Item : OnItsWay(k, item)' => OnItsWay(k, item)
    PROVE  Leads(u)'
  BY DEF Leads, Counted

\* The end of another server.
LEMMA HaltLeads ==
    ASSUME TypeOK, NEW s \in Server, Halt(s), NEW u \in Server, u # s, Leads(u)
    PROVE  Leads(u)'
<1>1. vt' = [vt EXCEPT ![s] = Zero] /\ vt'[u] = vt[u] /\ vt[u][u] \in Nat
  BY DEF Halt, TypeOK, Stamp
<1>2. \A t \in Server : vt'[t][u] <= vt'[u][u]
  BY <1>1 DEF TypeOK, Zero, Leads
<1>3. \A k \in Key, item \in Item : OnItsWay(k, item)' => Counted(item, u)'
  BY <1>1, HaltItems DEF Leads, Counted
<1> QED
  BY <1>2, <1>3 DEF Leads

\* Every handler leaves the servers that serve ahead.
LEMMA HandlerLeads ==
    ASSUME NoForgery, CoreInv, NEW s \in Server, Handler(s), Leads(s),
           NEW u \in Server, Leads(u)
    PROVE  Leads(u)'
<1> DEFINE h == Head(inbox[s])
<1>1. /\ TypeOK /\ vt[s] \in Stamp /\ vt[u] \in Stamp
      /\ vt[s][u] <= vt[u][u] /\ vt = [vt EXCEPT ![s] = vt[s]]
  BY DEF CoreInv, TypeInv, TypeOK, Leads
<1>2. pc[s] = "serve" /\ inbox[s] # <<>> /\ Take(s) /\ h \in Request
  <2>1. pc[s] = "serve" /\ inbox[s] # <<>> /\ Take(s)
    BY DEF Handler, Read, Put, AddToList, PostTribble, ReceiveTribble, RemoveFromList,
       HasTribble, HasRequest
  <2> QED
    BY <2>1, ServedCaller
<1> DEFINE stamp == Inc(vt[s], s)
<1>3. /\ stamp \in Stamp /\ stamp[s] = vt[s][s] + 1
      /\ \A w \in Server : w # s => stamp[w] = vt[s][w]
      /\ Inc(stamp, s) \in Stamp /\ Inc(stamp, s)[s] = vt[s][s] + 2
      /\ \A w \in Server : w # s => Inc(stamp, s)[w] = vt[s][w]
  <2>1. ASSUME NEW v \in Stamp
        PROVE  /\ Inc(v, s) \in Stamp /\ Inc(v, s)[s] = v[s] + 1
               /\ \A w \in Server : w # s => Inc(v, s)[w] = v[w]
    BY DEF Inc, Stamp
  <2>2. vt[s][s] \in Nat
    BY <1>1 DEF Stamp
  <2> QED
    BY <1>1, <2>1, <2>2
<1>4. \A w \in Server : vt[s][w] \in Nat /\ vt[u][w] \in Nat
  BY <1>1 DEF Stamp
<1>5. ASSUME NEW req, NEW status, Conclude(s, req, status) \/ Finish(s, req, status, {}),
             ~IsPost(req) \/ req.from \notin Client, NEW k, NEW item, OnItsWay(k, item)'
      PROVE  OnItsWay(k, item)
  <2>1. CASE Conclude(s, req, status)
    BY <1>1, <1>2, <1>5, <2>1, HandledItems
  <2>2. CASE Finish(s, req, status, {})
    <3>1. UNCHANGED <<pc, job>>
      BY <2>2 DEF Finish
    <3> QED
      BY <1>1, <1>2, <1>5, <3>1, TakenItems
  <2> QED
    BY <1>5, <2>1, <2>2
<1>6. CASE Read(s)
  <2>1. UNCHANGED <<pc, job, vt>>
    BY <1>6 DEF Read, Finish
  <2> QED
    BY <1>1, <1>2, <2>1, TakenItems, ClocksStay
<1>7. CASE Put(s)
  <2>1. vt' = [vt EXCEPT ![s] = stamp]
    BY <1>7 DEF Put
  <2>2. \A k \in Key, item \in Item : OnItsWay(k, item)' => OnItsWay(k, item)
    <3>1. ~IsPost(h)
      BY <1>7 DEF Put, HasRequest, IsPost
    <3>2. \E status : Conclude(s, h, status) \/ Finish(s, h, status, {})
      BY <1>7 DEF Put
    <3> QED
      BY <1>5, <3>1, <3>2
  <2>3. stamp \in Stamp /\ vt[s][s] <= stamp[s] /\ (u # s => stamp[u] <= vt[u][u])
    BY <1>1, <1>3, <1>4
  <2>4. TypeOK /\ Leads(s) /\ Leads(u)
    BY <1>1
  <2> HIDE DEF stamp
  <2> QED
    BY <2>1, <2>2, <2>3, <2>4, ClockMoves
<1>8. CASE AddToList(s) \/ RemoveFromList(s)
  <2>1. UNCHANGED vt /\ ~IsPost(h)
    BY <1>8 DEF AddToList, RemoveFromList, HasRequest, IsPost
  <2>2. \E status : Conclude(s, h, status)
    BY <1>8 DEF AddToList, RemoveFromList, WriteList
  <2> QED
    BY <1>5, <2>1, <2>2, ClocksStay
<1>9. CASE PostTribble(s)
  <2> DEFINE result == StoreAddToList(lists[s], h.key, ToJSON(h.item.value, stamp))
             sent   == ToJSON(h.item.value, Inc(stamp, s))
             resent == [h EXCEPT !.item = sent]
             v      == IF result.status = "OK" THEN Inc(stamp, s) ELSE stamp
  <2>1. vt' = [vt EXCEPT ![s] = v] /\ Conclude(s, resent, result.status)
    BY <1>9 DEF PostTribble, WriteList
  <2>2. v \in Stamp /\ vt[s][s] <= v[s] /\ (u # s => v[u] <= vt[u][u])
    BY <1>1, <1>3, <1>4
  <2>3. resent.item = sent
    BY <1>2 DEF Request
  <2>4. ASSUME NEW k \in Key, NEW item \in Item, OnItsWay(k, item)', ~OnItsWay(k, item)
        PROVE  item.vt # NoStamp /\ item.vt[u] <= vt'[u][u]
    <3>1. result.status = "OK" /\ item = sent
      BY <1>1, <1>2, <2>1, <2>3, <2>4, HandledItems
    <3>2. item.vt = v
      BY <3>1 DEF ToJSON
    <3>3. v[u] <= vt'[u][u]
      BY <1>1, <1>4, <2>1, <2>2 DEF TypeOK, Stamp
    <3> QED
      BY <2>2, <3>2, <3>3, StampsExist
  <2> HIDE DEF v
  <2> QED
    BY <1>1, <2>1, <2>2, <2>4, ClockMoves
<1>10. CASE ReceiveTribble(s)
  <2> DEFINE w == ToMessage(h.item).vt
             v == Update(stamp, w)
  <2>1. /\ vt' = [vt EXCEPT ![s] = v] /\ h.from \in Server /\ IsPost(h)
        /\ ReadEnds(h.item) = "returns" /\ \E status : Conclude(s, h, status)
    BY <1>10 DEF ReceiveTribble, HasTribble, WriteList, HasRequest, IsPost
  <2>2. w \in Seq(Int) /\ h.item \in Item /\ h.key \in Key
    BY <1>2, ToMessageType DEF Request
  <2>3. h.item.vt \in Stamp /\ h.item.vt[u] <= vt[u][u] /\ w \in {NoStamp, h.item.vt}
    <3>1. inbox[s] \in Seq(Request)
      BY <1>1 DEF TypeOK
    <3>2. 1 \in DOMAIN inbox[s] /\ inbox[s][1] = h
      BY <1>2, <3>1
    <3>3. OnItsWay(h.key, h.item)
      BY <2>1, <3>2 DEF OnItsWay
    <3>4. Counted(h.item, u)
      BY <2>2, <3>3 DEF Leads
    <3> QED
      BY <2>1, <2>2, <3>4, ReadStamp DEF Counted, Item, AnyStamp
  <2>4. v \in Stamp /\ v[u] \in {stamp[u], h.item.vt[u]}
    <3>1. v \in Stamp
      BY <1>3, <2>2, UpdateType
    <3>2. CASE w = NoStamp
      BY <1>3, <3>2 DEF Update, Stamp, NoStamp
    <3>3. CASE w = h.item.vt
      <4> HIDE DEF w
      <4> QED
        BY <1>3, <2>3, <3>3 DEF Update, Stamp
    <3> QED
      BY <2>3, <3>1, <3>2, <3>3
  <2>5. stamp[s] <= v[s]
    BY <1>3, <2>2, <2>4, UpdateBounds DEF Leq, Stamp
  <2>6. vt[s][s] <= v[s] /\ (u # s => v[u] <= vt[u][u])
    <3>1. v[s] \in Nat
      BY <2>4 DEF Stamp
    <3> QED
      BY <1>1, <1>3, <1>4, <2>3, <2>4, <2>5, <3>1
  <2>7. \A k \in Key, item \in Item : OnItsWay(k, item)' => OnItsWay(k, item)
    BY <1>5, <2>1, ClusterAssumption
  <2> HIDE DEF v
  <2> QED
    BY <1>1, <2>1, <2>4, <2>6, <2>7, ClockMoves
<1> QED
  BY <1>6, <1>7, <1>8, <1>9, <1>10 DEF Handler

\* What servers ask each other: to read, to join, or to store what is being broadcast.
ServerOp(s, o) ==
    \/ pc[s] = "bcast" /\ o = OpOf(job[s])
    \/ o.kind \in {"Get", "GetList"}
    \/ o.kind = "Put" /\ o.key = ServerSyscmd

\* A step that sends a server's request changes nothing else these proofs are about.
LEMMA ServerSends ==
    ASSUME CoreInv, NEW s \in Server,
           \/ FindCall(s) \/ UsersCall(s) \/ JoinCall(s) \/ BcastCall(s)
           \/ \E x \in todo[s] : CopyUser(s, x)
    PROVE  /\ UNCHANGED <<vt, pc, job, plan>>
           /\ \E x \in Server : \E o \in Op : Send(s, x, o) /\ ServerOp(s, o)
<1>1. idx[s] # End => idx[s] \in Index
  <2>1. idx[s] \in 0..End
    BY DEF CoreInv, TypeInv, TypeOK
  <2> QED
    BY <2>1, NAssumption DEF Index, End
<1>2. pc[s] \in {"users", "subs"} => target[s] \in Index
  BY DEF CoreInv, TypeInv, LoopsOK
<1>3. CASE FindCall(s)
  <2> DEFINE o == MakeOp("Get", ServerStatus, Plain(""))
  <2>1. Send(s, Peer(s, idx[s]), o) /\ Peer(s, idx[s]) \in Server /\ UNCHANGED <<vt, pc, job, plan>>
    BY <1>1, <1>3, PeerType DEF FindCall
  <2>2. ServerOp(s, o) /\ o \in Op
    BY OpType DEF MakeOp, ServerOp
  <2> HIDE DEF o
  <2> QED
    BY <2>1, <2>2
<1>4. CASE JoinCall(s)
  <2> DEFINE o == MakeOp("Put", ServerSyscmd, Plain("join cluster"))
  <2>1. Send(s, Peer(s, idx[s]), o) /\ Peer(s, idx[s]) \in Server /\ UNCHANGED <<vt, pc, job, plan>>
    BY <1>1, <1>4, PeerType DEF JoinCall
  <2>2. ServerOp(s, o) /\ o \in Op
    BY OpType DEF MakeOp, ServerOp
  <2> HIDE DEF o
  <2> QED
    BY <2>1, <2>2
<1>5. CASE UsersCall(s)
  <2> DEFINE o == MakeOp("GetList", UserList, Plain(""))
  <2>1. /\ Send(s, Peer(s, target[s]), o) /\ Peer(s, target[s]) \in Server
        /\ UNCHANGED <<vt, pc, job, plan>>
    BY <1>2, <1>5, PeerType DEF UsersCall
  <2>2. ServerOp(s, o) /\ o \in Op
    BY OpType DEF MakeOp, ServerOp
  <2> HIDE DEF o
  <2> QED
    BY <2>1, <2>2
<1>6. CASE BcastCall(s)
  <2> DEFINE o == OpOf(job[s])
  <2>1. /\ Send(s, Peer(s, idx[s]), o) /\ Peer(s, idx[s]) \in Server /\ pc[s] = "bcast"
        /\ UNCHANGED <<vt, pc, job, plan>>
    BY <1>1, <1>6, PeerType DEF BcastCall
  <2>2. ServerOp(s, o) /\ o \in Op
    BY <2>1, OpType DEF ServerOp, CoreInv, TypeInv, TypeOK
  <2> HIDE DEF o
  <2> QED
    BY <2>1, <2>2
<1>7. ASSUME NEW x \in todo[s], CopyUser(s, x)
      PROVE  /\ UNCHANGED <<vt, pc, job, plan>>
             /\ \E y \in Server : \E o \in Op : Send(s, y, o) /\ ServerOp(s, o)
  <2> DEFINE o == MakeOp("GetList", SubKey(x), Plain(""))
  <2>1. /\ Send(s, Peer(s, target[s]), o) /\ Peer(s, target[s]) \in Server
        /\ UNCHANGED <<vt, pc, job, plan>>
    BY <1>2, <1>7, PeerType DEF CopyUser
  <2>2. x \in Text
    BY DEF CoreInv, TypeInv, TypeOK
  <2>3. ServerOp(s, o) /\ o \in Op
    BY <2>2, OpType DEF MakeOp, ServerOp
  <2> HIDE DEF o
  <2> QED
    BY <2>1, <2>3
<1> QED
  BY <1>3, <1>4, <1>5, <1>6, <1>7

\* A post that a server sends is on its way already.
LEMMA ServerPosts ==
    ASSUME NEW s \in Server, NEW o, ServerOp(s, o), IsPost(o)
    PROVE  OnItsWay(o.key, o.item)
  BY DEF ServerOp, OpOf, MakeOp, IsPost, OnItsWay

\* Every step of a server leaves the servers ahead that have not lost their clocks.
LEMMA ServerLeads ==
    ASSUME NoForgery, CoreInv, StartsInv, NEW s \in Server, Boot(s) \/ ServerStep(s) \/ Crash(s),
           NEW u \in Server, Leads(u), Trusted(u)', Listening(s) => Leads(s)
    PROVE  Leads(u)'
<1>1. TypeOK /\ s \in Proc
  BY DEF CoreInv, TypeInv, Proc
<1>2. CASE \/ FindCall(s) \/ UsersCall(s) \/ JoinCall(s) \/ BcastCall(s)
           \/ \E x \in todo[s] : CopyUser(s, x)
  <2>1. /\ UNCHANGED <<vt, pc, job>>
        /\ \E x \in Server : \E o : Send(s, x, o) /\ ServerOp(s, o)
    BY <1>2, ServerSends
  <2>2. \A k \in Key, item \in Item : OnItsWay(k, item)' => OnItsWay(k, item)
    BY <1>1, <2>1, ServerPosts, SentItems
  <2> QED
    BY <2>1, <2>2, ClocksStay
<1>3. CASE \/ Boot(s) \/ FindAnswer(s) \/ FindRefused(s) \/ FindDone(s) \/ UsersAnswer(s)
           \/ CopySubs(s) \/ CopyDone(s) \/ JoinAnswer(s) \/ JoinDone(s)
           \/ BcastAnswer(s) \/ BcastRejected(s) \/ BcastErased(s) \/ BcastDone(s)
  <2>1. /\ UNCHANGED <<vt, inbox>>
        /\ \A t \in Server : pc'[t] = "bcast" => pc[t] = "bcast" /\ job'[t] = job[t]
    BY <1>1, <1>3
       DEF Boot, FindAnswer, FindRefused, FindDone, FinishBoot, UsersAnswer, CopySubs, CopyDone,
           JoinAnswer, JoinDone, BcastAnswer, BcastRejected, BcastErased, BcastDone, BcastStop,
           TypeOK
  <2>2. \A k \in Key, item \in Item : OnItsWay(k, item)' => OnItsWay(k, item)
    BY <2>1, KeptItems
  <2> QED
    BY <2>1, <2>2, ClocksStay
<1>4. CASE Handler(s)
  <2>1. Listening(s)
    BY <1>4 DEF Handler, Read, Put, AddToList, PostTribble, ReceiveTribble, RemoveFromList,
       HasTribble, HasRequest, Listening
  <2> QED
    BY <1>4, <2>1, HandlerLeads
<1>5. CASE ReceiveThrows(s)
  <2>1. /\ inbox[s] # <<>> /\ Take(s) /\ UNCHANGED <<pc, job>> /\ Listening(s)
        /\ vt' = [vt EXCEPT ![s] = Inc(vt[s], s)]
    BY <1>5 DEF ReceiveThrows, HasTribble, HasRequest, Listening
  <2>2. \A k \in Key, item \in Item : OnItsWay(k, item)' => OnItsWay(k, item)
    BY <1>1, <2>1, TakenItems
  <2>3. /\ vt[s] \in Stamp /\ vt[s][s] \in Nat /\ vt[s][u] <= vt[u][u]
        /\ \A w \in Server : w # s => Inc(vt[s], s)[w] = vt[s][w]
    BY <1>1 DEF TypeOK, Stamp, Leads, Inc
  <2>4. Inc(vt[s], s) \in Stamp /\ Inc(vt[s], s)[s] = vt[s][s] + 1
    BY <2>3, IncType
  <2> DEFINE v == Inc(vt[s], s)
  <2>5. v \in Stamp /\ vt[s][s] <= v[s] /\ (u # s => v[u] <= vt[u][u])
    BY <2>3, <2>4
  <2>6. vt' = [vt EXCEPT ![s] = v]
    BY <2>1
  <2> HIDE DEF v
  <2> QED
    BY <1>1, <2>2, <2>5, <2>6, ClockMoves
<1>6. CASE GiveUp(s) \/ ReceiveFault(s) \/ BcastFault(s) \/ Crash(s)
  <2>1. Halt(s)
    BY <1>6 DEF GiveUp, ReceiveFault, BcastFault, Crash
  <2>2. CASE u # s
    BY <1>1, <2>1, <2>2, HaltLeads
  <2>3. CASE u = s
    <3>1. vt' = [vt EXCEPT ![s] = Zero] /\ ~Listening(s)' /\ starts' = starts
      BY <1>1, <2>1 DEF Halt, TypeOK, Listening
    <3>2. vt[s] = Zero
      BY <2>3, <3>1 DEF StartsInv, Trusted
    <3>3. vt' = vt
      BY <1>1, <3>1, <3>2 DEF TypeOK
    <3> QED
      BY <1>1, <2>1, <3>3, HaltItems, ClocksStay
  <2> QED
    BY <2>2, <2>3
<1> QED
  BY <1>2, <1>3, <1>4, <1>5, <1>6 DEF ServerStep, BootStep, HandlerFails, BcastStep

\* A Tribbler server's call or its end puts no other server's tribble on its way.
LEMMA ClientLeads ==
    ASSUME CoreInv, NEW c \in Client, ClientCall(c) \/ ClientReturn(c) \/ ClientEnds(c),
           NEW u \in Server, Leads(u)
    PROVE  Leads(u)'
<1>1. TypeOK /\ c \in Proc /\ c \notin Server /\ Entry[c] \in Server
  BY ClusterAssumption DEF CoreInv, TypeInv, Proc
<1>2. CASE ClientCall(c) \/ ClientReturn(c)
  <2>1. UNCHANGED <<vt, pc, job>> /\ (UNCHANGED inbox \/ \E o : Send(c, Entry[c], o))
    BY <1>2 DEF ClientCall, ClientReturn
  <2>2. \A k \in Key, item \in Item : OnItsWay(k, item)' => OnItsWay(k, item)
    BY <1>1, <2>1, SentItems, KeptItems
  <2> QED
    BY <2>1, <2>2, ClocksStay
<1>3. CASE ClientEnds(c)
  <2>1. UNCHANGED vt
    BY <1>3 DEF ClientEnds
  <2> QED
    BY <1>1, <1>3, <2>1, ClientEndsItems, ClocksStay
<1> QED
  BY <1>2, <1>3

\* Every step preserves the strengthening.
LEMMA LeadNext ==
    ASSUME NoForgery, CoreInv, LeadInv, [Next]_vars
    PROVE  LeadInv'
<1>1. TypeOK /\ StartsInv
  BY DEF CoreInv, TypeInv, LeadInv
<1>2. ASSUME NEW s \in Server, Boot(s) \/ ServerStep(s) \/ Crash(s)
      PROVE  LeadInv'
  <2>1. StartsInv'
    BY <1>1, <1>2, StartsNext
  <2>2. ASSUME NobodyIsBack', NEW u \in Server, Trusted(u)'
        PROVE  Leads(u)'
    <3>1. Trusted(u) /\ \A t \in Server : Trusted(t) => Leads(t)
      BY <1>1, <1>2, <2>2, TrustLasts DEF LeadInv
    <3>2. Leads(u) /\ (Listening(s) => Leads(s))
      BY <3>1 DEF Trusted
    <3> QED
      BY <1>1, <1>2, <2>2, <3>2, ServerLeads
  <2> QED
    BY <2>1, <2>2 DEF LeadInv
<1>3. ASSUME NEW c \in Client, ClientStep(c)
      PROVE  LeadInv'
  <2>1. UNCHANGED <<pc, vt, starts>>
    BY <1>3 DEF ClientStep, ClientCall, ClientReturn, ClientCrash, ClientEnds
  <2>2. StartsInv'
    BY <1>1, <2>1 DEF StartsInv, Listening, Zero
  <2>3. ASSUME NobodyIsBack', NEW u \in Server, Trusted(u)'
        PROVE  Leads(u)'
    <3>1. Leads(u)
      BY <1>1, <2>1, <2>3, TrustLasts DEF LeadInv
    <3> QED
      BY <1>3, <3>1, ClientLeads DEF ClientStep, ClientCrash
  <2> QED
    BY <2>2, <2>3 DEF LeadInv
<1>4. CASE UNCHANGED vars
  BY <1>4 DEF vars, LeadInv, StartsInv, NobodyIsBack, Trusted, Listening, Leads, OnItsWay,
     Counted
<1> QED
  BY <1>2, <1>3, <1>4 DEF Next, Settled

\* At first nobody has heard of more than has happened.
LEMMA InitLead == Init => LeadInv
<1> SUFFICES ASSUME Init PROVE LeadInv
  OBVIOUS
<1>1. N \in Nat /\ B \in Nat /\ B <= N
  BY NAssumption, ClusterAssumption
<1>2. \A s, t \in Server : vt[t][s] <= vt[s][s]
  BY <1>1 DEF Init, Zero, Server
<1>3. \A k, item : ~OnItsWay(k, item)
  BY DEF Init, OnItsWay
<1>4. StartsInv
  BY DEF Init, StartsInv, Listening
<1> QED
  BY <1>2, <1>3, <1>4 DEF LeadInv, Leads

\* Until a server comes to serve again, no server that serves is behind anybody in its own
\* component of the clock, whatever crashes and whoever boots for the first time, if no
\* contents are read with a stamp of their own making.
THEOREM OwnClocksLead == ASSUME NoForgery PROVE Spec => []OwnClockLeads
<1>1. Init => CoreInv /\ LeadInv
  BY InitCore, InitLead
<1>2. CoreInv /\ LeadInv /\ [Next]_vars => (CoreInv /\ LeadInv)'
  BY NextCore, LeadNext
<1> QED
  BY <1>1, <1>2, LeadInvLeads, PTL DEF Spec

-----------------------------------------------------------------------------
(* Tribbles keep their order wherever they lie.                              *)

\* The stamps of a post of s that was sent with w: where it was posted, the tribble is
\* stored under the stamp that s counted just before.
Own(w, s) == [w EXCEPT ![s] = @ - 1]

StampsOf(w, s) == {w, Own(w, s)}

\* Whatever has counted that post has all of its stamp.
Merged(x, w, s) == x[s] < w[s] - 1 \/ Leq(w, x)

\* A post of t that was sent with x was made before one heard of that of s at t, or with
\* all that s knew.
Knows(w, s, x, t) == x[s] < w[s] - 1 \/ (Leq(w, Own(x, t)) /\ w[t] < x[t] - 1)

\* Two stamps that differ do so first in some component.
LEMMA FirstDiffers ==
    ASSUME NEW v \in Stamp, NEW x \in Stamp, v # x
    PROVE  \E i \in Server : v[i] # x[i] /\ \A j \in Server : j < i => v[j] = x[j]
<1> DEFINE D == {i \in Server : v[i] # x[i]}
<1>1. D # {} /\ D \subseteq Nat
  <2>1. (\A i \in Server : v[i] = x[i]) => v = x
    BY DEF Stamp
  <2>2. PICK i \in Server : v[i] # x[i]
    BY <2>1
  <2>3. Server \subseteq Nat
    BY DEF Server
  <2> QED
    BY <2>2, <2>3
<1>2. PICK i \in D : \A j \in D : ~(<<j, i>> \in OpToRel(<, Nat))
  BY <1>1, NatLessThanWellFounded, WFMin
<1>3. \A j \in D : ~(j < i)
  BY <1>1, <1>2 DEF OpToRel
<1> QED
  BY <1>2, <1>3

\* What decides the order of two posts is the same for both stamps of each.
LEMMA PairOrdered ==
    ASSUME NEW w \in Stamp, NEW x \in Stamp, NEW s \in Server, NEW t \in Server,
           w[s] > 0, x[t] > 0, Knows(w, s, x, t), Knows(x, t, w, s)
    PROVE  \/ \A a \in StampsOf(w, s), b \in StampsOf(x, t) : PostedLess(a, b)
           \/ \A a \in StampsOf(w, s), b \in StampsOf(x, t) : PostedLess(b, a)
<1>1. /\ \A i \in Server : w[i] \in Nat /\ x[i] \in Nat
      /\ Own(w, s) \in Stamp /\ Own(x, t) \in Stamp
      /\ \A i \in Server : Own(w, s)[i] = IF i = s THEN w[i] - 1 ELSE w[i]
      /\ \A i \in Server : Own(x, t)[i] = IF i = t THEN x[i] - 1 ELSE x[i]
  BY DEF Stamp, Own
<1>2. ASSUME Leq(w, Own(x, t)), w[t] < x[t] - 1
      PROVE  \A a \in StampsOf(w, s), b \in StampsOf(x, t) : PostedLess(a, b)
  <2> SUFFICES ASSUME NEW a \in StampsOf(w, s), NEW b \in StampsOf(x, t)
               PROVE  PostedLess(a, b)
    OBVIOUS
  <2>1. a \in Stamp /\ b \in Stamp
    BY <1>1 DEF StampsOf
  <2>2. \A i \in Server : a[i] <= w[i] /\ w[i] <= Own(x, t)[i] /\ Own(x, t)[i] <= b[i]
    BY <1>1, <1>2 DEF StampsOf, Leq, Stamp
  <2>3. Leq(a, b) /\ a[t] < b[t]
    BY <1>1, <1>2, <2>1, <2>2 DEF Leq, Stamp
  <2> QED
    BY <2>1, <2>3, CausesSortFirst DEF AnyStamp
<1>3. ASSUME Leq(x, Own(w, s)), x[s] < w[s] - 1
      PROVE  \A a \in StampsOf(w, s), b \in StampsOf(x, t) : PostedLess(b, a)
  <2> SUFFICES ASSUME NEW a \in StampsOf(w, s), NEW b \in StampsOf(x, t)
               PROVE  PostedLess(b, a)
    OBVIOUS
  <2>1. a \in Stamp /\ b \in Stamp
    BY <1>1 DEF StampsOf
  <2>2. \A i \in Server : b[i] <= x[i] /\ x[i] <= Own(w, s)[i] /\ Own(w, s)[i] <= a[i]
    BY <1>1, <1>3 DEF StampsOf, Leq, Stamp
  <2>3. Leq(b, a) /\ b[s] < a[s]
    BY <1>1, <1>3, <2>1, <2>2 DEF Leq, Stamp
  <2> QED
    BY <2>1, <2>3, CausesSortFirst DEF AnyStamp
<1>4. ASSUME x[s] < w[s] - 1, w[t] < x[t] - 1
      PROVE  \/ \A a \in StampsOf(w, s), b \in StampsOf(x, t) : PostedLess(a, b)
             \/ \A a \in StampsOf(w, s), b \in StampsOf(x, t) : PostedLess(b, a)
  <2>1. s # t
    BY <1>1, <1>4
  <2> DEFINE v == Own(w, s)
             y == Own(x, t)
  <2>2. \A a \in StampsOf(w, s), b \in StampsOf(x, t) :
           /\ a \in Stamp /\ b \in Stamp
           /\ b[s] < a[s] /\ a[t] < b[t]
           /\ \A i \in Server \ {s, t} : a[i] = v[i] /\ b[i] = y[i]
    BY <1>1, <1>4, <2>1 DEF StampsOf
  <2>3. v \in StampsOf(w, s) /\ y \in StampsOf(x, t)
    BY DEF StampsOf
  <2>4. y[s] < v[s] /\ v[t] < y[t] /\ v \in Stamp /\ y \in Stamp
    BY <2>2, <2>3
  <2> HIDE DEF v, y
  <2>5. v # y
    BY <2>4 DEF Stamp
  <2>6. PICK i \in Server : v[i] # y[i] /\ \A j \in Server : j < i => v[j] = y[j]
    BY <2>4, <2>5, FirstDiffers
  <2>7. ~(s < i) /\ ~(t < i)
    BY <2>4, <2>6 DEF Stamp
  <2>8. \A a \in StampsOf(w, s), b \in StampsOf(x, t) : \A j \in Server : j < i => a[j] = b[j]
    BY <2>2, <2>6, <2>7
  <2>9. CASE v[i] < y[i]
    <3>1. i # s
      BY <2>4, <2>9 DEF Stamp
    <3>2. \A a \in StampsOf(w, s), b \in StampsOf(x, t) : a[i] < b[i]
      BY <2>2, <2>9, <3>1
    <3> QED
      BY <2>2, <2>8, <3>2 DEF PostedLess, Stamp
  <2>10. CASE y[i] < v[i]
    <3>1. i # t
      BY <2>4, <2>10 DEF Stamp
    <3>2. \A a \in StampsOf(w, s), b \in StampsOf(x, t) : b[i] < a[i]
      BY <2>2, <2>10, <3>1
    <3> QED
      BY <2>2, <2>8, <3>2 DEF PostedLess, Stamp
  <2> QED
    BY <2>4, <2>6, <2>9, <2>10 DEF Stamp
<1> QED
  BY <1>2, <1>3, <1>4 DEF Knows

-----------------------------------------------------------------------------
(* The order of tribbles: who posted each and with which stamp.  A post is  *)
(* a list's key and contents; it is made once, by one Tribbler server.      *)

Posting == Key \X Text

PostOf(k, item) == <<k, item.value>>

PostedOnce ==
    \A c, d \in Client : \A op \in Plan[c] \cap Plan[d] : IsPost(op) => c = d

\* A tribble that some server stores, and a post of which there is a copy anywhere.
Lies(k, item) == IsTribble(k) /\ \E t \in Server : item \in ItemsAt(lists[t], k)

Copied(m) ==
    \E item \in Item : item.value = m[2] /\ (Lies(m[1], item) \/ OnItsWay(m[1], item))

\* Every copy of a post bears one of its stamps, and the one it was sent with until it
\* is stored.
StampsFit(by, sent) ==
    \A k \in Key, item \in Item :
        LET m == PostOf(k, item)
        IN  /\ OnItsWay(k, item) => item.vt = sent[m]
            /\ Lies(k, item) => item.vt \in StampsOf(sent[m], by[m])

\* Whoever has not lost its clock has merged all of a post's stamp or not heard of it,
\* and knows its own part.
ClocksFit(by, sent) ==
    \A m \in Posting : Copied(m) =>
        /\ sent[m][by[m]] > 0
        /\ \A t \in Server : Trusted(t) =>
              sent[m][t] <= vt[t][t] /\ Merged(vt[t], sent[m], by[m])

PostsKnown(by, sent) ==
    \A m, o \in Posting : Copied(m) /\ Copied(o) /\ m # o => Knows(sent[m], by[m], sent[o], by[o])

Authored(by, sent) ==
    /\ by \in [Posting -> Server] /\ sent \in [Posting -> Stamp]
    /\ StampsFit(by, sent) /\ ClocksFit(by, sent) /\ PostsKnown(by, sent)

\* The n-th request in the queue of server t asks for post m, and a Tribbler server sent it.
AskedAt(m, t, n) ==
    /\ n \in DOMAIN inbox[t]
    /\ inbox[t][n].from \in Client /\ IsPost(inbox[t][n])
    /\ PostOf(inbox[t][n].key, inbox[t][n].item) = m

\* Of posts that wait to be served or, those in L, are still to be asked for, there are no
\* copies; and one that waits has been asked for only once, whoever may have died since.
Fresh(L) ==
    /\ \A m \in L : ~Copied(m)
    /\ \A m \in Posting, t \in Server, n \in Nat : AskedAt(m, t, n) =>
          /\ m \notin L /\ ~Copied(m)
          /\ \A u \in Server, j \in Nat : AskedAt(m, u, j) => u = t /\ j = n

\* Every post is fresh until it is served, and its copies can be traced to it.
Agrees(L) == Fresh(L) /\ \E by, sent : Authored(by, sent)

\* The posts in the plans of the Tribbler servers.
PlannedPosts ==
    {m \in Posting : \E c \in Client : \E op \in plan[c] :
        IsPost(op) /\ m = PostOf(op.key, op.item)}

\* What is left of a plan is of the plan.
PlansKept == \A c \in Client : plan[c] \subseteq Plan[c]

\* The strengthening, as long as nobody serves again.
AgreeInv ==
    /\ PlansKept
    /\ NobodyIsBack => Agrees(PlannedPosts)

-----------------------------------------------------------------------------
(* Steps that only spread copies, and the clocks that only count or merge.  *)

Spreads ==
    \A k \in Key, item \in Item :
        /\ OnItsWay(k, item)' => OnItsWay(k, item)
        /\ Lies(k, item)' => Lies(k, item) \/ OnItsWay(k, item)

Ticks(t) ==
    \/ vt'[t] = vt[t]
    \/ vt'[t] = Inc(vt[t], t)
    \/ \E k \in Key, item \in Item : \E z \in {NoStamp, item.vt} :
          OnItsWay(k, item) /\ vt'[t] = Update(Inc(vt[t], t), z)

\* Steps that only spread copies copy no other post.
LEMMA SpreadCopies ==
    ASSUME Spreads, NEW m \in Posting, Copied(m)'
    PROVE  Copied(m)
<1>1. m[1] \in Key /\ m[2] \in Text
  BY DEF Posting
<1>2. PICK item \in Item : item.value = m[2] /\ (Lies(m[1], item)' \/ OnItsWay(m[1], item)')
  BY DEF Copied
<1> QED
  BY <1>1, <1>2 DEF Spreads, Copied

\* A tribble on its way is a copy of its post.
LEMMA WayCopied ==
    ASSUME NEW k \in Key, NEW item \in Item, Lies(k, item) \/ OnItsWay(k, item)
    PROVE  PostOf(k, item) \in Posting /\ Copied(PostOf(k, item))
<1>1. item.value \in Text
  BY DEF Item
<1>2. PostOf(k, item) \in Posting /\ PostOf(k, item)[1] = k /\ PostOf(k, item)[2] = item.value
  BY <1>1 DEF PostOf, Posting
<1> QED
  BY <1>2 DEF Copied

\* A clock that merges a stamp which knows a post knows that post too or not at all.
LEMMA MergedTicks ==
    ASSUME NEW x \in Stamp, NEW w \in Stamp, NEW s \in Server, NEW t \in Server,
           w[t] <= x[t], Merged(x, w, s)
    PROVE  /\ Merged(Inc(x, t), w, s) /\ w[t] <= Inc(x, t)[t]
           /\ \A z \in AnyStamp : (z = NoStamp \/ z = w \/ z[s] < w[s] - 1 \/ Leq(w, z)) =>
                 /\ Merged(Update(Inc(x, t), z), w, s)
                 /\ w[t] <= Update(Inc(x, t), z)[t]
<1> DEFINE i == Inc(x, t)
<1>1. /\ i \in Stamp /\ Leq(x, i)
      /\ \A u \in Server : i[u] = IF u = t THEN x[u] + 1 ELSE x[u]
      /\ \A u \in Server : x[u] \in Nat /\ w[u] \in Nat
  BY IncType DEF Inc, Stamp
<1>2. (i[s] < w[s] - 1 \/ Leq(w, i)) /\ w[t] <= i[t]
  <2>1. CASE x[s] < w[s] - 1
    <3>1. s # t
      BY <1>1, <2>1
    <3> QED
      BY <1>1, <2>1, <3>1
  <2>2. CASE Leq(w, x)
    BY <1>1, <2>2, LeqTransitive DEF AnyStamp
  <2> QED
    BY <1>1, <2>1, <2>2 DEF Merged
<1> HIDE DEF i
<1>3. ASSUME NEW z \in AnyStamp, z = NoStamp \/ z = w \/ z[s] < w[s] - 1 \/ Leq(w, z)
      PROVE  Merged(Update(i, z), w, s) /\ w[t] <= Update(i, z)[t]
  <2>1. Update(i, z) \in Stamp /\ Leq(i, Update(i, z)) /\ Leq(z, Update(i, z))
    BY <1>1, StampVector, UpdateType, UpdateBounds
  <2>2. w[t] <= Update(i, z)[t]
    <3>1. i[t] <= Update(i, z)[t] /\ Update(i, z)[t] \in Nat /\ i[t] \in Nat
      BY <1>1, <2>1 DEF Leq, Stamp
    <3> QED
      BY <1>1, <1>2, <3>1
  <2>3. CASE Leq(w, i)
    BY <1>1, <2>1, <2>2, <2>3, LeqTransitive DEF Merged, AnyStamp
  <2>4. CASE z # NoStamp /\ (z = w \/ Leq(w, z))
    <3>1. z \in Stamp /\ Leq(w, z)
      BY <1>1, <2>4 DEF AnyStamp, Leq, Stamp
    <3> QED
      BY <2>1, <2>2, <3>1, LeqTransitive DEF Merged, AnyStamp
  <2>5. CASE i[s] < w[s] - 1 /\ (z = NoStamp \/ z[s] < w[s] - 1)
    <3>1. Update(i, z)[s] \in {i[s], IF z = NoStamp THEN i[s] ELSE z[s]}
      BY <1>1 DEF Update, Stamp, AnyStamp, NoStamp
    <3> QED
      BY <2>2, <2>5, <3>1 DEF Merged
  <2> QED
    BY <1>2, <1>3, <2>3, <2>4, <2>5
<1> QED
  BY <1>2, <1>3 DEF i, Merged

\* Spreading copies traces them to the same posts.
LEMMA SpreadKeeps ==
    ASSUME TypeOK, TypeOK', Spreads,
           \A t \in Server : Trusted(t)' => Trusted(t) /\ Ticks(t),
           NEW by, NEW sent, Authored(by, sent)
    PROVE  Authored(by, sent)'
<1>1. by \in [Posting -> Server] /\ sent \in [Posting -> Stamp]
  BY DEF Authored
<1>2. StampsFit(by, sent)'
  <2> SUFFICES ASSUME NEW k \in Key, NEW item \in Item
               PROVE  LET m == PostOf(k, item)
                      IN  /\ OnItsWay(k, item)' => item.vt = sent[m]
                          /\ Lies(k, item)' => item.vt \in StampsOf(sent[m], by[m])
    BY DEF StampsFit, PostOf, StampsOf, Own
  <2> QED
    BY DEF Spreads, Authored, StampsFit, StampsOf
<1>3. ASSUME NEW m \in Posting, Copied(m)'
      PROVE  /\ sent[m][by[m]] > 0
             /\ \A t \in Server : Trusted(t)' =>
                   sent[m][t] <= vt'[t][t] /\ Merged(vt'[t], sent[m], by[m])
  <2>1. Copied(m)
    BY <1>3, SpreadCopies
  <2>2. sent[m] \in Stamp /\ by[m] \in Server /\ sent[m][by[m]] > 0
    BY <1>1, <2>1 DEF Authored, ClocksFit
  <2>3. ASSUME NEW t \in Server, Trusted(t)'
        PROVE  sent[m][t] <= vt'[t][t] /\ Merged(vt'[t], sent[m], by[m])
    <3>1. /\ Ticks(t) /\ vt[t] \in Stamp
          /\ sent[m][t] <= vt[t][t] /\ Merged(vt[t], sent[m], by[m])
      BY <2>1, <2>3 DEF Authored, ClocksFit, TypeOK
    <3>2. CASE vt'[t] = vt[t] \/ vt'[t] = Inc(vt[t], t)
      BY <2>2, <3>1, <3>2, MergedTicks
    <3>3. ASSUME NEW k \in Key, NEW item \in Item, NEW z \in {NoStamp, item.vt},
                 OnItsWay(k, item), vt'[t] = Update(Inc(vt[t], t), z)
          PROVE  sent[m][t] <= vt'[t][t] /\ Merged(vt'[t], sent[m], by[m])
      <4> DEFINE o == PostOf(k, item)
      <4>1. o \in Posting /\ Copied(o) /\ z \in AnyStamp
        BY <3>3, WayCopied DEF Item, AnyStamp
      <4>2. z = NoStamp \/ z = sent[o]
        BY <3>3 DEF Authored, StampsFit
      <4>3. CASE z = sent[o] /\ o # m
        <5>1. Knows(sent[m], by[m], sent[o], by[o])
          BY <2>1, <4>1, <4>3 DEF Authored, PostsKnown
        <5>2. sent[o] \in Stamp /\ by[o] \in Server
          BY <1>1, <4>1
        <5>3. Leq(Own(sent[o], by[o]), sent[o])
          BY <5>2 DEF Own, Leq, Stamp
        <5>4. Leq(sent[m], Own(sent[o], by[o])) => Leq(sent[m], sent[o])
          BY <2>2, <5>2 DEF Own, Leq, Stamp
        <5>5. z[by[m]] < sent[m][by[m]] - 1 \/ Leq(sent[m], z)
          BY <4>3, <5>1, <5>4 DEF Knows
        <5> QED
          BY <2>2, <3>1, <3>3, <4>1, <5>5, MergedTicks
      <4>4. CASE z = NoStamp \/ (z = sent[o] /\ o = m)
        BY <2>2, <3>1, <3>3, <4>1, <4>4, MergedTicks
      <4> QED
        BY <4>2, <4>3, <4>4
    <3> QED
      BY <3>1, <3>2, <3>3 DEF Ticks
  <2> QED
    BY <2>2, <2>3
<1>4. ClocksFit(by, sent)'
  BY <1>3 DEF ClocksFit, Merged, Leq
<1>5. PostsKnown(by, sent)'
  <2>1. \A m, o \in Posting : Copied(m)' /\ Copied(o)' /\ m # o =>
           Knows(sent[m], by[m], sent[o], by[o])
    BY SpreadCopies DEF Authored, PostsKnown
  <2> QED
    BY <2>1 DEF PostsKnown, Knows, Own, Leq
<1> QED
  BY <1>1, <1>2, <1>4, <1>5 DEF Authored

\* A new post is stamped after all that its server knew, and by nobody else yet.
LEMMA PostKeeps ==
    ASSUME TypeOK, TypeOK', NEW s \in Server, Trusted(s), Leads(s),
           \A u \in Server : Trusted(u)' => Trusted(u) /\ Leads(u),
           NEW v, v = Inc(vt[s], s), NEW w, w = Inc(v, s), vt' = [vt EXCEPT ![s] = w],
           NEW post \in Posting, ~Copied(post), NEW by, NEW sent, Authored(by, sent),
           \A k \in Key, item \in Item :
               /\ OnItsWay(k, item)' =>
                     OnItsWay(k, item) \/ (PostOf(k, item) = post /\ item.vt = w)
               /\ Lies(k, item)' =>
                     Lies(k, item) \/ (PostOf(k, item) = post /\ item.vt = v)
    PROVE  \E b, n : Authored(b, n)'
<1> DEFINE b == [by EXCEPT ![post] = s]
           n == [sent EXCEPT ![post] = w]
<1>1. /\ by \in [Posting -> Server] /\ sent \in [Posting -> Stamp]
      /\ vt[s] \in Stamp /\ v \in Stamp /\ w \in Stamp
      /\ v[s] = vt[s][s] + 1 /\ w[s] = vt[s][s] + 2
      /\ \A u \in Server : u # s => v[u] = vt[s][u] /\ w[u] = vt[s][u]
      /\ \A u, t \in Server : vt[t][u] \in Nat
  <2>1. vt[s] \in Stamp /\ \A u, t \in Server : vt[t][u] \in Nat
    BY DEF TypeOK, Stamp
  <2>2. ASSUME NEW y \in Stamp
        PROVE  /\ Inc(y, s) \in Stamp /\ Inc(y, s)[s] = y[s] + 1
               /\ \A u \in Server : u # s => Inc(y, s)[u] = y[u]
    BY DEF Inc, Stamp
  <2> QED
    BY <2>1, <2>2 DEF Authored
<1>2. /\ b \in [Posting -> Server] /\ n \in [Posting -> Stamp]
      /\ b[post] = s /\ n[post] = w
      /\ \A m \in Posting : m # post => b[m] = by[m] /\ n[m] = sent[m]
  BY <1>1
<1>3. Own(w, s) = v
  BY <1>1 DEF Own, Inc, Stamp
<1> HIDE DEF b, n
<1>4. ASSUME NEW m \in Posting, Copied(m)', m # post
      PROVE  Copied(m)
  <2>1. m[1] \in Key /\ m[2] \in Text /\ m = <<m[1], m[2]>>
    BY DEF Posting
  <2>2. PICK item \in Item : item.value = m[2] /\ (Lies(m[1], item)' \/ OnItsWay(m[1], item)')
    BY <1>4 DEF Copied
  <2>3. PostOf(m[1], item) # post
    BY <1>4, <2>1, <2>2 DEF PostOf
  <2> QED
    BY <2>1, <2>2, <2>3 DEF Copied
<1>5. StampsFit(b, n)'
  <2> SUFFICES ASSUME NEW k \in Key, NEW item \in Item
               PROVE  LET m == PostOf(k, item)
                      IN  /\ OnItsWay(k, item)' => item.vt = n[m]
                          /\ Lies(k, item)' => item.vt \in StampsOf(n[m], b[m])
    BY DEF StampsFit, PostOf, StampsOf, Own
  <2> DEFINE m == PostOf(k, item)
  <2>1. m \in Posting
    BY DEF PostOf, Posting, Item
  <2>2. CASE m = post
    <3>1. ~Lies(k, item) /\ ~OnItsWay(k, item)
      BY <2>2, WayCopied
    <3> QED
      BY <1>2, <1>3, <2>2, <3>1 DEF StampsOf
  <2>3. CASE m # post
    BY <1>2, <2>1, <2>3 DEF Authored, StampsFit
  <2> QED
    BY <2>2, <2>3
<1>6. ASSUME NEW m \in Posting, Copied(m), m # post
      PROVE  /\ sent[m] \in Stamp /\ by[m] \in Server
             /\ \A u \in Server : sent[m][u] \in Nat
             /\ sent[m][by[m]] > 0
             /\ \A t \in Server : Trusted(t) =>
                   sent[m][t] <= vt[t][t] /\ Merged(vt[t], sent[m], by[m])
  BY <1>1, <1>6 DEF Authored, ClocksFit, Stamp
<1>7. ASSUME NEW m \in Posting, Copied(m)'
      PROVE  /\ n[m][b[m]] > 0
             /\ \A t \in Server : Trusted(t)' =>
                   n[m][t] <= vt'[t][t] /\ Merged(vt'[t], n[m], b[m])
  <2>1. CASE m = post
    <3>1. n[m] = w /\ b[m] = s /\ w[s] > 0
      BY <1>1, <1>2, <2>1
    <3>2. ASSUME NEW t \in Server, Trusted(t)'
          PROVE  w[t] <= vt'[t][t] /\ Merged(vt'[t], w, s)
      <4>1. CASE t = s
        <5>1. vt'[t] = w
          BY <4>1 DEF TypeOK
        <5> QED
          BY <1>1, <5>1, LeqReflexive DEF Merged, Stamp
      <4>2. CASE t # s
        <5>1. vt'[t] = vt[t] /\ w[t] = vt[s][t]
          BY <1>1, <4>2 DEF TypeOK
        <5>2. vt[s][t] <= vt[t][t] /\ vt[t][s] <= vt[s][s]
          BY <3>2 DEF Leads
        <5> QED
          BY <1>1, <5>1, <5>2 DEF Merged
      <4> QED
        BY <4>1, <4>2
    <3> QED
      BY <3>1, <3>2
  <2>2. CASE m # post
    <3>1. /\ Copied(m) /\ n[m] = sent[m] /\ b[m] = by[m]
          /\ n[m] \in Stamp /\ b[m] \in Server /\ sent[m][by[m]] > 0
      BY <1>2, <1>4, <1>6, <1>7, <2>2
    <3>2. ASSUME NEW t \in Server, Trusted(t)'
          PROVE  n[m][t] <= vt'[t][t] /\ Merged(vt'[t], n[m], b[m])
      <4>1. n[m][t] <= vt[t][t] /\ Merged(vt[t], n[m], b[m]) /\ vt[t] \in Stamp
        BY <1>6, <2>2, <3>1, <3>2 DEF TypeOK
      <4>2. CASE t = s
        <5>1. vt'[t] = w /\ w = Inc(Inc(vt[t], t), t) /\ Inc(vt[t], t) \in Stamp
          BY <1>1, <4>2 DEF TypeOK
        <5>2. n[m][t] <= Inc(vt[t], t)[t] /\ Merged(Inc(vt[t], t), n[m], b[m])
          BY <3>1, <4>1, MergedTicks
        <5> QED
          BY <3>1, <5>1, <5>2, MergedTicks
      <4>3. CASE t # s
        BY <4>1, <4>3 DEF TypeOK
      <4> QED
        BY <4>2, <4>3
    <3> QED
      BY <3>1, <3>2
  <2> QED
    BY <2>1, <2>2
<1>8. ClocksFit(b, n)'
  BY <1>7 DEF ClocksFit, Merged, Leq
<1>9. ASSUME NEW m \in Posting, Copied(m), m # post
      PROVE  Knows(sent[m], by[m], w, s) /\ Knows(w, s, sent[m], by[m])
  <2> DEFINE x == sent[m]
             t == by[m]
  <2>1. x \in Stamp /\ t \in Server /\ x[s] <= vt[s][s] /\ Merged(vt[s], x, t)
        /\ \A u \in Server : x[u] \in Nat
    BY <1>6, <1>9
  <2>2. x[s] < w[s] - 1
    BY <1>1, <2>1
  <2>3. CASE Leq(x, vt[s])
    <3>1. Leq(x, v)
      BY <1>1, <2>1, <2>3, IncType, LeqTransitive DEF AnyStamp
    <3> QED
      BY <1>3, <2>2, <3>1 DEF Knows
  <2>4. CASE vt[s][t] < x[t] - 1
    <3>1. t # s
      BY <1>1, <2>1, <2>4
    <3>2. w[t] < x[t] - 1
      BY <1>1, <2>1, <2>4, <3>1
    <3> QED
      BY <2>2, <3>2 DEF Knows
  <2> QED
    BY <2>1, <2>3, <2>4 DEF Merged
<1>10. PostsKnown(b, n)'
  <2>1. ASSUME NEW m \in Posting, NEW o \in Posting, Copied(m)', Copied(o)', m # o
        PROVE  Knows(n[m], b[m], n[o], b[o])
    <3>1. CASE m # post /\ o # post
      BY <1>2, <1>4, <2>1, <3>1 DEF Authored, PostsKnown
    <3>2. CASE m = post
      BY <1>2, <1>4, <1>9, <2>1, <3>2
    <3>3. CASE o = post
      BY <1>2, <1>4, <1>9, <2>1, <3>3
    <3> QED
      BY <3>1, <3>2, <3>3
  <2> QED
    BY <2>1 DEF PostsKnown, Knows, Own, Leq
<1>11. Authored(b, n)'
  BY <1>2, <1>5, <1>8, <1>10 DEF Authored
<1> QED
  BY <1>11

\* What the invariant says of any two stored tribbles.
LEMMA AgreeInvOrders ==
    ASSUME TypeOK, NEW L, NobodyIsBack => Agrees(L)
    PROVE  OrderAgreement
<1> SUFFICES ASSUME NobodyIsBack, NEW s \in Server, NEW t \in Server,
                    NEW a1 \in Tribbles(s), NEW a2 \in Tribbles(s),
                    NEW b1 \in Tribbles(t), NEW b2 \in Tribbles(t),
                    SameTribble(a1, b1), SameTribble(a2, b2), ~SameTribble(a1, a2)
             PROVE  \/ LaterThan(a1, a2) /\ LaterThan(b1, b2)
                    \/ LaterThan(a2, a1) /\ LaterThan(b2, b1)
  BY DEF OrderAgreement
<1>1. Agrees(L)
  OBVIOUS
<1>2. PICK by, sent : Authored(by, sent)
  BY <1>1 DEF Agrees
<1>3. ASSUME NEW u \in Server, NEW a \in Tribbles(u)
      PROVE  LET m == <<a.key, a.msg.value>>
             IN  m \in Posting /\ Copied(m) /\ a.msg.vt \in StampsOf(sent[m], by[m])
  <2>1. PICK k \in DOMAIN lists[u] : IsTribble(k) /\ \E item \in lists[u][k] :
           a = [key |-> k, msg |-> item]
    BY DEF Tribbles
  <2>2. PICK item \in lists[u][k] : a = [key |-> k, msg |-> item]
    BY <2>1
  <2>3. k \in Key /\ item \in Item
    BY DEF TypeOK, AreMaps, IsMap
  <2>4. Lies(k, item)
    BY <2>1, <2>2 DEF Lies, ItemsAt
  <2>5. PostOf(k, item) \in Posting /\ Copied(PostOf(k, item))
    BY <2>3, <2>4, WayCopied
  <2>6. a.key = k /\ a.msg = item
    BY <2>2
  <2> QED
    BY <1>2, <2>3, <2>4, <2>5, <2>6 DEF PostOf, Authored, StampsFit
<1> DEFINE m == <<a1.key, a1.msg.value>>
           o == <<a2.key, a2.msg.value>>
<1>4. m # o /\ m = <<b1.key, b1.msg.value>> /\ o = <<b2.key, b2.msg.value>>
  BY DEF SameTribble
<1>5. /\ m \in Posting /\ Copied(m) /\ o \in Posting /\ Copied(o)
      /\ a1.msg.vt \in StampsOf(sent[m], by[m]) /\ b1.msg.vt \in StampsOf(sent[m], by[m])
      /\ a2.msg.vt \in StampsOf(sent[o], by[o]) /\ b2.msg.vt \in StampsOf(sent[o], by[o])
  BY <1>3, <1>4
<1>6. /\ sent[m] \in Stamp /\ by[m] \in Server /\ sent[m][by[m]] > 0
      /\ sent[o] \in Stamp /\ by[o] \in Server /\ sent[o][by[o]] > 0
      /\ Knows(sent[m], by[m], sent[o], by[o]) /\ Knows(sent[o], by[o], sent[m], by[m])
  BY <1>2, <1>4, <1>5 DEF Authored, ClocksFit, PostsKnown
<1> HIDE DEF m, o
<1> QED
  BY <1>5, <1>6, PairOrdered DEF LaterThan

-----------------------------------------------------------------------------
(* Every post is fresh when it is served. *)

\* What waits in the queues after a step waited in them before, no two at one place.
NoneAsked ==
    \E d \in [Server -> Nat] :
        \A m \in Posting, t \in Server, n \in Nat : AskedAt(m, t, n)' => AskedAt(m, t, n + d[t])

\* A request asks for a post.
LEMMA RequestPosts ==
    ASSUME NEW r \in Request
    PROVE  PostOf(r.key, r.item) \in Posting
  BY DEF Request, PostOf, Posting, Item

\* Without new requests or new copies, what is fresh stays so.
LEMMA FreshKept ==
    ASSUME NEW L \in SUBSET Posting, NEW M \in SUBSET L, Fresh(L), NoneAsked,
           \A m \in Posting : Copied(m)' => Copied(m)
    PROVE  Fresh(M)'
<1>1. PICK d \in [Server -> Nat] :
        \A m \in Posting, t \in Server, n \in Nat : AskedAt(m, t, n)' => AskedAt(m, t, n + d[t])
  BY DEF NoneAsked
<1>2. \A m \in M : ~Copied(m)'
  BY DEF Fresh
<1>3. ASSUME NEW m \in Posting, NEW t \in Server, NEW n \in Nat, AskedAt(m, t, n)'
      PROVE  /\ m \notin M /\ ~Copied(m)'
             /\ \A u \in Server, j \in Nat : AskedAt(m, u, j)' => u = t /\ j = n
  <2>1. AskedAt(m, t, n + d[t]) /\ n + d[t] \in Nat
    BY <1>1, <1>3
  <2>2. m \notin L /\ ~Copied(m)
    BY <2>1 DEF Fresh
  <2>3. ASSUME NEW u \in Server, NEW j \in Nat, AskedAt(m, u, j)'
        PROVE  u = t /\ j = n
    <3>1. AskedAt(m, u, j + d[u]) /\ j + d[u] \in Nat
      BY <1>1, <2>3
    <3>2. u = t /\ j + d[u] = n + d[t]
      BY <2>1, <3>1 DEF Fresh
    <3> QED
      BY <3>2
  <2> QED
    BY <2>2, <2>3
<1> QED
  BY <1>2, <1>3 DEF Fresh

\* What is left behind the request that is taken moves up.
LEMMA TakeShifts ==
    ASSUME TypeOK, NEW s \in Server, inbox[s] # <<>>, Take(s),
           NEW m, NEW t \in Server, NEW n \in Nat, AskedAt(m, t, n)'
    PROVE  n # 0 /\ AskedAt(m, t, IF t = s THEN n + 1 ELSE n)
<1>1. inbox[s] \in Seq(Request) /\ inbox' = [inbox EXCEPT ![s] = Tail(@)]
  BY DEF TypeOK, Take
<1>2. \A i \in DOMAIN Tail(inbox[s]) :
         i # 0 /\ i + 1 \in DOMAIN inbox[s] /\ Tail(inbox[s])[i] = inbox[s][i + 1]
  BY <1>1
<1>3. inbox[t] \in Seq(Request) /\ inbox'[t] = IF t = s THEN Tail(inbox[s]) ELSE inbox[t]
  BY <1>1 DEF TypeOK
<1>4. /\ n \in DOMAIN inbox'[t] /\ inbox'[t][n].from \in Client /\ IsPost(inbox'[t][n])
      /\ PostOf(inbox'[t][n].key, inbox'[t][n].item) = m
  BY DEF AskedAt, IsPost, PostOf
<1>5. CASE t = s
  BY <1>2, <1>3, <1>4, <1>5 DEF AskedAt
<1>6. CASE t # s
  <2>1. n \in DOMAIN inbox[t] => n # 0
    BY <1>3
  <2> QED
    BY <1>3, <1>4, <1>6, <2>1 DEF AskedAt
<1> QED
  BY <1>5, <1>6

\* What is left in the queue after a post is fresh still.
LEMMA FreshPosted ==
    ASSUME TypeOK, NEW L \in SUBSET Posting, Fresh(L),
           NEW s \in Server, inbox[s] # <<>>, Take(s),
           NEW h, h = Head(inbox[s]), h.from \in Client, IsPost(h),
           \A m \in Posting : Copied(m)' => Copied(m) \/ m = PostOf(h.key, h.item)
    PROVE  Fresh(L)'
<1> DEFINE post == PostOf(h.key, h.item)
<1>1. AskedAt(post, s, 1) /\ post \in Posting
  <2>1. inbox[s] \in Seq(Request)
    BY DEF TypeOK
  <2>2. 1 \in DOMAIN inbox[s] /\ inbox[s][1] = h /\ h \in Request
    BY <2>1
  <2> QED
    BY <2>2, RequestPosts DEF AskedAt
<1>2. post \notin L /\ \A u \in Server, j \in Nat : AskedAt(post, u, j) => u = s /\ j = 1
  BY <1>1 DEF Fresh
<1>3. \A m \in L : ~Copied(m)'
  BY <1>2 DEF Fresh
<1>4. ASSUME NEW m \in Posting, NEW t \in Server, NEW n \in Nat, AskedAt(m, t, n)'
      PROVE  /\ m \notin L /\ ~Copied(m)'
             /\ \A u \in Server, j \in Nat : AskedAt(m, u, j)' => u = t /\ j = n
  <2>1. n # 0 /\ AskedAt(m, t, IF t = s THEN n + 1 ELSE n)
    BY <1>4, TakeShifts
  <2>2. m # post
    BY <1>2, <2>1
  <2>3. m \notin L /\ ~Copied(m)'
    BY <1>2, <2>1, <2>2 DEF Fresh
  <2>4. ASSUME NEW u \in Server, NEW j \in Nat, AskedAt(m, u, j)'
        PROVE  u = t /\ j = n
    <3>1. AskedAt(m, u, IF u = s THEN j + 1 ELSE j)
      BY <2>4, TakeShifts
    <3>2. u = t /\ (IF u = s THEN j + 1 ELSE j) = (IF t = s THEN n + 1 ELSE n)
      BY <2>1, <3>1 DEF Fresh
    <3> QED
      BY <3>2
  <2> QED
    BY <2>3, <2>4
<1> QED
  BY <1>3, <1>4 DEF Fresh

\* A call of a Tribbler server for a post that was still to be asked for.
LEMMA FreshAsked ==
    ASSUME TypeOK, NEW L \in SUBSET Posting, Fresh(L),
           NEW c \in Client, NEW op \in Op, Send(c, Entry[c], op),
           NEW M \in SUBSET L, IsPost(op) => PostOf(op.key, op.item) \in L \ M,
           \A m \in Posting : Copied(m)' => Copied(m)
    PROVE  Fresh(M)'
<1> DEFINE q    == [from |-> c, live |-> TRUE, kind |-> op.kind, key |-> op.key, item |-> op.item]
           e    == Entry[c]
           last == Len(inbox[e]) + 1
           post == PostOf(op.key, op.item)
<1>1. /\ e \in Server /\ inbox[e] \in Seq(Request)
      /\ inbox' = inbox \/ inbox' = [inbox EXCEPT ![e] = Append(@, q)]
  BY ClusterAssumption DEF TypeOK, Send
<1>2. /\ PostOf(q.key, q.item) = post
      /\ IsPost(q) <=> IsPost(op)
  BY DEF PostOf, IsPost
<1> HIDE DEF q
<1>3. ASSUME NEW m \in Posting, NEW t \in Server, NEW n \in Nat, AskedAt(m, t, n)'
      PROVE  AskedAt(m, t, n) \/ (t = e /\ n = last /\ IsPost(op) /\ m = post)
  <2>1. /\ n \in DOMAIN inbox'[t] /\ inbox'[t][n].from \in Client /\ IsPost(inbox'[t][n])
        /\ PostOf(inbox'[t][n].key, inbox'[t][n].item) = m
    BY <1>3 DEF AskedAt, IsPost, PostOf
  <2>2. CASE inbox'[t] = inbox[t]
    BY <2>1, <2>2 DEF AskedAt
  <2>3. CASE t = e /\ inbox'[t] = Append(inbox[e], q)
    <3>1. \/ n \in DOMAIN inbox[e] /\ inbox'[t][n] = inbox[e][n]
          \/ n = last /\ inbox'[t][n] = q
      BY <1>1, <2>1, <2>3
    <3> QED
      BY <1>2, <2>1, <2>3, <3>1 DEF AskedAt
  <2> QED
    BY <1>1, <2>2, <2>3 DEF TypeOK
<1> HIDE DEF e, last
<1>4. \A m \in M : ~Copied(m)'
  BY DEF Fresh
<1>5. ASSUME NEW m \in Posting, NEW t \in Server, NEW n \in Nat, AskedAt(m, t, n)'
      PROVE  /\ m \notin M /\ ~Copied(m)'
             /\ \A u \in Server, j \in Nat : AskedAt(m, u, j)' => u = t /\ j = n
  <2>1. CASE AskedAt(m, t, n)
    <3>1. m \notin L /\ ~Copied(m)
      BY <2>1 DEF Fresh
    <3>2. ASSUME NEW u \in Server, NEW j \in Nat, AskedAt(m, u, j)'
          PROVE  u = t /\ j = n
      <4>1. AskedAt(m, u, j)
        BY <1>3, <3>1, <3>2
      <4> QED
        BY <2>1, <4>1 DEF Fresh
    <3> QED
      BY <3>1, <3>2
  <2>2. CASE ~AskedAt(m, t, n)
    <3>1. t = e /\ n = last /\ m \in L \ M
      BY <1>3, <1>5, <2>2
    <3>2. \A u \in Server, j \in Nat : ~AskedAt(m, u, j)
      BY <3>1 DEF Fresh
    <3> QED
      BY <1>3, <3>1, <3>2 DEF Fresh
  <2> QED
    BY <2>1, <2>2
<1> QED
  BY <1>4, <1>5 DEF Fresh

-----------------------------------------------------------------------------
(* Steps: most only spread copies; a handler that posts makes a new one. *)

\* Agrees survives a step that copies what exists and asks for nothing new.
LEMMA SpreadAgrees ==
    ASSUME TypeOK, TypeOK', NEW L \in SUBSET Posting, Agrees(L), Spreads, NoneAsked,
           \A t \in Server : Trusted(t)' => Trusted(t) /\ Ticks(t)
    PROVE  Agrees(L)'
<1>1. PICK by, sent : Authored(by, sent)
  BY DEF Agrees
<1>2. Authored(by, sent)'
  BY <1>1, SpreadKeeps
<1>3. Fresh(L)'
  BY SpreadCopies, FreshKept DEF Agrees
<1> QED
  BY <1>2, <1>3 DEF Agrees

\* Queues whose requests of Tribbler servers stay where they are, but may lose their
\* callers, ask for nothing new.
LEMMA NoneAskedKept ==
    ASSUME \A t \in Server : \A n \in DOMAIN inbox'[t] : inbox'[t][n].from \in Client =>
              /\ n \in DOMAIN inbox[t]
              /\ inbox'[t][n].from = inbox[t][n].from /\ inbox'[t][n].kind = inbox[t][n].kind
              /\ inbox'[t][n].key = inbox[t][n].key /\ inbox'[t][n].item = inbox[t][n].item
    PROVE  NoneAsked
<1>1. ASSUME NEW m \in Posting, NEW t \in Server, NEW n \in Nat, AskedAt(m, t, n)'
      PROVE  AskedAt(m, t, n)
  <2>1. /\ n \in DOMAIN inbox'[t] /\ inbox'[t][n].from \in Client /\ IsPost(inbox'[t][n])
        /\ PostOf(inbox'[t][n].key, inbox'[t][n].item) = m
    BY <1>1 DEF AskedAt, IsPost, PostOf
  <2> QED
    BY <2>1 DEF AskedAt, IsPost
<1> DEFINE d == [t \in Server |-> 0]
<1>2. d \in [Server -> Nat] /\ \A t \in Server : \A n \in Nat : n + d[t] = n
  OBVIOUS
<1> HIDE DEF d
<1>3. \A m \in Posting, t \in Server, n \in Nat : AskedAt(m, t, n)' => AskedAt(m, t, n + d[t])
  BY <1>1, <1>2
<1> QED
  BY <1>2, <1>3 DEF NoneAsked

\* A server's call asks for no post.
LEMMA ServerAsksNone ==
    ASSUME TypeOK, NEW p \in Proc, p \notin Client, NEW x \in Server, NEW o, Send(p, x, o)
    PROVE  NoneAsked
<1> DEFINE q == [from |-> p, live |-> TRUE, kind |-> o.kind, key |-> o.key, item |-> o.item]
<1>1. ASSUME NEW t \in Server, NEW n \in DOMAIN inbox'[t], inbox'[t][n].from \in Client
      PROVE  n \in DOMAIN inbox[t] /\ inbox'[t][n] = inbox[t][n]
  <2>1. inbox[t] \in Seq(Request) /\ inbox'[t] \in {inbox[t], Append(inbox[t], q)}
    BY DEF Send, TypeOK
  <2>2. q.from \notin Client
    OBVIOUS
  <2> HIDE DEF q
  <2> QED
    BY <1>1, <2>1, <2>2
<1> QED
  BY <1>1, NoneAskedKept

\* Taking a request leaves a shorter queue.
LEMMA TakeAsksNone ==
    ASSUME TypeOK, NEW s \in Server, inbox[s] # <<>>, Take(s)
    PROVE  NoneAsked
<1> DEFINE d == [t \in Server |-> IF t = s THEN 1 ELSE 0]
<1>1. /\ d \in [Server -> Nat]
      /\ \A t \in Server : \A n \in Nat : n + d[t] = IF t = s THEN n + 1 ELSE n
  OBVIOUS
<1> HIDE DEF d
<1>2. \A m \in Posting, t \in Server, n \in Nat : AskedAt(m, t, n)' => AskedAt(m, t, n + d[t])
  BY <1>1, TakeShifts
<1> QED
  BY <1>1, <1>2 DEF NoneAsked

\* A crash empties one queue and orphans the requests in others.
LEMMA HaltAsksNone ==
    ASSUME TypeOK, NEW s \in Server, Halt(s)
    PROVE  NoneAsked
<1>1. ASSUME NEW t \in Server
      PROVE  inbox'[t] = <<>> \/ inbox'[t] = OrphanedCalls(inbox[t], s)
  BY DEF Halt
<1>2. s \in Proc
  BY DEF Proc
<1>3. ASSUME NEW t \in Server, NEW n \in DOMAIN inbox'[t]
      PROVE  /\ n \in DOMAIN inbox[t]
             /\ inbox'[t][n].from = inbox[t][n].from /\ inbox'[t][n].kind = inbox[t][n].kind
             /\ inbox'[t][n].key = inbox[t][n].key /\ inbox'[t][n].item = inbox[t][n].item
  BY <1>1, <1>2, <1>3, OrphanedSame
<1> QED
  BY <1>3, NoneAskedKept

\* What one server's lists hold after a step.
LEMMA LiesMoves ==
    ASSUME TypeOK, NEW s \in Server, NEW m, lists' = [lists EXCEPT ![s] = m],
           NEW k \in Key, NEW item \in Item, Lies(k, item)'
    PROVE  Lies(k, item) \/ (IsTribble(k) /\ item \in ItemsAt(m, k))
<1>1. PICK t \in Server : item \in ItemsAt(lists[t], k)'
  BY DEF Lies
<1>2. ItemsAt(lists[t], k)' = ItemsAt(lists'[t], k)
  BY DEF ItemsAt
<1>3. lists'[t] = IF t = s THEN m ELSE lists[t]
  BY DEF TypeOK, AreMaps
<1> QED
  BY <1>1, <1>2, <1>3 DEF Lies

\* Lists that do not change hold nothing new.
LEMMA LiesStay ==
    ASSUME UNCHANGED lists, NEW k, NEW item, Lies(k, item)'
    PROVE  Lies(k, item)
  BY DEF Lies, ItemsAt

\* The end of a server.
LEMMA HaltAgrees ==
    ASSUME TypeOK, TypeOK', StartsInv, NEW L \in SUBSET Posting, Agrees(L),
           NEW s \in Server, Halt(s)
    PROVE  Agrees(L)'
<1>1. /\ lists' = [lists EXCEPT ![s] = NoMap] /\ vt' = [vt EXCEPT ![s] = Zero]
      /\ pc' = [pc EXCEPT ![s] = "down"] /\ starts' = starts
  BY DEF Halt
<1>2. Spreads
  <2>1. \A k : ItemsAt(NoMap, k) = {}
    BY DEF ItemsAt, NoMap
  <2>2. \A k \in Key, item \in Item : Lies(k, item)' => Lies(k, item)
    BY <1>1, <2>1, LiesMoves
  <2> QED
    BY <2>2, HaltItems DEF Spreads
<1>3. ASSUME NEW t \in Server, Trusted(t)'
      PROVE  Trusted(t) /\ Ticks(t)
  <2>1. Trusted(t) /\ (t = s => starts[s] = 0)
    BY <1>1, <1>3 DEF Trusted, Listening, TypeOK
  <2>2. vt'[t] = IF t = s THEN Zero ELSE vt[t]
    BY <1>1 DEF TypeOK
  <2>3. t = s => vt[s] = Zero
    BY <2>1 DEF StartsInv
  <2> QED
    BY <2>1, <2>2, <2>3 DEF Ticks
<1> QED
  BY <1>2, <1>3, HaltAsksNone, SpreadAgrees

\* A handler's step that posts nothing.
LEMMA HandlerSpreads ==
    ASSUME TypeOK, TypeOK', NEW L \in SUBSET Posting, Agrees(L),
           NEW s \in Server, pc[s] = "serve", inbox[s] # <<>>, Take(s),
           NEW req, NEW status, Conclude(s, req, status) \/ UNCHANGED <<pc, idx, job>>,
           ~(req.from \in Client /\ status = "OK" /\ IsPost(req)),
           \A k \in Key, item \in Item : Lies(k, item)' => Lies(k, item) \/ OnItsWay(k, item),
           \A t \in Server : t # s => vt'[t] = vt[t], Ticks(s), UNCHANGED starts
    PROVE  Agrees(L)'
<1>1. \A k \in Key, item \in Item : OnItsWay(k, item)' => OnItsWay(k, item)
  BY HandledItems, TakenItems
<1>2. Spreads
  BY <1>1 DEF Spreads
<1>3. \A t \in Server : Trusted(t)' => Trusted(t)
  <2>1. pc' \in {pc, [pc EXCEPT ![s] = "bcast"]}
    BY DEF Conclude, Finish, Broadcast
  <2> QED
    BY <2>1 DEF Trusted, Listening, TypeOK
<1>4. \A t \in Server : Ticks(t)
  BY DEF Ticks
<1> QED
  BY <1>2, <1>3, <1>4, TakeAsksNone, SpreadAgrees

\* A handler of a server that leads keeps every tribble's posts apart.
LEMMA HandlerAgrees ==
    ASSUME NoForgery, CoreInv, TypeOK', NEW L \in SUBSET Posting, Agrees(L),
           NEW s \in Server, Handler(s), Leads(s),
           \A u \in Server : Trusted(u)' => Trusted(u) /\ Leads(u)
    PROVE  Agrees(L)'
<1> DEFINE h == Head(inbox[s])
<1>1. pc[s] = "serve" /\ inbox[s] # <<>> /\ Take(s)
  BY DEF Handler, Read, Put, AddToList, PostTribble, ReceiveTribble, RemoveFromList,
     HasTribble, HasRequest
<1>2. TypeOK /\ vt[s] \in Stamp /\ h \in Request /\ UNCHANGED starts
  BY <1>1, ServedCaller DEF CoreInv, TypeInv, TypeOK, Handler, Read, Put, AddToList,
     PostTribble, ReceiveTribble, RemoveFromList
<1>3. h.key \in Key /\ h.item \in Item /\ h.item.value \in Text /\ h.from \in Proc
  BY <1>2 DEF Request, Item
<1>4. \A v : vt' = [vt EXCEPT ![s] = v] => vt'[s] = v /\ \A t \in Server : t # s => vt'[t] = vt[t]
  BY <1>2 DEF TypeOK
<1>5. CASE Read(s)
  <2>1. UNCHANGED <<pc, idx, job, lists, vt>>
    BY <1>5 DEF Read, Finish
  <2>2. Ticks(s)
    BY <2>1 DEF Ticks
  <2> QED
    BY <1>1, <1>2, <2>1, <2>2, LiesStay, HandlerSpreads DEF IsPost
<1>6. CASE Put(s)
  <2>1. UNCHANGED lists /\ vt' = [vt EXCEPT ![s] = Inc(@, s)] /\ ~IsPost(h)
    BY <1>6 DEF Put, HasRequest, IsPost
  <2>2. Ticks(s) /\ \A t \in Server : t # s => vt'[t] = vt[t]
    BY <1>4, <2>1 DEF Ticks
  <2>3. \E status : Conclude(s, h, status) \/ UNCHANGED <<pc, idx, job>>
    BY <1>6 DEF Put, Finish
  <2> HIDE DEF h
  <2> QED
    BY <1>1, <1>2, <2>1, <2>2, <2>3, LiesStay, HandlerSpreads
<1>7. CASE AddToList(s) \/ RemoveFromList(s)
  <2>1. UNCHANGED vt /\ ~IsPost(h) /\ \E status : Conclude(s, h, status)
    BY <1>7 DEF AddToList, RemoveFromList, HasRequest, IsPost, WriteList
  <2>2. ASSUME NEW k \in Key, NEW item \in Item, Lies(k, item)'
        PROVE  Lies(k, item)
    <3>1. CASE AddToList(s)
      <4> DEFINE m == StoreAddToList(lists[s], h.key, h.item).map
      <4>1. lists' = [lists EXCEPT ![s] = m] /\ ~IsTribble(h.key)
        BY <3>1 DEF AddToList, WriteList
      <4>2. IsTribble(k) /\ item \in ItemsAt(m, k) => item \in ItemsAt(lists[s], k)
        BY <4>1, AddedItems
      <4> HIDE DEF m
      <4>3. Lies(k, item) \/ (IsTribble(k) /\ item \in ItemsAt(m, k))
        BY <1>2, <2>2, <4>1, LiesMoves
      <4> QED
        BY <4>2, <4>3 DEF Lies
    <3>2. CASE RemoveFromList(s)
      <4> DEFINE m == StoreRemoveFromList(lists[s], h.key, h.item).map
      <4>1. lists' = [lists EXCEPT ![s] = m]
        BY <3>2 DEF RemoveFromList, WriteList
      <4>2. item \in ItemsAt(m, k) => item \in ItemsAt(lists[s], k)
        BY RemovedItems
      <4> HIDE DEF m
      <4>3. Lies(k, item) \/ (IsTribble(k) /\ item \in ItemsAt(m, k))
        BY <1>2, <2>2, <4>1, LiesMoves
      <4> QED
        BY <4>2, <4>3 DEF Lies
    <3> QED
      BY <1>7, <3>1, <3>2
  <2>3. Ticks(s)
    BY <2>1 DEF Ticks
  <2> HIDE DEF h
  <2> QED
    BY <1>1, <1>2, <2>1, <2>2, <2>3, HandlerSpreads
<1>8. CASE ReceiveTribble(s)
  <2> DEFINE m == StoreAddToList(lists[s], h.key, h.item).map
  <2>1. /\ vt' = [vt EXCEPT ![s] = Update(Inc(@, s), ToMessage(h.item).vt)]
        /\ lists' = [lists EXCEPT ![s] = m]
        /\ h.from \in Server /\ IsPost(h) /\ \E status : Conclude(s, h, status)
        /\ ReadEnds(h.item) = "returns"
    BY <1>8 DEF ReceiveTribble, HasTribble, WriteList, HasRequest, IsPost
  <2>2. OnItsWay(h.key, h.item)
    <3>1. inbox[s] \in Seq(Request)
      BY <1>2 DEF TypeOK
    <3>2. 1 \in DOMAIN inbox[s] /\ inbox[s][1] = h
      BY <1>1, <3>1
    <3> QED
      BY <2>1, <3>2 DEF OnItsWay
  <2>3. Ticks(s) /\ \A t \in Server : t # s => vt'[t] = vt[t]
    <3>1. h.item.vt # NoStamp
      BY <1>3, <2>2 DEF Leads, Counted
    <3>2. ToMessage(h.item).vt \in {NoStamp, h.item.vt}
      BY <1>3, <2>1, <3>1, ReadStamp
    <3> QED
      BY <1>3, <1>4, <2>1, <2>2, <3>2 DEF Ticks
  <2>4. \A k, item : item \in ItemsAt(m, k) =>
           item \in ItemsAt(lists[s], k) \/ (k = h.key /\ item = h.item)
    BY AddedItems
  <2> HIDE DEF m
  <2>5. \A k \in Key, item \in Item : Lies(k, item)' => Lies(k, item) \/ OnItsWay(k, item)
    BY <1>2, <2>1, <2>2, <2>4, LiesMoves DEF Lies
  <2> HIDE DEF h
  <2> QED
    BY <1>1, <1>2, <2>1, <2>3, <2>5, ClusterAssumption, HandlerSpreads
<1>9. CASE PostTribble(s)
  <2> DEFINE v      == Inc(vt[s], s)
             w      == Inc(v, s)
             result == StoreAddToList(lists[s], h.key, ToJSON(h.item.value, v))
             sent   == ToJSON(h.item.value, w)
             resent == [h EXCEPT !.item = sent]
  <2>1. /\ vt' = [vt EXCEPT ![s] = IF result.status = "OK" THEN w ELSE v]
        /\ lists' = [lists EXCEPT ![s] = result.map] /\ Conclude(s, resent, result.status)
        /\ h.from \in Client /\ IsPost(h)
    BY <1>9 DEF PostTribble, WriteList, HasRequest, IsPost
  <2>2. \A k, item : item \in ItemsAt(result.map, k) =>
           item \in ItemsAt(lists[s], k) \/ (k = h.key /\ item = ToJSON(h.item.value, v))
    BY AddedItems
  <2>3. /\ resent.from = h.from /\ resent.key = h.key /\ resent.item = sent
        /\ IsPost(resent) <=> IsPost(h)
    BY <1>2 DEF Request, IsPost
  <2>4. CASE result.status # "OK"
    <3>1. result.map = lists[s]
      BY <2>4 DEF StoreAddToList
    <3>2. lists' = lists
      BY <1>2, <2>1, <3>1 DEF TypeOK, AreMaps
    <3>3. Ticks(s) /\ \A t \in Server : t # s => vt'[t] = vt[t]
      BY <1>4, <2>1, <2>4 DEF Ticks
    <3> HIDE DEF resent, result
    <3> QED
      BY <1>1, <1>2, <2>1, <2>4, <3>2, <3>3, LiesStay, HandlerSpreads
  <2>5. CASE result.status = "OK"
    <3> DEFINE post == PostOf(h.key, h.item)
    <3>1. post \in Posting /\ ~Copied(post)
      <4>1. AskedAt(post, s, 1)
        <5>1. inbox[s] \in Seq(Request)
          BY <1>2 DEF TypeOK
        <5>2. 1 \in DOMAIN inbox[s] /\ inbox[s][1] = h
          BY <1>1, <5>1
        <5> QED
          BY <2>1, <5>2 DEF AskedAt
      <4>2. post \in Posting
        BY <1>2, RequestPosts
      <4> QED
        BY <4>1, <4>2 DEF Agrees, Fresh
    <3>2. ASSUME NEW k \in Key, NEW item \in Item, OnItsWay(k, item)'
          PROVE  OnItsWay(k, item) \/ (PostOf(k, item) = post /\ item.vt = w)
      <4>1. OnItsWay(k, item) \/ (k = h.key /\ item = sent)
        <5> HIDE DEF result, resent, sent, h
        <5> QED
          BY <1>1, <1>2, <2>1, <2>3, <3>2, HandledItems
      <4> QED
        BY <4>1 DEF ToJSON, PostOf
    <3>3. ASSUME NEW k \in Key, NEW item \in Item, Lies(k, item)'
          PROVE  Lies(k, item) \/ (PostOf(k, item) = post /\ item.vt = v)
      <4>1. Lies(k, item) \/ (IsTribble(k) /\ item \in ItemsAt(result.map, k))
        <5> HIDE DEF result
        <5> QED
          BY <1>2, <2>1, <3>3, LiesMoves
      <4>2. Lies(k, item) \/ (k = h.key /\ item = ToJSON(h.item.value, v))
        BY <2>2, <4>1 DEF Lies
      <4> QED
        BY <4>2 DEF ToJSON, PostOf
    <3>4. PICK by, n : Authored(by, n)
      BY DEF Agrees
    <3>5. vt' = [vt EXCEPT ![s] = w] /\ Trusted(s)
      BY <1>1, <2>1, <2>5 DEF Trusted, Listening
    <3>6. \E b, n2 : Authored(b, n2)'
      <4> HIDE DEF v, w, post
      <4>1. v = Inc(vt[s], s) /\ w = Inc(v, s)
        BY DEF v, w
      <4> QED
        BY <1>2, <3>1, <3>2, <3>3, <3>4, <3>5, <4>1, PostKeeps
    <3>7. ASSUME NEW m \in Posting, Copied(m)'
          PROVE  Copied(m) \/ m = post
      <4>1. m[1] \in Key /\ m[2] \in Text /\ m = <<m[1], m[2]>>
        BY DEF Posting
      <4>2. PICK item \in Item :
              item.value = m[2] /\ (Lies(m[1], item)' \/ OnItsWay(m[1], item)')
        BY <3>7 DEF Copied
      <4>3. Lies(m[1], item) \/ OnItsWay(m[1], item) \/ PostOf(m[1], item) = post
        BY <3>2, <3>3, <4>1, <4>2
      <4> QED
        BY <4>1, <4>2, <4>3 DEF Copied, PostOf
    <3>8. Fresh(L)'
      BY <1>1, <1>2, <2>1, <3>7, FreshPosted DEF Agrees
    <3> QED
      BY <3>6, <3>8 DEF Agrees
  <2> QED
    BY <2>4, <2>5
<1> QED
  BY <1>5, <1>6, <1>7, <1>8, <1>9 DEF Handler

\* Every step of a server while nobody serves again.
LEMMA ServerAgrees ==
    ASSUME NoForgery, CoreInv, TypeOK', StampsInv, StartsInv, NEW L \in SUBSET Posting, Agrees(L),
           NEW s \in Server, Boot(s) \/ ServerStep(s) \/ Crash(s),
           \A u \in Server : Trusted(u) => Leads(u),
           \A u \in Server : Trusted(u)' => Trusted(u)
    PROVE  Agrees(L)'
<1>1. TypeOK /\ s \in Proc /\ s \notin Client
  BY ClusterAssumption DEF CoreInv, TypeInv, Proc
<1>2. ASSUME UNCHANGED vt, NoneAsked,
             \A k \in Key, item \in Item : OnItsWay(k, item)' => OnItsWay(k, item),
             \A k \in Key, item \in Item : Lies(k, item)' => Lies(k, item)
      PROVE  Agrees(L)'
  <2>1. Spreads /\ \A t \in Server : Ticks(t)
    BY <1>2 DEF Spreads, Ticks
  <2> QED
    BY <1>1, <1>2, <2>1, SpreadAgrees
<1>3. CASE \/ FindCall(s) \/ UsersCall(s) \/ JoinCall(s) \/ BcastCall(s)
           \/ \E x \in todo[s] : CopyUser(s, x)
  <2>1. PICK x \in Server : \E o : Send(s, x, o) /\ ServerOp(s, o)
    BY <1>3, ServerSends
  <2>2. UNCHANGED <<vt, pc, job>>
    BY <1>3, ServerSends
  <2>3. \A k \in Key, item \in Item : OnItsWay(k, item)' => OnItsWay(k, item)
    BY <1>1, <2>1, <2>2, ServerPosts, SentItems
  <2>4. ASSUME NEW k \in Key, NEW item \in Item, Lies(k, item)'
        PROVE  Lies(k, item)
    <3>1. CASE UNCHANGED lists
      BY <2>4, <3>1, LiesStay
    <3>2. ASSUME NEW u \in todo[s], CopyUser(s, u)
          PROVE  Lies(k, item)
      <4> DEFINE m == StoreAddToList(lists[s], UserList, Plain(u)).map
      <4>1. lists' = [lists EXCEPT ![s] = m]
        BY <3>2 DEF CopyUser, UserCopied
      <4>2. IsTribble(k) /\ item \in ItemsAt(m, k) => item \in ItemsAt(lists[s], k)
        <5>1. ~IsTribble(UserList)
          BY DEF IsTribble, UserList
        <5> QED
          BY <5>1, AddedItems
      <4> HIDE DEF m
      <4>3. Lies(k, item) \/ (IsTribble(k) /\ item \in ItemsAt(m, k))
        BY <1>1, <2>4, <4>1, LiesMoves
      <4> QED
        BY <4>2, <4>3 DEF Lies
    <3> QED
      BY <1>3, <3>1, <3>2 DEF FindCall, UsersCall, JoinCall, BcastCall
  <2> QED
    BY <1>1, <1>2, <2>1, <2>2, <2>3, <2>4, ServerAsksNone
<1>4. CASE \/ Boot(s) \/ FindAnswer(s) \/ FindRefused(s) \/ FindDone(s) \/ UsersAnswer(s)
           \/ CopySubs(s) \/ CopyDone(s) \/ JoinAnswer(s) \/ JoinDone(s)
           \/ BcastAnswer(s) \/ BcastRejected(s) \/ BcastErased(s) \/ BcastDone(s)
  <2>1. /\ UNCHANGED <<vt, inbox>>
        /\ \A t \in Server : pc'[t] = "bcast" => pc[t] = "bcast" /\ job'[t] = job[t]
    BY <1>1, <1>4
       DEF Boot, FindAnswer, FindRefused, FindDone, FinishBoot, UsersAnswer, CopySubs, CopyDone,
           JoinAnswer, JoinDone, BcastAnswer, BcastRejected, BcastErased, BcastDone, BcastStop,
           TypeOK
  <2>2. \A k \in Key, item \in Item : OnItsWay(k, item)' => OnItsWay(k, item)
    BY <2>1, KeptItems
  <2>3. NoneAsked
    BY <2>1, NoneAskedKept
  <2>4. ASSUME NEW k \in Key, NEW item \in Item, Lies(k, item)'
        PROVE  Lies(k, item)
    <3>1. CASE UNCHANGED lists
      BY <2>4, <3>1, LiesStay
    <3>2. CASE CopySubs(s)
      <4> DEFINE m == IF call[s].values = {} THEN lists[s]
                      ELSE Bind(lists[s], call[s].op.key,
                                ItemsAt(lists[s], call[s].op.key) \cup call[s].values)
      <4>1. lists' = [lists EXCEPT ![s] = m] /\ ~IsTribble(call[s].op.key)
        BY <3>2 DEF CopySubs, StampsInv, CopyCalls, Answered, Idle
      <4>2. IsTribble(k) /\ item \in ItemsAt(m, k) => item \in ItemsAt(lists[s], k)
        BY <4>1, BindItems
      <4> HIDE DEF m
      <4>3. Lies(k, item) \/ (IsTribble(k) /\ item \in ItemsAt(m, k))
        BY <1>1, <2>4, <4>1, LiesMoves
      <4> QED
        BY <4>2, <4>3 DEF Lies
    <3> QED
      BY <1>4, <3>1, <3>2
         DEF Boot, FindAnswer, FindRefused, FindDone, FinishBoot, UsersAnswer, CopyDone,
             JoinAnswer, JoinDone, BcastAnswer, BcastRejected, BcastErased, BcastDone, BcastStop
  <2> QED
    BY <1>2, <2>1, <2>2, <2>3, <2>4
<1>5. CASE Handler(s)
  <2>1. Trusted(s)
    BY <1>5 DEF Handler, Read, Put, AddToList, PostTribble, ReceiveTribble, RemoveFromList,
       HasTribble, HasRequest, Listening, Trusted
  <2> QED
    BY <1>5, <2>1, HandlerAgrees
<1>6. CASE ReceiveThrows(s)
  <2>1. /\ pc[s] = "serve" /\ inbox[s] # <<>> /\ Take(s)
        /\ UNCHANGED <<pc, idx, job, lists, starts>> /\ vt' = [vt EXCEPT ![s] = Inc(@, s)]
    BY <1>6 DEF ReceiveThrows, HasTribble, HasRequest
  <2>2. Ticks(s) /\ \A t \in Server : t # s => vt'[t] = vt[t]
    BY <1>1, <2>1 DEF Ticks, TypeOK
  <2>3. \A k \in Key, item \in Item : Lies(k, item)' => Lies(k, item)
    BY <2>1, LiesStay
  <2>4. /\ \A k \in Key, item \in Item : OnItsWay(k, item)' => OnItsWay(k, item)
        /\ NoneAsked
    BY <1>1, <2>1, TakenItems, TakeAsksNone
  <2>5. Spreads /\ \A t \in Server : Ticks(t)
    BY <2>2, <2>3, <2>4 DEF Spreads, Ticks
  <2> QED
    BY <1>1, <2>4, <2>5, SpreadAgrees
<1>7. CASE GiveUp(s) \/ ReceiveFault(s) \/ BcastFault(s) \/ Crash(s)
  BY <1>1, <1>7, HaltAgrees DEF GiveUp, ReceiveFault, BcastFault, Crash
<1> QED
  BY <1>3, <1>4, <1>5, <1>6, <1>7 DEF ServerStep, BootStep, HandlerFails, BcastStep

\* A Tribbler server's call or its end.
LEMMA ClientAgrees ==
    ASSUME CoreInv, TypeOK', NEW L \in SUBSET Posting, Agrees(L), NEW M \in SUBSET L,
           NEW c \in Client, UNCHANGED <<vt, pc, job, lists, starts>>,
           \/ UNCHANGED inbox
           \/ \E op \in Op : /\ Send(c, Entry[c], op)
                             /\ IsPost(op) => PostOf(op.key, op.item) \in L \ M
    PROVE  Agrees(M)'
<1>1. TypeOK /\ c \in Proc /\ c \notin Server /\ Entry[c] \in Server
  BY ClusterAssumption DEF CoreInv, TypeInv, Proc
<1>2. \A k \in Key, item \in Item : OnItsWay(k, item)' => OnItsWay(k, item)
  BY <1>1, SentItems, KeptItems
<1>3. Spreads /\ \A t \in Server : Trusted(t)' => Trusted(t) /\ Ticks(t)
  BY <1>2, LiesStay DEF Spreads, Ticks, Trusted, Listening
<1>4. \A m \in Posting : Copied(m)' => Copied(m)
  BY <1>3, SpreadCopies
<1>5. Fresh(M)'
  BY <1>1, <1>4, FreshAsked, FreshKept, NoneAskedKept DEF Agrees
<1>6. \E by, sent : Authored(by, sent)'
  BY <1>1, <1>3, SpreadKeeps DEF Agrees
<1> QED
  BY <1>5, <1>6 DEF Agrees

\* A step of anybody that copies nothing and asks for nothing.
LEMMA QuietAgrees ==
    ASSUME TypeOK, TypeOK', NEW L \in SUBSET Posting, Agrees(L),
           UNCHANGED <<pc, job, inbox, lists, vt, starts>>
    PROVE  Agrees(L)'
<1>1. NoneAsked /\ \A k \in Key, item \in Item : OnItsWay(k, item)' => OnItsWay(k, item)
  BY NoneAskedKept, KeptItems
<1>2. Spreads /\ \A t \in Server : Trusted(t)' => Trusted(t) /\ Ticks(t)
  BY <1>1, LiesStay DEF Spreads, Ticks, Trusted, Listening
<1> QED
  BY <1>1, <1>2, SpreadAgrees

\* The end of a Tribbler server.
LEMMA ClientEndsAgrees ==
    ASSUME TypeOK, TypeOK', NEW L \in SUBSET Posting, Agrees(L), NEW c \in Client, ClientEnds(c)
    PROVE  Agrees(L)'
<1>1. UNCHANGED <<vt, pc, lists, starts>> /\ \A t \in Server : inbox'[t] = OrphanedCalls(inbox[t], c)
  BY DEF ClientEnds
<1>2. NoneAsked
  <2>1. ASSUME NEW t \in Server, NEW n \in DOMAIN inbox'[t]
        PROVE  /\ n \in DOMAIN inbox[t]
               /\ inbox'[t][n].from = inbox[t][n].from /\ inbox'[t][n].kind = inbox[t][n].kind
               /\ inbox'[t][n].key = inbox[t][n].key /\ inbox'[t][n].item = inbox[t][n].item
    <3>1. c \in Proc
      BY DEF Proc
    <3> QED
      BY <1>1, <2>1, <3>1, OrphanedSame
  <2> QED
    BY <2>1, NoneAskedKept
<1>3. Spreads /\ \A t \in Server : Trusted(t)' => Trusted(t) /\ Ticks(t)
  BY <1>1, ClientEndsItems, LiesStay DEF Spreads, Ticks, Trusted, Listening
<1> QED
  BY <1>2, <1>3, SpreadAgrees

\* The steps of servers while nobody serves again.
LEMMA ServerAgreesOn ==
    ASSUME NoForgery, CoreInv, CoreInv', StampsInv, LeadInv, NEW L \in SUBSET Posting,
           NobodyIsBack => Agrees(L), NobodyIsBack',
           NEW s \in Server, Boot(s) \/ ServerStep(s) \/ Crash(s)
    PROVE  Agrees(L)'
<1>1. TypeOK /\ TypeOK' /\ StartsInv
  BY DEF CoreInv, TypeInv, LeadInv
<1>2. NobodyIsBack /\ \A u \in Server : Trusted(u)' => Trusted(u)
  BY <1>1, TrustLasts
<1>3. Agrees(L) /\ \A u \in Server : Trusted(u) => Leads(u)
  BY <1>2 DEF LeadInv
<1> QED
  BY <1>1, <1>2, <1>3, ServerAgrees

\* No server touches the plans.
LEMMA ServerPlans ==
    ASSUME NEW s \in Server, Boot(s) \/ ServerStep(s) \/ Crash(s)
    PROVE  UNCHANGED plan
<1>1. CASE Boot(s) \/ BootStep(s) \/ Crash(s)
  BY <1>1 DEF Boot, BootStep, Crash, FindCall, FindAnswer, FindRefused, FindDone, UsersCall,
     UsersAnswer, CopyUser, CopySubs, CopyDone, GiveUp, JoinCall, JoinAnswer, JoinDone, Halt
<1>2. CASE Handler(s)
  BY <1>2 DEF Handler, Read, Put, AddToList, PostTribble, ReceiveTribble, RemoveFromList
<1>3. CASE HandlerFails(s) \/ BcastStep(s)
  BY <1>3 DEF HandlerFails, ReceiveThrows, ReceiveFault, BcastStep, BcastCall, BcastAnswer,
     BcastRejected, BcastErased, BcastFault, BcastDone, BcastStop, Halt
<1> QED
  BY <1>1, <1>2, <1>3 DEF ServerStep

\* What is left of a plan is of the plan.
LEMMA PlansNext == CoreInv /\ PlansKept /\ [Next]_vars => PlansKept'
<1> SUFFICES ASSUME CoreInv, PlansKept, [Next]_vars PROVE PlansKept'
  OBVIOUS
<1>1. TypeOK
  BY DEF CoreInv, TypeInv
<1>2. ASSUME NEW c \in Client, ClientCall(c)
      PROVE  PlansKept'
  <2>1. PICK o \in plan[c] : plan' = [plan EXCEPT ![c] = @ \ {o}]
    BY <1>2 DEF ClientCall
  <2> QED
    BY <1>1, <2>1 DEF PlansKept, TypeOK
<1>4. ASSUME NEW c \in Client, ClientReturn(c) \/ ClientCrash(c)
      PROVE  UNCHANGED plan
  BY <1>4 DEF ClientReturn, ClientCrash, ClientEnds
<1>5. CASE UNCHANGED vars
  BY <1>5 DEF vars, PlansKept
<1> QED
  BY <1>2, <1>4, <1>5, ServerPlans DEF Next, ClientStep, Settled, PlansKept

\* A call takes the post it asks for out of the plans: it was in no other.
LEMMA CallPlanned ==
    ASSUME PostedOnce, CoreInv, PlansKept, NEW c \in Client, NEW op \in plan[c],
           plan' = [plan EXCEPT ![c] = @ \ {op}]
    PROVE  /\ op \in Op /\ PlannedPosts' \subseteq PlannedPosts
           /\ IsPost(op) => PostOf(op.key, op.item) \in PlannedPosts \ PlannedPosts'
<1>1. TypeOK /\ \A d \in Client : plan[d] \subseteq Plan[d] /\ Plan[d] \subseteq Op
  BY ClusterAssumption DEF CoreInv, TypeInv, PlansKept
<1>2. \A d \in Client : plan'[d] = IF d = c THEN plan[c] \ {op} ELSE plan[d]
  BY <1>1 DEF TypeOK
<1>3. op \in Op
  BY <1>1
<1>4. PlannedPosts' \subseteq PlannedPosts
  BY <1>2 DEF PlannedPosts, IsPost, PostOf
<1>5. ASSUME IsPost(op) PROVE PostOf(op.key, op.item) \in PlannedPosts
  BY <1>3, <1>5 DEF PlannedPosts, PostOf, Posting, Op, Item
<1>6. ASSUME IsPost(op), PostOf(op.key, op.item) \in PlannedPosts' PROVE FALSE
  <2>1. PICK d \in Client : \E o \in plan'[d] :
           IsPost(o) /\ PostOf(op.key, op.item) = PostOf(o.key, o.item)
    BY <1>6 DEF PlannedPosts, IsPost, PostOf
  <2>2. PICK o \in plan'[d] : IsPost(o) /\ PostOf(op.key, op.item) = PostOf(o.key, o.item)
    BY <2>1
  <2>3. o \in Plan[d] /\ o \in Op /\ op \in Plan[c]
    BY <1>1, <1>2, <2>2
  <2>4. o.item.vt = NoStamp /\ op.item.vt = NoStamp
    BY <2>3, PlanAssumption
  <2>5. o = op
    BY <1>3, <1>6, <2>2, <2>3, <2>4 DEF PostOf, Op, Item, IsPost
  <2>6. d = c
    BY <1>6, <2>3, <2>5 DEF PostedOnce
  <2> QED
    BY <1>2, <2>2, <2>5, <2>6
<1> QED
  BY <1>3, <1>4, <1>5, <1>6

\* Every step preserves the strengthening.
LEMMA AgreeNext ==
    ASSUME PostedOnce, NoForgery, CoreInv, CoreInv', StampsInv, LeadInv, AgreeInv, [Next]_vars
    PROVE  AgreeInv'
<1>1. TypeOK /\ TypeOK' /\ PlansKept /\ PlansKept'
  BY PlansNext DEF CoreInv, TypeInv, AgreeInv
<1> SUFFICES ASSUME NobodyIsBack' PROVE Agrees(PlannedPosts)'
  BY <1>1 DEF AgreeInv
<1>2. PICK L : L = PlannedPosts
  OBVIOUS
<1>3. PICK M : M = PlannedPosts'
  OBVIOUS
<1>4. L \in SUBSET Posting /\ (NobodyIsBack => Agrees(L))
  BY <1>2 DEF AgreeInv, PlannedPosts
<1>5. Agrees(M)' => Agrees(PlannedPosts)'
  BY <1>3 DEF Agrees, Fresh
<1>6. ASSUME UNCHANGED plan, Agrees(L)'
      PROVE  Agrees(PlannedPosts)'
  <2>1. M = L
    BY <1>2, <1>3, <1>6 DEF PlannedPosts
  <2> QED
    BY <1>5, <1>6, <2>1
<1>7. ASSUME NEW s \in Server, Boot(s) \/ ServerStep(s) \/ Crash(s)
      PROVE  Agrees(PlannedPosts)'
  <2>1. Agrees(L)'
    BY <1>4, <1>7, ServerAgreesOn
  <2>2. UNCHANGED plan
    BY <1>7, ServerPlans
  <2> QED
    BY <1>6, <2>1, <2>2
<1>8. ASSUME NEW c \in Client, ClientStep(c)
      PROVE  Agrees(PlannedPosts)'
  <2>1. UNCHANGED <<pc, starts>>
    BY <1>8 DEF ClientStep, ClientCall, ClientReturn, ClientCrash, ClientEnds
  <2>2. Agrees(L)
    BY <1>1, <1>4, <2>1, TrustLasts
  <2>3. CASE ClientCall(c)
    <3>1. PICK op \in plan[c] : Send(c, Entry[c], op) /\ plan' = [plan EXCEPT ![c] = @ \ {op}]
      BY <2>3 DEF ClientCall
    <3>2. op \in Op /\ M \subseteq L /\ (IsPost(op) => PostOf(op.key, op.item) \in L \ M)
      BY <1>1, <1>2, <1>3, <3>1, CallPlanned
    <3>3. UNCHANGED <<vt, pc, job, lists, starts>>
      BY <2>3 DEF ClientCall
    <3> QED
      BY <1>1, <1>4, <1>5, <2>2, <3>1, <3>2, <3>3, ClientAgrees
  <2>4. CASE ClientReturn(c)
    <3>1. UNCHANGED <<vt, pc, job, lists, inbox, plan, starts>>
      BY <2>4 DEF ClientReturn
    <3> QED
      BY <1>1, <1>4, <1>6, <2>2, <3>1, QuietAgrees
  <2>5. CASE ClientCrash(c)
    <3>1. ClientEnds(c) /\ UNCHANGED plan
      BY <2>5 DEF ClientCrash, ClientEnds
    <3> QED
      BY <1>1, <1>4, <1>6, <2>2, <3>1, ClientEndsAgrees
  <2> QED
    BY <1>8, <2>3, <2>4, <2>5 DEF ClientStep
<1>9. CASE UNCHANGED vars
  <2>1. UNCHANGED <<pc, job, inbox, lists, vt, plan, starts>>
    BY <1>9 DEF vars
  <2>2. NobodyIsBack
    BY <1>1, <2>1, TrustLasts
  <2> QED
    BY <1>1, <1>4, <1>6, <2>1, <2>2, QuietAgrees
<1> QED
  BY <1>7, <1>8, <1>9 DEF Next, Settled

\* At first nothing is posted.
LEMMA InitAgrees ==
    ASSUME Init, NEW L \in SUBSET Posting
    PROVE  Agrees(L)
<1>1. \A k, item : ~OnItsWay(k, item) /\ ~Lies(k, item)
  BY DEF Init, OnItsWay, Lies, ItemsAt, NoMap
<1>2. \A m : ~Copied(m)
  BY <1>1 DEF Copied
<1>3. \A m, n : \A t \in Server : ~AskedAt(m, t, n)
  BY DEF Init, AskedAt
<1>4. Fresh(L)
  BY <1>2, <1>3 DEF Fresh
<1> DEFINE by   == [m \in Posting |-> 1]
           sent == [m \in Posting |-> Zero]
<1>5. by \in [Posting -> Server] /\ sent \in [Posting -> Stamp]
  BY NAssumption, ZeroType DEF Server
<1> HIDE DEF by, sent
<1>6. Authored(by, sent)
  BY <1>1, <1>2, <1>5 DEF Authored, StampsFit, ClocksFit, PostsKnown
<1> QED
  BY <1>4, <1>6 DEF Agrees

\* At first every call is still to be made, too.
LEMMA InitAgree == Init => AgreeInv
<1> SUFFICES ASSUME Init PROVE AgreeInv
  OBVIOUS
<1>1. PlansKept
  BY DEF Init, PlansKept
<1> QED
  BY <1>1, InitAgrees DEF AgreeInv, PlannedPosts

\* Until a server comes to serve again, any two servers show any two readable tribbles in
\* the same order, when nobody posts the same thing twice and no contents are read with a
\* stamp of their own making: however many servers there are, whoever posts through which
\* of them, whatever crashes on the way and whoever boots for the first time.
THEOREM TribblesStayInOrder == ASSUME PostedOnce, NoForgery PROVE Spec => []OrderAgreement
<1>1. Init => CoreInv /\ StampsInv /\ LeadInv /\ AgreeInv
  BY InitCore, InitStamps, InitLead, InitAgree
<1>2. /\ CoreInv /\ StampsInv /\ LeadInv /\ AgreeInv /\ [Next]_vars
      => (CoreInv /\ StampsInv /\ LeadInv /\ AgreeInv)'
  BY NextCore, StampsNext, LeadNext, AgreeNext
<1>3. CoreInv /\ AgreeInv => OrderAgreement
  BY AgreeInvOrders DEF AgreeInv, CoreInv, TypeInv
<1> QED
  BY <1>1, <1>2, <1>3, PTL DEF Spec

-----------------------------------------------------------------------------
(* Calls. *)

\* Counting the requests of a caller.
LEMMA CallsCounted == CoreInv => OneRequestPerCall
<1> SUFFICES ASSUME CoreInv, NEW p \in Proc, NEW s \in Server
             PROVE  Cardinality(RequestsAt(p, s)) =
                      IF Waiting(p) /\ call[p].to = s THEN 1 ELSE 0
  BY DEF OneRequestPerCall
<1>1. CallOK(p)
  BY DEF CoreInv, CallsOK
<1>2. CASE RequestsAt(p, s) = {}
  <2>1. ~(Waiting(p) /\ call[p].to = s)
    BY <1>1, <1>2 DEF CallOK
  <2> QED
    BY <1>2, <2>1, FS_EmptySet
<1>3. CASE RequestsAt(p, s) # {}
  <2>1. PICK m \in RequestsAt(p, s) : TRUE
    BY <1>3
  <2>2. Waiting(p) /\ call[p].to = s /\ RequestsAt(p, s) = {m}
    BY <1>1, <2>1 DEF CallOK
  <2> QED
    BY <2>2, FS_Singleton
<1> QED
  BY <1>2, <1>3

\* A caller is blocked exactly while the server it called holds its one request.
THEOREM RequestsMatchCalls == Spec => []OneRequestPerCall
  BY CallsCounted, CoreCorrect, PTL
=============================================================================
