-------------------------- MODULE KVClusterProofs --------------------------
(***************************************************************************)
(* Proofs about the key-value cluster for every number of servers, every   *)
(* set of Tribbler servers and every plan of calls: types, calls, members  *)
(* and waiting.                                                            *)
(***************************************************************************)
EXTENDS KVClusterProperties, TLAPS, SequenceTheorems, WellFoundedInduction

-----------------------------------------------------------------------------
(* Peers and indices. *)

\* An index names another server.
LEMMA PeerType ==
    ASSUME NEW s \in Server, NEW i \in Index
    PROVE  Peer(s, i) \in Server /\ Peer(s, i) # s
  BY NAssumption DEF Server, Index, Peer

\* processCommand inverts the numbering of the command line: the index it adds
\* for a caller is the one that leads back to it.
LEMMA PeerOfIndex ==
    ASSUME NEW s \in Server, NEW t \in Server, s # t
    PROVE  IndexOf(s, t) \in Index /\ Peer(s, IndexOf(s, t)) = t
  BY NAssumption DEF Server, Index, Peer, IndexOf

-----------------------------------------------------------------------------
(* Timestamps. *)

\* A server's first stamp is a stamp.
LEMMA ZeroType == Zero \in Stamp
  BY DEF Zero, Stamp

\* Inc makes a stamp that is one more for its server and covers the old one.
LEMMA IncType ==
    ASSUME NEW v \in Stamp, NEW p \in Server
    PROVE  /\ Inc(v, p) \in Stamp
           /\ Inc(v, p)[p] = v[p] + 1
           /\ Leq(v, Inc(v, p))
  BY DEF Inc, Stamp, Leq

\* Update makes a stamp, whatever vector a message could be decoded to.
LEMMA UpdateType ==
    ASSUME NEW v \in Stamp, NEW w \in Seq(Int)
    PROVE  Update(v, w) \in Stamp
<1>1. DOMAIN w \subseteq Nat /\ \A i \in DOMAIN w : w[i] \in Int
  OBVIOUS
<1> QED
  BY <1>1 DEF Update, Stamp

\* Update is an upper bound of both.
LEMMA UpdateBounds ==
    ASSUME NEW v \in Stamp, NEW w \in Seq(Int)
    PROVE  Leq(v, Update(v, w)) /\ Leq(w, Update(v, w))
<1>1. DOMAIN w \subseteq Nat /\ \A i \in DOMAIN w : w[i] \in Int
  OBVIOUS
<1> QED
  BY <1>1 DEF Update, Stamp, Leq

\* A stamp is a vector, and so is no stamp.
LEMMA StampVector == AnyStamp \subseteq Seq(Int)
<1>1. NoStamp \in Seq(Int)
  <2>1. NoStamp = <<>>
    BY DEF NoStamp
  <2> QED
    BY <2>1
<1>2. ASSUME NEW v \in Stamp
      PROVE  v \in Seq(Int)
  <2>1. v \in [1..N -> Int] /\ N \in Nat
    BY NAssumption DEF Stamp, Server
  <2> QED
    BY <2>1
<1> QED
  BY <1>1, <1>2 DEF AnyStamp

\* A stamp covered by a covered stamp is covered.
LEMMA LeqTransitive ==
    ASSUME NEW u \in AnyStamp, NEW v \in Stamp, NEW w \in Stamp,
           Leq(u, v), Leq(v, w)
    PROVE  Leq(u, w)
  BY DEF Leq, Stamp, AnyStamp, NoStamp

\* The order GetTribbles sorts by extends the order of causes and effects: a
\* stamp below another one in every component is sorted below it.
LEMMA CausesSortFirst ==
    ASSUME NEW v \in AnyStamp, NEW w \in Stamp, Leq(v, w),
           NEW p \in Server, v \in Stamp => v[p] < w[p]
    PROVE  PostedLess(v, w)
<1>1. CASE v = NoStamp
  <2>1. DOMAIN v = {} /\ DOMAIN w = Server
    BY <1>1 DEF NoStamp, Stamp
  <2> QED
    BY <2>1 DEF PostedLess
<1>2. CASE v \in Stamp
  <2> DEFINE D == {i \in Server : v[i] < w[i]}
  <2>1. D \subseteq Nat /\ D # {}
    BY <1>2 DEF Server
  <2>2. PICK i \in D : \A j \in D : ~(<<j, i>> \in OpToRel(<, Nat))
    BY <2>1, NatLessThanWellFounded, WFMin
  <2>3. DOMAIN v = Server /\ DOMAIN w = Server
    BY <1>2 DEF Stamp
  <2>4. ASSUME NEW j \in Server, j < i
        PROVE  v[j] = w[j]
    <3>1. j \notin D
      <4>1. j \in Nat /\ i \in Nat
        BY <2>1 DEF Server
      <4>2. <<j, i>> \in OpToRel(<, Nat)
        BY <4>1, <2>4 DEF OpToRel
      <4> QED
        BY <4>2, <2>2
    <3>2. v[j] <= w[j]
      BY <2>3 DEF Leq
    <3>3. v[j] \in Nat /\ w[j] \in Nat
      BY <1>2 DEF Stamp
    <3> QED
      BY <3>1, <3>2, <3>3
  <2>5. i \in DOMAIN v \cap DOMAIN w /\ v[i] < w[i]
    BY <2>3
  <2>6. \A j \in DOMAIN v \cap DOMAIN w : j < i => v[j] = w[j]
    BY <2>3, <2>4
  <2> QED
    BY <2>5, <2>6 DEF PostedLess
<1> QED
  BY <1>1, <1>2 DEF AnyStamp

-----------------------------------------------------------------------------
(* The storage of one server. *)

\* An item of a list of texts is an item, without a stamp.
LEMMA PlainType == \A u \in Text : Plain(u) \in Item
  BY DEF Plain, Item, AnyStamp

\* Whatever the text is, what ToMessage returns is a message.
LEMMA ToMessageType ==
    ASSUME NEW item \in Item
    PROVE  ToMessage(item).value \in Text /\ ToMessage(item).vt \in Seq(Int)
<1>1. item.value \in Text /\ item.vt \in Seq(Int)
  BY StampVector DEF Item
<1>2. CASE IsReadable(item)
  BY <1>1, <1>2 DEF ToMessage
<1>3. CASE ~IsReadable(item)
  <2>1. ReadingOf(item) \in Reading
    BY <1>1, <1>3, MessageAssumption DEF ReadingOf, IsReadable
  <2> QED
    BY <1>1, <1>3, <2>1 DEF ToMessage, Reading
<1> QED
  BY <1>2, <1>3

\* The keys that the servers make themselves are keys.
LEMMA KeyType ==
    /\ UserList \in Key /\ ServerStatus \in Key /\ ServerId \in Key
    /\ ServerSyscmd \in Key
    /\ \A u \in Text : UserKey(u) \in Key /\ SubKey(u) \in Key /\ TribbleKey(u) \in Key
  BY TextAssumption DEF UserList, ServerStatus, ServerId, ServerSyscmd, UserKey,
     SubKey, TribbleKey, Key, Suffix, Reserved

\* Binding one more key keeps a map a map of the same values.
LEMMA BindType ==
    ASSUME NEW V, NEW f, IsMap(f, V), NEW k \in Key, NEW v \in V
    PROVE  IsMap(Bind(f, k, v), V)
  BY DEF IsMap, Bind

\* The empty map is a map of any values.
LEMMA NoMapType == \A V : IsMap(NoMap, V)
  BY DEF IsMap, NoMap

\* setServerInfo keeps _simpleStorage a map of texts.
LEMMA SetServerInfoType ==
    ASSUME NEW m, IsMap(m, Text), NEW k \in Key, NEW u \in Text
    PROVE  IsMap(SetServerInfo(m, k, u), Text)
  BY BindType DEF SetServerInfo

\* The strings of the code are texts.
LEMMA ReservedText ==
    /\ "syncing" \in Text /\ "running" \in Text /\ "id" \in Text
    /\ "join cluster" \in Text /\ "" \in Text
  BY TextAssumption DEF Reserved

\* What the constructor stores, first and last, is a map of texts.
LEMMA BootInfoType == IsMap(BootInfo, Text) /\ IsMap(RunningInfo, Text)
<1>1. IsMap(BootInfo, Text)
  BY NoMapType, SetServerInfoType, KeyType, ReservedText DEF BootInfo
<1>2. IsMap(RunningInfo, Text)
  BY <1>1, SetServerInfoType, KeyType, ReservedText DEF RunningInfo
<1> QED
  BY <1>1, <1>2

\* The items under a key are items, also when there is no such key.
LEMMA ItemsAtType ==
    ASSUME NEW m, IsMap(m, SUBSET Item), NEW k
    PROVE  ItemsAt(m, k) \in SUBSET Item
  BY DEF IsMap, ItemsAt

\* _Get answers with a status and items.
LEMMA StoreGetType ==
    ASSUME NEW m, IsMap(m, Text), NEW k \in Key
    PROVE  StoreGet(m, k).status \in Status /\ StoreGet(m, k).values \in SUBSET Item
  BY PlainType DEF StoreGet, IsMap, Status

\* _GetList answers with a status and items.
LEMMA StoreGetListType ==
    ASSUME NEW m, IsMap(m, SUBSET Item), NEW k \in Key
    PROVE  /\ StoreGetList(m, k).status \in Status
           /\ StoreGetList(m, k).values \in SUBSET Item
  BY DEF StoreGetList, IsMap, Status

\* _Put returns a status and leaves a map of texts.
LEMMA StorePutType ==
    ASSUME NEW m, IsMap(m, Text), NEW k \in Key, NEW u \in Text
    PROVE  StorePut(m, k, u).status \in Status /\ IsMap(StorePut(m, k, u).map, Text)
  BY BindType DEF StorePut, Status

\* _AddToList returns a status and leaves a map of sets of items.
LEMMA StoreAddToListType ==
    ASSUME NEW m, IsMap(m, SUBSET Item), NEW k \in Key, NEW item \in Item
    PROVE  /\ StoreAddToList(m, k, item).status \in Status
           /\ IsMap(StoreAddToList(m, k, item).map, SUBSET Item)
<1>1. ItemsAt(m, k) \cup {item} \in SUBSET Item
  BY ItemsAtType
<1> QED
  BY <1>1, BindType DEF StoreAddToList, Status

\* _RemoveFromList returns a status and leaves a map of sets of items.
LEMMA StoreRemoveFromListType ==
    ASSUME NEW m, IsMap(m, SUBSET Item), NEW k \in Key, NEW item \in Item
    PROVE  /\ StoreRemoveFromList(m, k, item).status \in Status
           /\ IsMap(StoreRemoveFromList(m, k, item).map, SUBSET Item)
<1>1. k \in DOMAIN m => m[k] \ {item} \in SUBSET Item
  BY DEF IsMap
<1> QED
  BY <1>1, BindType DEF StoreRemoveFromList, Status

\* One server's map changes.
LEMMA MapsExcept ==
    ASSUME NEW V, NEW f, AreMaps(f, V), NEW s \in Server, NEW m, IsMap(m, V)
    PROVE  AreMaps([f EXCEPT ![s] = m], V)
<1> DEFINE g == [f EXCEPT ![s] = m]
<1>1. g \in [Server -> {g[t] : t \in Server}]
  BY DEF AreMaps
<1>2. \A t \in Server : IsMap(g[t], V)
  BY DEF AreMaps
<1> QED
  BY <1>1, <1>2 DEF AreMaps

-----------------------------------------------------------------------------
(* Calls. *)

\* A process that has made no call is described by a call.
LEMMA NoCallType == NoCall \in Call /\ NoCall.st = "idle" /\ NoJob \in Request
<1>1. 1 \in Server
  BY NAssumption DEF Server
<1>2. Plain("") \in Item /\ ServerStatus \in Key
  BY PlainType, ReservedText, KeyType
<1> QED
  BY <1>1, <1>2 DEF NoCall, MakeCall, NoOp, NoJob, Call, Op, Kind, Status, Request, Proc

\* A call that is over leaves its caller idle and the other calls as they were.
LEMMA ForgetType ==
    ASSUME TypeOK, NEW p \in Proc, Forget(p)
    PROVE  /\ call' \in [Proc -> Call]
           /\ call'[p].st = "idle"
           /\ \A q \in Proc : q # p => call'[q] = call[q]
  BY NoCallType DEF Forget, TypeOK

\* A call that is sent is a call, and reaches a queue of requests.
LEMMA SendType ==
    ASSUME TypeOK, NoSelfCalls, NEW p \in Proc, NEW t \in Server, p # t,
           NEW o \in Op, Send(p, t, o)
    PROVE  /\ call' \in [Proc -> Call]
           /\ \A q \in Proc : q # p => call'[q] = call[q]
           /\ inbox' \in [Server -> Seq(Request)]
           /\ NoSelfCalls'
<1>1. CASE Listening(t)
  <2> DEFINE r == [from |-> p, live |-> TRUE, kind |-> o.kind, key |-> o.key,
                   item |-> o.item]
  <2>1. r \in Request
    BY DEF Op, Request
  <2>2. MakeCall("waiting", t, o, "OK", {}) \in Call
    BY DEF MakeCall, Call, Status
  <2>3. inbox' = [inbox EXCEPT ![t] = Append(@, r)]
    BY <1>1 DEF Send
  <2>4. inbox' \in [Server -> Seq(Request)]
    BY <2>1, <2>3 DEF TypeOK
  <2>5. NoSelfCalls'
    BY <2>1, <2>3 DEF TypeOK, NoSelfCalls
  <2> QED
    BY <1>1, <2>2, <2>4, <2>5 DEF Send, TypeOK
<1>2. CASE ~Listening(t)
  <2>1. MakeCall("broken", t, o, "INTERNAL_FAILURE", {}) \in Call
    BY DEF MakeCall, Call, Status
  <2> QED
    BY <1>2, <2>1 DEF Send, TypeOK, NoSelfCalls
<1> QED
  BY <1>1, <1>2

\* An answer leaves the calls calls, and nobody but its caller's is another.
LEMMA ReplyType ==
    ASSUME TypeOK, NEW req \in Request, NEW status \in Status,
           NEW values \in SUBSET Item, Reply(req, status, values)
    PROVE  /\ call' \in [Proc -> Call]
           /\ \A q \in Proc : call[q].st = "idle" /\ q # req.from => call'[q].st = "idle"
           /\ \A q \in Proc : q # req.from => call'[q] = call[q]
  BY DEF Reply, Ended, MakeCall, TypeOK, Request, Call

\* Taking a request leaves queues of requests, none of which are a server's
\* own.
LEMMA TakeType ==
    ASSUME TypeOK, NoSelfCalls, NEW s \in Server, inbox[s] # <<>>, Take(s)
    PROVE  /\ inbox' \in [Server -> Seq(Request)]
           /\ Head(inbox[s]) \in Request
           /\ Head(inbox[s]).from # s
           /\ NoSelfCalls'
<1>1. inbox[s] \in Seq(Request)
  BY DEF TypeOK
<1>2. /\ Head(inbox[s]) \in Request /\ Tail(inbox[s]) \in Seq(Request)
      /\ Head(inbox[s]) = inbox[s][1] /\ 1 \in DOMAIN inbox[s]
      /\ \A n \in DOMAIN Tail(inbox[s]) :
            /\ n + 1 \in DOMAIN inbox[s] 
            /\ Tail(inbox[s])[n] = inbox[s][n + 1]
  BY <1>1
<1> QED
  BY <1>2 DEF Take, TypeOK, NoSelfCalls

\* The requests of a caller that died stay where they are.
LEMMA OrphanedType ==
    ASSUME NEW q \in Seq(Request), NEW p
    PROVE  /\ OrphanedCalls(q, p) \in Seq(Request)
           /\ DOMAIN OrphanedCalls(q, p) = DOMAIN q
           /\ \A n \in DOMAIN q : /\ q[n] \in Request
                                  /\ OrphanedCalls(q, p)[n].from = q[n].from
                                  /\ OrphanedCalls(q, p)[n].live <=> q[n].live /\ q[n].from # p
<1>1. PICK m \in Nat : q \in [1..m -> Request]
  OBVIOUS
<1>2. OrphanedCalls(q, p) = [n \in 1..m |-> Orphaned(q[n], p)]
  BY <1>1 DEF OrphanedCalls
<1>3. \A n \in 1..m : /\ Orphaned(q[n], p) \in Request
                      /\ Orphaned(q[n], p).from = q[n].from
                      /\ Orphaned(q[n], p).live <=> q[n].live /\ q[n].from # p
  BY <1>1 DEF Orphaned, Request
<1>4. OrphanedCalls(q, p) \in [1..m -> Request]
  BY <1>2, <1>3
<1>5. OrphanedCalls(q, p) \in Seq(Request)
  BY <1>4
<1>6. DOMAIN q = 1..m
  BY <1>1
<1>7. DOMAIN OrphanedCalls(q, p) = DOMAIN q
  BY <1>4, <1>6
<1> QED
  BY <1>1, <1>2, <1>3, <1>5, <1>6, <1>7

\* A process that ends leaves every variable with its type.
LEMMA HaltType ==
    ASSUME TypeInv, NEW s \in Server, Halt(s), faults' \in Nat
    PROVE  TypeInv'
<1>1. /\ IsMap(NoMap, Text) /\ IsMap(NoMap, SUBSET Item)
      /\ NoJob \in Request /\ Zero \in Stamp
  BY NoMapType, NoCallType, ZeroType
<1>2. /\ pc' \in [Server -> Phase] /\ idx' \in [Server -> 0..End]
      /\ target' \in [Server -> {-1} \cup Index] /\ todo' \in [Server -> SUBSET Text]
      /\ job' \in [Server -> Request] /\ running' \in [Server -> SUBSET Index]
      /\ vt' \in [Server -> Stamp] /\ plan' \in [Client -> SUBSET Op]
  BY <1>1, NAssumption DEF TypeInv, TypeOK, Halt, Phase, End
<1>3. AreMaps(simple, Text)' /\ AreMaps(lists, SUBSET Item)'
  BY <1>1, MapsExcept DEF TypeInv, TypeOK, Halt
<1>4. call' \in [Proc -> Call] /\ call'[s].st = "idle"
  <2>1. \A p \in Proc : call[p] \in Call
    BY DEF TypeInv, TypeOK
  <2>2. \A p \in Proc : Ended(call[p], "broken", "INTERNAL_FAILURE", {}) \in Call
    BY <2>1 DEF Ended, MakeCall, Call, Status
  <2>3. s \in Proc
    BY DEF Proc
  <2> QED
    BY <2>1, <2>2, <2>3, NoCallType DEF Halt
<1>5. inbox' \in [Server -> Seq(Request)] /\ NoSelfCalls'
  <2>1. \A t \in Server : inbox[t] \in Seq(Request)
    BY DEF TypeInv, TypeOK
  <2>2. /\ inbox'[s] = <<>>
        /\ \A t \in Server : t # s => inbox'[t] = OrphanedCalls(inbox[t], s)
    BY DEF Halt
  <2>3. ASSUME NEW t \in Server
        PROVE  inbox'[t] \in Seq(Request)
    <3>1. <<>> \in Seq(Request)
      OBVIOUS
    <3>2. OrphanedCalls(inbox[t], s) \in Seq(Request)
      BY <2>1, OrphanedType
    <3> QED
      BY <2>2, <3>1, <3>2
  <2>4. inbox' \in [Server -> Seq(Request)]
    BY <2>3 DEF Halt
  <2>5. ASSUME NEW t \in Server, NEW n \in DOMAIN inbox'[t]
        PROVE  inbox'[t][n].from # t
    <3>1. t # s
      BY <2>2
    <3>2. n \in DOMAIN inbox[t] /\ inbox'[t][n].from = inbox[t][n].from
      BY <2>1, <2>2, <3>1, OrphanedType
    <3> QED
      BY <3>2 DEF TypeInv, NoSelfCalls
  <2> QED
    BY <2>4, <2>5 DEF NoSelfCalls
<1>6. LoopsOK'
  <2>1. \A t \in Server : t # s => (Idle(t) <=> Idle(t)')
    BY DEF Halt, TypeInv, TypeOK, Idle, Ended, MakeCall, Call, Proc
  <2>2. Idle(s)'
    BY <1>4 DEF Idle
  <2> QED
    BY <2>1, <2>2 DEF TypeInv, TypeOK, LoopsOK, Halt, Phase
<1> QED
  BY <1>2, <1>3, <1>4, <1>5, <1>6 DEF TypeInv, TypeOK, Halt

-----------------------------------------------------------------------------
(* The type invariant is inductive: one lemma for each kind of step. *)

\* The type invariant holds when servers 1..B have booted.
LEMMA InitTypeInv == Init => TypeInv
<1> SUFFICES ASSUME Init PROVE TypeInv
  OBVIOUS
<1>1. \A s \in Server : s <= B => \A t \in (1..B) \ {s} : IndexOf(s, t) \in Index
  BY PeerOfIndex, ClusterAssumption, NAssumption DEF Server
<1>2. AreMaps(simple, Text) /\ AreMaps(lists, SUBSET Item)
  BY BootInfoType, NoMapType DEF Init, AreMaps
<1>3. vt \in [Server -> Stamp]
  BY ClusterAssumption, NAssumption, ZeroType DEF Init, Stamp, Server
<1>4. TypeOK
  <2>1. /\ pc \in [Server -> Phase] /\ idx \in [Server -> 0..End]
        /\ target \in [Server -> {-1} \cup Index] /\ todo \in [Server -> SUBSET Text]
        /\ plan \in [Client -> SUBSET Op] /\ faults \in Nat /\ starts \in [Server -> Nat]
    BY ClusterAssumption, NAssumption DEF Init, Phase, End
  <2>2. /\ job \in [Server -> Request] /\ call \in [Proc -> Call]
        /\ inbox \in [Server -> Seq(Request)]
    BY NoCallType DEF Init
  <2>3. running \in [Server -> SUBSET Index]
    BY <1>1 DEF Init
  <2> QED
    BY <1>2, <1>3, <2>1, <2>2, <2>3 DEF TypeOK
<1>5. LoopsOK
  BY NoCallType DEF Init, LoopsOK, Idle, Proc
<1>6. NoSelfCalls
  BY DEF Init, NoSelfCalls
<1> QED
  BY <1>4, <1>5, <1>6 DEF TypeInv

\* The calls that servers make are calls of the service.
LEMMA OpType ==
    /\ MakeOp("Get", ServerStatus, Plain("")) \in Op
    /\ MakeOp("GetList", UserList, Plain("")) \in Op
    /\ \A u \in Text : MakeOp("GetList", SubKey(u), Plain("")) \in Op
    /\ MakeOp("Put", ServerSyscmd, Plain("join cluster")) \in Op
    /\ \A req \in Request : OpOf(req) \in Op
<1>1. Plain("") \in Item /\ Plain("join cluster") \in Item
  BY PlainType, ReservedText
<1> QED
  BY <1>1, KeyType DEF MakeOp, OpOf, Op, Kind, Request

\* A server's loop makes a call.
LEMMA CallStepTypeInv ==
    ASSUME TypeInv, NEW s \in Server, NEW t \in Server, s # t, NEW o \in Op,
           Send(s, t, o), pc[s] \in {"find", "join", "bcast"} => idx[s] \in Index,
           pc[s] \notin {"down", "serve"},
           UNCHANGED <<pc, idx, target, job, running, vt, plan, faults, starts>>,
           todo' \in [Server -> SUBSET Text],
           AreMaps(simple, Text)', AreMaps(lists, SUBSET Item)'
    PROVE  TypeInv'
<1>1. s \in Proc
  BY DEF Proc
<1>2. /\ call' \in [Proc -> Call]
      /\ \A q \in Proc : q # s => call'[q] = call[q]
      /\ inbox' \in [Server -> Seq(Request)] /\ NoSelfCalls'
  BY <1>1, SendType DEF TypeInv
<1>3. LoopsOK'
  BY <1>2 DEF TypeInv, LoopsOK, Idle, Proc
<1>4. TypeOK'
  BY <1>2 DEF TypeInv, TypeOK
<1> QED
  BY <1>2, <1>3, <1>4 DEF TypeInv

\* A server's loop takes an answer or an error.
LEMMA AnswerStepTypeInv ==
    ASSUME TypeInv, NEW s \in Server, Forget(s),
           UNCHANGED <<job, vt, inbox, plan, faults, starts>>,
           pc' \in [Server -> Phase], idx' \in [Server -> 0..End],
           target' \in [Server -> {-1} \cup Index],
           \A t \in Server : t # s => /\ pc'[t] = pc[t] /\ idx'[t] = idx[t]
                                      /\ target'[t] = target[t],
           pc'[s] = "bcast" => pc[s] = "bcast",
           pc'[s] \in {"users", "subs"} => target'[s] \in Index,
           running' \in [Server -> SUBSET Index],
           todo' \in [Server -> SUBSET Text],
           AreMaps(simple, Text)', AreMaps(lists, SUBSET Item)'
    PROVE  TypeInv'
<1>1. s \in Proc
  BY DEF Proc
<1>2. /\ call' \in [Proc -> Call] /\ call'[s].st = "idle"
      /\ \A q \in Proc : q # s => call'[q] = call[q]
  BY <1>1, ForgetType DEF TypeInv
<1>3. LoopsOK'
  BY <1>2 DEF TypeInv, LoopsOK, Idle, Proc
<1>4. NoSelfCalls'
  BY DEF TypeInv, NoSelfCalls
<1>5. TypeOK'
  BY <1>2 DEF TypeInv, TypeOK
<1> QED
  BY <1>3, <1>4, <1>5 DEF TypeInv

\* No step of the constructor breaks the type invariant.
LEMMA BootTypeInv ==
    ASSUME TypeInv, NEW s \in Server, Boot(s) \/ BootStep(s)
    PROVE  TypeInv'
<1> USE NAssumption
<1>1. /\ s \in Proc /\ call[s] \in Call /\ call[s].status \in Status
      /\ call[s].values \in SUBSET Item /\ call[s].op.key \in Key
      /\ idx[s] \in 0..End /\ target[s] \in {-1} \cup Index
      /\ IsMap(simple[s], Text) /\ IsMap(lists[s], SUBSET Item)
      /\ AreMaps(simple, Text) /\ AreMaps(lists, SUBSET Item)
  BY DEF TypeInv, TypeOK, Proc, Call, Op, AreMaps
<1>2. idx[s] # End => idx[s] \in Index /\ idx[s] + 1 \in 0..End
  BY <1>1 DEF End, Index
<1>3. idx[s] \in Index => idx[s] + 1 \in 0..End
  BY DEF End, Index
<1>4. 0 \in 0..End
  BY DEF End
<1>5. CASE Boot(s)
  <2>1. AreMaps(simple, Text)'
    BY <1>1, <1>5, BootInfoType, MapsExcept DEF Boot
  <2>2. TypeOK'
    BY <1>5, <2>1 DEF Boot, TypeInv, TypeOK, Phase
  <2>3. LoopsOK'
    <3>1. pc[s] = "down"
      BY <1>5 DEF Boot
    <3> QED
      BY <1>5, <3>1 DEF Boot, TypeInv, LoopsOK, TypeOK, Idle
  <2> QED
    BY <1>5, <2>2, <2>3 DEF Boot, TypeInv, NoSelfCalls
<1>6. CASE FindCall(s)
  <2>1. idx[s] \in Index
    BY <1>2, <1>6 DEF FindCall
  <2> QED
    BY <1>1, <1>6, <2>1, PeerType, OpType, CallStepTypeInv
       DEF FindCall, TypeInv, TypeOK
<1>7. CASE FindAnswer(s)
  <2> DEFINE Found == call[s].status = "OK" /\ call[s].values = {Plain("running")}
  <2>1. idx[s] \in Index
    BY <1>7 DEF FindAnswer, TypeInv, LoopsOK, Answered, Idle
  <2>2. running' \in [Server -> SUBSET Index] /\ target' \in [Server -> {-1} \cup Index]
    <3>1. CASE Found
      <4>1. /\ running' = [running EXCEPT ![s] = @ \cup {idx[s]}]
            /\ target' = [target EXCEPT ![s] = IF @ = -1 THEN idx[s] ELSE @]
        BY <1>7, <3>1 DEF FindAnswer
      <4> QED
        BY <2>1, <4>1 DEF TypeInv, TypeOK
    <3>2. CASE ~Found
      <4>1. running' = running /\ target' = target
        BY <1>7, <3>2 DEF FindAnswer
      <4> QED
        BY <4>1 DEF TypeInv, TypeOK
    <3> QED
      BY <3>1, <3>2
  <2>3. \A t \in Server : t # s => target'[t] = target[t]
    BY <1>7 DEF FindAnswer, TypeInv, TypeOK
  <2>4. idx' = [idx EXCEPT ![s] = @ + 1] /\ idx \in [Server -> 0..End]
    BY <1>7 DEF FindAnswer, TypeInv, TypeOK
  <2>5. idx' \in [Server -> 0..End] /\ \A t \in Server : t # s => idx'[t] = idx[t]
    BY <1>3, <2>1, <2>4
  <2>6. pc[s] = "find" /\ Forget(s)
        /\ UNCHANGED <<pc, todo, job, simple, lists, vt, inbox, plan, faults, starts>>
    BY <1>7 DEF FindAnswer
  <2>7. pc' \in [Server -> Phase] /\ todo' \in [Server -> SUBSET Text]
    BY <2>6 DEF TypeInv, TypeOK
  <2> QED
    BY <1>1, <2>2, <2>3, <2>5, <2>6, <2>7, AnswerStepTypeInv DEF AreMaps
<1>8. CASE FindRefused(s)
  <2>1. idx[s] \in Index
    BY <1>8 DEF FindRefused, TypeInv, LoopsOK, Broken, Idle
  <2>2. running' \in [Server -> SUBSET Index]
    BY <1>8 DEF FindRefused, TypeInv, TypeOK
  <2>3. idx' = [idx EXCEPT ![s] = @ + 1] /\ idx \in [Server -> 0..End]
    BY <1>8 DEF FindRefused, TypeInv, TypeOK
  <2>4. idx' \in [Server -> 0..End] /\ \A t \in Server : t # s => idx'[t] = idx[t]
    BY <1>3, <2>1, <2>3
  <2>5. pc[s] = "find" /\ Forget(s)
        /\ UNCHANGED <<pc, target, todo, job, simple, lists, vt, inbox, plan, faults, starts>>
    BY <1>8 DEF FindRefused
  <2>6. /\ pc' \in [Server -> Phase] /\ todo' \in [Server -> SUBSET Text]
        /\ target' \in [Server -> {-1} \cup Index]
    BY <2>5 DEF TypeInv, TypeOK
  <2> QED
    BY <1>1, <2>2, <2>4, <2>5, <2>6, AnswerStepTypeInv DEF AreMaps
<1>9. CASE FindDone(s)
  <2> DEFINE m == SetServerInfo(simple[s], ServerStatus, "running")
  <2>1. IsMap(m, Text) /\ AreMaps([simple EXCEPT ![s] = m], Text)
    BY <1>1, SetServerInfoType, KeyType, ReservedText, MapsExcept
  <2>2. simple' \in {simple, [simple EXCEPT ![s] = m]} /\ lists' = lists
    BY <1>9 DEF FindDone, FinishBoot
  <2>3. AreMaps(simple, Text)' /\ AreMaps(lists, SUBSET Item)'
    BY <1>1, <2>1, <2>2 DEF AreMaps
  <2>4. /\ pc' \in [Server -> Phase] /\ \A t \in Server : t # s => pc'[t] = pc[t]
        /\ pc'[s] \in {"serve", "users"}
        /\ pc'[s] = "users" => target[s] # -1
    BY <1>9 DEF FindDone, FinishBoot, TypeInv, TypeOK, Phase
  <2>5. idx' \in [Server -> 0..End] /\ UNCHANGED <<target, call, inbox>>
    BY <1>4, <1>9 DEF FindDone, TypeInv, TypeOK
  <2>6. starts' \in [Server -> Nat]
    <3>1. starts \in [Server -> Nat] /\ starts[s] + 1 \in Nat
      BY DEF TypeInv, TypeOK
    <3>2. starts' \in {starts, [starts EXCEPT ![s] = starts[s] + 1]}
      BY <1>9 DEF FindDone, FinishBoot
    <3> QED
      BY <3>1, <3>2
  <2>7. TypeOK'
    BY <1>9, <2>3, <2>4, <2>5, <2>6 DEF FindDone, TypeInv, TypeOK
  <2>8. LoopsOK'
    BY <1>1, <1>9, <2>4, <2>5 DEF FindDone, TypeInv, LoopsOK, TypeOK, Idle
  <2> QED
    BY <2>5, <2>7, <2>8 DEF TypeInv, NoSelfCalls
<1>10. CASE UsersCall(s)
  <2>1. target[s] \in Index
    BY <1>10 DEF UsersCall, TypeInv, LoopsOK
  <2>2. /\ pc[s] = "users" /\ Send(s, Peer(s, target[s]), MakeOp("GetList", UserList, Plain("")))
        /\ UNCHANGED <<pc, idx, target, todo, job, running, simple, lists, vt, plan,
                       faults, starts>>
    BY <1>10 DEF UsersCall
  <2>3. todo' \in [Server -> SUBSET Text]
    BY <2>2 DEF TypeInv, TypeOK
  <2>4. Peer(s, target[s]) \in Server /\ Peer(s, target[s]) # s
    BY <2>1, PeerType
  <2> QED
    BY <1>1, <2>2, <2>3, <2>4, OpType, CallStepTypeInv DEF AreMaps
<1>11. CASE UsersAnswer(s)
  <2>1. {item.value : item \in call[s].values} \subseteq Text
    BY <1>1 DEF Item
  <2>2. todo' \in [Server -> SUBSET Text]
    BY <1>11, <2>1 DEF UsersAnswer, TypeInv, TypeOK
  <2>3. target[s] \in Index
    BY <1>11 DEF UsersAnswer, TypeInv, LoopsOK
  <2>4. pc' \in [Server -> Phase] /\ \A t \in Server : t # s => pc'[t] = pc[t]
    BY <1>11 DEF UsersAnswer, TypeInv, TypeOK, Phase
  <2> QED
    BY <1>1, <1>11, <2>2, <2>3, <2>4, AnswerStepTypeInv
       DEF UsersAnswer, TypeInv, TypeOK
<1>12. CASE \E u \in todo[s] : CopyUser(s, u)
  <2>1. PICK u \in todo[s] : CopyUser(s, u)
    BY <1>12
  <2>2. u \in Text /\ target[s] \in Index
    BY <2>1 DEF CopyUser, TypeInv, TypeOK, LoopsOK
  <2>3. AreMaps(simple, Text)'
    BY <1>1, <2>1, <2>2, StorePutType, KeyType, MapsExcept DEF CopyUser, UserCopied
  <2>4. AreMaps(lists, SUBSET Item)'
    BY <1>1, <2>1, <2>2, StoreAddToListType, KeyType, PlainType, MapsExcept
       DEF CopyUser, UserCopied
  <2>5. todo' \in [Server -> SUBSET Text]
    BY <2>1 DEF CopyUser, TypeInv, TypeOK
  <2> QED
    BY <1>1, <2>1, <2>2, <2>3, <2>4, <2>5, PeerType, OpType, CallStepTypeInv
       DEF CopyUser
<1>13. CASE CopySubs(s)
  <2> DEFINE k == call[s].op.key
             m == IF call[s].values = {} THEN lists[s]
                  ELSE Bind(lists[s], k, ItemsAt(lists[s], k) \cup call[s].values)
  <2>1. ItemsAt(lists[s], k) \cup call[s].values \in SUBSET Item
    BY <1>1, ItemsAtType
  <2>2. IsMap(m, SUBSET Item)
    BY <1>1, <2>1, BindType
  <2>3. lists' = [lists EXCEPT ![s] = m]
    BY <1>13 DEF CopySubs
  <2>4. AreMaps(lists, SUBSET Item)'
    BY <1>1, <2>2, <2>3, MapsExcept
  <2>5. target[s] \in Index
    BY <1>13 DEF CopySubs, TypeInv, LoopsOK
  <2> QED
    BY <1>1, <1>13, <2>4, <2>5, AnswerStepTypeInv DEF CopySubs, TypeInv, TypeOK
<1>14. CASE CopyDone(s)
  <2>1. TypeOK'
    BY <1>1, <1>14 DEF CopyDone, TypeInv, TypeOK, Phase
  <2>2. LoopsOK'
    BY <1>14 DEF CopyDone, TypeInv, TypeOK, LoopsOK, Idle
  <2> QED
    BY <1>14, <2>1, <2>2 DEF CopyDone, TypeInv, NoSelfCalls
<1>15. CASE GiveUp(s)
  BY <1>15, HaltType DEF GiveUp, TypeInv, TypeOK
<1>16. CASE JoinCall(s)
  <2>1. idx[s] \in Index
    BY <1>2, <1>16 DEF JoinCall
  <2> QED
    BY <1>1, <1>16, <2>1, PeerType, OpType, CallStepTypeInv
       DEF JoinCall, TypeInv, TypeOK
<1>17. CASE JoinAnswer(s)
  <2>1. idx[s] \in Index
    BY <1>17 DEF JoinAnswer, TypeInv, LoopsOK, Answered, Broken, Idle
  <2>2. running' \in [Server -> SUBSET Index]
    BY <1>17 DEF JoinAnswer, TypeInv, TypeOK
  <2>3. idx' = [idx EXCEPT ![s] = @ + 1] /\ idx \in [Server -> 0..End]
    BY <1>17 DEF JoinAnswer, TypeInv, TypeOK
  <2>4. idx' \in [Server -> 0..End] /\ \A t \in Server : t # s => idx'[t] = idx[t]
    BY <1>3, <2>1, <2>3
  <2> QED
    BY <1>1, <1>17, <2>2, <2>4, AnswerStepTypeInv DEF JoinAnswer, TypeInv, TypeOK
<1>18. CASE JoinDone(s)
  <2>1. AreMaps(simple, Text)' /\ AreMaps(lists, SUBSET Item)'
    BY <1>1, <1>18, SetServerInfoType, KeyType, ReservedText, MapsExcept
       DEF JoinDone, FinishBoot
  <2>2. TypeOK'
    BY <1>4, <1>18, <2>1 DEF JoinDone, FinishBoot, TypeInv, TypeOK, Phase
  <2>3. LoopsOK'
    BY <1>18 DEF JoinDone, FinishBoot, TypeInv, TypeOK, LoopsOK, Idle
  <2> QED
    BY <1>18, <2>2, <2>3 DEF JoinDone, TypeInv, NoSelfCalls
<1> QED
  BY <1>5, <1>6, <1>7, <1>8, <1>9, <1>10, <1>11, <1>12, <1>13, <1>14, <1>15, <1>16,
     <1>17, <1>18 DEF BootStep
-----------------------------------------------------------------------------
(* Every blocked caller has its one live request: how each kind of step     *)
(* treats it.                                                               *)

\* Nothing that concerns p changes.
LEMMA CallFrame ==
    ASSUME TypeOK, NEW p \in Proc, CallOK(p), call'[p] = call[p],
           \A s \in Server : RequestsAt(p, s)' = RequestsAt(p, s)
    PROVE  CallOK(p)'
<1>1. call[p].to \in Server
  BY DEF TypeOK, Call
<1>2. RequestsAt(p, call[p].to)' = RequestsAt(p, call[p].to)
  BY <1>1
<1> QED
  BY <1>2 DEF CallOK, Waiting

\* A caller that is not blocked has no request.
LEMMA CallGone ==
    ASSUME NEW p \in Proc, call'[p].st # "waiting",
           \A s \in Server : RequestsAt(p, s)' = {}
    PROVE  CallOK(p)'
  BY DEF CallOK, Waiting

\* A caller that does not wait has no live request anywhere.
LEMMA NoRequests ==
    ASSUME NEW p \in Proc, CallOK(p), ~Waiting(p), NEW s \in Server
    PROVE  RequestsAt(p, s) = {}
  BY DEF CallOK

\* The request that a server handles is the one its caller waits for.
LEMMA OnlyRequest ==
    ASSUME NEW p \in Proc, CallOK(p), NEW s \in Server, NEW m \in RequestsAt(p, s)
    PROVE  /\ Waiting(p) /\ RequestsAt(p, s) = {m}
           /\ \A t \in Server : t # s => RequestsAt(p, t) = {}
  BY DEF CallOK

\* Queues, broadcasts and their callers as they were.
LEMMA RequestsFrame ==
    ASSUME UNCHANGED <<inbox, job>>,
           \A s \in Server : pc'[s] = "bcast" <=> pc[s] = "bcast"
    PROVE  \A p \in Proc : \A s \in Server : RequestsAt(p, s)' = RequestsAt(p, s)
  BY DEF RequestsAt

\* Sending a call keeps one live request for each waiting caller.
LEMMA SendCallsOK ==
    ASSUME TypeOK, CallsOK, NEW p \in Proc, NEW t \in Server, NEW o \in Op,
           ~Waiting(p), Send(p, t, o), UNCHANGED <<pc, job>>
    PROVE  CallsOK'
<1>1. \A s \in Server : RequestsAt(p, s) = {}
  BY NoRequests DEF CallsOK
<1>2. CASE Listening(t)
  <2> DEFINE r == [from |-> p, live |-> TRUE, kind |-> o.kind, key |-> o.key,
                   item |-> o.item]
             m == Len(inbox[t]) + 1
  <2>1. inbox' = [inbox EXCEPT ![t] = Append(inbox[t], r)]
    BY <1>2 DEF Send
  <2>2. call' = [call EXCEPT ![p] = MakeCall("waiting", t, o, "OK", {})]
    BY <1>2 DEF Send
  <2>3. inbox[t] \in Seq(Request) /\ r \in Request
    BY DEF TypeOK, Request, Op
  <2>4. /\ DOMAIN Append(inbox[t], r) = DOMAIN inbox[t] \cup {m}
        /\ Append(inbox[t], r)[m] = r
        /\ \A n \in DOMAIN inbox[t] : Append(inbox[t], r)[n] = inbox[t][n]
    BY <2>3
  <2>5. inbox'[t] = Append(inbox[t], r) /\ \A s \in Server : s # t => inbox'[s] = inbox[s]
    BY <2>1 DEF TypeOK
  <2>6. ASSUME NEW q \in Proc, NEW s \in Server, q # p \/ s # t
        PROVE  RequestsAt(q, s)' = RequestsAt(q, s)
    BY <2>4, <2>5, <2>6 DEF RequestsAt
  <2>7. RequestsAt(p, t)' = {m}
    BY <1>1, <2>4, <2>5 DEF RequestsAt
  <2>8. call'[p].st = "waiting" /\ call'[p].to = t
    BY <2>2 DEF TypeOK, MakeCall
  <2>9. CallOK(p)'
    BY <1>1, <2>6, <2>7, <2>8 DEF CallOK, Waiting
  <2>10. \A q \in Proc : q # p => call'[q] = call[q]
    BY <2>2 DEF TypeOK
  <2> QED
    BY <2>6, <2>9, <2>10, CallFrame DEF CallsOK
<1>3. CASE ~Listening(t)
  <2>1. /\ call' = [call EXCEPT ![p] = MakeCall("broken", t, o, "INTERNAL_FAILURE", {})]
        /\ inbox' = inbox
    BY <1>3 DEF Send
  <2>2. /\ call'[p].st = "broken"
        /\ \A q \in Proc : q # p => call'[q] = call[q]
    BY <2>1 DEF TypeOK, MakeCall
  <2>3. \A q \in Proc : \A s \in Server : RequestsAt(q, s)' = RequestsAt(q, s)
    BY <2>1, RequestsFrame
  <2>4. CallOK(p)'
    BY <1>1, <2>2, <2>3 DEF CallOK, Waiting
  <2> QED
    BY <2>2, <2>3, <2>4, CallFrame DEF CallsOK
<1> QED
  BY <1>2, <1>3

\* Forgetting a call that is over keeps one live request for each waiting
\* caller.
LEMMA ForgetCallsOK ==
    ASSUME TypeOK, CallsOK, NEW p \in Proc, ~Waiting(p), Forget(p),
           UNCHANGED <<inbox, job>>,
           \A s \in Server : pc'[s] = "bcast" <=> pc[s] = "bcast"
    PROVE  CallsOK'
<1>1. /\ call'[p].st = "idle"
      /\ \A q \in Proc : q # p => call'[q] = call[q]
  BY ForgetType
<1>2. \A q \in Proc : \A s \in Server : RequestsAt(q, s)' = RequestsAt(q, s)
  BY RequestsFrame
<1>3. CallOK(p)'
  BY <1>1, <1>2, NoRequests DEF CallsOK, CallOK, Waiting
<1> QED
  BY <1>1, <1>2, <1>3, CallFrame DEF CallsOK

\* What Take does to the requests in the queue: each moves up by one place, and
\* the first is dropped or becomes the job.
LEMMA TakeRequests ==
    ASSUME TypeOK, NEW s \in Server, pc[s] = "serve", inbox[s] # <<>>, Take(s),
           \A t \in Server : t # s => pc'[t] = pc[t] /\ job'[t] = job[t],
           NEW p \in Proc
    PROVE  /\ \A t \in Server : t # s => RequestsAt(p, t)' = RequestsAt(p, t)
           /\ 1 \in RequestsAt(p, s) <=> Head(inbox[s]).from = p /\ Head(inbox[s]).live
           /\ RequestsAt(p, s) \subseteq 1..Len(inbox[s])
           /\ RequestsAt(p, s)' =
                {n - 1 : n \in RequestsAt(p, s) \ {1}}
                \cup (IF pc'[s] = "bcast" /\ job'[s].from = p /\ job'[s].live THEN {0} ELSE {})
<1>1. inbox[s] \in Seq(Request) /\ Len(inbox[s]) \in Nat /\ inbox[s] # <<>>
  BY DEF TypeOK
<1>2. /\ inbox'[s] = Tail(inbox[s])
      /\ \A t \in Server : t # s => inbox'[t] = inbox[t]
  BY DEF Take, TypeOK
<1>3. /\ DOMAIN inbox[s] = 1..Len(inbox[s])
      /\ DOMAIN Tail(inbox[s]) = 1..(Len(inbox[s]) - 1)
      /\ Head(inbox[s]) = inbox[s][1] /\ Len(inbox[s]) >= 1
  BY <1>1
<1>4. \A n \in 1..(Len(inbox[s]) - 1) : Tail(inbox[s])[n] = inbox[s][n + 1]
  BY <1>1
<1>5. \A t \in Server : t # s => RequestsAt(p, t)' = RequestsAt(p, t)
  BY <1>2 DEF RequestsAt
<1>6. RequestsAt(p, s) = {n \in 1..Len(inbox[s]) : inbox[s][n].from = p /\ inbox[s][n].live}
  BY <1>3 DEF RequestsAt
<1> DEFINE Q == {n \in 1..(Len(inbox[s]) - 1) : inbox[s][n + 1].from = p /\ inbox[s][n + 1].live}
<1>7. Q = {n - 1 : n \in RequestsAt(p, s) \ {1}}
  <2>1. ASSUME NEW n \in Q
        PROVE  n \in {k - 1 : k \in RequestsAt(p, s) \ {1}}
    <3>1. n + 1 \in RequestsAt(p, s) \ {1} /\ n = (n + 1) - 1
      BY <1>1, <1>6
    <3> QED
      BY <3>1
  <2>2. ASSUME NEW k \in RequestsAt(p, s) \ {1}
        PROVE  k - 1 \in Q
    BY <1>1, <1>6
  <2> QED
    BY <2>1, <2>2
<1>8. {n \in DOMAIN inbox'[s] : inbox'[s][n].from = p /\ inbox'[s][n].live} = Q
  BY <1>2, <1>3, <1>4
<1>9. RequestsAt(p, s)' =
         Q \cup (IF pc'[s] = "bcast" /\ job'[s].from = p /\ job'[s].live THEN {0} ELSE {})
  BY <1>8 DEF RequestsAt
<1>10. 1 \in 1..Len(inbox[s])
  BY <1>1, <1>3
<1> QED
  BY <1>3, <1>5, <1>6, <1>7, <1>9, <1>10

\* Requests that only change their place are as many as before.
LEMMA Shifted ==
    ASSUME TypeOK, NEW s \in Server, NEW p \in Proc, CallOK(p), call'[p] = call[p],
           \A t \in Server : t # s => RequestsAt(p, t)' = RequestsAt(p, t),
           RequestsAt(p, s) \subseteq Nat,
           RequestsAt(p, s)' = {n - 1 : n \in RequestsAt(p, s)}
    PROVE  CallOK(p)'
<1>1. call[p].to \in Server /\ call'[p].to = call[p].to
  BY DEF TypeOK, Call
<1>2. Waiting(p)' => RequestsAt(p, call[p].to)' # {}
  BY <1>1 DEF CallOK, Waiting
<1>3. ASSUME NEW t \in Server, NEW m \in RequestsAt(p, t)'
      PROVE  Waiting(p)' /\ call'[p].to = t /\ RequestsAt(p, t)' = {m}
  <2>1. CASE t = s
    <3>1. PICK n \in RequestsAt(p, s) : m = n - 1
      BY <1>3, <2>1
    <3>2. RequestsAt(p, s) = {n} /\ Waiting(p) /\ call[p].to = s
      BY <3>1 DEF CallOK
    <3> QED
      BY <1>1, <2>1, <3>1, <3>2 DEF Waiting
  <2>2. CASE t # s
    BY <1>1, <1>3, <2>2 DEF CallOK, Waiting
  <2> QED
    BY <2>1, <2>2
<1> QED
  BY <1>1, <1>2, <1>3 DEF CallOK

\* A handler that ends its caller's call, in whatever way.
LEMMA AnswerCallsOK ==
    ASSUME TypeOK, CallsOK, NEW s \in Server, pc[s] = "serve", inbox[s] # <<>>, Take(s),
           NEW ended, ended.st # "waiting",
           call' = IF Head(inbox[s]).live
                   THEN [call EXCEPT ![Head(inbox[s]).from] = ended]
                   ELSE call,
           UNCHANGED <<pc, job>>
    PROVE  CallsOK'
<1> DEFINE h == Head(inbox[s])
<1>1. ASSUME NEW p \in Proc
      PROVE  CallOK(p)'
  <2>1. /\ \A t \in Server : t # s => RequestsAt(p, t)' = RequestsAt(p, t)
        /\ 1 \in RequestsAt(p, s) <=> h.from = p /\ h.live
        /\ RequestsAt(p, s) \subseteq 1..Len(inbox[s])
        /\ RequestsAt(p, s)' = {n - 1 : n \in RequestsAt(p, s) \ {1}}
    BY TakeRequests
  <2>2. CallOK(p)
    BY DEF CallsOK
  <2>3. CASE h.from = p /\ h.live
    <3>1. /\ RequestsAt(p, s) = {1}
          /\ \A t \in Server : t # s => RequestsAt(p, t) = {}
      BY <2>1, <2>2, <2>3, OnlyRequest
    <3>2. \A t \in Server : RequestsAt(p, t)' = {}
      BY <2>1, <3>1
    <3>3. call'[p] = ended
      BY <2>3 DEF TypeOK
    <3> QED
      BY <3>2, <3>3, CallGone
  <2>4. CASE ~(h.from = p /\ h.live)
    <3>1. call'[p] = call[p]
      BY <2>4 DEF TypeOK
    <3>2. RequestsAt(p, s)' = {n - 1 : n \in RequestsAt(p, s)}
      BY <2>1, <2>4
    <3>3. RequestsAt(p, s) \subseteq Nat
      BY <2>1
    <3> QED
      BY <2>1, <2>2, <3>1, <3>2, <3>3, Shifted
  <2> QED
    BY <2>3, <2>4
<1> QED
  BY <1>1 DEF CallsOK

\* A handler that answers at once.
LEMMA FinishCallsOK ==
    ASSUME TypeOK, CallsOK, NEW s \in Server, pc[s] = "serve", inbox[s] # <<>>, Take(s),
           NEW status, NEW values, Reply(Head(inbox[s]), status, values),
           UNCHANGED <<pc, job>>
    PROVE  CallsOK'
<1> DEFINE h == Head(inbox[s])
<1>1. Ended(call[h.from], "done", status, values).st # "waiting"
  BY DEF Ended, MakeCall
<1>2. call' = IF h.live
              THEN [call EXCEPT ![h.from] = Ended(call[h.from], "done", status, values)]
              ELSE call
  BY DEF Reply
<1> QED
  BY <1>1, <1>2, AnswerCallsOK

\* A handler that starts a broadcast: the request becomes the job.
LEMMA BroadcastCallsOK ==
    ASSUME TypeOK, CallsOK, NEW s \in Server, pc[s] = "serve", inbox[s] # <<>>, Take(s),
           NEW req, req.from = Head(inbox[s]).from, req.live = Head(inbox[s]).live,
           Broadcast(s, req)
    PROVE  CallsOK'
<1> DEFINE h == Head(inbox[s])
<1>1. /\ pc'[s] = "bcast" /\ job'[s] = req /\ UNCHANGED call
      /\ \A t \in Server : t # s => pc'[t] = pc[t] /\ job'[t] = job[t]
  BY DEF Broadcast, TypeOK
<1>2. ASSUME NEW p \in Proc
      PROVE  CallOK(p)'
  <2>1. /\ \A t \in Server : t # s => RequestsAt(p, t)' = RequestsAt(p, t)
        /\ 1 \in RequestsAt(p, s) <=> h.from = p /\ h.live
        /\ RequestsAt(p, s) \subseteq 1..Len(inbox[s])
        /\ RequestsAt(p, s)' =
             {n - 1 : n \in RequestsAt(p, s) \ {1}}
             \cup (IF h.from = p /\ h.live THEN {0} ELSE {})
    BY <1>1, TakeRequests
  <2>2. RequestsAt(p, s)' = {n - 1 : n \in RequestsAt(p, s)}
    <3>1. CASE 1 \in RequestsAt(p, s)
      <4>1. RequestsAt(p, s)' = {n - 1 : n \in RequestsAt(p, s) \ {1}} \cup {0}
        BY <2>1, <3>1
      <4>2. {n - 1 : n \in RequestsAt(p, s)} =
              {n - 1 : n \in RequestsAt(p, s) \ {1}} \cup {0}
        BY <3>1
      <4> QED
        BY <4>1, <4>2
    <3>2. CASE 1 \notin RequestsAt(p, s)
      BY <2>1, <3>2
    <3> QED
      BY <3>1, <3>2
  <2>3. RequestsAt(p, s) \subseteq Nat /\ CallOK(p) /\ call'[p] = call[p]
    BY <1>1, <2>1 DEF CallsOK
  <2> QED
    BY <2>1, <2>2, <2>3, Shifted
<1> QED
  BY <1>2 DEF CallsOK

\* A broadcast that ends answers its job.
LEMMA BcastStopCallsOK ==
    ASSUME TypeInv, CallsOK, NEW s \in Server, pc[s] = "bcast", ~Waiting(s),
           NEW status, BcastStop(s, status)
    PROVE  CallsOK'
<1>1. s \in Proc /\ job[s].from # s
  BY ClusterAssumption DEF TypeInv, LoopsOK, Proc
<1>2. /\ pc'[s] = "serve" /\ UNCHANGED inbox
      /\ \A t \in Server : t # s => pc'[t] = pc[t] /\ job'[t] = job[t]
  BY DEF BcastStop, TypeInv, TypeOK
<1>3. \A q \in Proc : \A t \in Server : t # s => RequestsAt(q, t)' = RequestsAt(q, t)
  BY <1>2 DEF RequestsAt
<1>4. \A q \in Proc : RequestsAt(q, s)' = RequestsAt(q, s) \ {0}
  <2>1. inbox[s] \in Seq(Request)
    BY DEF TypeInv, TypeOK
  <2>2. 0 \notin DOMAIN inbox[s]
    BY <2>1
  <2> QED
    BY <1>2, <2>2 DEF RequestsAt
<1>5. ASSUME NEW p \in Proc
      PROVE  CallOK(p)'
  <2>1. CallOK(p) /\ TypeOK
    BY DEF CallsOK, TypeInv
  <2>2. CASE job[s].live /\ p = job[s].from
    <3>1. 0 \in RequestsAt(p, s)
      BY <2>2 DEF RequestsAt
    <3>2. RequestsAt(p, s) = {0} /\ \A t \in Server : t # s => RequestsAt(p, t) = {}
      BY <2>1, <3>1, OnlyRequest
    <3>3. \A t \in Server : RequestsAt(p, t)' = {}
      BY <1>3, <1>4, <3>2
    <3>4. call'[p].st = "done"
      BY <1>1, <2>2 DEF BcastStop, Ended, MakeCall
    <3> QED
      BY <3>3, <3>4, CallGone
  <2>3. CASE ~(job[s].live /\ p = job[s].from)
    <3>1. 0 \notin RequestsAt(p, s)
      <4>1. inbox[s] \in Seq(Request)
        BY <2>1 DEF TypeOK
      <4>2. 0 \notin DOMAIN inbox[s]
        BY <4>1
      <4> QED
        BY <2>3, <4>2 DEF RequestsAt
    <3>2. \A t \in Server : RequestsAt(p, t)' = RequestsAt(p, t)
      BY <1>3, <1>4, <3>1
    <3>3. CASE p = s
      <4>1. call'[p].st = "idle"
        BY <3>3, NoCallType DEF BcastStop
      <4>2. \A t \in Server : RequestsAt(p, t)' = {}
        BY <2>1, <3>2, <3>3, NoRequests
      <4> QED
        BY <4>1, <4>2, CallGone
    <3>4. CASE p # s
      <4>1. call'[p] = call[p]
        BY <2>3, <3>4 DEF BcastStop
      <4> QED
        BY <2>1, <3>2, <4>1, CallFrame
    <3> QED
      BY <3>3, <3>4
  <2> QED
    BY <2>2, <2>3
<1> QED
  BY <1>5 DEF CallsOK

\* A crash keeps one live request for each caller that still waits.
LEMMA HaltCallsOK ==
    ASSUME TypeInv, CallsOK, NEW s \in Server, Halt(s)
    PROVE  CallsOK'
<1>1. /\ inbox'[s] = <<>> /\ pc'[s] = "down"
      /\ \A t \in Server : t # s => /\ inbox'[t] = OrphanedCalls(inbox[t], s)
                                   /\ pc'[t] = pc[t] /\ job'[t] = job[t]
  BY DEF Halt, TypeInv, TypeOK
<1>2. \A p \in Proc : RequestsAt(p, s)' = {}
  BY <1>1 DEF RequestsAt
<1>3. ASSUME NEW p \in Proc, NEW t \in Server, t # s
      PROVE  RequestsAt(p, t)' = IF p = s THEN {} ELSE RequestsAt(p, t)
  <2>1. inbox[t] \in Seq(Request)
    BY DEF TypeInv, TypeOK
  <2>2. /\ DOMAIN inbox'[t] = DOMAIN inbox[t]
        /\ \A n \in DOMAIN inbox[t] :
              /\ inbox'[t][n].from = inbox[t][n].from
              /\ inbox'[t][n].live <=> inbox[t][n].live /\ inbox[t][n].from # s
    BY <1>1, <1>3, <2>1, OrphanedType
  <2>3. pc[t] = "bcast" => job[t].from # s
    BY ClusterAssumption DEF TypeInv, LoopsOK
  <2>4. {n \in DOMAIN inbox'[t] : inbox'[t][n].from = p /\ inbox'[t][n].live} =
          IF p = s THEN {} ELSE {n \in DOMAIN inbox[t] : inbox[t][n].from = p /\ inbox[t][n].live}
    BY <2>2
  <2> QED
    BY <1>1, <1>3, <2>3, <2>4 DEF RequestsAt
<1>4. ASSUME NEW p \in Proc
      PROVE  CallOK(p)'
  <2>1. CallOK(p) /\ TypeOK
    BY DEF CallsOK, TypeInv
  <2>2. CASE p = s
    <3>1. call'[p].st = "idle"
      BY <2>2, NoCallType DEF Halt
    <3> QED
      BY <1>2, <1>3, <2>2, <3>1, CallGone
  <2>3. CASE p # s /\ Waiting(p) /\ call[p].to = s
    <3>1. call'[p].st = "broken"
      BY <2>3 DEF Halt, Ended, MakeCall, Waiting
    <3>2. \A t \in Server : t # s => RequestsAt(p, t) = {}
      BY <2>1, <2>3 DEF CallOK
    <3> QED
      BY <1>2, <1>3, <2>3, <3>1, <3>2, CallGone
  <2>4. CASE p # s /\ ~(Waiting(p) /\ call[p].to = s)
    <3>1. call'[p] = call[p]
      BY <2>4 DEF Halt, Waiting
    <3>2. RequestsAt(p, s) = {}
      BY <2>1, <2>4 DEF CallOK
    <3>3. \A t \in Server : RequestsAt(p, t)' = RequestsAt(p, t)
      BY <1>2, <1>3, <2>4, <3>2
    <3> QED
      BY <2>1, <3>1, <3>3, CallFrame
  <2> QED
    BY <2>2, <2>3, <2>4
<1> QED
  BY <1>4 DEF CallsOK

\* A Tribbler server dies: its requests are dead ones from now on.
LEMMA ClientEndsCore ==
    ASSUME CoreInv, NEW c \in Client, ClientEnds(c)
    PROVE  CoreInv'
<1> USE DEF CoreInv, TypeInv
<1>1. c \in Proc
  BY DEF Proc
<1>2. /\ call' \in [Proc -> Call] /\ call'[c].st = "idle"
      /\ \A q \in Proc : q # c => call'[q] = call[q]
  BY <1>1, ForgetType DEF ClientEnds
<1>3. /\ \A t \in Server : job'[t] = Orphaned(job[t], c) /\ inbox'[t] = OrphanedCalls(inbox[t], c)
      /\ faults' = faults + 1
      /\ UNCHANGED <<pc, idx, target, todo, running, simple, lists, vt, plan, starts>>
  BY DEF ClientEnds
<1>4. \A t \in Server : /\ job'[t] \in Request /\ job'[t].from = job[t].from
                        /\ job'[t].live <=> job[t].live /\ job[t].from # c
  BY <1>3 DEF TypeOK, Request, Orphaned
<1>5. \A t \in Server :
         /\ inbox'[t] \in Seq(Request) /\ DOMAIN inbox'[t] = DOMAIN inbox[t]
         /\ \A n \in DOMAIN inbox[t] :
               /\ inbox'[t][n].from = inbox[t][n].from
               /\ inbox'[t][n].live <=> inbox[t][n].live /\ inbox[t][n].from # c
  BY <1>3, OrphanedType DEF TypeOK
<1>6. TypeOK'
  <2>1. job' \in [Server -> Request]
    BY <1>4 DEF ClientEnds
  <2>2. inbox' \in [Server -> Seq(Request)]
    BY <1>5 DEF ClientEnds
  <2> QED
    BY <1>2, <1>3, <2>1, <2>2 DEF TypeOK
<1>7. LoopsOK'
  <2>1. \A s \in Server : Idle(s)' <=> Idle(s)
    BY <1>2, ClusterAssumption DEF Idle, Proc
  <2> QED
    BY <1>3, <1>4, <2>1 DEF LoopsOK
<1>8. NoSelfCalls'
  BY <1>5 DEF NoSelfCalls
<1>9. ASSUME NEW p \in Proc, NEW t \in Server
      PROVE  RequestsAt(p, t)' = IF p = c THEN {} ELSE RequestsAt(p, t)
  <2>1. {n \in DOMAIN inbox'[t] : inbox'[t][n].from = p /\ inbox'[t][n].live} =
          IF p = c THEN {} ELSE {n \in DOMAIN inbox[t] : inbox[t][n].from = p /\ inbox[t][n].live}
    BY <1>5
  <2> QED
    BY <1>3, <1>4, <2>1 DEF RequestsAt
<1>10. ASSUME NEW p \in Proc
       PROVE  CallOK(p)'
  <2>1. CASE p = c
    BY <1>2, <1>9, <2>1, CallGone
  <2>2. CASE p # c
    BY <1>2, <1>9, <2>2, CallFrame DEF CallsOK
  <2> QED
    BY <2>1, <2>2
<1> QED
  BY <1>6, <1>7, <1>8, <1>10 DEF CallsOK

\* Steps that touch no call at all.
LEMMA QuietCallsOK ==
    ASSUME TypeOK, CallsOK, UNCHANGED <<call, inbox, job>>,
           \A s \in Server : pc'[s] = "bcast" <=> pc[s] = "bcast"
    PROVE  CallsOK'
  BY RequestsFrame, CallFrame DEF CallsOK

\* Every step of the constructor preserves the inductive invariant.
LEMMA BootCore ==
    ASSUME CoreInv, NEW s \in Server, Boot(s) \/ BootStep(s)
    PROVE  CoreInv'
<1>1. TypeInv'
  BY BootTypeInv DEF CoreInv
<1>2. TypeInv /\ TypeOK /\ CallsOK /\ s \in Proc
  BY DEF CoreInv, TypeInv, Proc
<1>3. Answered(s) \/ Broken(s) => ~Waiting(s)
  BY DEF Answered, Broken, Waiting
<1>4. CASE FindCall(s) \/ UsersCall(s) \/ JoinCall(s) \/ \E u \in todo[s] : CopyUser(s, u)
  <2>1. UNCHANGED <<pc, job>> /\ Idle(s)
    BY <1>4 DEF FindCall, UsersCall, JoinCall, CopyUser
  <2>2. \E t \in Server : \E o \in Op : Send(s, t, o)
    <3>1. idx[s] \in 0..End
      BY <1>2 DEF TypeOK
    <3>2. idx[s] # End => idx[s] \in Index
      BY <3>1, NAssumption DEF End, Index
    <3>3. /\ FindCall(s) \/ JoinCall(s) => idx[s] \in Index
          /\ UsersCall(s) => target[s] \in Index
      BY <1>2, <3>2 DEF FindCall, JoinCall, UsersCall, TypeInv, LoopsOK
    <3>4. \A i \in Index : Peer(s, i) \in Server
      BY PeerType
    <3>5. CASE FindCall(s)
      BY <3>3, <3>4, <3>5, OpType DEF FindCall
    <3>6. CASE UsersCall(s)
      BY <3>3, <3>4, <3>6, OpType DEF UsersCall
    <3>7. CASE JoinCall(s)
      BY <3>3, <3>4, <3>7, OpType DEF JoinCall
    <3>8. CASE \E u \in todo[s] : CopyUser(s, u)
      <4>1. PICK u \in todo[s] : CopyUser(s, u)
        BY <3>8
      <4>2. Send(s, Peer(s, target[s]), MakeOp("GetList", SubKey(u), Plain("")))
        BY <4>1 DEF CopyUser
      <4>3. target[s] \in Index /\ u \in Text
        BY <1>2, <4>1 DEF CopyUser, TypeInv, TypeOK, LoopsOK
      <4> QED
        BY <3>4, <4>2, <4>3, OpType
    <3> QED
      BY <1>4, <3>5, <3>6, <3>7, <3>8
  <2>3. CallsOK'
    BY <1>2, <2>1, <2>2, SendCallsOK DEF Idle, Waiting
  <2> QED
    BY <1>1, <2>3 DEF CoreInv
<1>5. CASE FindAnswer(s) \/ FindRefused(s) \/ UsersAnswer(s) \/ CopySubs(s) \/ JoinAnswer(s)
  <2>1. /\ Answered(s) \/ Broken(s)
        /\ Forget(s) /\ UNCHANGED <<inbox, job>>
    BY <1>5 DEF FindAnswer, FindRefused, UsersAnswer, CopySubs, JoinAnswer
  <2>2. \A t \in Server : pc'[t] = "bcast" <=> pc[t] = "bcast"
    BY <1>2, <1>5 DEF FindAnswer, FindRefused, UsersAnswer, CopySubs, JoinAnswer, TypeOK
  <2>3. CallsOK'
    BY <1>2, <1>3, <2>1, <2>2, ForgetCallsOK
  <2> QED
    BY <1>1, <2>3 DEF CoreInv
<1>6. CASE Boot(s) \/ FindDone(s) \/ CopyDone(s) \/ JoinDone(s)
  <2>1. UNCHANGED <<call, inbox, job>>
    BY <1>6 DEF Boot, FindDone, CopyDone, JoinDone
  <2>2. \A t \in Server : pc'[t] = "bcast" <=> pc[t] = "bcast"
    BY <1>2, <1>6 DEF Boot, FindDone, CopyDone, JoinDone, FinishBoot, TypeOK
  <2>3. CallsOK'
    BY <1>2, <2>1, <2>2, QuietCallsOK
  <2> QED
    BY <1>1, <2>3 DEF CoreInv
<1>7. CASE GiveUp(s)
  BY <1>1, <1>2, <1>7, HaltCallsOK DEF GiveUp, CoreInv
<1> QED
  BY <1>4, <1>5, <1>6, <1>7 DEF BootStep

-----------------------------------------------------------------------------
(* The handlers. *)

\* What the end of every handler needs: the answer's receiver is blocked.
LEMMA ServedCaller ==
    ASSUME CoreInv, NEW s \in Server, pc[s] = "serve", inbox[s] # <<>>
    PROVE  /\ Head(inbox[s]) \in Request
           /\ Head(inbox[s]).from # s
           /\ Head(inbox[s]).live => Waiting(Head(inbox[s]).from)
           /\ Idle(s)
<1>1. inbox[s] \in Seq(Request)
  BY DEF CoreInv, TypeInv, TypeOK
<1>2. Head(inbox[s]) \in Request /\ Head(inbox[s]) = inbox[s][1] /\ 1 \in DOMAIN inbox[s]
  BY <1>1
<1>3. Head(inbox[s]).from \in Proc
  BY <1>2 DEF Request
<1>4. Head(inbox[s]).live => 1 \in RequestsAt(Head(inbox[s]).from, s)
  BY <1>2 DEF RequestsAt
<1>5. Head(inbox[s]).live => Waiting(Head(inbox[s]).from)
  BY <1>3, <1>4, OnlyRequest DEF CoreInv, CallsOK
<1> QED
  BY <1>2, <1>5 DEF CoreInv, TypeInv, LoopsOK, NoSelfCalls

\* A handler that answers at once preserves the inductive invariant.
LEMMA FinishCore ==
    ASSUME CoreInv, NEW s \in Server, pc[s] = "serve", inbox[s] # <<>>, Take(s),
           NEW req \in Request, req.from = Head(inbox[s]).from,
           req.live = Head(inbox[s]).live,
           NEW status \in Status, NEW values \in SUBSET Item,
           Finish(s, req, status, values),
           UNCHANGED <<target, todo, plan, faults, starts>>,
           running' \in [Server -> SUBSET Index], vt' \in [Server -> Stamp],
           AreMaps(simple, Text)', AreMaps(lists, SUBSET Item)'
    PROVE  CoreInv'
<1>1. TypeOK /\ NoSelfCalls /\ CallsOK
  BY DEF CoreInv, TypeInv
<1>2. Reply(req, status, values) /\ UNCHANGED <<pc, idx, job>>
  BY DEF Finish
<1>3. call' \in [Proc -> Call] /\ \A q \in Proc : q # req.from => call'[q] = call[q]
  BY <1>1, <1>2, ReplyType
<1>4. inbox' \in [Server -> Seq(Request)] /\ NoSelfCalls'
  BY <1>1, TakeType
<1>5. \A q \in Proc : Idle(q)' <=> Idle(q)
  <2>1. CASE req.live
    <3>1. Waiting(req.from) /\ call' = [call EXCEPT ![req.from] = Ended(@, "done", status, values)]
      BY <1>2, <2>1, ServedCaller DEF Reply
    <3>2. req.from \in Proc
      BY DEF Request
    <3>3. call'[req.from].st = "done" /\ call[req.from].st = "waiting"
      BY <1>1, <3>1, <3>2 DEF TypeOK, Ended, MakeCall, Waiting
    <3> QED
      BY <1>3, <3>3 DEF Idle
  <2>2. CASE ~req.live
    BY <1>2, <2>2 DEF Reply, Idle
  <2> QED
    BY <2>1, <2>2
<1>6. LoopsOK'
  BY <1>2, <1>5 DEF CoreInv, TypeInv, LoopsOK, Proc
<1>7. TypeOK'
  BY <1>1, <1>2, <1>3, <1>4 DEF TypeOK
<1>8. CallsOK'
  <2>1. Reply(Head(inbox[s]), status, values)
    BY <1>2 DEF Reply
  <2> QED
    BY <1>1, <1>2, <2>1, FinishCallsOK
<1> QED
  BY <1>4, <1>6, <1>7, <1>8 DEF CoreInv, TypeInv

\* A handler that answers or starts its broadcast preserves the inductive
\* invariant.
LEMMA ConcludeCore ==
    ASSUME CoreInv, NEW s \in Server, pc[s] = "serve", inbox[s] # <<>>, Take(s),
           NEW req \in Request, req.from = Head(inbox[s]).from,
           req.live = Head(inbox[s]).live,
           NEW status \in Status, Conclude(s, req, status),
           UNCHANGED <<target, todo, plan, faults, starts>>,
           running' \in [Server -> SUBSET Index], vt' \in [Server -> Stamp],
           AreMaps(simple, Text)', AreMaps(lists, SUBSET Item)'
    PROVE  CoreInv'
<1>1. CASE req.from \in Client /\ status = "OK"
  <2>1. TypeOK /\ NoSelfCalls /\ CallsOK /\ LoopsOK
    BY DEF CoreInv, TypeInv
  <2>2. Broadcast(s, req)
    BY <1>1 DEF Conclude
  <2>3. /\ pc' = [pc EXCEPT ![s] = "bcast"] /\ job' = [job EXCEPT ![s] = req]
        /\ UNCHANGED call /\ \E j \in 0..End : idx' = [idx EXCEPT ![s] = j]
    BY <2>2 DEF Broadcast
  <2>4. inbox' \in [Server -> Seq(Request)] /\ NoSelfCalls'
    BY <2>1, TakeType
  <2>5. TypeOK'
    BY <2>1, <2>3, <2>4 DEF TypeOK, Phase
  <2>6. LoopsOK'
    <3>1. Idle(s)
      BY ServedCaller
    <3>2. \A t \in Server : t # s => pc'[t] = pc[t] /\ job'[t] = job[t] /\ idx'[t] = idx[t]
      BY <2>1, <2>3 DEF TypeOK
    <3>3. pc'[s] = "bcast" /\ job'[s].from \in Client /\ call' = call /\ target' = target
      BY <1>1, <2>1, <2>3 DEF TypeOK
    <3> QED
      BY <2>1, <3>1, <3>2, <3>3 DEF LoopsOK, Idle
  <2>7. CallsOK'
    BY <2>1, <2>2, BroadcastCallsOK
  <2> QED
    BY <2>4, <2>5, <2>6, <2>7 DEF CoreInv, TypeInv
<1>2. CASE ~(req.from \in Client /\ status = "OK")
  <2>1. Finish(s, req, status, {})
    BY <1>2 DEF Conclude
  <2>2. {} \in SUBSET Item
    OBVIOUS
  <2> QED
    BY <2>1, <2>2, FinishCore
<1> QED
  BY <1>1, <1>2

\* Every handler preserves the inductive invariant.
LEMMA HandlerCore ==
    ASSUME CoreInv, NEW s \in Server, Handler(s)
    PROVE  CoreInv'
<1> DEFINE h == Head(inbox[s])
<1>1. pc[s] = "serve" /\ inbox[s] # <<>> /\ Take(s)
  BY DEF Handler, Read, Put, AddToList, PostTribble, ReceiveTribble, RemoveFromList,
     HasTribble, HasRequest
<1>2. /\ h \in Request /\ h.from # s
      /\ h.key \in Key /\ h.item \in Item /\ h.item.value \in Text /\ h.from \in Proc
  BY <1>1, ServedCaller DEF Request, Item
<1>3. /\ IsMap(simple[s], Text) /\ IsMap(lists[s], SUBSET Item)
      /\ AreMaps(simple, Text) /\ AreMaps(lists, SUBSET Item)
      /\ running \in [Server -> SUBSET Index] /\ vt \in [Server -> Stamp]
      /\ vt[s] \in Stamp
  BY DEF CoreInv, TypeInv, TypeOK, AreMaps
<1>4. [vt EXCEPT ![s] = Inc(@, s)] \in [Server -> Stamp]
  BY <1>3, IncType
<1>5. "OK" \in Status /\ {} \in SUBSET Item
  BY DEF Status
<1>6. CASE Read(s)
  <2> DEFINE r == IF h.kind = "Get" THEN StoreGet(simple[s], h.key)
                                    ELSE StoreGetList(lists[s], h.key)
  <2>1. /\ Finish(s, h, r.status, r.values)
        /\ UNCHANGED <<target, todo, running, simple, lists, vt, plan, faults, starts>>
    BY <1>6 DEF Read
  <2>2. r.status \in Status /\ r.values \in SUBSET Item
    BY <1>2, <1>3, StoreGetType, StoreGetListType
  <2>3. /\ running' \in [Server -> SUBSET Index] /\ vt' \in [Server -> Stamp]
        /\ AreMaps(simple, Text)' /\ AreMaps(lists, SUBSET Item)'
    BY <1>3, <2>1 DEF AreMaps
  <2> QED
    BY <1>1, <1>2, <2>1, <2>2, <2>3, FinishCore
<1>7. CASE Put(s)
  <2>1. /\ vt' = [vt EXCEPT ![s] = Inc(@, s)]
        /\ UNCHANGED <<target, todo, lists, plan, faults, starts>>
    BY <1>7 DEF Put
  <2>2. vt' \in [Server -> Stamp] /\ AreMaps(lists, SUBSET Item)'
    BY <1>3, <1>4, <2>1 DEF AreMaps
  <2>3. CASE h.key = ServerSyscmd
    <3>1. ProcessCommand(s, h) /\ Finish(s, h, "OK", {}) /\ UNCHANGED simple
      BY <1>7, <2>3 DEF Put
    <3>2. running' \in [Server -> SUBSET Index]
      <4>1. CASE h.item.value = "join cluster" /\ h.from \in Server
        <5>1. IndexOf(s, h.from) \in Index
          BY <1>2, <4>1, PeerOfIndex
        <5>2. running' = [running EXCEPT ![s] = @ \cup {IndexOf(s, h.from)}]
          BY <3>1, <4>1 DEF ProcessCommand
        <5> QED
          BY <1>3, <5>1, <5>2
      <4>2. CASE ~(h.item.value = "join cluster" /\ h.from \in Server)
        BY <1>3, <3>1, <4>2 DEF ProcessCommand
      <4> QED
        BY <4>1, <4>2
    <3>3. AreMaps(simple, Text)'
      BY <1>3, <3>1 DEF AreMaps
    <3> QED
      BY <1>1, <1>2, <1>5, <2>1, <2>2, <3>1, <3>2, <3>3, FinishCore
  <2>4. CASE h.key # ServerSyscmd
    <3> DEFINE result == StorePut(simple[s], h.key, h.item.value)
    <3>1. /\ simple' = [simple EXCEPT ![s] = result.map]
          /\ Conclude(s, h, result.status) /\ UNCHANGED running
      BY <1>7, <2>4 DEF Put
    <3>2. result.status \in Status /\ IsMap(result.map, Text)
      BY <1>2, <1>3, StorePutType
    <3>3. AreMaps(simple, Text)'
      BY <1>3, <3>1, <3>2, MapsExcept
    <3>4. running' \in [Server -> SUBSET Index]
      BY <1>3, <3>1
    <3> QED
      BY <1>1, <1>2, <2>1, <2>2, <3>1, <3>2, <3>3, <3>4, ConcludeCore
  <2> QED
    BY <2>3, <2>4
<1>8. ASSUME NEW req \in Request, req.from = h.from, req.live = h.live,
             NEW result, result.status \in Status, IsMap(result.map, SUBSET Item),
             WriteList(s, req, result), vt' \in [Server -> Stamp],
             UNCHANGED <<target, todo, running, plan, faults, starts>>
      PROVE  CoreInv'
  <2>1. /\ lists' = [lists EXCEPT ![s] = result.map]
        /\ Conclude(s, req, result.status) /\ UNCHANGED simple
    BY <1>8 DEF WriteList
  <2>2. AreMaps([lists EXCEPT ![s] = result.map], SUBSET Item)
    BY <1>3, <1>8, MapsExcept
  <2>3. AreMaps(lists, SUBSET Item)' /\ AreMaps(simple, Text)'
    BY <1>3, <2>1, <2>2 DEF AreMaps
  <2>4. running' \in [Server -> SUBSET Index]
    BY <1>3, <1>8
  <2> QED
    BY <1>1, <1>8, <2>1, <2>3, <2>4, ConcludeCore
<1>9. CASE RemoveFromList(s)
  <2> DEFINE result == StoreRemoveFromList(lists[s], h.key, h.item)
  <2>1. /\ WriteList(s, h, result)
        /\ UNCHANGED <<target, todo, running, vt, plan, faults, starts>>
    BY <1>9 DEF RemoveFromList
  <2>2. result.status \in Status /\ IsMap(result.map, SUBSET Item)
    BY <1>2, <1>3, StoreRemoveFromListType
  <2>3. vt' \in [Server -> Stamp]
    BY <1>3, <2>1
  <2> QED
    BY <1>2, <1>8, <2>1, <2>2, <2>3
<1>10. CASE AddToList(s)
  <2> DEFINE result == StoreAddToList(lists[s], h.key, h.item)
  <2>1. /\ WriteList(s, h, result)
        /\ UNCHANGED <<target, todo, running, vt, plan, faults, starts>>
    BY <1>10 DEF AddToList
  <2>2. result.status \in Status /\ IsMap(result.map, SUBSET Item)
    BY <1>2, <1>3, StoreAddToListType
  <2>3. vt' \in [Server -> Stamp]
    BY <1>3, <2>1
  <2> QED
    BY <1>2, <1>8, <2>1, <2>2, <2>3
<1>11. CASE PostTribble(s)
  <2> DEFINE stamp  == Inc(vt[s], s)
             stored == ToJSON(h.item.value, stamp)
             result == StoreAddToList(lists[s], h.key, stored)
             resent == [h EXCEPT !.item = ToJSON(h.item.value, Inc(stamp, s))]
  <2>1. /\ vt' = [vt EXCEPT ![s] = IF result.status = "OK" THEN Inc(stamp, s) ELSE stamp]
        /\ WriteList(s, resent, result)
        /\ UNCHANGED <<target, todo, running, plan, faults, starts>>
    BY <1>11 DEF PostTribble
  <2>2. stamp \in Stamp /\ Inc(stamp, s) \in Stamp
    BY <1>3, IncType
  <2>3. stored \in Item /\ ToJSON(h.item.value, Inc(stamp, s)) \in Item
    BY <1>2, <2>2 DEF ToJSON, Item, AnyStamp
  <2>4. result.status \in Status /\ IsMap(result.map, SUBSET Item)
    BY <1>2, <1>3, <2>3, StoreAddToListType
  <2>5. resent \in Request /\ resent.from = h.from /\ resent.live = h.live
    BY <1>2, <2>3 DEF Request
  <2>6. vt' \in [Server -> Stamp]
    BY <1>3, <2>1, <2>2
  <2> QED
    BY <1>8, <2>1, <2>4, <2>5, <2>6
<1>12. CASE ReceiveTribble(s)
  <2> DEFINE result == StoreAddToList(lists[s], h.key, h.item)
             known  == Update(Inc(vt[s], s), ToMessage(h.item).vt)
  <2>1. /\ vt' = [vt EXCEPT ![s] = known]
        /\ WriteList(s, h, result)
        /\ UNCHANGED <<target, todo, running, plan, faults, starts>>
    BY <1>12 DEF ReceiveTribble
  <2>2. result.status \in Status /\ IsMap(result.map, SUBSET Item)
    BY <1>2, <1>3, StoreAddToListType
  <2>3. ToMessage(h.item).vt \in Seq(Int)
    BY <1>2, ToMessageType
  <2>4. known \in Stamp
    BY <1>3, <2>3, IncType, UpdateType
  <2>5. vt' \in [Server -> Stamp]
    BY <1>3, <2>1, <2>4
  <2> QED
    BY <1>2, <1>8, <2>1, <2>2, <2>5
<1> QED
  BY <1>6, <1>7, <1>9, <1>10, <1>11, <1>12 DEF Handler

\* So does a handler that throws, or ends its process.
LEMMA HandlerFailsCore ==
    ASSUME CoreInv, NEW s \in Server, HandlerFails(s)
    PROVE  CoreInv'
<1>1. TypeOK /\ TypeInv /\ NoSelfCalls /\ LoopsOK /\ CallsOK
  BY DEF CoreInv, TypeInv
<1>2. CASE ReceiveFault(s)
  <2>1. Halt(s) /\ faults' \in Nat
    BY <1>1, <1>2 DEF ReceiveFault, TypeOK
  <2> QED
    BY <1>1, <2>1, HaltType, HaltCallsOK DEF CoreInv
<1>3. CASE ReceiveThrows(s)
  <2> DEFINE h == Head(inbox[s])
  <2>1. /\ pc[s] = "serve" /\ inbox[s] # <<>> /\ Take(s)
        /\ vt' = [vt EXCEPT ![s] = Inc(@, s)] /\ faults' = faults + 1
        /\ UNCHANGED <<pc, idx, target, todo, job, running, simple, lists, plan, starts>>
        /\ call' = IF h.live
                   THEN [call EXCEPT ![h.from] = Ended(@, "broken", "INTERNAL_FAILURE", {})]
                   ELSE call
    BY <1>3 DEF ReceiveThrows, HasTribble, HasRequest
  <2>2. h \in Request /\ h.from \in Proc /\ (h.live => Waiting(h.from))
    BY <2>1, ServedCaller DEF Request
  <2>3. Ended(call[h.from], "broken", "INTERNAL_FAILURE", {}) \in Call
    BY <1>1, <2>2 DEF TypeOK, Ended, MakeCall, Call, Status
  <2>4. Ended(call[h.from], "broken", "INTERNAL_FAILURE", {}).st = "broken"
    BY DEF Ended, MakeCall
  <2>5. call' \in [Proc -> Call] /\ \A q \in Proc : q # h.from => call'[q] = call[q]
    BY <1>1, <2>1, <2>2, <2>3 DEF TypeOK
  <2>6. \A q \in Proc : Idle(q)' <=> Idle(q)
    <3>1. h.live => call'[h.from].st = "broken" /\ call[h.from].st = "waiting"
      BY <1>1, <2>1, <2>2, <2>4 DEF TypeOK, Waiting
    <3>2. ~h.live => call' = call
      BY <2>1
    <3> QED
      BY <2>5, <3>1, <3>2 DEF Idle
  <2>7. inbox' \in [Server -> Seq(Request)] /\ NoSelfCalls'
    BY <1>1, <2>1, TakeType
  <2>8. vt' \in [Server -> Stamp]
    BY <1>1, <2>1, IncType DEF TypeOK
  <2>9. faults' \in Nat
    BY <1>1, <2>1 DEF TypeOK
  <2>10. TypeOK'
    BY <1>1, <2>1, <2>5, <2>7, <2>8, <2>9 DEF TypeOK, AreMaps
  <2>11. LoopsOK'
    BY <1>1, <2>1, <2>6 DEF LoopsOK, Proc
  <2>12. CallsOK'
    BY <1>1, <2>1, AnswerCallsOK, <2>4
  <2> QED
    BY <2>7, <2>10, <2>11, <2>12 DEF CoreInv, TypeInv
<1> QED
  BY <1>2, <1>3 DEF HandlerFails

-----------------------------------------------------------------------------
(* The broadcast loop. *)

\* Ending a broadcast preserves the inductive invariant.
LEMMA BcastStopCore ==
    ASSUME CoreInv, NEW s \in Server, pc[s] = "bcast", ~Waiting(s),
           NEW status \in Status, BcastStop(s, status)
    PROVE  CoreInv'
<1>1. TypeOK /\ LoopsOK /\ NoSelfCalls /\ TypeInv /\ CallsOK
  BY DEF CoreInv, TypeInv
<1>2. /\ pc' = [pc EXCEPT ![s] = "serve"] /\ idx' = [idx EXCEPT ![s] = 0]
      /\ job' = [job EXCEPT ![s] = NoJob]
      /\ UNCHANGED <<target, todo, running, simple, lists, vt, inbox, plan, faults, starts>>
  BY DEF BcastStop
<1>3. s \in Proc /\ job[s].from \in Client /\ job[s].from \in Proc /\ job[s].from # s
  BY <1>1, ClusterAssumption DEF LoopsOK, Proc
<1>4. job[s].live => Waiting(job[s].from)
  <2>1. job[s].live => 0 \in RequestsAt(job[s].from, s)
    BY DEF RequestsAt
  <2> QED
    BY <1>1, <1>3, <2>1, OnlyRequest DEF CallsOK
<1>5. \A p \in Proc : call[p] \in Call /\ Ended(call[p], "done", status, {}) \in Call
                      /\ Ended(call[p], "done", status, {}).st = "done"
  BY <1>1 DEF TypeOK, Ended, MakeCall, Call
<1>6. call' \in [Proc -> Call]
  BY <1>5, NoCallType DEF BcastStop
<1>7. Idle(s)' /\ \A q \in Proc : q # s => (Idle(q)' <=> Idle(q))
  BY <1>3, <1>4, <1>5, NoCallType DEF BcastStop, Idle, Waiting
<1>8. TypeOK'
  <2>1. 0 \in 0..End
    BY NAssumption DEF End
  <2>2. idx' \in [Server -> 0..End]
    BY <1>1, <1>2, <2>1 DEF TypeOK
  <2> QED
    BY <1>1, <1>2, <1>6, <2>2, NoCallType DEF TypeOK, Phase
<1>9. LoopsOK'
  <2>1. pc'[s] = "serve"
    BY <1>1, <1>2 DEF TypeOK
  <2>2. \A t \in Server : t # s =>
           /\ pc'[t] = pc[t] /\ job'[t] = job[t] /\ idx'[t] = idx[t]
           /\ target'[t] = target[t] /\ (Idle(t)' <=> Idle(t))
    BY <1>1, <1>2, <1>7 DEF TypeOK, Proc
  <2> QED
    BY <1>1, <1>7, <2>1, <2>2 DEF LoopsOK
<1>10. NoSelfCalls'
  BY <1>1, <1>2 DEF NoSelfCalls
<1>11. CallsOK'
  BY <1>1, BcastStopCallsOK
<1> QED
  BY <1>8, <1>9, <1>10, <1>11 DEF CoreInv, TypeInv

\* Every step of a broadcast preserves the inductive invariant.
LEMMA BcastCore ==
    ASSUME CoreInv, NEW s \in Server, BcastStep(s)
    PROVE  CoreInv'
<1>1. TypeOK /\ TypeInv /\ CallsOK /\ s \in Proc
  BY DEF CoreInv, TypeInv, Proc
<1>2. pc[s] = "bcast"
  BY DEF BcastStep, BcastCall, BcastAnswer, BcastRejected, BcastErased, BcastFault, BcastDone
<1>3. Answered(s) \/ Broken(s) \/ Idle(s) => ~Waiting(s)
  BY DEF Answered, Broken, Idle, Waiting
<1>4. /\ AreMaps(simple, Text) /\ AreMaps(lists, SUBSET Item)
      /\ pc \in [Server -> Phase] /\ todo \in [Server -> SUBSET Text]
      /\ target \in [Server -> {-1} \cup Index] /\ running \in [Server -> SUBSET Index]
      /\ idx \in [Server -> 0..End] /\ job[s] \in Request /\ call[s] \in Call
  BY <1>1 DEF TypeOK
<1>5. idx[s] # End => idx[s] \in Index
  <2>1. idx[s] \in 0..End
    BY <1>4
  <2> QED
    BY <2>1, NAssumption DEF End, Index
<1>6. CASE BcastCall(s)
  <2>1. /\ idx[s] # End /\ Idle(s) /\ Send(s, Peer(s, idx[s]), OpOf(job[s]))
        /\ UNCHANGED <<pc, idx, target, todo, job, running, simple, lists, vt, plan,
                       faults, starts>>
    BY <1>6 DEF BcastCall
  <2>2. idx[s] \in Index /\ Peer(s, idx[s]) \in Server /\ Peer(s, idx[s]) # s
    BY <1>5, <2>1, PeerType
  <2>3. OpOf(job[s]) \in Op
    BY <1>4, OpType
  <2>4. TypeInv'
    <3>1. todo' \in [Server -> SUBSET Text] /\ AreMaps(simple, Text)' /\ AreMaps(lists, SUBSET Item)'
      BY <1>4, <2>1 DEF AreMaps
    <3> QED
      BY <1>1, <1>2, <2>1, <2>2, <2>3, <3>1, CallStepTypeInv
  <2>5. CallsOK'
    BY <1>1, <2>1, <2>2, <2>3, SendCallsOK DEF Idle, Waiting
  <2> QED
    BY <2>4, <2>5 DEF CoreInv
<1>7. CASE BcastAnswer(s) \/ BcastErased(s)
  <2>1. /\ Answered(s) \/ Broken(s)
        /\ Forget(s) /\ UNCHANGED <<pc, target, todo, job, simple, lists, vt, inbox, plan, faults, starts>>
        /\ \E j \in 0..End : idx' = [idx EXCEPT ![s] = j]
    <3>1. CASE BcastAnswer(s)
      BY <3>1 DEF BcastAnswer
    <3>2. CASE BcastErased(s)
      <4>1. PICK j \in running'[s] \cup {End} : idx' = [idx EXCEPT ![s] = j]
        BY <3>2 DEF BcastErased
      <4>2. running'[s] \subseteq Index
        BY <1>4, <3>2 DEF BcastErased
      <4>3. j \in 0..End
        BY <4>1, <4>2, NAssumption DEF End, Index
      <4> QED
        BY <3>2, <4>1, <4>3 DEF BcastErased
    <3> QED
      BY <1>7, <3>1, <3>2
  <2>2. running' \in [Server -> SUBSET Index]
    <3>1. running' \in {running, [running EXCEPT ![s] = @ \ {idx[s]}]}
      BY <1>7 DEF BcastAnswer, BcastErased
    <3> QED
      BY <1>4, <3>1
  <2>3. TypeInv'
    <3>1. /\ todo' \in [Server -> SUBSET Text] /\ pc' \in [Server -> Phase]
          /\ target' \in [Server -> {-1} \cup Index]
          /\ AreMaps(simple, Text)' /\ AreMaps(lists, SUBSET Item)'
      BY <1>4, <2>1 DEF AreMaps
    <3>2. idx' \in [Server -> 0..End] /\ \A t \in Server : t # s => idx'[t] = idx[t]
      BY <1>4, <2>1
    <3> QED
      BY <1>1, <1>2, <2>1, <2>2, <3>1, <3>2, AnswerStepTypeInv
  <2>4. CallsOK'
    BY <1>1, <1>3, <2>1, ForgetCallsOK
  <2> QED
    BY <2>3, <2>4 DEF CoreInv
<1>8. CASE BcastRejected(s)
  BY <1>2, <1>3, <1>4, <1>8, BcastStopCore DEF BcastRejected, Call
<1>9. CASE BcastDone(s)
  <2>1. "OK" \in Status
    BY DEF Status
  <2> QED
    BY <1>2, <1>3, <1>9, <2>1, BcastStopCore DEF BcastDone
<1>10. CASE BcastFault(s)
  <2>1. Halt(s) /\ faults' \in Nat
    BY <1>1, <1>10 DEF BcastFault, TypeOK
  <2> QED
    BY <1>1, <2>1, HaltType, HaltCallsOK DEF CoreInv
<1> QED
  BY <1>6, <1>7, <1>8, <1>9, <1>10 DEF BcastStep

-----------------------------------------------------------------------------
(* The environment, and the whole. *)

\* A Tribbler server that waits for nothing makes a call.
LEMMA ClientSendCore ==
    ASSUME CoreInv, NEW c \in Client, NEW o \in Op, ~Waiting(c), Send(c, Entry[c], o),
           UNCHANGED <<pc, idx, target, todo, job, running, simple, lists, vt, faults, starts>>,
           plan' \in [Client -> SUBSET Op]
    PROVE  CoreInv'
<1>1. TypeOK /\ TypeInv /\ NoSelfCalls /\ LoopsOK /\ CallsOK
  BY DEF CoreInv, TypeInv
<1>2. c \in Proc /\ c \notin Server /\ Entry[c] \in Server /\ c # Entry[c]
  BY ClusterAssumption DEF Proc
<1>3. /\ call' \in [Proc -> Call]
      /\ \A q \in Proc : q # c => call'[q] = call[q]
      /\ inbox' \in [Server -> Seq(Request)]
      /\ NoSelfCalls'
  BY <1>1, <1>2, SendType
<1>4. TypeOK'
  BY <1>1, <1>3 DEF TypeOK, AreMaps
<1>5. LoopsOK'
  <2>1. \A t \in Server : Idle(t)' <=> Idle(t)
    BY <1>2, <1>3 DEF Idle, Proc
  <2> QED
    BY <1>1, <2>1 DEF LoopsOK
<1>6. CallsOK'
  BY <1>1, <1>2, SendCallsOK
<1> QED
  BY <1>3, <1>4, <1>5, <1>6 DEF CoreInv, TypeInv

\* A Tribbler server is done with a call.
LEMMA ClientForgetCore ==
    ASSUME CoreInv, NEW c \in Client, ~Waiting(c), Forget(c),
           UNCHANGED <<pc, idx, target, todo, job, running, simple, lists, vt, inbox,
                       plan, faults, starts>>
    PROVE  CoreInv'
<1>1. TypeOK /\ TypeInv /\ NoSelfCalls /\ LoopsOK /\ CallsOK
  BY DEF CoreInv, TypeInv
<1>2. c \in Proc /\ c \notin Server
  BY ClusterAssumption DEF Proc
<1>3. call' \in [Proc -> Call] /\ \A q \in Proc : q # c => call'[q] = call[q]
  BY <1>1, <1>2, ForgetType
<1>4. TypeOK' /\ NoSelfCalls'
  BY <1>1, <1>3 DEF TypeOK, AreMaps, NoSelfCalls
<1>5. LoopsOK'
  <2>1. \A t \in Server : Idle(t)' <=> Idle(t)
    BY <1>2, <1>3 DEF Idle, Proc
  <2> QED
    BY <1>1, <2>1 DEF LoopsOK
<1>6. CallsOK'
  BY <1>1, <1>2, ForgetCallsOK
<1> QED
  BY <1>4, <1>5, <1>6 DEF CoreInv, TypeInv

\* What crashes and Tribbler servers do preserves the inductive invariant.
LEMMA EnvironmentCore ==
    ASSUME CoreInv,
           NEW s \in Server, NEW c,
           Crash(s) \/ (c \in Client /\ ClientStep(c)) \/ UNCHANGED vars
    PROVE  CoreInv'
<1>1. TypeOK /\ TypeInv /\ NoSelfCalls /\ LoopsOK /\ CallsOK
  BY DEF CoreInv, TypeInv
<1>2. CASE Crash(s)
  <2>1. Halt(s) /\ faults' \in Nat
    BY <1>1, <1>2 DEF Crash, TypeOK
  <2> QED
    BY <1>1, <2>1, HaltType, HaltCallsOK DEF CoreInv
<1>3. CASE c \in Client /\ ClientCall(c)
  <2>1. PICK o \in plan[c] : Send(c, Entry[c], o) /\ plan' = [plan EXCEPT ![c] = @ \ {o}]
    BY <1>3 DEF ClientCall
  <2>2. /\ ~Waiting(c) /\ o \in Op /\ plan' \in [Client -> SUBSET Op]
        /\ UNCHANGED <<pc, idx, target, todo, job, running, simple, lists, vt, faults, starts>>
    BY <1>1, <1>3, <2>1 DEF ClientCall, Idle, Waiting, TypeOK
  <2> QED
    BY <1>3, <2>1, <2>2, ClientSendCore
<1>4. CASE c \in Client /\ ClientReturn(c)
  BY <1>4, ClientForgetCore DEF ClientReturn, Answered, Broken, Waiting
<1>5. CASE c \in Client /\ ClientCrash(c)
  BY <1>5, ClientEndsCore DEF ClientCrash
<1>6. CASE UNCHANGED vars
  <2>1. TypeOK' /\ NoSelfCalls' /\ LoopsOK'
    BY <1>1, <1>6 DEF vars, TypeOK, AreMaps, NoSelfCalls, LoopsOK, Idle
  <2>2. CallsOK'
    BY <1>1, <1>6, QuietCallsOK DEF vars
  <2> QED
    BY <2>1, <2>2 DEF CoreInv, TypeInv
<1> QED
  BY <1>2, <1>3, <1>4, <1>5, <1>6 DEF ClientStep

\* The inductive invariant holds when servers 1..B have booted.
LEMMA InitCore == Init => CoreInv
<1> SUFFICES ASSUME Init PROVE CoreInv
  OBVIOUS
<1>1. TypeInv
  BY InitTypeInv
<1>2. \A p \in Proc : ~Waiting(p) /\ \A s \in Server : RequestsAt(p, s) = {}
  BY NoCallType DEF Init, Waiting, RequestsAt
<1> QED
  BY <1>1, <1>2 DEF CoreInv, CallsOK, CallOK

\* Every step preserves the inductive invariant.
LEMMA NextCore == CoreInv /\ [Next]_vars => CoreInv'
<1> SUFFICES ASSUME CoreInv, [Next]_vars PROVE CoreInv'
  OBVIOUS
<1>1. ASSUME NEW s \in Server, Boot(s) \/ ServerStep(s)
      PROVE  CoreInv'
  BY <1>1, BootCore, HandlerCore, HandlerFailsCore, BcastCore DEF ServerStep
<1>2. 1 \in Server
  BY NAssumption DEF Server
<1> QED
  BY <1>1, <1>2, EnvironmentCore DEF Next, Settled

\* What the calls and the loops rely on holds in every reachable state.
THEOREM CoreCorrect == Spec => []CoreInv
  BY InitCore, NextCore, PTL DEF Spec

\* Whatever boots, joins, is called or crashes, every variable keeps its type: in
\* particular each index a loop or processCommand computes names a peer.
THEOREM TypeCorrect == Spec => []TypeOK
<1>1. CoreInv => TypeOK
  BY DEF CoreInv, TypeInv
<1> QED
  BY <1>1, CoreCorrect, PTL

-----------------------------------------------------------------------------
(* Who is a member and who waits for whom.  A member comes in when a booting *)
(* server finds a peer running, or when a server takes a peer's "join        *)
(* cluster": the state of the other one is then known from a call that was   *)
(* made earlier, and must still be true.                                     *)

\* p has copied its data.
Joined(p) == pc[p] \in {"join", "serve", "bcast"}

\* A peer's request to be taken in.
Announces(req) ==
    req.from \in Server /\ req.kind = "Put" /\ req.key = ServerSyscmd

\* The call of the loop that looks for running servers.
FindOK(s) ==
    pc[s] = "find" /\ ~Idle(s) =>
        /\ call[s].to = Peer(s, idx[s])
        /\ call[s].st \in {"waiting", "done"} => Listening(call[s].to)

MemberOK(s) ==
    /\ \A i \in running[s] : Joined(Peer(s, i))
    /\ FindOK(s)
    /\ \A n \in DOMAIN inbox[s] : Announces(inbox[s][n]) => Joined(inbox[s][n].from)

MembersInv == faults = 0 => \A s \in Server : MemberOK(s)

-----------------------------------------------------------------------------

\* What a server knows of others stays true when they stay up.
Stays(t) ==
    /\ Joined(t) => pc'[t] \in {"join", "serve", "bcast"}
    /\ Listening(t) => pc'[t] \in {"serve", "bcast"}

\* Every request of the queue was there before.
NoneNew(s) ==
    \A n \in DOMAIN inbox'[s] : \E m \in DOMAIN inbox[s] :
        /\ inbox'[s][n].from = inbox[s][m].from
        /\ inbox'[s][n].kind = inbox[s][m].kind
        /\ inbox'[s][n].key = inbox[s][m].key

\* The loop has not made a call or lost one.
SameFind(s) ==
    pc'[s] = "find" /\ call'[s].st # "idle" =>
        /\ pc[s] = "find" /\ ~Idle(s) /\ idx'[s] = idx[s]
        /\ call'[s].to = call[s].to
        /\ call'[s].st \in {"waiting", "done"} => call[s].st \in {"waiting", "done"}

\* The parts of MemberOK are kept by what learns nothing new.
LEMMA RunningFrame ==
    ASSUME TypeOK, NEW s \in Server, MemberOK(s), \A t \in Server : Stays(t),
           running'[s] \subseteq running[s]
    PROVE  \A i \in running'[s] : Joined(Peer(s, i))'
<1>1. \A i \in running[s] : Peer(s, i) \in Server
  BY PeerType DEF TypeOK
<1> QED
  BY <1>1 DEF MemberOK, Stays, Joined

\* A step that leaves a booting server looking for the others keeps what it
\* knows of the server it asks.
LEMMA FindFrame ==
    ASSUME TypeOK, NEW s \in Server, MemberOK(s), \A t \in Server : Stays(t), SameFind(s)
    PROVE  FindOK(s)'
<1>1. call[s].to \in Server
  BY DEF TypeOK, Proc, Call
<1>2. CASE pc'[s] = "find" /\ call'[s].st # "idle"
  <2>1. /\ pc[s] = "find" /\ ~Idle(s) /\ idx'[s] = idx[s] /\ call'[s].to = call[s].to
        /\ call'[s].st \in {"waiting", "done"} => call[s].st \in {"waiting", "done"}
    BY <1>2 DEF SameFind
  <2>2. /\ call[s].to = Peer(s, idx[s])
        /\ call[s].st \in {"waiting", "done"} => Listening(call[s].to)
    BY <2>1 DEF MemberOK, FindOK
  <2>3. Peer(s, idx[s])' = Peer(s, idx[s])
    BY <2>1 DEF Peer
  <2> QED
    BY <1>1, <2>1, <2>2, <2>3 DEF FindOK, Stays, Listening
<1> QED
  BY <1>2 DEF FindOK, Idle

\* A step that puts no new request into a queue keeps what is known of the
\* servers that announce themselves there.
LEMMA QueueFrame ==
    ASSUME NEW s \in Server, MemberOK(s), \A t \in Server : Stays(t), NoneNew(s)
    PROVE  \A n \in DOMAIN inbox'[s] :
              Announces(inbox'[s][n]) => pc'[inbox'[s][n].from] \in {"join", "serve", "bcast"}
<1> SUFFICES ASSUME NEW n \in DOMAIN inbox'[s], Announces(inbox'[s][n])
             PROVE  pc'[inbox'[s][n].from] \in {"join", "serve", "bcast"}
  OBVIOUS
<1>1. PICK m \in DOMAIN inbox[s] : /\ inbox'[s][n].from = inbox[s][m].from
                                   /\ inbox'[s][n].kind = inbox[s][m].kind
                                   /\ inbox'[s][n].key = inbox[s][m].key
  BY DEF NoneNew
<1>2. Announces(inbox[s][m])
  BY <1>1 DEF Announces
<1> QED
  BY <1>1, <1>2 DEF MemberOK, Stays, Joined, Announces

\* Together they are the invariant, for a server that learns nothing.
LEMMA MemberFrame ==
    ASSUME TypeOK, NEW s \in Server, MemberOK(s), \A t \in Server : Stays(t),
           running'[s] \subseteq running[s], SameFind(s), NoneNew(s)
    PROVE  MemberOK(s)'
<1>1. /\ \A i \in running'[s] : Joined(Peer(s, i))'
      /\ FindOK(s)'
  BY RunningFrame, FindFrame
<1>2. \A n \in DOMAIN inbox'[s] :
         Announces(inbox'[s][n]) => pc'[inbox'[s][n].from] \in {"join", "serve", "bcast"}
  BY QueueFrame
<1> QED
  BY <1>1, <1>2 DEF MemberOK, Joined, Announces

-----------------------------------------------------------------------------
(* Steps. *)

\* A call of p that is no announcement, or is one of a server that has joined.
LEMMA SendMembers ==
    ASSUME TypeOK, \A s \in Server : MemberOK(s), NEW p \in Proc, NEW t \in Server,
           NEW o \in Op, Send(p, t, o), UNCHANGED <<pc, idx, running>>,
           p \in Server /\ o.kind = "Put" /\ o.key = ServerSyscmd => Joined(p),
           p \in Server /\ pc[p] = "find" => t = Peer(p, idx[p])
    PROVE  \A s \in Server : MemberOK(s)'
<1>1. \A s \in Server : Stays(s)
  BY DEF Stays, Joined, Listening
<1>2. /\ \A q \in Proc : q # p => call'[q] = call[q]
      /\ call'[p].to = t
      /\ call'[p].st \in {"waiting", "done"} => Listening(t)
  BY DEF Send, TypeOK, MakeCall
<1>3. ASSUME NEW s \in Server
      PROVE  FindOK(s)'
  <2>1. CASE s = p
    BY <1>2, <2>1 DEF FindOK, Listening, Peer
  <2>2. CASE s # p
    <3>1. SameFind(s)
      BY <1>2, <2>2 DEF SameFind, Idle, Proc
    <3> QED
      BY <1>1, <3>1, FindFrame
  <2> QED
    BY <2>1, <2>2
<1>4. ASSUME NEW s \in Server
      PROVE  \A n \in DOMAIN inbox'[s] :
                Announces(inbox'[s][n]) => pc'[inbox'[s][n].from] \in {"join", "serve", "bcast"}
  <2>1. CASE inbox'[s] = inbox[s]
    <3>1. NoneNew(s)
      BY <2>1 DEF NoneNew
    <3> QED
      BY <1>1, <3>1, QueueFrame
  <2>2. CASE s = t /\ Listening(t)
    <3> DEFINE r == [from |-> p, live |-> TRUE, kind |-> o.kind, key |-> o.key,
                     item |-> o.item]
               q == Append(inbox[t], r)
    <3>1. /\ inbox[t] \in Seq(Request) /\ r \in Request /\ inbox'[t] = q
      BY <2>2 DEF Send, TypeOK, Request, Op
    <3>2. /\ DOMAIN q = DOMAIN inbox[t] \cup {Len(inbox[t]) + 1}
          /\ q[Len(inbox[t]) + 1] = r
          /\ \A n \in DOMAIN inbox[t] : q[n] = inbox[t][n]
      BY <3>1
    <3>3. r.from = p /\ r.kind = o.kind /\ r.key = o.key
      OBVIOUS
    <3> HIDE DEF q, r
    <3>4. Announces(r) => Joined(r.from)
      BY <3>3 DEF Announces
    <3>5. \A n \in DOMAIN q : Announces(q[n]) => Joined(q[n].from)
      BY <2>2, <3>2, <3>4 DEF MemberOK
    <3> QED
      BY <2>2, <3>1, <3>5 DEF Joined
  <2> QED
    BY <2>1, <2>2 DEF Send, TypeOK
<1>5. ASSUME NEW s \in Server
      PROVE  \A i \in running'[s] : Joined(Peer(s, i))'
  BY <1>1, RunningFrame
<1> QED
  BY <1>3, <1>4, <1>5 DEF MemberOK, Joined, Announces

\* A server that gives up was nobody's member yet.
LEMMA GiveUpMembers ==
    ASSUME CoreInv, \A s \in Server : MemberOK(s), NEW g \in Server, GiveUp(g)
    PROVE  \A s \in Server : MemberOK(s)'
<1>1. TypeOK /\ Halt(g) /\ pc[g] \in {"users", "subs"}
  BY DEF CoreInv, TypeInv, GiveUp
<1>2. \A t \in Server : Stays(t)
  BY <1>1 DEF Halt, TypeOK, Stays, Joined, Listening
<1> SUFFICES ASSUME NEW s \in Server
             PROVE  MemberOK(s)'
  OBVIOUS
<1>3. running'[s] \subseteq running[s]
  BY <1>1 DEF Halt, TypeOK
<1>4. SameFind(s)
  BY <1>1 DEF Halt, TypeOK, SameFind, Idle, Ended, MakeCall, Proc
<1>5. NoneNew(s)
  <2>1. CASE s = g
    BY <1>1, <2>1 DEF Halt, TypeOK, NoneNew
  <2>2. CASE s # g
    <3>1. inbox[s] \in Seq(Request) /\ inbox'[s] = OrphanedCalls(inbox[s], g)
      BY <1>1, <2>2 DEF Halt, TypeOK
    <3>2. DOMAIN inbox'[s] = DOMAIN inbox[s]
      BY <3>1, OrphanedType
    <3>3. \A n \in DOMAIN inbox[s] : /\ inbox'[s][n] = Orphaned(inbox[s][n], g)
                                     /\ inbox[s][n] \in Request
      BY <3>1, OrphanedType DEF OrphanedCalls
    <3> QED
      BY <3>2, <3>3 DEF NoneNew, Orphaned, Request
  <2> QED
    BY <2>1, <2>2
<1> QED
  BY <1>1, <1>2, <1>3, <1>4, <1>5, MemberFrame

\* A running peer becomes a member while it is still running.
LEMMA FindAnswerMembers ==
    ASSUME CoreInv, \A s \in Server : MemberOK(s), NEW f \in Server, FindAnswer(f)
    PROVE  \A s \in Server : MemberOK(s)'
<1>1. TypeOK /\ f \in Proc
  BY DEF CoreInv, TypeInv, Proc
<1>2. /\ pc[f] = "find" /\ Answered(f) /\ Forget(f) /\ UNCHANGED <<pc, inbox>>
      /\ running'[f] \subseteq running[f] \cup {idx[f]}
      /\ \A s \in Server : s # f => running'[s] = running[s] /\ idx'[s] = idx[s]
  BY <1>1 DEF FindAnswer, TypeOK
<1>3. call'[f].st = "idle" /\ \A p \in Proc : p # f => call'[p] = call[p]
  BY <1>1, <1>2, ForgetType
<1>4. \A t \in Server : Stays(t)
  BY <1>2 DEF Stays, Joined, Listening
<1> SUFFICES ASSUME NEW s \in Server
             PROVE  MemberOK(s)'
  OBVIOUS
<1>5. SameFind(s) /\ NoneNew(s)
  BY <1>2, <1>3 DEF SameFind, NoneNew, Idle, Proc
<1>6. CASE s # f
  BY <1>1, <1>2, <1>4, <1>5, <1>6, MemberFrame
<1>7. CASE s = f
  <2>1. Joined(Peer(f, idx[f]))
    BY <1>2 DEF MemberOK, FindOK, Answered, Idle, Listening, Joined
  <2>2. \A i \in running'[f] : Joined(Peer(f, i))
    BY <1>2, <2>1 DEF MemberOK
  <2>3. \A i \in running'[f] : Joined(Peer(f, i))'
    BY <1>2, <2>2 DEF Joined, Peer
  <2> QED
    BY <1>1, <1>2, <1>4, <1>5, <1>7, <2>3, FindFrame DEF MemberOK, Joined, Announces
<1> QED
  BY <1>6, <1>7

\* The taken request leaves the queue; if it is an announcement its sender has joined.
LEMMA HandlerMembers ==
    ASSUME CoreInv, \A s \in Server : MemberOK(s), NEW h \in Server, Handler(h)
    PROVE  \A s \in Server : MemberOK(s)'
<1> DEFINE req == Head(inbox[h])
<1>1. TypeOK /\ pc[h] = "serve" /\ inbox[h] # <<>> /\ Take(h)
  BY DEF Handler, Read, Put, AddToList, PostTribble, ReceiveTribble, RemoveFromList,
     HasTribble, HasRequest, CoreInv, TypeInv
<1>2. /\ inbox'[h] = Tail(inbox[h]) /\ inbox[h] \in Seq(Request)
      /\ \A s \in Server : s # h => inbox'[s] = inbox[s]
  BY <1>1 DEF Take, TypeOK
<1>3. /\ req = inbox[h][1] /\ 1 \in DOMAIN inbox[h]
      /\ \A n \in DOMAIN inbox'[h] : n + 1 \in DOMAIN inbox[h] /\ inbox'[h][n] = inbox[h][n + 1]
  BY <1>1, <1>2
<1>4. \A s \in Server : NoneNew(s)
  BY <1>2, <1>3 DEF NoneNew
<1>5. /\ req \in Request /\ req.from # h
      /\ req.live => Waiting(req.from)
  BY <1>1, ServedCaller
<1>6. ASSUME NEW r, r.from = req.from, r.live = req.live, NEW status, NEW values,
             Finish(h, r, status, values) \/ Broadcast(h, r)
      PROVE  \A s \in Server : Stays(s) /\ SameFind(s)
  <2>1. CASE Broadcast(h, r)
    <3>1. /\ call' = call /\ pc'[h] = "bcast"
          /\ \A s \in Server : s # h => pc'[s] = pc[s] /\ idx'[s] = idx[s]
      BY <1>1, <2>1 DEF Broadcast, TypeOK
    <3> QED
      BY <3>1 DEF Stays, SameFind, Joined, Listening, Idle
  <2>2. CASE Finish(h, r, status, values)
    <3>1. UNCHANGED <<pc, idx>> /\ Reply(r, status, values)
      BY <2>2 DEF Finish
    <3>2. ASSUME NEW s \in Server
          PROVE  /\ call'[s].to = call[s].to
                 /\ call'[s] = call[s] \/ Waiting(s)
      <4>1. call \in [Proc -> Call] /\ s \in Proc
        BY <1>1 DEF TypeOK, Proc
      <4>2. CASE r.live /\ s = r.from
        <5>1. call'[s] = Ended(call[s], "done", status, values)
          BY <3>1, <4>1, <4>2 DEF Reply
        <5>2. Waiting(s)
          BY <1>5, <1>6, <4>2
        <5> QED
          BY <5>1, <5>2 DEF Ended, MakeCall
      <4>3. CASE ~(r.live /\ s = r.from)
        BY <3>1, <4>1, <4>3 DEF Reply
      <4> QED
        BY <4>2, <4>3
    <3> QED
      BY <3>1, <3>2 DEF Stays, SameFind, Joined, Listening, Idle, Waiting
  <2> QED
    BY <1>6, <2>1, <2>2
<1>7. ASSUME running' = running, \A s \in Server : Stays(s) /\ SameFind(s)
      PROVE  \A s \in Server : MemberOK(s)'
  BY <1>1, <1>4, <1>7, MemberFrame
<1>8. ASSUME NEW r, r.from = req.from, r.live = req.live, NEW status, Conclude(h, r, status),
             running' = running
      PROVE  \A s \in Server : MemberOK(s)'
  BY <1>6, <1>7, <1>8 DEF Conclude
<1>9. CASE Read(h)
  <2>1. running' = running /\ \E status, values : Finish(h, req, status, values)
    BY <1>9 DEF Read
  <2> QED
    BY <2>1, <1>6, <1>7
<1>10. CASE Put(h)
  <2>1. CASE req.key # ServerSyscmd
    <3>1. running' = running /\ \E status : Conclude(h, req, status)
      BY <1>10, <2>1 DEF Put
    <3> QED
      BY <3>1, <1>8
  <2>2. CASE req.key = ServerSyscmd
    <3>1. ProcessCommand(h, req) /\ Finish(h, req, "OK", {}) /\ req.kind = "Put"
      BY <1>10, <2>2 DEF Put, HasRequest
    <3>2. \A s \in Server : Stays(s) /\ SameFind(s)
      BY <3>1, <1>6
    <3>3. CASE running' = running
      BY <3>2, <3>3, <1>7
    <3>4. CASE running' # running
      <4>1. /\ req.from \in Server
            /\ running' = [running EXCEPT ![h] = @ \cup {IndexOf(h, req.from)}]
        BY <3>1, <3>4 DEF ProcessCommand
      <4>2. running \in [Server -> SUBSET Index]
        BY <1>1 DEF TypeOK
      <4>3. \A s \in Server : s # h => MemberOK(s)'
        BY <1>1, <1>4, <3>2, <4>1, <4>2, MemberFrame
      <4>4. Joined(req.from)
        BY <1>3, <2>2, <3>1, <4>1 DEF MemberOK, Announces
      <4>5. Peer(h, IndexOf(h, req.from)) = req.from
        BY <1>5, <4>1, PeerOfIndex
      <4>6. \A i \in running'[h] : Joined(Peer(h, i)) /\ Peer(h, i) \in Server
        BY <4>1, <4>2, <4>4, <4>5, PeerType DEF MemberOK
      <4>7. \A i \in running'[h] : Joined(Peer(h, i))'
        BY <3>2, <4>6 DEF Stays, Joined
      <4>8. MemberOK(h)'
        BY <1>1, <1>4, <3>2, <4>7, FindFrame, QueueFrame DEF MemberOK, Joined, Announces
      <4> QED
        BY <4>3, <4>8
    <3> QED
      BY <3>3, <3>4
  <2> QED
    BY <2>1, <2>2
<1>11. CASE AddToList(h) \/ RemoveFromList(h) \/ ReceiveTribble(h)
  <2>1. running' = running /\ \E status : Conclude(h, req, status)
    BY <1>11 DEF AddToList, RemoveFromList, ReceiveTribble, WriteList
  <2> QED
    BY <2>1, <1>8
<1>12. CASE PostTribble(h)
  <2> DEFINE resent == [req EXCEPT !.item = ToJSON(req.item.value, Inc(Inc(vt[h], h), h))]
  <2>1. resent.from = req.from /\ resent.live = req.live
    BY <1>5 DEF Request
  <2>2. running' = running /\ \E status : Conclude(h, resent, status)
    BY <1>12 DEF PostTribble, WriteList
  <2> QED
    BY <1>8, <2>1, <2>2
<1> QED
  BY <1>9, <1>10, <1>11, <1>12 DEF Handler

-----------------------------------------------------------------------------

\* A step that takes no request and makes no call, and learns of nobody.
LEMMA QuietMembers ==
    ASSUME TypeOK, \A s \in Server : MemberOK(s), UNCHANGED inbox,
           \A s \in Server : /\ Stays(s)
                             /\ running'[s] \subseteq running[s]
                             /\ SameFind(s)
    PROVE  \A s \in Server : MemberOK(s)'
<1>1. \A s \in Server : NoneNew(s)
  BY DEF NoneNew
<1> QED
  BY <1>1, MemberFrame

\* The steps of a server that is booting.
LEMMA BootMembers ==
    ASSUME CoreInv, \A s \in Server : MemberOK(s), NEW b \in Server,
           Boot(b) \/ BootStep(b)
    PROVE  \A s \in Server : MemberOK(s)'
<1>1. TypeOK /\ LoopsOK /\ b \in Proc
  BY DEF CoreInv, TypeInv, Proc
<1>2. idx[b] # End => idx[b] \in Index
  <2>1. idx[b] \in 0..End
    BY <1>1 DEF TypeOK
  <2> QED
    BY <2>1, NAssumption DEF End, Index
<1>3. CASE FindCall(b) \/ JoinCall(b)
  <2>1. Peer(b, idx[b]) \in Server
    BY <1>2, <1>3, PeerType DEF FindCall, JoinCall
  <2>2. CASE FindCall(b)
    BY <1>1, <2>1, <2>2, OpType, SendMembers DEF FindCall, MakeOp
  <2>3. CASE JoinCall(b)
    BY <1>1, <2>1, <2>3, OpType, SendMembers DEF JoinCall, Joined
  <2> QED
    BY <1>3, <2>2, <2>3
<1>4. CASE UsersCall(b)
  <2>1. Peer(b, target[b]) \in Server
    BY <1>1, <1>4, PeerType DEF UsersCall, LoopsOK
  <2> QED
    BY <1>1, <1>4, <2>1, OpType, SendMembers DEF UsersCall, MakeOp
<1>5. CASE \E u \in todo[b] : CopyUser(b, u)
  <2>1. PICK u \in todo[b] : CopyUser(b, u)
    BY <1>5
  <2>2. /\ pc[b] = "subs" /\ UNCHANGED <<pc, idx, running>>
        /\ Send(b, Peer(b, target[b]), MakeOp("GetList", SubKey(u), Plain("")))
    BY <2>1 DEF CopyUser
  <2>3. target[b] \in Index /\ u \in Text
    BY <1>1, <2>2 DEF TypeOK, LoopsOK
  <2>4. /\ Peer(b, target[b]) \in Server
        /\ MakeOp("GetList", SubKey(u), Plain("")) \in Op
    BY <2>3, OpType, PeerType
  <2> QED
    BY <1>1, <2>2, <2>4, SendMembers DEF MakeOp
<1>6. CASE FindAnswer(b) \/ GiveUp(b)
  BY <1>6, FindAnswerMembers, GiveUpMembers
<1>7. CASE FindRefused(b) \/ JoinAnswer(b)
  <2>1. /\ UNCHANGED <<pc, inbox>> /\ Forget(b) /\ running'[b] \subseteq running[b]
        /\ \A s \in Server : s # b => running'[s] = running[s] /\ idx'[s] = idx[s]
    BY <1>1, <1>7 DEF FindRefused, JoinAnswer, TypeOK
  <2>2. call'[b].st = "idle" /\ \A p \in Proc : p # b => call'[p] = call[p]
    BY <1>1, <2>1, ForgetType
  <2>3. \A s \in Server : SameFind(s)
    BY <2>1, <2>2 DEF SameFind, Idle, Proc
  <2> QED
    BY <1>1, <2>1, <2>3, QuietMembers DEF Stays, Joined, Listening
<1>8. CASE UsersAnswer(b) \/ CopySubs(b)
  <2>1. /\ UNCHANGED <<inbox, running, idx>> /\ Forget(b) /\ pc[b] \in {"users", "subs"}
        /\ \A s \in Server : s # b => pc'[s] = pc[s]
    BY <1>1, <1>8 DEF UsersAnswer, CopySubs, TypeOK
  <2>2. call'[b].st = "idle" /\ \A p \in Proc : p # b => call'[p] = call[p]
    BY <1>1, <2>1, ForgetType
  <2>3. \A s \in Server : SameFind(s) /\ Stays(s)
    BY <2>1, <2>2 DEF SameFind, Idle, Proc, Stays, Joined, Listening
  <2> QED
    BY <1>1, <2>1, <2>3, QuietMembers
<1>9. CASE Boot(b) \/ FindDone(b) \/ CopyDone(b) \/ JoinDone(b)
  <2>1. /\ UNCHANGED <<inbox, running, call>> /\ Idle(b) /\ ~Listening(b)
        /\ Joined(b) => pc'[b] = "serve"
        /\ \A s \in Server : s # b => pc'[s] = pc[s] /\ idx'[s] = idx[s]
    BY <1>1, <1>9 DEF Boot, FindDone, CopyDone, JoinDone, FinishBoot, TypeOK, LoopsOK, Joined,
       Listening
  <2>2. \A s \in Server : SameFind(s) /\ Stays(s)
    BY <2>1 DEF SameFind, Idle, Stays, Joined, Listening
  <2> QED
    BY <1>1, <2>1, <2>2, QuietMembers
<1> QED
  BY <1>3, <1>4, <1>5, <1>6, <1>7, <1>8, <1>9 DEF BootStep

\* The steps of a broadcast, as long as it does not fault.
LEMMA BcastMembers ==
    ASSUME CoreInv, \A s \in Server : MemberOK(s), NEW b \in Server, BcastStep(b),
           ~BcastFault(b)
    PROVE  \A s \in Server : MemberOK(s)'
<1>1. TypeOK /\ LoopsOK /\ b \in Proc /\ pc[b] = "bcast"
  BY DEF CoreInv, TypeInv, Proc, BcastStep, BcastCall, BcastAnswer, BcastRejected, BcastErased,
     BcastDone
<1>2. CASE BcastCall(b)
  <2>1. idx[b] \in 0..End /\ idx[b] # End /\ OpOf(job[b]) \in Op
    BY <1>1, <1>2, OpType DEF TypeOK, BcastCall
  <2>2. Peer(b, idx[b]) \in Server
    BY <2>1, NAssumption, PeerType DEF End, Index
  <2> QED
    BY <1>1, <1>2, <2>1, <2>2, SendMembers DEF BcastCall, Joined
<1>3. CASE BcastAnswer(b) \/ BcastErased(b)
  <2>1. /\ UNCHANGED <<pc, inbox>> /\ Forget(b) /\ running'[b] \subseteq running[b]
        /\ \A s \in Server : s # b => running'[s] = running[s] /\ idx'[s] = idx[s]
    BY <1>1, <1>3 DEF BcastAnswer, BcastErased, TypeOK
  <2>2. call'[b].st = "idle" /\ \A p \in Proc : p # b => call'[p] = call[p]
    BY <1>1, <2>1, ForgetType
  <2>3. \A s \in Server : SameFind(s)
    BY <2>1, <2>2 DEF SameFind, Idle, Proc
  <2> QED
    BY <1>1, <2>1, <2>3, QuietMembers DEF Stays, Joined, Listening
<1>4. CASE BcastRejected(b) \/ BcastDone(b)
  <2>1. PICK status : BcastStop(b, status)
    BY <1>4 DEF BcastRejected, BcastDone
  <2>2. /\ UNCHANGED <<inbox, running>> /\ pc'[b] = "serve"
        /\ \A s \in Server : s # b => pc'[s] = pc[s] /\ idx'[s] = idx[s]
    BY <1>1, <2>1 DEF BcastStop, TypeOK
  <2>3. \A s \in Server : s # b => call'[s] = call[s]
    BY <1>1, <2>1, ClusterAssumption DEF BcastStop, LoopsOK, Proc
  <2>4. \A s \in Server : SameFind(s) /\ Stays(s)
    BY <2>2, <2>3 DEF SameFind, Idle, Stays, Joined, Listening
  <2> QED
    BY <1>1, <2>2, <2>4, QuietMembers
<1> QED
  BY <1>2, <1>3, <1>4 DEF BcastStep

\* The Tribbler servers' calls, as long as none of them crashes.
LEMMA ClientMembers ==
    ASSUME TypeOK, \A s \in Server : MemberOK(s), NEW c \in Client,
           ClientCall(c) \/ ClientReturn(c)
    PROVE  \A s \in Server : MemberOK(s)'
<1>1. c \in Proc /\ c \notin Server /\ Entry[c] \in Server
  BY ClusterAssumption DEF Proc
<1>2. CASE ClientCall(c)
  <2>1. PICK o \in plan[c] : Send(c, Entry[c], o)
    BY <1>2 DEF ClientCall
  <2>2. o \in Op
    BY <2>1 DEF TypeOK
  <2> QED
    BY <1>1, <1>2, <2>1, <2>2, SendMembers DEF ClientCall
<1>3. CASE ClientReturn(c)
  <2>1. UNCHANGED <<pc, idx, running, inbox>> /\ Forget(c)
    BY <1>3 DEF ClientReturn
  <2>2. \A s \in Server : call'[s] = call[s]
    BY <1>1, <2>1, ForgetType DEF Proc
  <2> QED
    BY <2>1, <2>2, QuietMembers DEF SameFind, Stays, Joined, Listening, Idle
<1> QED
  BY <1>2, <1>3

\* Every step keeps the invariant; a crash makes it say nothing.
LEMMA MembersNext ==
    ASSUME CoreInv, MembersInv, [Next]_vars
    PROVE  MembersInv'
<1> SUFFICES ASSUME faults' = 0
             PROVE  \A s \in Server : MemberOK(s)'
  BY DEF MembersInv
<1>1. TypeOK /\ faults \in Nat
  BY DEF CoreInv, TypeInv, TypeOK
<1>2. /\ \A s \in Server : ~Crash(s) /\ ~BcastFault(s) /\ ~HandlerFails(s)
      /\ \A c \in Client : ~ClientCrash(c)
  BY <1>1 DEF Crash, BcastFault, HandlerFails, ReceiveThrows, ReceiveFault, ClientCrash,
     ClientEnds
<1>3. faults = 0
  <2>1. ASSUME NEW s \in Server, Boot(s) \/ BootStep(s)
        PROVE  UNCHANGED faults
    BY <2>1 DEF Boot, BootStep, FindCall, FindAnswer, FindRefused, FindDone, UsersCall,
       UsersAnswer, CopyUser, CopySubs, CopyDone, GiveUp, JoinCall, JoinAnswer, JoinDone
  <2>2. ASSUME NEW s \in Server, Handler(s)
        PROVE  UNCHANGED faults
    BY <2>2 DEF Handler, Read, Put, RemoveFromList, AddToList, PostTribble, ReceiveTribble
  <2>3. ASSUME NEW s \in Server, BcastStep(s)
        PROVE  UNCHANGED faults
    BY <1>2, <2>3 DEF BcastStep, BcastCall, BcastAnswer, BcastRejected, BcastErased, BcastDone,
       BcastStop
  <2>4. ASSUME NEW c \in Client, ClientStep(c)
        PROVE  UNCHANGED faults
    BY <1>2, <2>4 DEF ClientStep, ClientCall, ClientReturn
  <2>5. CASE UNCHANGED vars
    BY <2>5 DEF vars
  <2> QED
    BY <1>2, <2>1, <2>2, <2>3, <2>4, <2>5 DEF Next, ServerStep, Settled
<1>4. \A s \in Server : MemberOK(s)
  BY <1>3 DEF MembersInv
<1>5. CASE \E s \in Server : Boot(s) \/ ServerStep(s) \/ Crash(s)
  BY <1>2, <1>4, <1>5, BootMembers, HandlerMembers, BcastMembers DEF ServerStep
<1>6. CASE \E c \in Client : ClientStep(c)
  BY <1>1, <1>2, <1>4, <1>6, ClientMembers DEF ClientStep
<1>7. CASE UNCHANGED vars
  BY <1>1, <1>4, <1>7, QuietMembers DEF vars, Stays, SameFind, Joined, Listening, Idle
<1> QED
  BY <1>5, <1>6, <1>7 DEF Next, Settled

\* The servers that are up at first have all joined, and nobody has called.
LEMMA InitMembers ==
    ASSUME Init
    PROVE  MembersInv
<1> SUFFICES ASSUME NEW s \in Server
             PROVE  MemberOK(s)
  BY DEF MembersInv
<1>1. s \in Proc /\ call[s].st = "idle" /\ inbox[s] = <<>>
  BY NoCallType DEF Init, Proc
<1>2. ASSUME NEW i \in running[s]
      PROVE  Joined(Peer(s, i))
  <2>1. PICK t \in (1..B) \ {s} : i = IndexOf(s, t)
    BY <1>2 DEF Init
  <2>2. t \in Server /\ t <= B
    BY <2>1, NAssumption, ClusterAssumption DEF Server
  <2>3. Peer(s, i) = t
    BY <2>1, <2>2, PeerOfIndex
  <2> QED
    BY <2>2, <2>3 DEF Init, Joined
<1> QED
  BY <1>1, <1>2 DEF MemberOK, FindOK, Idle

\* While nothing crashes, whoever is in a server's _runningServer has finished
\* copying its data, however many servers boot at the same time: FindRunningServer
\* and processCommand never take in a server that is still being filled.
THEOREM MembersAreSynced == Spec => []MembersSynced
<1>1. Init => MembersInv
  BY InitMembers
<1>2. CoreInv /\ MembersInv /\ [Next]_vars => MembersInv'
  BY MembersNext
<1>3. MembersInv => MembersSynced
  BY DEF MembersInv, MemberOK, MembersSynced, Joined
<1> QED
  BY <1>1, <1>2, <1>3, CoreCorrect, PTL DEF Spec

-----------------------------------------------------------------------------
(* The cluster cannot block itself as long as all Tribbler servers write    *)
(* through the same key-value server, however many there are and whatever   *)
(* boots, joins and crashes meanwhile.                                      *)

\* The Tribbler servers' requests are where they were sent, and only a server
\* that listens has a queue.
RouteOK(s) ==
    /\ inbox[s] # <<>> => Listening(s)
    /\ \A n \in DOMAIN inbox[s] :
          inbox[s][n].from \in Client => Entry[inbox[s][n].from] = s
    /\ pc[s] = "bcast" => Entry[job[s].from] = s

RoutesInv == \A s \in Server : RouteOK(s)

OneEntryOnly == \A c \in Client : \A d \in Client : Entry[c] = Entry[d]

\* Nothing that concerns s changes, except that it may begin to listen.
LEMMA RouteFrame ==
    ASSUME NEW s \in Server, RouteOK(s), inbox'[s] = inbox[s],
           Listening(s) => pc'[s] \in {"serve", "bcast"},
           pc'[s] = "bcast" => pc[s] = "bcast" /\ job'[s] = job[s]
    PROVE  RouteOK(s)'
  BY DEF RouteOK, Listening

\* A call that is sent arrives in the queue of a server that listens, and a
\* Tribbler server's only at its entry.
LEMMA SendRoutes ==
    ASSUME TypeOK, RoutesInv, NEW p \in Proc, NEW t \in Server, NEW o \in Op,
           Send(p, t, o), p \in Client => Entry[p] = t, UNCHANGED <<pc, job>>
    PROVE  RoutesInv'
<1>1. CASE Listening(t)
  <2> DEFINE r == [from |-> p, live |-> TRUE, kind |-> o.kind, key |-> o.key,
                   item |-> o.item]
             q == Append(inbox[t], r)
  <2>1. /\ inbox[t] \in Seq(Request) /\ r \in Request
        /\ inbox'[t] = q /\ \A s \in Server : s # t => inbox'[s] = inbox[s]
    BY <1>1 DEF Send, TypeOK, Request, Op
  <2>2. /\ DOMAIN q = DOMAIN inbox[t] \cup {Len(inbox[t]) + 1}
        /\ q[Len(inbox[t]) + 1] = r
        /\ \A n \in DOMAIN inbox[t] : q[n] = inbox[t][n]
    BY <2>1
  <2>3. r.from = p
    OBVIOUS
  <2> HIDE DEF q, r
  <2>4. RouteOK(t)'
    BY <1>1, <2>1, <2>2, <2>3 DEF RoutesInv, RouteOK, Listening
  <2>5. \A s \in Server : s # t => RouteOK(s)'
    BY <2>1 DEF RoutesInv, RouteOK, Listening
  <2> QED
    BY <2>4, <2>5 DEF RoutesInv
<1>2. CASE ~Listening(t)
  <2>1. inbox' = inbox
    BY <1>2 DEF Send
  <2> QED
    BY <2>1 DEF RoutesInv, RouteOK, Listening
<1> QED
  BY <1>1, <1>2

\* A server that ends has no queue, and the other queues keep their requests.
LEMMA HaltRoutes ==
    ASSUME TypeOK, RoutesInv, NEW s \in Server, Halt(s)
    PROVE  RoutesInv'
<1>1. /\ inbox'[s] = <<>> /\ pc'[s] = "down"
      /\ \A t \in Server : t # s => /\ inbox'[t] = OrphanedCalls(inbox[t], s)
                                   /\ pc'[t] = pc[t] /\ job'[t] = job[t]
  BY DEF Halt, TypeOK
<1>2. RouteOK(s)'
  BY <1>1 DEF RouteOK
<1>3. ASSUME NEW t \in Server, t # s
      PROVE  RouteOK(t)'
  <2>1. inbox[t] \in Seq(Request)
    BY DEF TypeOK
  <2>2. /\ DOMAIN inbox'[t] = DOMAIN inbox[t] /\ inbox'[t] \in Seq(Request)
        /\ \A n \in DOMAIN inbox[t] : inbox'[t][n].from = inbox[t][n].from
    BY <1>1, <1>3, <2>1, OrphanedType
  <2>3. inbox'[t] # <<>> => inbox[t] # <<>>
    BY <2>1, <2>2
  <2> QED
    BY <1>1, <1>3, <2>2, <2>3 DEF RoutesInv, RouteOK, Listening
<1> QED
  BY <1>2, <1>3 DEF RoutesInv

\* A Tribbler server that dies leaves its requests where they are.
LEMMA ClientEndsRoutes ==
    ASSUME TypeOK, RoutesInv, NEW c \in Client, ClientEnds(c)
    PROVE  RoutesInv'
<1> SUFFICES ASSUME NEW t \in Server
             PROVE  RouteOK(t)'
  BY DEF RoutesInv
<1>1. /\ inbox'[t] = OrphanedCalls(inbox[t], c) /\ job'[t] = Orphaned(job[t], c)
      /\ pc' = pc /\ inbox[t] \in Seq(Request) /\ job[t] \in Request
  BY DEF ClientEnds, TypeOK
<1>2. job'[t].from = job[t].from
  BY <1>1 DEF Orphaned, Request
<1>3. /\ DOMAIN inbox'[t] = DOMAIN inbox[t] /\ inbox'[t] \in Seq(Request)
      /\ \A n \in DOMAIN inbox[t] : inbox'[t][n].from = inbox[t][n].from
  BY <1>1, OrphanedType
<1>4. inbox'[t] # <<>> => inbox[t] # <<>>
  BY <1>1, <1>3
<1> QED
  BY <1>1, <1>2, <1>3, <1>4 DEF RoutesInv, RouteOK, Listening

\* The taken request leaves the queue; if it is broadcast it stays on this server.
LEMMA TakeRoutes ==
    ASSUME TypeOK, RoutesInv, NEW s \in Server, inbox[s] # <<>>, Take(s),
           pc'[s] \in {"serve", "bcast"}, pc'[s] = "bcast" => Entry[job'[s].from] = s,
           \A t \in Server : t # s => pc'[t] = pc[t] /\ job'[t] = job[t]
    PROVE  RoutesInv'
<1>1. /\ inbox'[s] = Tail(inbox[s]) /\ inbox[s] \in Seq(Request)
      /\ \A t \in Server : t # s => inbox'[t] = inbox[t]
  BY DEF Take, TypeOK
<1>2. \A n \in DOMAIN inbox'[s] : n + 1 \in DOMAIN inbox[s] /\ inbox'[s][n] = inbox[s][n + 1]
  BY <1>1
<1>3. \A n \in DOMAIN inbox'[s] :
         inbox'[s][n].from \in Client => Entry[inbox'[s][n].from] = s
  BY <1>2 DEF RoutesInv, RouteOK
<1>4. RouteOK(s)'
  BY <1>3 DEF RouteOK, Listening
<1>5. \A t \in Server : t # s => RouteOK(t)'
  BY <1>1, RouteFrame DEF RoutesInv, Listening
<1> QED
  BY <1>4, <1>5 DEF RoutesInv

\* A request that is served, whatever comes of it.
LEMMA HandlerRoutes ==
    ASSUME CoreInv, RoutesInv, NEW s \in Server, Handler(s)
    PROVE  RoutesInv'
<1> DEFINE h == Head(inbox[s])
<1>1. pc[s] = "serve" /\ inbox[s] # <<>> /\ Take(s) /\ TypeOK
  BY DEF Handler, Read, Put, AddToList, PostTribble, ReceiveTribble, RemoveFromList,
     HasTribble, HasRequest, CoreInv, TypeInv
<1>2. h = inbox[s][1] /\ 1 \in DOMAIN inbox[s]
  BY <1>1 DEF TypeOK
<1>3. ASSUME pc'[s] \in {"serve", "bcast"}, pc'[s] = "bcast" => Entry[job'[s].from] = s,
             \A t \in Server : t # s => pc'[t] = pc[t] /\ job'[t] = job[t]
      PROVE  RoutesInv'
  BY <1>1, <1>3, TakeRoutes
<1>4. ASSUME NEW req, req.from = h.from, NEW status, Conclude(s, req, status)
      PROVE  RoutesInv'
  <2>1. CASE req.from \in Client /\ Broadcast(s, req)
    <3>1. /\ pc'[s] = "bcast" /\ job'[s] = req
          /\ \A t \in Server : t # s => pc'[t] = pc[t] /\ job'[t] = job[t]
      BY <1>1, <2>1 DEF Broadcast, TypeOK
    <3>2. Entry[req.from] = s
      BY <1>2, <1>4, <2>1 DEF RoutesInv, RouteOK
    <3> QED
      BY <1>3, <3>1, <3>2
  <2>2. CASE Finish(s, req, status, {})
    <3>1. pc' = pc /\ job' = job
      BY <2>2 DEF Finish
    <3> QED
      BY <1>1, <1>3, <3>1
  <2> QED
    BY <1>4, <2>1, <2>2 DEF Conclude
<1>5. ASSUME UNCHANGED <<pc, job>>
      PROVE  RoutesInv'
  BY <1>1, <1>5, <1>3
<1>6. CASE Read(s)
  BY <1>5, <1>6 DEF Read, Finish
<1>7. CASE Put(s)
  <2>1. CASE h.key = ServerSyscmd
    BY <1>5, <1>7, <2>1 DEF Put, Finish
  <2>2. CASE h.key # ServerSyscmd
    BY <1>4, <1>7, <2>2 DEF Put
  <2> QED
    BY <2>1, <2>2
<1>8. CASE AddToList(s) \/ RemoveFromList(s) \/ ReceiveTribble(s)
  BY <1>4, <1>8 DEF AddToList, RemoveFromList, ReceiveTribble, WriteList
<1>9. CASE PostTribble(s)
  <2> DEFINE resent == [h EXCEPT !.item = ToJSON(h.item.value, Inc(Inc(vt[s], s), s))]
  <2>1. h \in Request
    BY <1>1, ServedCaller
  <2>2. resent.from = h.from
    BY <2>1 DEF Request
  <2>3. \E status : Conclude(s, resent, status)
    BY <1>9 DEF PostTribble, WriteList
  <2> QED
    BY <1>4, <2>2, <2>3
<1> QED
  BY <1>6, <1>7, <1>8, <1>9 DEF Handler

\* Neither does a handler that fails disturb them.
LEMMA HandlerFailsRoutes ==
    ASSUME CoreInv, RoutesInv, NEW s \in Server, HandlerFails(s)
    PROVE  RoutesInv'
<1>1. TypeOK
  BY DEF CoreInv, TypeInv
<1>2. CASE ReceiveThrows(s)
  <2>1. /\ pc[s] = "serve" /\ inbox[s] # <<>> /\ Take(s) /\ UNCHANGED <<pc, job>>
    BY <1>2 DEF ReceiveThrows, HasTribble, HasRequest
  <2> QED
    BY <1>1, <2>1, TakeRoutes
<1>3. CASE ReceiveFault(s)
  BY <1>1, <1>3, HaltRoutes DEF ReceiveFault
<1> QED
  BY <1>2, <1>3 DEF HandlerFails

\* Every step keeps the Tribbler servers' requests at their entry.
LEMMA RoutesNext ==
    ASSUME CoreInv, RoutesInv, [Next]_vars
    PROVE  RoutesInv'
<1>1. TypeOK /\ TypeInv /\ LoopsOK
  BY DEF CoreInv, TypeInv
<1>2. ASSUME NEW s \in Server, Boot(s) \/ ServerStep(s) \/ Crash(s)
      PROVE  RoutesInv'
  <2>1. s \in Proc /\ s \notin Client
    BY ClusterAssumption DEF Proc
  <2>2. CASE Handler(s) \/ HandlerFails(s)
    BY <2>2, HandlerRoutes, HandlerFailsRoutes
  <2>3. CASE GiveUp(s) \/ BcastFault(s) \/ Crash(s)
    BY <1>1, <2>3, HaltRoutes DEF GiveUp, BcastFault, Crash
  <2>4. ASSUME NEW i \in Index, NEW o \in Op, Send(s, Peer(s, i), o), UNCHANGED <<pc, job>>
        PROVE  RoutesInv'
    BY <1>1, <2>1, <2>4, PeerType, SendRoutes
  <2>5. idx[s] # End => idx[s] \in Index
    <3>1. idx[s] \in 0..End
      BY <1>1 DEF TypeOK
    <3> QED
      BY <3>1, NAssumption DEF End, Index
  <2>6. CASE FindCall(s) \/ JoinCall(s)
    BY <2>4, <2>5, <2>6, OpType DEF FindCall, JoinCall
  <2>7. CASE BcastCall(s)
    BY <1>1, <2>4, <2>5, <2>7, OpType DEF BcastCall, TypeOK
  <2>8. CASE UsersCall(s)
    BY <1>1, <2>4, <2>8, OpType DEF UsersCall, LoopsOK
  <2>9. CASE \E u \in todo[s] : CopyUser(s, u)
    <3>1. PICK u \in todo[s] : CopyUser(s, u)
      BY <2>9
    <3>2. /\ pc[s] = "subs" /\ UNCHANGED <<pc, job>>
          /\ Send(s, Peer(s, target[s]), MakeOp("GetList", SubKey(u), Plain("")))
      BY <3>1 DEF CopyUser
    <3>3. target[s] \in Index /\ u \in Text
      BY <1>1, <3>2 DEF TypeOK, LoopsOK
    <3>4. MakeOp("GetList", SubKey(u), Plain("")) \in Op
      BY <3>3, OpType
    <3> QED
      BY <2>4, <3>2, <3>3, <3>4
  <2>10. CASE \/ Boot(s) \/ FindAnswer(s) \/ FindRefused(s) \/ FindDone(s) \/ UsersAnswer(s)
              \/ CopySubs(s) \/ CopyDone(s) \/ JoinAnswer(s) \/ JoinDone(s)
    <3>1. /\ UNCHANGED <<inbox, job>> /\ ~Listening(s) /\ pc'[s] # "bcast"
          /\ \A t \in Server : t # s => pc'[t] = pc[t]
      BY <1>1, <2>10 DEF Boot, FindAnswer, FindRefused, FindDone, FinishBoot, UsersAnswer,
         CopySubs, CopyDone, JoinAnswer, JoinDone, TypeOK, Listening
    <3> QED
      BY <3>1, RouteFrame DEF RoutesInv, Listening
  <2>11. CASE BcastAnswer(s) \/ BcastErased(s)
    BY <2>11, RouteFrame DEF BcastAnswer, BcastErased, RoutesInv, Listening
  <2>12. CASE BcastRejected(s) \/ BcastDone(s)
    <3>1. /\ UNCHANGED inbox /\ pc'[s] = "serve"
          /\ \A t \in Server : t # s => pc'[t] = pc[t] /\ job'[t] = job[t]
      BY <1>1, <2>12 DEF BcastRejected, BcastDone, BcastStop, TypeOK
    <3> QED
      BY <3>1, RouteFrame DEF RoutesInv, Listening
  <2> QED
    BY <1>2, <2>2, <2>3, <2>6, <2>7, <2>8, <2>9, <2>10, <2>11, <2>12
       DEF ServerStep, BootStep, BcastStep
<1>3. ASSUME NEW c \in Client, ClientStep(c)
      PROVE  RoutesInv'
  <2>1. CASE ClientCall(c)
    <3>1. PICK o \in plan[c] : Send(c, Entry[c], o)
      BY <2>1 DEF ClientCall
    <3>2. c \in Proc /\ Entry[c] \in Server /\ o \in Op /\ UNCHANGED <<pc, job>>
      BY <1>1, <2>1, <3>1, ClusterAssumption DEF ClientCall, TypeOK, Proc
    <3> QED
      BY <1>1, <3>1, <3>2, SendRoutes
  <2>2. CASE ClientReturn(c)
    BY <2>2, RouteFrame DEF ClientReturn, RoutesInv, Listening
  <2>3. CASE ClientCrash(c)
    BY <1>1, <2>3, ClientEndsRoutes DEF ClientCrash
  <2> QED
    BY <1>3, <2>1, <2>2, <2>3 DEF ClientStep
<1>4. CASE UNCHANGED vars
  <2>1. UNCHANGED <<pc, job, inbox>>
    BY <1>4 DEF vars
  <2> QED
    BY <2>1, RouteFrame DEF RoutesInv, Listening
<1> QED
  BY <1>2, <1>3, <1>4 DEF Next, Settled

\* A server that is waited for is serving or in a broadcast.
LEMMA WaitedForListens ==
    ASSUME CoreInv, RoutesInv, NEW p \in Server, Waiting(p)
    PROVE  /\ call[p].to \in Server /\ call[p].to # p
           /\ Listening(call[p].to)
<1> DEFINE t == call[p].to
<1>1. p \in Proc /\ t \in Server
  BY DEF Proc, CoreInv, TypeInv, TypeOK, Call
<1>2. PICK m \in RequestsAt(p, t) : TRUE
  BY <1>1 DEF CoreInv, CallsOK, CallOK
<1>3. CASE m \in DOMAIN inbox[t] /\ inbox[t][m].from = p
  <2>1. inbox[t] # <<>> /\ t # p
    BY <1>1, <1>3 DEF CoreInv, TypeInv, NoSelfCalls
  <2> QED
    BY <1>1, <2>1 DEF RoutesInv, RouteOK
<1>4. CASE pc[t] = "bcast" /\ job[t].from = p
  BY <1>1, <1>4, ClusterAssumption DEF CoreInv, TypeInv, LoopsOK, Listening
<1> QED
  BY <1>2, <1>3, <1>4 DEF RequestsAt

\* Whoever is waited for and waits is the server all writes enter at, and it does
\* not wait for itself.
LEMMA NoCycle ==
    ASSUME OneEntryOnly, CoreInv, RoutesInv
    PROVE  NoWaitCycle
<1> SUFFICES ASSUME NEW S \in SUBSET Server, S # {},
                    \A s \in S : Waiting(s) /\ call[s].to \in S
             PROVE  FALSE
  BY DEF NoWaitCycle
<1>1. PICK s \in S : TRUE
  OBVIOUS
<1> DEFINE t == call[s].to
           u == call[t].to
<1>2. t \in S /\ u \in S /\ t \in Server /\ u \in Server
  BY <1>1
<1>3. Listening(t) /\ Listening(u) /\ u # t
  BY <1>1, <1>2, WaitedForListens
<1>4. \A x \in S : pc[x] # "serve"
  BY DEF CoreInv, TypeInv, LoopsOK, Idle, Waiting
<1>5. pc[t] = "bcast" /\ pc[u] = "bcast"
  BY <1>2, <1>3, <1>4 DEF Listening
<1>6. /\ job[t].from \in Client /\ job[u].from \in Client
      /\ Entry[job[t].from] = t /\ Entry[job[u].from] = u
  BY <1>2, <1>5 DEF RoutesInv, RouteOK, CoreInv, TypeInv, LoopsOK
<1> QED
  BY <1>3, <1>6 DEF OneEntryOnly

\* With one server that all writes enter at, no servers wait for each other.
THEOREM NoMutualWait ==
    ASSUME OneEntryOnly
    PROVE  Spec => []NoWaitCycle
<1>1. Init => RoutesInv
  BY DEF Init, RoutesInv, RouteOK
<1>2. CoreInv /\ RoutesInv /\ [Next]_vars => RoutesInv'
  BY RoutesNext
<1>3. CoreInv /\ RoutesInv => NoWaitCycle
  BY NoCycle
<1> QED
  BY <1>1, <1>2, <1>3, CoreCorrect, PTL DEF Spec
=============================================================================
