---------------------------- MODULE TribblerProofs ----------------------------
(***************************************************************************)
(* The Tribbler servers on top of the cluster: what the cluster promises   *)
(* any callers it promises these, although a Tribbler server takes an      *)
(* answer and makes its next call in one step, which no step of the        *)
(* cluster's own specification does; and what an operation is told of the  *)
(* store always makes an answer of Tribbler.thrift.                        *)
(***************************************************************************)
EXTENDS TribblerProperties, KVClusterReplicationProofs

\* The inductive invariant.
TribblerInv == CoreInv /\ StampsInv /\ TribblerTypeOK

Work == [stage : Stage, task : Task, no : Nat, known : SUBSET (Client \X Nat),
         subs : SUBSET Text, found : SUBSET [user : Text, item : Item]]

-----------------------------------------------------------------------------
(* The calls. *)

\* Whatever a client asks for, the calls that are made for it are calls of the store.
LEMMA AskType ==
    ASSUME NEW u \in Text, NEW v \in Text
    PROVE  /\ GetUser(u) \in Op /\ GetPosts(u) \in Op /\ GetSubs(u) \in Op
           /\ MakeOp("AddToList", UserList, Plain(u)) \in Op
           /\ MakeOp("Put", UserKey(u), Plain(u)) \in Op
           /\ MakeOp("AddToList", TribbleKey(u), Plain(v)) \in Op
           /\ \A k \in {"AddToList", "RemoveFromList"} : MakeOp(k, SubKey(u), Plain(v)) \in Op
<1>1. Plain("") \in Item /\ Plain(u) \in Item /\ Plain(v) \in Item
  BY PlainType, ReservedText
<1> QED
  BY <1>1, KeyType DEF GetUser, GetPosts, GetSubs, MakeOp, Op, Kind

\* What is in an answer of the store.
LEMMA AnswerType ==
    ASSUME TypeOK, NEW c \in Client
    PROVE  /\ call[c].status \in Status /\ call[c].op.key[1] \in Text
           /\ Subscriptions(c) \in SUBSET Text
           /\ \A u \in Text : Listed(c, u) \in SUBSET [user : Text, item : Item]
<1>1. call[c] \in Call
  BY DEF TypeOK, Proc
<1>2. call[c].status \in Status /\ call[c].values \in SUBSET Item /\ call[c].op.key \in Key
  BY <1>1 DEF Call, Op
<1>3. call[c].op.key[1] \in Text
  BY <1>2 DEF Key
<1>4. Subscriptions(c) \in SUBSET Text
  BY <1>2 DEF Subscriptions, Item
<1>5. \A u \in Text : Listed(c, u) \in SUBSET [user : Text, item : Item]
  BY <1>2 DEF Listed, Tribble
<1> QED
  BY <1>2, <1>3, <1>4, <1>5

\* A Tribbler server goes on to its next call.
Continues(c) ==
    /\ \E o \in Op : Send(c, Entry[c], o)
    /\ work' = [work EXCEPT ![c] = work'[c]] /\ work'[c] \in Work
    /\ work'[c].stage # "idle"
    /\ UNCHANGED told

\* A Tribbler server has no operation any more; if it has given an answer it is one
\* of Tribbler.thrift to the operation's task.
Ends(c) ==
    /\ Forget(c)
    /\ work' = [work EXCEPT ![c] = NoWork]
    /\ \A a \in told' : \/ a \in told
                        \/ /\ a.by = c /\ a.no = work[c].no /\ a.task = work[c].task
                           /\ a.status \in TribbleStatus \cup {"exception"}

\* The next call of an operation.
LEMMA GoesOn ==
    ASSUME TribblerInv, NEW c \in Client, NEW stage \in Stage, stage # "idle", NEW o \in Op,
           Goes(c, stage, o)
    PROVE  Continues(c)
<1>1. work[c] \in Work /\ work \in [Client -> Work]
  BY DEF TribblerInv, TribblerTypeOK, Work
<1>2. work' = [work EXCEPT ![c].stage = stage]
  BY DEF Goes
<1>3. work'[c] = [work[c] EXCEPT !.stage = stage]
  BY <1>1, <1>2
<1>4. work'[c] \in Work /\ work'[c].stage = stage
  BY <1>1, <1>3 DEF Work
<1> QED
  BY <1>1, <1>2, <1>3, <1>4 DEF Goes, Continues

\* An operation's answer.
LEMMA ReturnsEnd ==
    ASSUME NEW c \in Client, NEW status \in TribbleStatus, NEW tribbles, NEW subscriptions,
           Returns(c, Answer(c, status, tribbles, subscriptions))
    PROVE  Ends(c) /\ UNCHANGED <<inbox, script>>
<1> DEFINE a == Answer(c, status, tribbles, subscriptions)
<1>1. /\ a.by = c /\ a.no = work[c].no /\ a.task = work[c].task
      /\ a.status = status
  BY DEF Answer
<1>2. /\ told' = told \cup {a} /\ work' = [work EXCEPT ![c] = NoWork]
      /\ Forget(c) /\ UNCHANGED <<inbox, script>>
  BY DEF Returns
<1> QED
  BY <1>1, <1>2 DEF Ends

\* The loop of GetTribblesBySubscription.
LEMMA FeedContinues ==
    ASSUME TribblerInv, NEW c \in Client, NEW subs \in SUBSET Text,
           NEW found \in SUBSET [user : Text, item : Item], NextFeed(c, subs, found)
    PROVE  (Continues(c) \/ (Ends(c) /\ UNCHANGED inbox)) /\ UNCHANGED script
<1>1. CASE subs = {}
  <2>1. PICK shown : Returns(c, Answer(c, "OK", [n \in DOMAIN shown |-> Shown(shown[n])], {}))
    BY <1>1 DEF NextFeed, ShowsFeed
  <2> QED
    BY <2>1, ReturnsEnd DEF TribbleStatus
<1>2. CASE subs # {}
  <2>1. PICK u \in subs :
           /\ work' = [work EXCEPT ![c].stage = "posts", ![c].subs = subs, ![c].found = found]
           /\ Send(c, Entry[c], GetPosts(u)) /\ UNCHANGED <<told, script>>
    BY <1>2 DEF NextFeed
  <2>2. work[c] \in Work /\ work \in [Client -> Work]
    BY DEF TribblerInv, TribblerTypeOK, Work
  <2>3. work'[c] = [work[c] EXCEPT !.stage = "posts", !.subs = subs, !.found = found]
    BY <2>1, <2>2
  <2>4. work'[c] \in Work /\ work'[c].stage = "posts"
    BY <2>2, <2>3 DEF Work, Stage
  <2>5. GetPosts(u) \in Op
    BY AskType
  <2>6. work' = [work EXCEPT ![c] = work'[c]]
    BY <2>1, <2>2, <2>3
  <2> QED
    BY <2>1, <2>4, <2>5, <2>6 DEF Continues
<1> QED
  BY <1>1, <1>2

\* A step of an operation after which its process is still there.
Advances(c) == OperationStep(c) /\ ~TribblerAborts(c)

\* A Tribbler server dies.
Dies(c) == TribblerAborts(c) \/ TribblerCrash(c)

\* However it dies, the cluster sees it die and it forgets its operation.
LEMMA DiesEnds ==
    ASSUME NEW c \in Client, Dies(c)
    PROVE  ClientEnds(c) /\ Restarts(c) /\ Ends(c)
<1>1. ClientEnds(c) /\ Restarts(c)
  BY DEF Dies, TribblerAborts, TribblerCrash, ClientCrash
<1> QED
  BY <1>1 DEF ClientEnds, Restarts, Ends

\* What an operation's step comes to.
Proceeds(c) ==
    /\ Continues(c) \/ (Ends(c) /\ UNCHANGED inbox)
    /\ script' \in [Client -> Seq(Task)]

\* Every step of an operation makes a call or returns.
LEMMA OperationProceeds ==
    ASSUME TribblerInv, NEW c \in Client, Advances(c)
    PROVE  ~Waiting(c) /\ UNCHANGED store /\ Proceeds(c)
<1>1. TypeOK /\ TribblerTypeOK /\ work[c] \in Work /\ script \in [Client -> Seq(Task)]
  BY DEF TribblerInv, CoreInv, TypeInv, TribblerTypeOK, Work
<1>2. User(c) \in Text /\ Arg(c) \in Text
  BY <1>1 DEF Work, Task, User, Arg
<1>3. ~Waiting(c) /\ UNCHANGED store
  BY DEF Advances, OperationStep, CreateUser, CreateListed, UserChecked, OtherChecked, Written,
     PostsRead, SubscriptionsRead, CheckedAgain, FeedBegins, FeedGoesOn, Throws, ReadThrows,
     Excepts, ComesTo, At, Answered, Broken, Waiting
<1> SUFFICES Proceeds(c)
  BY <1>3
<1>4. ASSUME NEW status \in TribbleStatus, NEW tribbles, NEW subscriptions,
             Returns(c, Answer(c, status, tribbles, subscriptions))
      PROVE  Proceeds(c)
  BY <1>1, <1>4, ReturnsEnd DEF Proceeds
<1>5. ASSUME NEW status \in TribbleStatus, Responds(c, status)
      PROVE  Proceeds(c)
  BY <1>4, <1>5 DEF Responds
<1>6. ASSUME NEW stage \in Stage, stage # "idle", NEW o \in Op, Goes(c, stage, o)
      PROVE  Proceeds(c)
  BY <1>1, <1>6, GoesOn DEF Goes, Proceeds
<1>7. ASSUME NEW subs \in SUBSET Text, NEW found \in SUBSET [user : Text, item : Item],
             NextFeed(c, subs, found)
      PROVE  Proceeds(c)
  BY <1>1, <1>7, FeedContinues DEF Proceeds
<1>8. /\ GetUser(User(c)) \in Op /\ GetPosts(User(c)) \in Op /\ GetSubs(User(c)) \in Op
      /\ GetUser(Arg(c)) \in Op
      /\ MakeOp("AddToList", UserList, Plain(User(c))) \in Op
      /\ MakeOp("Put", UserKey(User(c)), Plain(User(c))) \in Op
      /\ MakeOp("AddToList", TribbleKey(User(c)), Plain(Arg(c))) \in Op
      /\ \A k \in {"AddToList", "RemoveFromList"} :
            MakeOp(k, SubKey(User(c)), Plain(Arg(c))) \in Op
  BY <1>2, AskType
<1>9. \A s : \A op : WriteStatus(op, s) \in TribbleStatus /\ ReadStatus(s) \in TribbleStatus
  BY DEF WriteStatus, ReadStatus, TribbleStatus
<1>10. CASE CreateUser(c) \/ CreateListed(c)
  BY <1>5, <1>6, <1>8, <1>10 DEF CreateUser, CreateListed, TribbleStatus, Stage
<1>11. CASE UserChecked(c)
  BY <1>5, <1>6, <1>8, <1>11 DEF UserChecked, TribbleStatus, Stage
<1>12. CASE OtherChecked(c)
  BY <1>5, <1>6, <1>8, <1>12 DEF OtherChecked, TribbleStatus, Stage
<1>13. CASE Written(c)
  BY <1>5, <1>9, <1>13 DEF Written
<1>14. CASE PostsRead(c)
  BY <1>4, <1>5, <1>14 DEF PostsRead, ShowsFeed, TribbleStatus
<1>15. CASE SubscriptionsRead(c)
  BY <1>4, <1>9, <1>15 DEF SubscriptionsRead
<1>16. CASE CheckedAgain(c)
  BY <1>5, <1>6, <1>8, <1>16 DEF CheckedAgain, TribbleStatus, Stage
<1>17. CASE FeedBegins(c)
  BY <1>1, <1>5, <1>7, <1>17, AnswerType DEF FeedBegins, TribbleStatus
<1>18. CASE FeedGoesOn(c)
  <2> DEFINE u == call[c].op.key[1]
             subs == work[c].subs \ {u}
             found == work[c].found \cup Listed(c, u)
  <2>1. NextFeed(c, subs, found)
    BY <1>18 DEF FeedGoesOn
  <2>2. u \in Text /\ Listed(c, u) \in SUBSET [user : Text, item : Item]
    BY <1>1, AnswerType
  <2>3. subs \in SUBSET Text /\ found \in SUBSET [user : Text, item : Item]
    BY <1>1, <2>2 DEF Work
  <2> QED
    BY <1>7, <2>1, <2>3
<1>19. CASE Throws(c) \/ ReadThrows(c)
  <2>0. Excepts(c)
    BY <1>19 DEF Throws, ReadThrows
  <2>1. \A a \in told' : a \in told \/ a = Answer(c, "exception", <<>>, {})
    BY <2>0 DEF Excepts
  <2>2. Ends(c) /\ UNCHANGED inbox
    BY <2>0, <2>1 DEF Excepts, Ends, Answer
  <2>3. script' \in [Client -> Seq(Task)]
    BY <1>1, <2>0 DEF Excepts
  <2> QED
    BY <2>2, <2>3 DEF Proceeds
<1> QED
  BY <1>10, <1>11, <1>12, <1>13, <1>14, <1>15, <1>16, <1>17, <1>18, <1>19
     DEF Advances, OperationStep

\* So does the acceptance of a client's call.
LEMMA AcceptProceeds ==
    ASSUME TribblerInv, NEW c \in Client, Accept(c)
    PROVE  ~Waiting(c) /\ UNCHANGED store /\ Proceeds(c)
<1> DEFINE known == {<<a.by, a.no>> : a \in told}
           begun == Begin(Head(script[c]), Len(script[c]), known)
<1>1. /\ script \in [Client -> Seq(Task)] /\ work \in [Client -> Work] /\ Idle(c)
      /\ \A a \in told : a.by \in Client /\ a.no \in Nat
  BY DEF TribblerInv, TribblerTypeOK, Work, Accept
<1>2. script[c] \in Seq(Task) /\ script[c] # <<>>
  BY <1>1 DEF Accept
<1>3. Head(script[c]) \in Task /\ Len(script[c]) \in Nat /\ Tail(script[c]) \in Seq(Task)
  BY <1>2
<1>4. known \in SUBSET (Client \X Nat)
  BY <1>1
<1>5. begun \in Work /\ begun.stage = "user"
  <2> HIDE DEF known
  <2> QED
    BY <1>3, <1>4 DEF Begin, Work, Stage
<1>6. GetUser(Head(script[c]).user) \in Op
  BY <1>3, AskType DEF Task
<1>7. work' = [work EXCEPT ![c] = begun] /\ script' = [script EXCEPT ![c] = Tail(@)]
  BY DEF Accept
<1> HIDE DEF begun
<1>8. work'[c] = begun
  BY <1>1, <1>7
<1>9. Continues(c)
  BY <1>5, <1>6, <1>7, <1>8 DEF Continues, Accept
<1>10. script' \in [Client -> Seq(Task)]
  BY <1>1, <1>3, <1>7
<1> QED
  BY <1>1, <1>9, <1>10 DEF Accept, Proceeds, Idle, Waiting

-----------------------------------------------------------------------------
(* The types of the Tribbler servers' variables. *)

\* An operation that goes on, or ends, keeps them.
LEMMA ProceedsTypes ==
    ASSUME TribblerInv, NEW c \in Client, Continues(c) \/ Ends(c),
           script' \in [Client -> Seq(Task)]
    PROVE  TribblerTypeOK'
<1>1. /\ TypeOK /\ work \in [Client -> Work] /\ c \in Proc
      /\ \A d \in Client : Idle(d) <=> work[d].stage = "idle"
      /\ \A a \in told : /\ a.by \in Client /\ a.no \in Nat /\ a.task \in Task
                        /\ a.status \in TribbleStatus \cup {"exception"}
  BY DEF TribblerInv, CoreInv, TypeInv, TribblerTypeOK, Work, Proc
<1>2. NoWork \in Work /\ NoWork.stage = "idle"
  BY ReservedText DEF NoWork, Begin, NoTask, Work, Stage, Task, Operation
<1>3. /\ work' \in [Client -> Work]
      /\ \A d \in Client : d # c => work'[d] = work[d] /\ call'[d] = call[d]
      /\ Idle(c)' <=> work'[c].stage = "idle"
  <2>1. CASE Continues(c)
    <3>1. PICK o \in Op : Send(c, Entry[c], o)
      BY <2>1 DEF Continues
    <3>2. /\ \A p \in Proc : p # c => call'[p] = call[p]
          /\ call'[c].st # "idle"
      BY <1>1, <3>1 DEF Send, TypeOK, MakeCall
    <3> QED
      BY <1>1, <2>1, <3>2 DEF Continues, Idle, Proc
  <2>2. CASE Ends(c)
    <3>1. call'[c].st = "idle" /\ \A p \in Proc : p # c => call'[p] = call[p]
      BY <1>1, <2>2, ForgetType DEF Ends
    <3> QED
      BY <1>1, <1>2, <2>2, <3>1 DEF Ends, Idle, Proc
  <2> QED
    BY <2>1, <2>2
<1>4. ASSUME NEW a \in told'
      PROVE  /\ a.by \in Client /\ a.no \in Nat /\ a.task \in Task
             /\ a.status \in TribbleStatus \cup {"exception"}
  <2>1. work[c].no \in Nat /\ work[c].task \in Task
    BY <1>1 DEF Work
  <2> QED
    BY <1>1, <2>1 DEF Continues, Ends
<1> QED
  BY <1>1, <1>3, <1>4 DEF TribblerTypeOK, Work, Idle

\* A handler answers nobody who does not wait.
LEMMA HandlerKeepsIdle ==
    ASSUME CoreInv, NEW s \in Server, Handler(s), NEW c \in Proc
    PROVE  Idle(c)' <=> Idle(c)
<1> DEFINE h == Head(inbox[s])
<1>1. pc[s] = "serve" /\ inbox[s] # <<>> /\ TypeOK
  BY DEF Handler, Read, Put, AddToList, PostTribble, ReceiveTribble, HasTribble,
     RemoveFromList, HasRequest, CoreInv, TypeInv
<1>2. h \in Request /\ (h.live => Waiting(h.from))
  BY <1>1, ServedCaller
<1>3. ASSUME NEW r, r.from = h.from, r.live = h.live, NEW status, NEW values,
             Reply(r, status, values) \/ UNCHANGED call
      PROVE  Idle(c)' <=> Idle(c)
  <2>1. CASE Reply(r, status, values) /\ r.live /\ r.from = c
    <3>1. Waiting(c)
      BY <1>2, <1>3, <2>1
    <3>2. call'[c] = Ended(call[c], "done", status, values)
      BY <1>1, <2>1 DEF Reply, TypeOK
    <3> QED
      BY <3>1, <3>2 DEF Idle, Waiting, Ended, MakeCall
  <2>2. CASE call'[c] = call[c]
    BY <2>2 DEF Idle
  <2> QED
    BY <1>1, <1>3, <2>1, <2>2 DEF Reply, TypeOK
<1>4. ASSUME NEW r, r.from = h.from, r.live = h.live, NEW status, Conclude(s, r, status)
      PROVE  Idle(c)' <=> Idle(c)
  BY <1>3, <1>4 DEF Conclude, Broadcast, Finish
<1>5. CASE Read(s)
  BY <1>3, <1>5 DEF Read, Finish
<1>6. CASE Put(s)
  <2>1. CASE h.key = ServerSyscmd
    BY <1>3, <1>6, <2>1 DEF Put, Finish
  <2>2. CASE h.key # ServerSyscmd
    BY <1>4, <1>6, <2>2 DEF Put
  <2> QED
    BY <2>1, <2>2
<1>7. CASE AddToList(s) \/ RemoveFromList(s) \/ ReceiveTribble(s)
  BY <1>4, <1>7 DEF AddToList, RemoveFromList, ReceiveTribble, HasTribble, WriteList
<1>8. CASE PostTribble(s)
  <2> DEFINE resent == [h EXCEPT !.item = ToJSON(h.item.value, Inc(Inc(vt[s], s), s))]
  <2>1. resent.from = h.from /\ resent.live = h.live
    BY <1>2 DEF Request
  <2>2. \E status : Conclude(s, resent, status)
    BY <1>8 DEF PostTribble, WriteList
  <2> QED
    BY <1>4, <2>1, <2>2
<1> QED
  BY <1>5, <1>6, <1>7, <1>8 DEF Handler

\* The cluster answers calls that were made, and makes none for a Tribbler server.
LEMMA ClusterKeepsIdle ==
    ASSUME CoreInv, NEW s \in Server, Boot(s) \/ ServerStep(s) \/ Crash(s), NEW c \in Client
    PROVE  Idle(c)' <=> Idle(c)
<1>1. TypeOK /\ CallsOK /\ c \in Proc /\ c # s /\ s \in Proc
  BY ClusterAssumption DEF CoreInv, TypeInv, Proc
<1>2. ASSUME call'[c] = call[c]
      PROVE  Idle(c)' <=> Idle(c)
  BY <1>2 DEF Idle
<1>3. ASSUME NEW t, NEW o, Send(s, t, o)
      PROVE  Idle(c)' <=> Idle(c)
  BY <1>1, <1>2, <1>3, SendKeepsOps
<1>4. ASSUME Forget(s)
      PROVE  Idle(c)' <=> Idle(c)
  BY <1>1, <1>2, <1>4, ForgetType
<1>5. ASSUME Halt(s)
      PROVE  Idle(c)' <=> Idle(c)
  BY <1>1, <1>5 DEF Halt, Idle, Ended, MakeCall
<1>6. CASE Boot(s) \/ BootStep(s)
  BY <1>2, <1>3, <1>4, <1>5, <1>6 DEF Boot, BootStep, FindCall, FindAnswer, FindRefused, FindDone,
     UsersCall, UsersAnswer, CopyUser, CopySubs, CopyDone, GiveUp, JoinCall, JoinAnswer, JoinDone
<1>7. CASE Handler(s)
  BY <1>1, <1>7, HandlerKeepsIdle
<1>8. CASE \/ BcastCall(s) \/ BcastAnswer(s) \/ BcastErased(s) \/ BcastFault(s)
           \/ ReceiveFault(s) \/ Crash(s)
  BY <1>3, <1>4, <1>5, <1>8
     DEF BcastCall, BcastAnswer, BcastErased, BcastFault, ReceiveFault, Crash
<1>9. CASE BcastRejected(s) \/ BcastDone(s)
  <2>1. PICK status : BcastStop(s, status) /\ pc[s] = "bcast"
    BY <1>9 DEF BcastRejected, BcastDone
  <2>2. CASE job[s].live /\ c = job[s].from
    <3>1. 0 \in RequestsAt(c, s)
      BY <2>1, <2>2 DEF RequestsAt
    <3>2. Waiting(c)
      BY <1>1, <3>1, OnlyRequest DEF CallsOK
    <3>3. call'[c] = Ended(call[c], "done", status, {})
      BY <1>1, <2>1, <2>2 DEF BcastStop
    <3> QED
      BY <3>2, <3>3 DEF Ended, MakeCall, Idle, Waiting
  <2>3. CASE ~(job[s].live /\ c = job[s].from)
    BY <1>1, <1>2, <2>1, <2>3 DEF BcastStop
  <2> QED
    BY <2>2, <2>3
<1>10. CASE ReceiveThrows(s)
  <2> DEFINE h == Head(inbox[s])
  <2>1. pc[s] = "serve" /\ inbox[s] # <<>>
    BY <1>10 DEF ReceiveThrows, HasTribble, HasRequest
  <2>2. h \in Request /\ (h.live => Waiting(h.from))
    BY <2>1, ServedCaller
  <2>3. CASE h.live /\ c = h.from
    <3>1. call'[c] = Ended(call[c], "broken", "INTERNAL_FAILURE", {}) /\ Waiting(c)
      BY <1>1, <1>10, <2>2, <2>3 DEF ReceiveThrows, TypeOK
    <3> QED
      BY <3>1 DEF Ended, MakeCall, Idle, Waiting
  <2>4. CASE ~(h.live /\ c = h.from)
    BY <1>1, <1>2, <1>10, <2>2, <2>4 DEF ReceiveThrows, TypeOK
  <2> QED
    BY <2>3, <2>4
<1> QED
  BY <1>6, <1>7, <1>8, <1>9, <1>10 DEF ServerStep, HandlerFails, BcastStep

-----------------------------------------------------------------------------
(* The invariant. *)

\* A step of an operation looks to the cluster like the end of a call and the next
\* one, which keep the cluster's invariants even when they come together.
LEMMA ProceedsCore ==
    ASSUME CoreInv, StampsInv, NEW c \in Client, ~Waiting(c), UNCHANGED store,
           Continues(c) \/ (Ends(c) /\ UNCHANGED inbox)
    PROVE  CoreInv' /\ StampsInv'
<1>1. TypeOK /\ c \in Proc /\ c \notin Server /\ plan' \in [Client -> SUBSET Op]
  BY ClusterAssumption DEF CoreInv, TypeInv, TypeOK, Proc, store
<1>2. CoreInv' /\ \A t \in Server : call'[t] = call[t]
  <2>1. CASE Continues(c)
    <3>1. PICK o \in Op : Send(c, Entry[c], o)
      BY <2>1 DEF Continues
    <3>2. \A q \in Proc : q # c => call'[q] = call[q]
      BY <1>1, <3>1, SendKeepsOps
    <3> QED
      BY <1>1, <3>1, <3>2, ClientSendCore DEF store, Proc
  <2>2. CASE Ends(c) /\ UNCHANGED inbox
    <3>1. \A q \in Proc : q # c => call'[q] = call[q]
      BY <1>1, <2>2, ForgetType DEF Ends
    <3> QED
      BY <1>1, <2>2, <3>1, ClientForgetCore DEF store, Ends, Proc
  <2> QED
    BY <2>1, <2>2
<1>3. StampsInv'
  <2>1. \A s \in Server : \A k \in Key : KnownAt(s, k)'
    BY KnownFrame DEF store
  <2>2. CopyCalls'
    BY <1>2 DEF StampsInv, CopyCalls, store, Idle
  <2> QED
    BY <2>1, <2>2 DEF StampsInv
<1> QED
  BY <1>2, <1>3

\* The cluster's invariants know of the death of a Tribbler server, too.
LEMMA DiesCore ==
    ASSUME CoreInv, StampsInv, NEW c \in Client, Dies(c)
    PROVE  CoreInv' /\ StampsInv' /\ faults' # 0
<1>1. TypeOK /\ c \in Proc /\ c \notin Server /\ ClientEnds(c)
  BY DiesEnds, ClusterAssumption DEF CoreInv, TypeInv, Proc
<1>2. UNCHANGED <<pc, lists, vt>> /\ \A t \in Server : call'[t] = call[t]
  BY <1>1, ForgetType DEF ClientEnds, Proc
<1>3. CoreInv'
  BY <1>1, ClientEndsCore
<1>4. \A s \in Server : \A k \in Key : KnownAt(s, k)'
  BY <1>2, KnownFrame DEF StampsInv
<1>5. CopyCalls'
  BY <1>2 DEF StampsInv, CopyCalls, Idle
<1>6. faults' # 0
  BY <1>1 DEF TypeOK, ClientEnds
<1> QED
  BY <1>3, <1>4, <1>5, <1>6 DEF StampsInv

\* Every step preserves the invariant.
LEMMA TribblerNext == TribblerInv /\ [TNext]_tvars => TribblerInv'
<1> SUFFICES ASSUME TribblerInv, [TNext]_tvars
             PROVE  TribblerInv'
  OBVIOUS
<1>1. CoreInv /\ StampsInv /\ TribblerTypeOK
  BY DEF TribblerInv
<1>2. ASSUME [Next]_vars
      PROVE  CoreInv' /\ StampsInv'
  BY <1>1, <1>2, NextCore, StampsNext
<1>3. ASSUME NEW s \in Server, ClusterStep(Boot(s) \/ ServerStep(s) \/ Crash(s))
      PROVE  TribblerInv'
  <2>1. Boot(s) \/ ServerStep(s) \/ Crash(s)
    BY <1>3 DEF ClusterStep
  <2>2. \A c \in Client : Idle(c)' <=> Idle(c)
    BY <1>1, <2>1, ClusterKeepsIdle
  <2>3. TribblerTypeOK'
    BY <1>1, <1>3, <2>2 DEF TribblerTypeOK, ClusterStep
  <2> QED
    BY <1>2, <2>1, <2>3 DEF Next, TribblerInv
<1>4. ASSUME NEW c \in Client, Accept(c) \/ Advances(c)
      PROVE  TribblerInv'
  <2>1. ~Waiting(c) /\ UNCHANGED store /\ Proceeds(c)
    BY <1>4, AcceptProceeds, OperationProceeds
  <2> QED
    BY <1>1, <2>1, ProceedsCore, ProceedsTypes DEF Proceeds, TribblerInv
<1>5. ASSUME NEW c \in Client, Dies(c)
      PROVE  TribblerInv'
  <2>1. CoreInv' /\ StampsInv'
    BY <1>1, <1>5, DiesCore
  <2>2. Ends(c) /\ Restarts(c)
    BY <1>5, DiesEnds
  <2>3. script' \in [Client -> Seq(Task)]
    BY <1>1, <2>2 DEF Restarts, TribblerTypeOK
  <2> QED
    BY <2>1, <2>2, <2>3, ProceedsTypes DEF TribblerInv
<1>6. ASSUME UNCHANGED vars, UNCHANGED <<script, work, told>>
      PROVE  TribblerInv'
  <2>1. TribblerTypeOK'
    BY <1>1, <1>6 DEF vars, TribblerTypeOK, Idle
  <2> QED
    BY <1>2, <1>6, <2>1 DEF TribblerInv
<1> QED
  BY <1>3, <1>4, <1>5, <1>6 DEF TNext, Advances, Dies, Finished, Settled, tvars

\* Nothing has been asked of the Tribbler servers at first.
LEMMA InitTribbler == TInit => TribblerInv
<1> SUFFICES ASSUME TInit
             PROVE  TribblerInv
  OBVIOUS
<1>1. CoreInv /\ StampsInv
  BY InitCore, InitStamps DEF TInit
<1>2. NoWork \in Work /\ NoWork.stage = "idle"
  BY ReservedText DEF NoWork, Begin, NoTask, Work, Stage, Task, Operation
<1>3. script \in [Client -> Seq(Task)]
  BY ScriptAssumption DEF TInit
<1>4. \A c \in Client : Idle(c)
  BY NoCallType DEF TInit, Init, Idle, Proc
<1>5. TribblerTypeOK
  BY <1>2, <1>3, <1>4 DEF TInit, TribblerTypeOK, Work
<1> QED
  BY <1>1, <1>5 DEF TribblerInv

\* The invariant of the composition holds in every state.
THEOREM TribblerCorrect == TSpec => []TribblerInv
  BY InitTribbler, TribblerNext, PTL DEF TSpec

\* Whatever clients ask for and whatever crashes, no answer has a status that
\* Tribbler.thrift does not name, and a Tribbler server runs an operation exactly
\* while it has a call at the store.
THEOREM TribblerTypesCorrect == TSpec => []TribblerTypeOK
<1>1. TribblerInv => TribblerTypeOK
  BY DEF TribblerInv
<1> QED
  BY <1>1, TribblerCorrect, PTL

\* The store keeps its promises to the Tribbler servers: types, known stamps, one
\* request for each waiting caller, and new posts that come last.
THEOREM StoreServesTribblers ==
    TSpec => [](TypeOK /\ StampsKnown /\ OneRequestPerCall) /\ NewPostIsNewest
<1>1. TribblerInv => TypeOK /\ StampsKnown /\ OneRequestPerCall
  BY StampsInvKnows, CallsCounted DEF TribblerInv, CoreInv, TypeInv
<1>2. TribblerInv /\ TribblerInv' => PostsComeLast
  BY PostsNewest DEF TribblerInv, PostsComeLast
<1> QED
  BY <1>1, <1>2, TribblerCorrect, PTL DEF NewPostIsNewest, PostsComeLast

-----------------------------------------------------------------------------

\* Operations keep all the Tribbler servers' requests at their entries.
LEMMA TribblerRoutes ==
    ASSUME TribblerInv, RoutesInv, [TNext]_tvars
    PROVE  RoutesInv'
<1>1. TypeOK /\ CoreInv
  BY DEF TribblerInv, CoreInv, TypeInv
<1>2. ASSUME [Next]_vars
      PROVE  RoutesInv'
  BY <1>1, <1>2, RoutesNext
<1>3. ASSUME NEW c \in Client, Accept(c) \/ Advances(c)
      PROVE  RoutesInv'
  <2>1. UNCHANGED store /\ Proceeds(c)
    BY <1>3, AcceptProceeds, OperationProceeds
  <2>2. CASE Continues(c)
    <3>1. PICK o \in Op : Send(c, Entry[c], o)
      BY <2>2 DEF Continues
    <3>2. c \in Proc /\ Entry[c] \in Server
      BY ClusterAssumption DEF Proc
    <3> QED
      BY <1>1, <2>1, <3>1, <3>2, SendRoutes DEF store
  <2>3. CASE UNCHANGED inbox
    BY <2>1, <2>3, RouteFrame DEF store, RoutesInv, Listening
  <2> QED
    BY <2>1, <2>2, <2>3 DEF Proceeds
<1>4. CASE \E s \in Server : ClusterStep(Boot(s) \/ ServerStep(s) \/ Crash(s))
  BY <1>2, <1>4 DEF ClusterStep, Next
<1>5. CASE \E c \in Client : Dies(c)
  BY <1>1, <1>5, DiesEnds, ClientEndsRoutes
<1>6. CASE UNCHANGED vars
  BY <1>2, <1>6
<1> QED
  BY <1>3, <1>4, <1>5, <1>6 DEF TNext, Advances, Dies, Finished, Settled, tvars

\* Tribbler servers that share a key-value server never bring the cluster to a
\* standstill, whatever they are asked for, whatever boots and whatever crashes.
THEOREM TribblersNeverBlock ==
    ASSUME OneEntryOnly
    PROVE  TSpec => []NoWaitCycle
<1>1. TInit => RoutesInv
  BY DEF TInit, Init, RoutesInv, RouteOK
<1>2. TribblerInv /\ RoutesInv /\ [TNext]_tvars => RoutesInv'
  BY TribblerRoutes
<1>3. TribblerInv /\ RoutesInv => NoWaitCycle
  BY NoCycle DEF TribblerInv
<1> QED
  BY <1>1, <1>2, <1>3, TribblerCorrect, PTL DEF TSpec

-----------------------------------------------------------------------------
(* Nothing is invented. *)

\* Nobody ends a subscription.
ScriptsAdd ==
    \A f \in Scripts : \A c \in Client : \A n \in DOMAIN f[c] : f[c][n].op # "RemoveSubscription"

\* Then no operation is one that does, and a lookup of another user is for AddSubscription.
TasksAdd ==
    \A c \in Client :
        /\ \A n \in DOMAIN script[c] : script[c][n].op # "RemoveSubscription"
        /\ work[c].task.op # "RemoveSubscription"
        /\ work[c].stage = "other" => work[c].task.op = "AddSubscription"

\* One call that only adds, or the end of one.
AddsOrEnds(c) ==
    \/ \E o \in Op : Send(c, Entry[c], o) /\ o.kind # "RemoveFromList" /\ o.item.vt = NoStamp
    \/ Forget(c) /\ UNCHANGED inbox

\* The step of a Tribbler server that adds at most.
StepAdds(c) == TasksAdd' /\ AddsOrEnds(c)

\* What a step leaves of an operation is enough to see that it keeps to tasks that add.
LEMMA TasksFrame ==
    ASSUME TribblerTypeOK, TasksAdd, NEW c \in Client,
           \A d \in Client : d # c => work'[d] = work[d],
           work'[c].task.op # "RemoveSubscription",
           work'[c].stage = "other" => work'[c].task.op = "AddSubscription",
           script' = script \/ script' = [script EXCEPT ![c] = <<>>]
    PROVE  TasksAdd'
<1>1. ASSUME NEW d \in Client
      PROVE  script'[d] = script[d] \/ script'[d] = <<>>
  BY DEF TribblerTypeOK
<1>2. ASSUME NEW d \in Client, NEW n \in DOMAIN script'[d]
      PROVE  script'[d][n].op # "RemoveSubscription"
  <2>1. DOMAIN <<>> = {}
    OBVIOUS
  <2>2. script'[d] = script[d]
    BY <1>1, <1>2, <2>1
  <2> QED
    BY <1>2, <2>2 DEF TasksAdd
<1>3. ASSUME NEW d \in Client
      PROVE  /\ work'[d].task.op # "RemoveSubscription"
             /\ work'[d].stage = "other" => work'[d].task.op = "AddSubscription"
  <2>1. CASE d = c
    BY <2>1
  <2>2. CASE d # c
    <3>1. work'[d] = work[d]
      BY <2>2
    <3> QED
      BY <3>1 DEF TasksAdd
  <2> QED
    BY <2>1, <2>2
<1> QED
  BY <1>2, <1>3 DEF TasksAdd

\* The next call of such an operation.
LEMMA GoesAdds ==
    ASSUME TribblerTypeOK, TasksAdd, NEW c \in Client, NEW stage, NEW o \in Op,
           Goes(c, stage, o), stage = "other" => work[c].task.op = "AddSubscription",
           o.kind # "RemoveFromList", o.item.vt = NoStamp
    PROVE  StepAdds(c)
<1>1. work \in [Client -> Work] /\ work[c].task.op # "RemoveSubscription"
  BY DEF TribblerTypeOK, Work, TasksAdd
<1>2. work' = [work EXCEPT ![c].stage = stage] /\ Send(c, Entry[c], o) /\ script' = script
  BY DEF Goes
<1>3. work'[c].stage = stage /\ work'[c].task = work[c].task
  BY <1>1, <1>2 DEF Work
<1>4. \A d \in Client : d # c => work'[d] = work[d]
  BY <1>1, <1>2
<1> QED
  BY <1>1, <1>2, <1>3, <1>4, TasksFrame DEF StepAdds, AddsOrEnds

\* The end of an operation.
LEMMA EndsAdds ==
    ASSUME TribblerTypeOK, TasksAdd, NEW c \in Client, Forget(c), UNCHANGED inbox,
           work' = [work EXCEPT ![c] = NoWork],
           script' = script \/ script' = [script EXCEPT ![c] = <<>>]
    PROVE  StepAdds(c)
<1>1. work \in [Client -> Work]
  BY DEF TribblerTypeOK, Work
<1>2. NoWork.task.op = "CreateUser" /\ NoWork.stage = "idle"
  BY DEF NoWork, Begin, NoTask
<1>3. work'[c] = NoWork /\ \A d \in Client : d # c => work'[d] = work[d]
  BY <1>1
<1> QED
  BY <1>2, <1>3, TasksFrame DEF StepAdds, AddsOrEnds

\* The loop of GetTribblesBySubscription.
LEMMA FeedAdds ==
    ASSUME TribblerTypeOK, TasksAdd, NEW c \in Client, NEW subs \in SUBSET Text, NEW found,
           NextFeed(c, subs, found)
    PROVE  StepAdds(c)
<1>1. CASE subs = {}
  BY <1>1, EndsAdds DEF NextFeed, ShowsFeed, Returns
<1>2. CASE subs # {}
  <2>1. PICK u \in subs :
           /\ work' = [work EXCEPT ![c].stage = "posts", ![c].subs = subs, ![c].found = found]
           /\ Send(c, Entry[c], GetPosts(u)) /\ UNCHANGED <<told, script>>
    BY <1>2 DEF NextFeed
  <2>2. work \in [Client -> Work] /\ work[c].task.op # "RemoveSubscription"
    BY DEF TribblerTypeOK, Work, TasksAdd
  <2>3. work'[c].stage = "posts" /\ work'[c].task = work[c].task
    BY <2>1, <2>2 DEF Work
  <2>4. \A d \in Client : d # c => work'[d] = work[d]
    BY <2>1, <2>2
  <2>5. GetPosts(u) \in Op
    BY AskType
  <2>6. GetPosts(u).kind # "RemoveFromList" /\ GetPosts(u).item.vt = NoStamp
    BY DEF GetPosts, MakeOp, Plain
  <2>7. AddsOrEnds(c)
    BY <2>1, <2>5, <2>6 DEF AddsOrEnds
  <2> QED
    BY <2>1, <2>2, <2>3, <2>4, <2>7, TasksFrame DEF StepAdds
<1> QED
  BY <1>1, <1>2

\* The acceptance of a client's call.
LEMMA AcceptAdds ==
    ASSUME TribblerInv, TasksAdd, NEW c \in Client, Accept(c)
    PROVE  StepAdds(c)
<1> DEFINE task == Head(script[c])
           w == Begin(task, Len(script[c]), {<<a.by, a.no>> : a \in told})
<1>1. /\ script \in [Client -> Seq(Task)] /\ work \in [Client -> Work]
      /\ script[c] \in Seq(Task) /\ script[c] # <<>>
  BY DEF TribblerInv, TribblerTypeOK, Work, Accept
<1>2. task = script[c][1] /\ 1 \in DOMAIN script[c] /\ task \in Task
  BY <1>1
<1>3. /\ script' = [script EXCEPT ![c] = Tail(script[c])] /\ work' = [work EXCEPT ![c] = w]
      /\ Send(c, Entry[c], GetUser(task.user))
  BY DEF Accept
<1>4. w.stage = "user" /\ w.task = task
  BY DEF Begin
<1> HIDE DEF w
<1>5. work'[c] = w /\ \A d \in Client : d # c => work'[d] = work[d] /\ script'[d] = script[d]
  BY <1>1, <1>3
<1>6. \A n \in DOMAIN script'[c] : script'[c][n].op # "RemoveSubscription"
  <2>1. script'[c] = Tail(script[c])
    BY <1>1, <1>3
  <2>2. \A n \in DOMAIN Tail(script[c]) :
           n + 1 \in DOMAIN script[c] /\ Tail(script[c])[n] = script[c][n + 1]
    BY <1>1
  <2> QED
    BY <2>1, <2>2 DEF TasksAdd
<1>7. TasksAdd'
  BY <1>2, <1>4, <1>5, <1>6 DEF TasksAdd
<1>8. GetUser(task.user) \in Op
  BY <1>2, AskType DEF Task
<1>9. GetUser(task.user).kind # "RemoveFromList" /\ GetUser(task.user).item.vt = NoStamp
  BY DEF GetUser, MakeOp, Plain
<1> QED
  BY <1>3, <1>7, <1>8, <1>9 DEF StepAdds, AddsOrEnds

\* Every step of an operation.
LEMMA OperationAdds ==
    ASSUME TribblerInv, TasksAdd, NEW c \in Client, Advances(c)
    PROVE  StepAdds(c)
<1>1. TypeOK /\ TribblerTypeOK /\ work \in [Client -> Work] /\ work[c] \in Work
  BY DEF TribblerInv, CoreInv, TypeInv, TribblerTypeOK, Work
<1>2. User(c) \in Text /\ Arg(c) \in Text
  BY <1>1 DEF Work, Task, User, Arg
<1> DEFINE Good(o) == o \in Op /\ o.kind # "RemoveFromList" /\ o.item.vt = NoStamp
<1>3. \A u \in Text : Good(GetUser(u)) /\ Good(GetPosts(u)) /\ Good(GetSubs(u))
  BY AskType DEF GetUser, GetPosts, GetSubs, MakeOp, Plain
<1>4. /\ Good(MakeOp("AddToList", UserList, Plain(User(c))))
      /\ Good(MakeOp("Put", UserKey(User(c)), Plain(User(c))))
      /\ Good(MakeOp("AddToList", TribbleKey(User(c)), Plain(Arg(c))))
      /\ Good(MakeOp("AddToList", SubKey(User(c)), Plain(Arg(c))))
  BY <1>2, AskType DEF MakeOp, Plain
<1> HIDE DEF Good
<1>5. ASSUME NEW stage, NEW o, Good(o), Goes(c, stage, o),
             stage = "other" => work[c].task.op = "AddSubscription"
      PROVE  StepAdds(c)
  BY <1>1, <1>5, GoesAdds DEF Good
<1>6. ASSUME NEW a, Returns(c, a) PROVE StepAdds(c)
  BY <1>1, <1>6, EndsAdds DEF Returns
<1>7. ASSUME NEW status, Responds(c, status) PROVE StepAdds(c)
  BY <1>6, <1>7 DEF Responds
<1>8. CASE CreateUser(c) \/ CreateListed(c)
  BY <1>4, <1>5, <1>7, <1>8 DEF CreateUser, CreateListed
<1>9. CASE UserChecked(c)
  <2>1. Does(c, {"AddSubscription", "RemoveSubscription"}) => work[c].task.op = "AddSubscription"
    BY DEF TasksAdd, Does
  <2> QED
    BY <1>2, <1>3, <1>4, <1>5, <1>7, <1>9, <2>1 DEF UserChecked
<1>10. CASE OtherChecked(c)
  <2>1. Does(c, {"AddSubscription"})
    BY <1>10 DEF OtherChecked, At, TasksAdd, Does
  <2> QED
    BY <1>4, <1>5, <1>7, <1>10, <2>1 DEF OtherChecked
<1>11. CASE Written(c) \/ PostsRead(c) \/ SubscriptionsRead(c)
  BY <1>6, <1>7, <1>11 DEF Written, PostsRead, ShowsFeed, SubscriptionsRead
<1>12. CASE CheckedAgain(c)
  BY <1>2, <1>3, <1>5, <1>7, <1>12 DEF CheckedAgain
<1>13. CASE FeedBegins(c)
  BY <1>1, <1>7, <1>13, AnswerType, FeedAdds DEF FeedBegins
<1>14. CASE FeedGoesOn(c)
  BY <1>1, <1>14, FeedAdds DEF FeedGoesOn, Work
<1>15. CASE Throws(c) \/ ReadThrows(c)
  BY <1>1, <1>15, EndsAdds DEF Throws, ReadThrows, Excepts
<1> QED
  BY <1>8, <1>9, <1>10, <1>11, <1>12, <1>13, <1>14, <1>15 DEF Advances, OperationStep

\* No step takes up a task that does not add.
LEMMA TasksAddNext ==
    ASSUME TribblerInv, TasksAdd, [TNext]_tvars
    PROVE  TasksAdd'
<1>1. CASE \E c \in Client : Accept(c) \/ Advances(c)
  BY <1>1, AcceptAdds, OperationAdds DEF StepAdds
<1>2. CASE UNCHANGED <<script, work>>
  BY <1>2 DEF TasksAdd
<1>3. ASSUME NEW c \in Client, Dies(c)
      PROVE  TasksAdd'
  <2>1. TribblerTypeOK /\ work \in [Client -> Work]
    BY DEF TribblerInv, TribblerTypeOK, Work
  <2>2. work' = [work EXCEPT ![c] = NoWork] /\ script' = [script EXCEPT ![c] = <<>>]
    BY <1>3, DiesEnds DEF Restarts
  <2>3. NoWork.task.op = "CreateUser" /\ NoWork.stage = "idle"
    BY DEF NoWork, Begin, NoTask
  <2>4. work'[c] = NoWork /\ \A d \in Client : d # c => work'[d] = work[d]
    BY <2>1, <2>2
  <2> QED
    BY <2>1, <2>2, <2>3, <2>4, TasksFrame
<1> QED
  BY <1>1, <1>2, <1>3 DEF TNext, Advances, Dies, ClusterStep, Finished, tvars

\* What is around has come by way of the Tribbler servers' one key-value server.
LEMMA TribblerSources ==
    ASSUME NEW E \in Server, \A c \in Client : Entry[c] = E,
           TribblerInv, RoutesInv, TasksAdd, SourceInv(E), [TNext]_tvars
    PROVE  SourceInv(E)'
<1>1. CoreInv /\ CoreInv' /\ CopyCalls /\ StampsInv /\ TypeOK /\ TypeOK'
  BY TribblerNext DEF TribblerInv, CoreInv, TypeInv, StampsInv
<1>2. CASE \E s \in Server : ClusterStep(Boot(s) \/ ServerStep(s) \/ Crash(s))
  BY <1>1, <1>2, ServerSources DEF ClusterStep
<1>3. ASSUME NEW c \in Client, Accept(c) \/ Advances(c)
      PROVE  SourceInv(E)'
  <2>1. ~Waiting(c) /\ UNCHANGED store /\ AddsOrEnds(c)
    BY <1>3, AcceptProceeds, OperationProceeds, AcceptAdds, OperationAdds DEF StepAdds
  <2>2. UNCHANGED <<pc, todo, job, simple, lists, faults>>
    BY <2>1 DEF store
  <2> SUFFICES ASSUME faults' = 0 PROVE SourceHas(E)' /\ AddRequests'
    BY DEF SourceInv
  <2>3. SourceHas(E) /\ AddRequests
    BY <2>2 DEF SourceInv
  <2> QED
    BY <1>1, <2>1, <2>2, <2>3, SendSources, ForgetSources DEF AddsOrEnds
<1>4. ASSUME NEW c \in Client, Dies(c)
      PROVE  SourceInv(E)'
  BY <1>1, <1>4, DiesCore DEF SourceInv
<1>5. CASE UNCHANGED vars
  <2>1. UNCHANGED <<pc, todo, job, simple, lists, call, inbox, faults>>
    BY <1>5 DEF vars
  <2> SUFFICES ASSUME faults' = 0 PROVE SourceHas(E)' /\ AddRequests'
    BY DEF SourceInv
  <2>2. SourceHas(E) /\ AddRequests
    BY <2>1 DEF SourceInv
  <2> QED
    BY <1>1, <2>1, <2>2, QueuesSame, QuietSources DEF SourceHas, Listening
<1> QED
  BY <1>2, <1>3, <1>4, <1>5 DEF TNext, Advances, Dies, Finished, Settled, tvars

\* Tribbler servers of one key-value server whose clients end no subscription: while nothing
\* crashes, no server, however many join and whenever they do, holds a user, a subscription
\* or a tribble that this server does not have, but for users that are listed there and not
\* yet created.
THEOREM TribblersInventNothing ==
    ASSUME OneEntryOnly, ScriptsAdd, EntriesUp
    PROVE  TSpec => []NothingInvented
<1>1. CASE Client = {}
  <2>1. NothingInvented
    BY <1>1 DEF NothingInvented
  <2> QED
    BY <2>1, PTL
<1>2. CASE Client # {}
  <2>1. PICK d \in Client : TRUE
    BY <1>2
  <2> DEFINE E == Entry[d]
             Inv == RoutesInv /\ TasksAdd /\ SourceInv(E)
  <2>2. E \in Server /\ (\A c \in Client : Entry[c] = E) /\ E <= B
    BY ClusterAssumption DEF OneEntryOnly, EntriesUp
  <2> HIDE DEF E
  <2>3. TInit => Inv
    <3> SUFFICES ASSUME TInit PROVE Inv
      OBVIOUS
    <3>1. RoutesInv
      BY DEF TInit, Init, RoutesInv, RouteOK, Server
    <3>2. TasksAdd
      BY DEF TInit, TasksAdd, ScriptsAdd, NoWork, Begin, NoTask
    <3> QED
      BY <2>2, <3>1, <3>2, InitSource DEF TInit
  <2>4. TribblerInv /\ Inv /\ [TNext]_tvars => Inv'
    BY <2>2, TribblerRoutes, TasksAddNext, TribblerSources
  <2>5. TribblerInv /\ Inv => NothingInvented
    BY <2>2, SourcesInvent DEF TribblerInv
  <2> HIDE DEF Inv
  <2> QED
    BY <2>3, <2>4, <2>5, TribblerCorrect, PTL DEF TSpec
<1> QED
  BY <1>1, <1>2

-----------------------------------------------------------------------------
(* Members and clocks. *)

\* A Tribbler server's step is one call, or the end of one: no server has heard of anything
\* by it, and the next call is no announcement.
LEMMA ProceedsMembers ==
    ASSUME TypeOK, MembersInv, NEW c \in Client, UNCHANGED store,
           Continues(c) \/ (Ends(c) /\ UNCHANGED inbox)
    PROVE  MembersInv'
<1>1. c \in Proc /\ c \notin Server /\ Entry[c] \in Server
  BY ClusterAssumption DEF Proc
<1>2. UNCHANGED <<pc, idx, running, faults>>
  BY DEF store
<1>3. CASE Continues(c)
  <2>1. PICK o \in Op : Send(c, Entry[c], o)
    BY <1>3 DEF Continues
  <2> QED
    BY <1>1, <1>2, <2>1, SendMembers DEF MembersInv
<1>4. CASE Ends(c) /\ UNCHANGED inbox
  <2>1. \A s \in Server : call'[s] = call[s]
    BY <1>1, <1>4, ForgetType DEF Ends, Proc
  <2> QED
    BY <1>2, <1>4, <2>1, QuietMembers
       DEF MembersInv, SameFind, Stays, Joined, Listening, Idle
<1> QED
  BY <1>3, <1>4

\* Every step keeps what members rest on.
LEMMA TribblerMembers ==
    ASSUME TribblerInv, MembersInv, [TNext]_tvars
    PROVE  MembersInv'
<1>1. TypeOK /\ CoreInv /\ StampsInv
  BY DEF TribblerInv, CoreInv, TypeInv
<1>2. ASSUME [Next]_vars
      PROVE  MembersInv'
  BY <1>1, <1>2, MembersNext
<1>3. ASSUME NEW c \in Client, Accept(c) \/ Advances(c)
      PROVE  MembersInv'
  <2>1. UNCHANGED store /\ Proceeds(c)
    BY <1>3, AcceptProceeds, OperationProceeds
  <2> QED
    BY <1>1, <2>1, ProceedsMembers DEF Proceeds
<1>4. CASE \E s \in Server : ClusterStep(Boot(s) \/ ServerStep(s) \/ Crash(s))
  BY <1>2, <1>4 DEF ClusterStep, Next
<1>5. CASE \E c \in Client : Dies(c)
  BY <1>1, <1>5, DiesCore DEF MembersInv
<1>6. CASE UNCHANGED vars
  BY <1>2, <1>6
<1> QED
  BY <1>3, <1>4, <1>5, <1>6 DEF TNext, Advances, Dies, Finished, Settled, tvars

\* Whatever Tribbler servers ask for: until something crashes nobody is in a
\* _runningServer before it has its copy.
THEOREM TribblersSyncMembers == TSpec => []MembersSynced
<1>1. TInit => MembersInv
  BY InitMembers DEF TInit
<1>2. TribblerInv /\ MembersInv /\ [TNext]_tvars => MembersInv'
  BY TribblerMembers
<1>3. MembersInv => MembersSynced
  BY DEF MembersInv, MemberOK, MembersSynced, Joined
<1> QED
  BY <1>1, <1>2, <1>3, TribblerCorrect, PTL DEF TSpec

\* A Tribbler server's step puts no other server's tribble on its way.
LEMMA ProceedsLeads ==
    ASSUME TribblerInv, NEW c \in Client, UNCHANGED store,
           Continues(c) \/ UNCHANGED inbox, NEW u \in Server, Leads(u)
    PROVE  Leads(u)'
<1>1. TypeOK /\ c \in Proc /\ c \notin Server /\ Entry[c] \in Server
  BY ClusterAssumption DEF TribblerInv, CoreInv, TypeInv, Proc
<1>2. UNCHANGED <<pc, job, vt>>
  BY DEF store
<1>3. \A k \in Key, item \in Item : OnItsWay(k, item)' => OnItsWay(k, item)
  BY <1>1, <1>2, SentItems, KeptItems DEF Continues
<1> QED
  BY <1>2, <1>3, ClocksStay

\* Every step keeps what clocks rest on.
LEMMA TribblerLeads ==
    ASSUME NoForgery, TribblerInv, LeadInv, [TNext]_tvars
    PROVE  LeadInv'
<1>1. TypeOK /\ CoreInv
  BY DEF TribblerInv, CoreInv, TypeInv
<1>2. ASSUME [Next]_vars
      PROVE  LeadInv'
  BY <1>1, <1>2, LeadNext
<1>3. ASSUME UNCHANGED <<pc, vt, starts>>, \A u \in Server : Leads(u) => Leads(u)'
      PROVE  LeadInv'
  <2>1. StartsInv'
    BY <1>3 DEF LeadInv, StartsInv, Listening, Zero
  <2> QED
    BY <1>1, <1>3, <2>1, TrustLasts DEF LeadInv
<1>4. ASSUME NEW c \in Client, Accept(c) \/ Advances(c)
      PROVE  LeadInv'
  <2>1. UNCHANGED store /\ Proceeds(c)
    BY <1>4, AcceptProceeds, OperationProceeds
  <2>2. \A u \in Server : Leads(u) => Leads(u)'
    BY <2>1, ProceedsLeads DEF Proceeds
  <2> QED
    BY <1>3, <2>1, <2>2 DEF store
<1>5. CASE \E s \in Server : ClusterStep(Boot(s) \/ ServerStep(s) \/ Crash(s))
  BY <1>2, <1>5 DEF ClusterStep, Next
<1>6. ASSUME NEW c \in Client, Dies(c)
      PROVE  LeadInv'
  <2>1. ClientEnds(c)
    BY <1>6, DiesEnds
  <2>2. \A u \in Server : Leads(u) => Leads(u)'
    BY <1>1, <2>1, ClientLeads
  <2> QED
    BY <1>3, <2>1, <2>2 DEF ClientEnds
<1>7. CASE UNCHANGED vars
  BY <1>2, <1>7
<1> QED
  BY <1>4, <1>5, <1>6, <1>7 DEF TNext, Advances, Dies, Finished, Settled, tvars

\* Whatever Tribbler servers ask for: until a key-value server comes to serve again nobody
\* knows more of a serving server's clock than that server, if no contents are read with a
\* stamp of their own making.
THEOREM TribblersKeepClocks == ASSUME NoForgery PROVE TSpec => []OwnClockLeads
<1>1. TInit => LeadInv
  BY InitLead DEF TInit
<1>2. TribblerInv /\ LeadInv /\ [TNext]_tvars => LeadInv'
  BY TribblerLeads
<1> QED
  BY <1>1, <1>2, LeadInvLeads, TribblerCorrect, PTL DEF TSpec

-----------------------------------------------------------------------------
(* What an operation does, call by call. *)

\* The write of each writing operation.
WriteOf(task) ==
    CASE task.op = "CreateUser"         -> MakeOp("Put", UserKey(task.user), Plain(task.user))
      [] task.op = "AddSubscription"    -> MakeOp("AddToList", SubKey(task.user), Plain(task.arg))
      [] task.op = "RemoveSubscription" ->
            MakeOp("RemoveFromList", SubKey(task.user), Plain(task.arg))
      [] task.op = "PostTribble"        ->
            MakeOp("AddToList", TribbleKey(task.user), Plain(task.arg))

Writers == {"CreateUser", "AddSubscription", "RemoveSubscription", "PostTribble"}

\* The call o is one of the operation w, at its stage.
AskedFor(w, o) ==
    \/ w.stage = "user" /\ o = GetUser(w.task.user)
    \/ /\ w.stage = "other" /\ w.task.op \in {"AddSubscription", "RemoveSubscription"}
       /\ o = GetUser(w.task.arg)
    \/ /\ w.stage = "list" /\ w.task.op = "CreateUser"
       /\ o = MakeOp("AddToList", UserList, Plain(w.task.user))
    \/ w.stage = "write" /\ w.task.op \in Writers /\ o = WriteOf(w.task)
    \/ w.stage = "read" /\ w.task.op = "GetTribbles" /\ o = GetPosts(w.task.user)
    \/ /\ w.stage = "again" /\ w.task.op = "GetTribblesBySubscription"
       /\ o = GetUser(w.task.user)
    \/ /\ w.stage = "subs" /\ w.task.op \in {"GetSubscriptions", "GetTribblesBySubscription"}
       /\ o = GetSubs(w.task.user)
    \/ /\ w.stage = "posts" /\ w.task.op = "GetTribblesBySubscription"
       /\ \E u \in w.subs : o = GetPosts(u)

\* Every Tribbler server's call is one of its operation.
CallsFit == \A c \in Client : ~Idle(c) => AskedFor(work[c], call[c].op)

\* The user whose tribbles c has just been given.
Asked(c) == call[c].op.key[1]

\* From what the operation of c goes on as w.
GoesFrom(c, w) ==
    \/ work[c].stage = "user" /\ ~Exists(c) /\ w.stage = "list"
    \/ work[c].stage = "list" /\ w.stage = "write"
    \/ /\ work[c].stage = "user" /\ ~Does(c, {"CreateUser"}) /\ Exists(c)
       /\ \/ w.stage \in {"other", "read", "again"}
          \/ w.stage = "subs" /\ Does(c, {"GetSubscriptions"})
          \/ w.stage = "write" /\ Does(c, {"PostTribble"})
    \/ /\ work[c].stage = "other" /\ Exists(c) /\ w.stage = "write"
       /\ Does(c, {"AddSubscription"}) => User(c) # Arg(c)
    \/ work[c].stage = "again" /\ Exists(c) /\ w.stage = "subs"
    \/ /\ work[c].stage = "subs" /\ w.stage = "posts"
       /\ w.subs = Subscriptions(c) /\ w.found = {}
    \/ /\ work[c].stage = "posts" /\ w.stage = "posts"
       /\ w.subs = work[c].subs \ {Asked(c)}
       /\ w.found = work[c].found \cup Listed(c, Asked(c))

\* Only the loop of GetTribblesBySubscription changes what is left and found.
KeepsLoop(c, w) == w.stage # "posts" => w.subs = work[c].subs /\ w.found = work[c].found

\* The operation of c goes on as w and calls o.
Moves(c, w, o) ==
    /\ Send(c, Entry[c], o) /\ work' = [work EXCEPT ![c] = w] /\ UNCHANGED <<script, told>>
    /\ w.task = work[c].task /\ w.no = work[c].no /\ w.known = work[c].known
    /\ w.stage # "idle" /\ AskedFor(w, o) /\ GoesFrom(c, w) /\ KeepsLoop(c, w)

\* tribbles is a feed of those found.
Shows(found, tribbles) ==
    \E shown \in F!Feeds(found) : tribbles = [n \in DOMAIN shown |-> Shown(shown[n])]

\* From what the operation of c answers that.
Answers(c, status, tribbles) ==
    \/ work[c].stage = "user" /\ Does(c, {"CreateUser"}) /\ Exists(c) /\ status = "EEXISTS"
    \/ work[c].stage = "user" /\ ~Does(c, {"CreateUser"}) /\ ~Exists(c)
       /\ status = "INVALID_USER"
    \/ /\ work[c].stage = "other" /\ status = "INVALID_SUBSCRIBETO"
       /\ ~Exists(c) \/ (Does(c, {"AddSubscription"}) /\ User(c) = Arg(c))
    \/ work[c].stage = "write" /\ status = WriteStatus(work[c].task.op, call[c].status)
    \/ work[c].stage = "again" /\ ~Exists(c) /\ status = "INTERNAL_FAILURE"
    \/ /\ work[c].stage \in {"read", "subs"} /\ ReadStatus(call[c].status) # "OK"
       /\ status = "INTERNAL_FAILURE"
    \/ work[c].stage = "read" /\ status = "OK" /\ Shows(Listed(c, User(c)), tribbles)
    \/ work[c].stage = "subs" /\ Does(c, {"GetSubscriptions"}) /\ status = "OK"
    \/ /\ work[c].stage = "subs" /\ Does(c, {"GetTribblesBySubscription"})
       /\ Subscriptions(c) = {} /\ status = "OK" /\ Shows({}, tribbles)
    \/ /\ work[c].stage = "posts" /\ work[c].subs \ {Asked(c)} = {} /\ status = "OK"
       /\ Shows(work[c].found \cup Listed(c, Asked(c)), tribbles)
    \/ ComesTo(c, "throws") /\ status = "exception"

\* c has been given the last that it needs for a feed, or somebody's subscriptions.
ReadsFeed(c) ==
    \/ work[c].stage \in {"read", "posts"}
    \/ work[c].stage = "subs" /\ Does(c, {"GetTribblesBySubscription"})

ReadsSubs(c) == work[c].stage = "subs" /\ Does(c, {"GetSubscriptions"})

\* Other answers carry nothing but their status.
Carries(c, tribbles, subscriptions) ==
    /\ tribbles = <<>> \/ ReadsFeed(c)
    /\ subscriptions = IF ReadsSubs(c) THEN Subscriptions(c) ELSE {}

\* What is left of the client's script when it has been given the answer a.
ScriptAfter(c, a) ==
    script' = IF a.status = "exception" THEN [script EXCEPT ![c] = <<>>] ELSE script

\* The operation of c ends with the answer a.
Gives(c, a) ==
    /\ told' = told \cup {a} /\ work' = [work EXCEPT ![c] = NoWork]
    /\ Forget(c) /\ UNCHANGED inbox /\ ScriptAfter(c, a)
    /\ \E status \in TribbleStatus \cup {"exception"} : \E tribbles, subscriptions :
          /\ a = Answer(c, status, tribbles, subscriptions)
          /\ Answers(c, status, tribbles) /\ Carries(c, tribbles, subscriptions)

\* What the operation of c comes to in a step.
OperationDoes(c) ==
    /\ Answered(c) /\ UNCHANGED store
    /\ (\E w \in Work, o \in Op : Moves(c, w, o)) \/ (\E a : Gives(c, a))

\* A stage is passed on with the rest of the operation.
LEMMA NextStage ==
    ASSUME TribblerTypeOK, NEW c \in Client, NEW stage \in Stage
    PROVE  LET w == [work[c] EXCEPT !.stage = stage]
           IN  /\ w \in Work /\ w.stage = stage /\ KeepsLoop(c, w)
               /\ w.task = work[c].task /\ w.no = work[c].no /\ w.known = work[c].known
               /\ [work EXCEPT ![c].stage = stage] = [work EXCEPT ![c] = w]
<1>1. work \in [Client -> Work]
  BY DEF TribblerTypeOK, Work
<1> QED
  BY <1>1 DEF Work, KeepsLoop

\* Every step of an operation goes on to a call of it or answers.
LEMMA OperationCalls ==
    ASSUME TribblerInv, Up, NEW c \in Client, Advances(c), CallsFit
    PROVE  OperationDoes(c)
<1>1. /\ TypeOK /\ TribblerTypeOK /\ work \in [Client -> Work] /\ work[c] \in Work
      /\ work[c].task \in Task /\ c \in Proc
  BY DEF TribblerInv, CoreInv, TypeInv, TribblerTypeOK, Work, Proc
<1>2. User(c) \in Text /\ Arg(c) \in Text
  BY <1>1 DEF Task, User, Arg
<1>3. ~Throws(c)
  BY <1>1 DEF Up, AllUp, Throws
<1>4. Answered(c) /\ UNCHANGED store
  BY <1>3 DEF Advances, OperationStep, CreateUser, CreateListed, UserChecked, OtherChecked,
     Written, PostsRead, SubscriptionsRead, CheckedAgain, FeedBegins, FeedGoesOn, ReadThrows,
     ComesTo, Excepts, At
<1>5. AskedFor(work[c], call[c].op)
  BY <1>4 DEF CallsFit, Answered, Idle
<1>6. ASSUME NEW stage \in Stage, stage # "idle", NEW o \in Op, Goes(c, stage, o),
             AskedFor([work[c] EXCEPT !.stage = stage], o),
             GoesFrom(c, [work[c] EXCEPT !.stage = stage])
      PROVE  OperationDoes(c)
  <2> DEFINE w == [work[c] EXCEPT !.stage = stage]
  <2>1. /\ w \in Work /\ w.stage = stage /\ KeepsLoop(c, w)
        /\ w.task = work[c].task /\ w.no = work[c].no /\ w.known = work[c].known
        /\ [work EXCEPT ![c].stage = stage] = [work EXCEPT ![c] = w]
    BY <1>1, NextStage
  <2> HIDE DEF w
  <2>2. Moves(c, w, o)
    BY <1>6, <2>1 DEF Moves, Goes, w
  <2> QED
    BY <1>4, <2>1, <2>2 DEF OperationDoes
<1>7. ASSUME NEW status \in TribbleStatus, NEW tribbles, NEW subscriptions,
             Returns(c, Answer(c, status, tribbles, subscriptions)),
             Answers(c, status, tribbles), Carries(c, tribbles, subscriptions)
      PROVE  OperationDoes(c)
  <2> DEFINE a == Answer(c, status, tribbles, subscriptions)
  <2>1. a.status # "exception"
    BY <1>7 DEF Answer, TribbleStatus
  <2>2. Gives(c, a)
    BY <1>7, <2>1 DEF Gives, Returns, ScriptAfter
  <2> QED
    BY <1>4, <2>2 DEF OperationDoes
<1>8. ASSUME NEW status \in TribbleStatus, Responds(c, status), Answers(c, status, <<>>),
             ~ReadsSubs(c)
      PROVE  OperationDoes(c)
  BY <1>7, <1>8 DEF Responds, Carries
<1>9. ASSUME NEW found, ShowsFeed(c, found), \A ts : Shows(found, ts) => Answers(c, "OK", ts),
             ReadsFeed(c)
      PROVE  OperationDoes(c)
  <2>1. PICK shown \in F!Feeds(found) :
           Returns(c, Answer(c, "OK", [n \in DOMAIN shown |-> Shown(shown[n])], {}))
    BY <1>9 DEF ShowsFeed
  <2>2. Shows(found, [n \in DOMAIN shown |-> Shown(shown[n])])
    BY <2>1 DEF Shows
  <2>3. ~ReadsSubs(c)
    BY <1>9 DEF ReadsFeed, ReadsSubs, Does
  <2> QED
    BY <1>7, <1>9, <2>1, <2>2, <2>3 DEF TribbleStatus, Carries
<1>10. ASSUME NEW subs \in SUBSET Text, NEW found \in SUBSET [user : Text, item : Item],
              NextFeed(c, subs, found), Does(c, {"GetTribblesBySubscription"}), ReadsFeed(c),
              subs = {} => \A ts : Shows(found, ts) => Answers(c, "OK", ts),
              \A w : w.stage = "posts" /\ w.subs = subs /\ w.found = found => GoesFrom(c, w)
       PROVE  OperationDoes(c)
  <2>1. CASE subs = {}
    BY <1>9, <1>10, <2>1 DEF NextFeed
  <2>2. CASE subs # {}
    <3> DEFINE w == [work[c] EXCEPT !.stage = "posts", !.subs = subs, !.found = found]
    <3>1. PICK u \in subs :
             /\ work' = [work EXCEPT ![c].stage = "posts", ![c].subs = subs, ![c].found = found]
             /\ Send(c, Entry[c], GetPosts(u)) /\ UNCHANGED <<script, told>>
      BY <1>10, <2>2 DEF NextFeed
    <3>2. /\ w \in Work /\ w.stage = "posts" /\ w.subs = subs /\ w.found = found
          /\ w.task = work[c].task /\ w.no = work[c].no /\ w.known = work[c].known
      BY <1>1 DEF Work, Stage
    <3>3. work' = [work EXCEPT ![c] = w]
      BY <1>1, <3>1
    <3> HIDE DEF w
    <3>4. GetPosts(u) \in Op
      BY AskType
    <3>5. AskedFor(w, GetPosts(u))
      BY <1>10, <3>1, <3>2 DEF AskedFor, Does
    <3>6. GoesFrom(c, w)
      BY <1>10, <3>2
    <3>7. Moves(c, w, GetPosts(u))
      BY <3>1, <3>2, <3>3, <3>5, <3>6 DEF Moves, KeepsLoop
    <3> QED
      BY <1>4, <3>2, <3>4, <3>7 DEF OperationDoes
  <2> QED
    BY <2>1, <2>2
<1>11. /\ GetUser(User(c)) \in Op /\ GetPosts(User(c)) \in Op /\ GetSubs(User(c)) \in Op
       /\ GetUser(Arg(c)) \in Op
       /\ MakeOp("AddToList", UserList, Plain(User(c))) \in Op
       /\ MakeOp("Put", UserKey(User(c)), Plain(User(c))) \in Op
       /\ MakeOp("AddToList", TribbleKey(User(c)), Plain(Arg(c))) \in Op
       /\ \A k \in {"AddToList", "RemoveFromList"} :
             MakeOp(k, SubKey(User(c)), Plain(Arg(c))) \in Op
  BY <1>2, AskType
<1>12. \A stage \in Stage : LET w == [work[c] EXCEPT !.stage = stage]
                            IN  w.stage = stage /\ w.task = work[c].task
  BY <1>1, NextStage
<1> DEFINE In(stage) == [work[c] EXCEPT !.stage = stage]
<1>13. \A stage \in Stage : In(stage).stage = stage /\ In(stage).task = work[c].task
  BY <1>12
<1>14. ASSUME NEW stage \in Stage, stage # "idle", NEW o \in Op, Goes(c, stage, o),
              AskedFor(In(stage), o), GoesFrom(c, In(stage))
       PROVE  OperationDoes(c)
  BY <1>6, <1>14
<1> HIDE DEF In
<1>15. CASE CreateUser(c)
  <2>1. CASE Exists(c)
    BY <1>8, <1>15, <2>1 DEF CreateUser, At, TribbleStatus, Answers, ReadsSubs
  <2>2. CASE ~Exists(c)
    <3>1. Goes(c, "list", MakeOp("AddToList", UserList, Plain(User(c))))
      BY <1>15, <2>2 DEF CreateUser
    <3>2. AskedFor(In("list"), MakeOp("AddToList", UserList, Plain(User(c))))
      BY <1>13, <1>15 DEF CreateUser, Does, AskedFor, User, Stage
    <3>3. GoesFrom(c, In("list"))
      BY <1>13, <1>15, <2>2 DEF CreateUser, At, GoesFrom, Stage
    <3> QED
      BY <1>11, <1>14, <3>1, <3>2, <3>3 DEF Stage
  <2> QED
    BY <2>1, <2>2
<1>16. CASE CreateListed(c)
  <2>1. work[c].stage = "list"
    BY <1>16 DEF CreateListed, At
  <2>2. work[c].task.op = "CreateUser"
    BY <1>5, <2>1 DEF AskedFor
  <2>3. Goes(c, "write", MakeOp("Put", UserKey(User(c)), Plain(User(c))))
    BY <1>16 DEF CreateListed
  <2>4. AskedFor(In("write"), MakeOp("Put", UserKey(User(c)), Plain(User(c))))
    BY <1>13, <2>2 DEF AskedFor, Writers, WriteOf, User, Stage
  <2>5. GoesFrom(c, In("write"))
    BY <1>13, <2>1 DEF GoesFrom, Stage
  <2> QED
    BY <1>11, <1>14, <2>3, <2>4, <2>5 DEF Stage
<1>17. CASE UserChecked(c)
  <2>1. work[c].stage = "user" /\ ~Does(c, {"CreateUser"})
    BY <1>17 DEF UserChecked, At
  <2>2. CASE ~Exists(c)
    BY <1>8, <1>17, <2>1, <2>2 DEF UserChecked, TribbleStatus, Answers, ReadsSubs
  <2>3. CASE Exists(c)
    <3>1. CASE /\ Does(c, {"AddSubscription", "RemoveSubscription"})
               /\ Goes(c, "other", GetUser(Arg(c)))
      <4>1. AskedFor(In("other"), GetUser(Arg(c))) /\ GoesFrom(c, In("other"))
        BY <1>13, <2>1, <2>3, <3>1 DEF AskedFor, GoesFrom, Does, Arg, Stage
      <4> QED
        BY <1>11, <1>14, <3>1, <4>1 DEF Stage
    <3>2. CASE /\ Does(c, {"PostTribble"})
               /\ Goes(c, "write", MakeOp("AddToList", TribbleKey(User(c)), Plain(Arg(c))))
      <4>1. /\ AskedFor(In("write"), MakeOp("AddToList", TribbleKey(User(c)), Plain(Arg(c))))
            /\ GoesFrom(c, In("write"))
        BY <1>13, <2>1, <2>3, <3>2
           DEF AskedFor, GoesFrom, Does, Arg, User, Stage, Writers, WriteOf
      <4> QED
        BY <1>11, <1>14, <3>2, <4>1 DEF Stage
    <3>3. CASE Does(c, {"GetTribbles"}) /\ Goes(c, "read", GetPosts(User(c)))
      <4>1. AskedFor(In("read"), GetPosts(User(c))) /\ GoesFrom(c, In("read"))
        BY <1>13, <2>1, <2>3, <3>3 DEF AskedFor, GoesFrom, Does, User, Stage
      <4> QED
        BY <1>11, <1>14, <3>3, <4>1 DEF Stage
    <3>4. CASE Does(c, {"GetSubscriptions"}) /\ Goes(c, "subs", GetSubs(User(c)))
      <4>1. AskedFor(In("subs"), GetSubs(User(c))) /\ GoesFrom(c, In("subs"))
        BY <1>13, <2>1, <2>3, <3>4 DEF AskedFor, GoesFrom, Does, User, Stage
      <4> QED
        BY <1>11, <1>14, <3>4, <4>1 DEF Stage
    <3>5. CASE Does(c, {"GetTribblesBySubscription"}) /\ Goes(c, "again", GetUser(User(c)))
      <4>1. AskedFor(In("again"), GetUser(User(c))) /\ GoesFrom(c, In("again"))
        BY <1>13, <2>1, <2>3, <3>5 DEF AskedFor, GoesFrom, Does, User, Stage
      <4> QED
        BY <1>11, <1>14, <3>5, <4>1 DEF Stage
    <3> QED
      BY <1>17, <2>3, <3>1, <3>2, <3>3, <3>4, <3>5 DEF UserChecked
  <2> QED
    BY <2>2, <2>3
<1>18. CASE OtherChecked(c)
  <2>1. work[c].stage = "other"
    BY <1>18 DEF OtherChecked, At
  <2>2. work[c].task.op \in {"AddSubscription", "RemoveSubscription"}
    BY <1>5, <2>1 DEF AskedFor
  <2>3. CASE ~Exists(c) \/ (Does(c, {"AddSubscription"}) /\ User(c) = Arg(c))
    BY <1>8, <1>18, <2>1, <2>3 DEF OtherChecked, TribbleStatus, Answers, ReadsSubs
  <2>4. CASE ~(~Exists(c) \/ (Does(c, {"AddSubscription"}) /\ User(c) = Arg(c)))
    <3> DEFINE kind == IF Does(c, {"AddSubscription"}) THEN "AddToList" ELSE "RemoveFromList"
               o == MakeOp(kind, SubKey(User(c)), Plain(Arg(c)))
    <3>1. Goes(c, "write", o) /\ o \in Op
      BY <1>11, <1>18, <2>4 DEF OtherChecked
    <3>2. AskedFor(In("write"), o)
      BY <1>13, <2>2 DEF AskedFor, Does, Arg, User, Stage, Writers, WriteOf
    <3>3. GoesFrom(c, In("write"))
      BY <1>13, <2>1, <2>4 DEF GoesFrom, Stage
    <3> QED
      BY <1>14, <3>1, <3>2, <3>3 DEF Stage
  <2> QED
    BY <2>3, <2>4
<1>19. CASE Written(c)
  BY <1>8, <1>19 DEF Written, At, Answers, WriteStatus, TribbleStatus, ReadsSubs
<1>20. CASE PostsRead(c)
  <2>1. CASE ReadStatus(call[c].status) = "OK"
    <3>1. ShowsFeed(c, Listed(c, User(c))) /\ work[c].stage = "read"
      BY <1>20, <2>1 DEF PostsRead, At
    <3>2. \A ts : Shows(Listed(c, User(c)), ts) => Answers(c, "OK", ts)
      BY <3>1 DEF Answers
    <3> QED
      BY <1>9, <3>1, <3>2 DEF ReadsFeed
  <2>2. CASE ReadStatus(call[c].status) # "OK"
    BY <1>8, <1>20, <2>2 DEF PostsRead, At, Answers, TribbleStatus, ReadsSubs
  <2> QED
    BY <2>1, <2>2
<1>21. CASE SubscriptionsRead(c)
  <2> DEFINE status == ReadStatus(call[c].status)
  <2>1. /\ Returns(c, Answer(c, status, <<>>, Subscriptions(c)))
        /\ work[c].stage = "subs" /\ Does(c, {"GetSubscriptions"})
    BY <1>21 DEF SubscriptionsRead, At
  <2>2. status \in TribbleStatus /\ Answers(c, status, <<>>)
    BY <2>1 DEF ReadStatus, TribbleStatus, Answers
  <2>3. Carries(c, <<>>, Subscriptions(c))
    BY <2>1 DEF Carries, ReadsSubs
  <2> QED
    BY <1>7, <2>1, <2>2, <2>3
<1>22. CASE CheckedAgain(c)
  <2>1. work[c].stage = "again"
    BY <1>22 DEF CheckedAgain, At
  <2>2. CASE Exists(c)
    <3>1. Goes(c, "subs", GetSubs(User(c)))
      BY <1>22, <2>2 DEF CheckedAgain
    <3>2. AskedFor(In("subs"), GetSubs(User(c))) /\ GoesFrom(c, In("subs"))
      BY <1>5, <1>13, <2>1, <2>2 DEF AskedFor, GoesFrom, User, Stage
    <3> QED
      BY <1>11, <1>14, <3>1, <3>2 DEF Stage
  <2>3. CASE ~Exists(c)
    BY <1>8, <1>22, <2>1, <2>3 DEF CheckedAgain, TribbleStatus, Answers, ReadsSubs
  <2> QED
    BY <2>2, <2>3
<1>23. CASE FeedBegins(c)
  <2>1. work[c].stage = "subs" /\ Does(c, {"GetTribblesBySubscription"})
    BY <1>23 DEF FeedBegins, At
  <2>2. CASE ReadStatus(call[c].status) = "OK"
    <3>1. NextFeed(c, Subscriptions(c), {}) /\ Subscriptions(c) \in SUBSET Text
      BY <1>1, <1>23, <2>2, AnswerType DEF FeedBegins
    <3>2. Subscriptions(c) = {} => \A ts : Shows({}, ts) => Answers(c, "OK", ts)
      BY <2>1 DEF Answers
    <3>3. \A w : w.stage = "posts" /\ w.subs = Subscriptions(c) /\ w.found = {} => GoesFrom(c, w)
      BY <2>1 DEF GoesFrom
    <3> QED
      BY <1>10, <2>1, <3>1, <3>2, <3>3 DEF ReadsFeed
  <2>3. CASE ReadStatus(call[c].status) # "OK"
    BY <1>8, <1>23, <2>1, <2>3 DEF FeedBegins, TribbleStatus, Answers, ReadsSubs, Does
  <2> QED
    BY <2>2, <2>3
<1>24. CASE FeedGoesOn(c)
  <2> DEFINE subs == work[c].subs \ {Asked(c)}
             found == work[c].found \cup Listed(c, Asked(c))
  <2>1. NextFeed(c, subs, found) /\ work[c].stage = "posts"
    BY <1>24 DEF FeedGoesOn, At, Asked
  <2>2. Does(c, {"GetTribblesBySubscription"})
    BY <1>5, <2>1 DEF AskedFor, Does
  <2>3. Asked(c) \in Text /\ Listed(c, Asked(c)) \in SUBSET [user : Text, item : Item]
    BY <1>1, AnswerType DEF Asked
  <2>4. subs \in SUBSET Text /\ found \in SUBSET [user : Text, item : Item]
    BY <1>1, <2>3 DEF Work
  <2>5. subs = {} => \A ts : Shows(found, ts) => Answers(c, "OK", ts)
    BY <2>1 DEF Answers
  <2>6. \A w : w.stage = "posts" /\ w.subs = subs /\ w.found = found => GoesFrom(c, w)
    BY <2>1 DEF GoesFrom
  <2>7. ReadsFeed(c)
    BY <2>1 DEF ReadsFeed
  <2> HIDE DEF subs, found
  <2> QED
    BY <1>10, <2>1, <2>2, <2>4, <2>5, <2>6, <2>7
<1>25. CASE ReadThrows(c)
  <2> DEFINE a == Answer(c, "exception", <<>>, {})
  <2>1. ComesTo(c, "throws") /\ Excepts(c)
    BY <1>25 DEF ReadThrows
  <2>2. a.status = "exception" /\ ~ReadsSubs(c)
    BY <2>1 DEF Answer, ComesTo, At, ReadsSubs
  <2>3. Answers(c, "exception", <<>>) /\ Carries(c, <<>>, {})
    BY <2>1, <2>2 DEF Answers, Carries
  <2>4. Gives(c, a)
    BY <2>1, <2>2, <2>3 DEF Gives, Excepts, ScriptAfter
  <2> QED
    BY <1>4, <2>4 DEF OperationDoes
<1> QED
  BY <1>3, <1>15, <1>16, <1>17, <1>18, <1>19, <1>20, <1>21, <1>22, <1>23, <1>24, <1>25
     DEF Advances, OperationStep

-----------------------------------------------------------------------------
(* The steps while nothing crashes. *)

Fits == faults = 0 => CallsFit

\* What holds of any Tribbler servers in front of a complete cluster.
BaseInv == TribblerInv /\ UpInv /\ Fits

\* A call and its end concern nobody else.
LEMMA CallMade ==
    ASSUME TypeOK, Up, NEW c \in Client, NEW o, Send(c, Entry[c], o)
    PROVE  OthersKeep({c}) /\ Waiting(c)' /\ call'[c].op = o
<1>1. c \in Proc /\ Entry[c] \in Server
  BY ClusterAssumption DEF Proc
<1>2. call' = [call EXCEPT ![c] = MakeCall("waiting", Entry[c], o, "OK", {})]
  BY <1>1 DEF Send, Up, AllUp
<1> QED
  BY <1>1, <1>2 DEF TypeOK, OthersKeep, MakeCall, Waiting

\* A client that forgets its call is idle, and nobody else's call changes.
LEMMA CallEnded ==
    ASSUME TypeOK, NEW c \in Client, Forget(c)
    PROVE  OthersKeep({c}) /\ Idle(c)'
<1>1. c \in Proc
  BY DEF Proc
<1> QED
  BY <1>1, ForgetType DEF OthersKeep, Idle

\* A step is the cluster's, or a Tribbler server's.
LEMMA TribblerStep ==
    ASSUME BaseInv, [TNext]_tvars, faults' = 0
    PROVE  /\ faults = 0 /\ Up /\ CallsFit
           /\ \/ \E s \in Server : /\ Boot(s) \/ ServerStep(s) \/ Crash(s)
                                   /\ UNCHANGED <<script, work, told>>
              \/ \E c \in Client : Accept(c)
              \/ \E c \in Client : OperationDoes(c)
              \/ UNCHANGED tvars
<1>1. CoreInv /\ StampsInv /\ TypeOK
  BY DEF BaseInv, TribblerInv, CoreInv, TypeInv
<1>2. CASE \E s \in Server : ClusterStep(Boot(s) \/ ServerStep(s) \/ Crash(s))
  <2>1. PICK s \in Server : /\ Boot(s) \/ ServerStep(s) \/ Crash(s)
                            /\ UNCHANGED <<script, work, told>>
    BY <1>2 DEF ClusterStep
  <2>2. faults = 0
    BY <1>1, <2>1, CrashesStay DEF Next
  <2> QED
    BY <2>1, <2>2 DEF BaseInv, UpInv, Fits
<1>3. ASSUME NEW c \in Client, Accept(c) \/ Advances(c)
      PROVE  faults = 0 /\ Up /\ CallsFit /\ (Accept(c) \/ OperationDoes(c))
  <2>1. UNCHANGED store
    BY <1>3, AcceptProceeds, OperationProceeds DEF BaseInv
  <2>2. faults = 0 /\ Up /\ CallsFit
    BY <2>1 DEF store, BaseInv, UpInv, Fits
  <2> QED
    BY <1>3, <2>2, OperationCalls DEF BaseInv
<1>4. ASSUME NEW c \in Client, Dies(c)
      PROVE  FALSE
  BY <1>1, <1>4, DiesCore
<1>5. CASE Finished \/ UNCHANGED tvars
  <2>1. UNCHANGED tvars
    BY <1>5 DEF Finished, Settled, tvars
  <2> QED
    BY <2>1 DEF tvars, vars, BaseInv, UpInv, Fits
<1> QED
  BY <1>2, <1>3, <1>4, <1>5 DEF TNext, Advances, Dies

\* A Tribbler server's step: it calls, or it answers.
LEMMA CallerMoves ==
    ASSUME TribblerInv, Up, NEW c \in Client, NEW w, NEW o, Moves(c, w, o)
    PROVE  /\ OthersKeep({c}) /\ Waiting(c)' /\ call'[c].op = o /\ work'[c] = w
           /\ \A d \in Client : d # c => work'[d] = work[d]
<1>1. TypeOK /\ work \in [Client -> Work]
  BY DEF TribblerInv, CoreInv, TypeInv, TribblerTypeOK, Work
<1> QED
  BY <1>1, CallMade DEF Moves

\* What a Tribbler server's answer to its client changes.
LEMMA CallerGives ==
    ASSUME TribblerInv, NEW c \in Client, NEW a, Gives(c, a)
    PROVE  /\ OthersKeep({c}) /\ Idle(c)' /\ work'[c] = NoWork /\ told' = told \cup {a}
           /\ ScriptAfter(c, a)
           /\ \A d \in Client : d # c => work'[d] = work[d]
           /\ a.by = c /\ a.no = work[c].no /\ a.task = work[c].task /\ a.known = work[c].known
           /\ Answers(c, a.status, a.tribbles) /\ Carries(c, a.tribbles, a.subscriptions)
<1>1. TypeOK /\ work \in [Client -> Work]
  BY DEF TribblerInv, CoreInv, TypeInv, TribblerTypeOK, Work
<1>2. /\ told' = told \cup {a} /\ work' = [work EXCEPT ![c] = NoWork]
      /\ Forget(c) /\ ScriptAfter(c, a)
  BY DEF Gives
<1>3. PICK status \in TribbleStatus \cup {"exception"} : \E tribbles, subscriptions :
         /\ a = Answer(c, status, tribbles, subscriptions)
         /\ Answers(c, status, tribbles) /\ Carries(c, tribbles, subscriptions)
  BY DEF Gives
<1>4. PICK tribbles, subscriptions :
         /\ a = Answer(c, status, tribbles, subscriptions)
         /\ Answers(c, status, tribbles) /\ Carries(c, tribbles, subscriptions)
  BY <1>3
<1>5. /\ a.by = c /\ a.no = work[c].no /\ a.task = work[c].task /\ a.known = work[c].known
      /\ a.status = status /\ a.tribbles = tribbles /\ a.subscriptions = subscriptions
  BY <1>4 DEF Answer
<1> QED
  BY <1>1, <1>2, <1>4, <1>5, CallEnded

\* What taking the next call from the client changes: its first question is whether
\* the user exists.
LEMMA CallerAccepts ==
    ASSUME TribblerInv, Up, NEW c \in Client, Accept(c)
    PROVE  LET task == Head(script[c])
               w == Begin(task, Len(script[c]), {<<a.by, a.no>> : a \in told})
           IN  /\ OthersKeep({c}) /\ Waiting(c)' /\ call'[c].op = GetUser(task.user)
               /\ work'[c] = w /\ UNCHANGED told /\ UNCHANGED store
               /\ \A d \in Client : d # c => work'[d] = work[d]
               /\ w.stage = "user" /\ w.task = task /\ w.no = Len(script[c])
               /\ w.known = {<<a.by, a.no>> : a \in told} /\ w.subs = {} /\ w.found = {}
               /\ script[c] \in Seq(Task) /\ script[c] # <<>>
               /\ script' = [script EXCEPT ![c] = Tail(script[c])] /\ Idle(c)
<1> DEFINE known == {<<a.by, a.no>> : a \in told}
           w == Begin(Head(script[c]), Len(script[c]), known)
<1>1. TypeOK /\ work \in [Client -> Work] /\ script[c] \in Seq(Task) /\ Idle(c)
  BY DEF TribblerInv, CoreInv, TypeInv, TribblerTypeOK, Work, Accept
<1>2. /\ work' = [work EXCEPT ![c] = w] /\ Send(c, Entry[c], GetUser(Head(script[c]).user))
      /\ UNCHANGED told /\ UNCHANGED store /\ script[c] # <<>>
      /\ script' = [script EXCEPT ![c] = Tail(script[c])]
  BY DEF Accept
<1>3. /\ w.stage = "user" /\ w.task = Head(script[c]) /\ w.no = Len(script[c])
      /\ w.known = known /\ w.subs = {} /\ w.found = {}
  BY DEF Begin
<1> HIDE DEF w, known
<1>4. work'[c] = w /\ \A d \in Client : d # c => work'[d] = work[d]
  BY <1>1, <1>2
<1>5. OthersKeep({c}) /\ Waiting(c)' /\ call'[c].op = GetUser(Head(script[c]).user)
  BY <1>1, <1>2, CallMade
<1> QED
  BY <1>1, <1>2, <1>3, <1>4, <1>5 DEF w, known

\* The cluster stays complete, and calls stay those of their operations.
LEMMA BaseNext == BaseInv /\ [TNext]_tvars => BaseInv'
<1> SUFFICES ASSUME BaseInv, [TNext]_tvars PROVE BaseInv'
  OBVIOUS
<1>1. TribblerInv' /\ CoreInv /\ CoreInv' /\ StampsInv /\ TypeOK
  BY TribblerNext DEF BaseInv, TribblerInv, CoreInv, TypeInv
<1>2. UpInv'
  <2>1. ASSUME NEW s \in Server, Boot(s) \/ ServerStep(s) \/ Crash(s)
        PROVE  UpInv'
    BY <1>1, <2>1, ServerUp DEF BaseInv
  <2>2. ASSUME NEW c \in Client, Accept(c) \/ Advances(c)
        PROVE  UpInv'
    <3>1. ~Waiting(c) /\ UNCHANGED store /\ Proceeds(c)
      BY <2>2, AcceptProceeds, OperationProceeds DEF BaseInv
    <3>2. UNCHANGED <<pc, idx, job, running, faults>>
      BY <3>1 DEF store
    <3>3. CASE Continues(c)
      BY <1>1, <3>1, <3>2, <3>3, ClientSendUp DEF Continues, BaseInv
    <3>4. CASE Ends(c) /\ UNCHANGED inbox
      BY <1>1, <3>1, <3>2, <3>4, ClientForgetUp DEF Ends, BaseInv
    <3> QED
      BY <3>1, <3>3, <3>4 DEF Proceeds
  <2>3. ASSUME NEW c \in Client, Dies(c)
        PROVE  UpInv'
    BY <1>1, <2>3, DiesCore DEF UpInv
  <2>4. CASE UNCHANGED vars
    BY <1>1, <2>4, UpNext DEF BaseInv
  <2> QED
    BY <2>1, <2>2, <2>3, <2>4 DEF TNext, Advances, Dies, ClusterStep, Finished, Settled, tvars
<1>3. ASSUME faults' = 0 PROVE CallsFit'
  <2>1. Up /\ CallsFit
    BY <1>3, TribblerStep
  <2>2. ASSUME NEW s \in Server, Boot(s) \/ ServerStep(s) \/ Crash(s), UNCHANGED work
        PROVE  CallsFit'
    BY <1>1, <1>3, <2>1, <2>2, ClientOps DEF CallsFit, Idle
  <2>3. ASSUME NEW c \in Client, OthersKeep({c}),
               \A d \in Client : d # c => work'[d] = work[d],
               ~Idle(c)' => AskedFor(work'[c], call'[c].op)
        PROVE  CallsFit'
    <3>1. \A d \in Client : d # c => call'[d] = call[d]
      BY <2>3 DEF OthersKeep, Proc
    <3> QED
      BY <2>1, <2>3, <3>1 DEF CallsFit, Idle
  <2>4. ASSUME NEW c \in Client, Accept(c)
        PROVE  CallsFit'
    <3> DEFINE w == Begin(Head(script[c]), Len(script[c]), {<<a.by, a.no>> : a \in told})
    <3>1. /\ OthersKeep({c}) /\ \A d \in Client : d # c => work'[d] = work[d]
          /\ work'[c] = w /\ w.stage = "user" /\ w.task = Head(script[c])
          /\ call'[c].op = GetUser(Head(script[c]).user)
      BY <2>1, <2>4, CallerAccepts DEF BaseInv
    <3> HIDE DEF w
    <3>2. AskedFor(work'[c], call'[c].op)
      BY <3>1 DEF AskedFor
    <3> QED
      BY <2>3, <3>1, <3>2
  <2>5. ASSUME NEW c \in Client, OperationDoes(c)
        PROVE  CallsFit'
    <3>1. ASSUME NEW w, NEW o, Moves(c, w, o) PROVE CallsFit'
      <4>1. /\ OthersKeep({c}) /\ call'[c].op = o /\ work'[c] = w
            /\ \A d \in Client : d # c => work'[d] = work[d]
        BY <2>1, <3>1, CallerMoves DEF BaseInv
      <4>2. AskedFor(w, o)
        BY <3>1 DEF Moves
      <4> QED
        BY <2>3, <4>1, <4>2
    <3>2. ASSUME NEW a, Gives(c, a) PROVE CallsFit'
      BY <2>3, <3>2, CallerGives DEF BaseInv
    <3> QED
      BY <2>5, <3>1, <3>2 DEF OperationDoes
  <2>6. CASE UNCHANGED tvars
    BY <2>1, <2>6 DEF tvars, vars, CallsFit, Idle
  <2> QED
    BY <1>3, <2>2, <2>4, <2>5, <2>6, TribblerStep
<1> QED
  BY <1>1, <1>2, <1>3 DEF BaseInv, Fits

\* At the start, all that the proofs below build on holds.
LEMMA InitBase ==
    ASSUME B = N, TInit
    PROVE  BaseInv
<1>1. UpInv
  BY InitUp DEF TInit
<1>2. \A c \in Client : Idle(c)
  BY NoCallType DEF TInit, Init, Idle, Proc
<1> QED
  BY <1>1, <1>2, InitTribbler DEF BaseInv, Fits, CallsFit

-----------------------------------------------------------------------------
(* Nobody is created twice. *)

\* Whoever was created is known to all, and no other CreateUser has succeeded.
Created ==
    \A a \in Ok("CreateUser") : a.task.user # CommandUser =>
        /\ Taken(UserKey(a.task.user))
        /\ \A c \in Client : ~Winner(c, UserKey(a.task.user))

UserPuts == \A u \in Text \ {CommandUser} : PutInv(UserKey(u))

CreateInv == faults = 0 => UserPuts /\ Created

\* A CreateUser is answered OK if its Put was.
LEMMA CreateTold ==
    ASSUME TypeOK, CallsFit, PutsAnswered, NEW c \in Client, Answered(c), NEW tribbles,
           Answers(c, "OK", tribbles), work[c].task.op = "CreateUser"
    PROVE  work[c].stage = "write" /\ Winner(c, UserKey(work[c].task.user))
<1>1. AskedFor(work[c], call[c].op)
  BY DEF CallsFit, Idle, Answered
<1>2. work[c].stage = "write" /\ call[c].status # "EPUTFAILED"
  BY <1>1 DEF AskedFor, Answers, Does, WriteStatus
<1>3. call[c].op = MakeOp("Put", UserKey(work[c].task.user), Plain(work[c].task.user))
  BY <1>1, <1>2 DEF AskedFor, WriteOf
<1>4. call[c].op.kind = "Put" /\ call[c].op.key = UserKey(work[c].task.user)
  BY <1>3 DEF MakeOp
<1>5. call[c].status = "OK"
  BY <1>2, <1>4 DEF PutsAnswered, Proc
<1> QED
  BY <1>2, <1>4, <1>5 DEF Winner

\* The users' keys differ from user to user, and only one name makes a command of
\* the cluster.
LEMMA NameKeys ==
    \A u \in Text : /\ UserKey(u) \in Key /\ (UserKey(u) = ServerSyscmd <=> u = CommandUser)
                    /\ \A v : UserKey(u) = UserKey(v) => u = v
  BY KeyType DEF UserKey, ServerSyscmd, CommandUser

\* Every step keeps it that nobody is created twice.
LEMMA CreateNext ==
    ASSUME BaseInv, CreateInv, CreatedOnce, [TNext]_tvars
    PROVE  CreateInv' /\ CreatedOnce'
<1> SUFFICES ASSUME faults' = 0
             PROVE  /\ UserPuts' /\ Created'
                    /\ \A a, b \in Ok("CreateUser")' :
                          a.task.user = b.task.user /\ a.task.user # CommandUser => a = b
  BY DEF CreateInv, CreatedOnce
<1>1. /\ faults = 0 /\ Up /\ CallsFit /\ UserPuts /\ Created
      /\ \A a, b \in Ok("CreateUser") :
            a.task.user = b.task.user /\ a.task.user # CommandUser => a = b
      /\ TypeOK /\ CoreInv /\ TribblerTypeOK
  BY TribblerStep DEF CreateInv, CreatedOnce, BaseInv, TribblerInv, CoreInv, TypeInv
<1>2. \A a \in Ok("CreateUser") : a.task.user \in Text
  BY <1>1 DEF Ok, TribblerTypeOK, Task
<1>3. ASSUME NEW s \in Server, Boot(s) \/ ServerStep(s) \/ Crash(s), UNCHANGED told
      PROVE  UserPuts' /\ Created' /\ Ok("CreateUser")' = Ok("CreateUser")
  <2>1. UserPuts'
    BY <1>1, <1>3, PutsStep, NameKeys DEF UserPuts
  <2>2. Created'
    BY <1>1, <1>2, <1>3, TakenStays, NameKeys DEF Created, Ok
  <2> QED
    BY <1>3, <2>1, <2>2 DEF Ok
<1>4. ASSUME NEW c \in Client, UNCHANGED store, OthersKeep({c}), ~Answered(c)'
      PROVE  /\ UserPuts'
             /\ \A u \in Text : /\ Taken(UserKey(u)) => Taken(UserKey(u))'
                                /\ \A d \in Client : Winner(d, UserKey(u))' =>
                                      Winner(d, UserKey(u)) /\ d # c
  <2>1. UNCHANGED <<pc, idx, job, simple>>
    BY <1>4 DEF store
  <2>2. \A d \in Client : \A k : Winner(d, k)' => d # c
    BY <1>4 DEF Winner
  <2> QED
    BY <1>1, <1>4, <2>1, <2>2, PutsKept DEF UserPuts
<1>5. ASSUME NEW c \in Client, UNCHANGED store, OthersKeep({c}), ~Answered(c)', UNCHANGED told
      PROVE  UserPuts' /\ Created' /\ Ok("CreateUser")' = Ok("CreateUser")
  <2>1. Ok("CreateUser")' = Ok("CreateUser")
    BY <1>5 DEF Ok
  <2> QED
    BY <1>1, <1>2, <1>4, <1>5, <2>1 DEF Created
<1>6. ASSUME NEW c \in Client, OperationDoes(c), NEW a, Gives(c, a)
      PROVE  /\ UserPuts' /\ Created'
             /\ \A b, d \in Ok("CreateUser")' :
                   b.task.user = d.task.user /\ b.task.user # CommandUser => b = d
  <2>1. /\ OthersKeep({c}) /\ Idle(c)' /\ told' = told \cup {a}
        /\ a.task = work[c].task /\ Answers(c, a.status, a.tribbles)
    BY <1>6, CallerGives DEF BaseInv
  <2>2. UNCHANGED store /\ Answered(c) /\ ~Answered(c)'
    BY <1>6, <2>1 DEF OperationDoes, Idle, Answered
  <2>3. UserPuts'
    BY <1>4, <2>1, <2>2
  <2>4. \A b \in Ok("CreateUser")' : b \in Ok("CreateUser") \/ b = a
    BY <2>1 DEF Ok
  <2>5. ASSUME a.task.op = "CreateUser", a.status = "OK", a.task.user # CommandUser
        PROVE  /\ a.task.user \in Text /\ Winner(c, UserKey(a.task.user))
               /\ Taken(UserKey(a.task.user))
               /\ \A d \in Client : Winner(d, UserKey(a.task.user)) => d = c
    <3>1. a.task.user \in Text
      BY <1>1, <2>1 DEF TribblerTypeOK, Task
    <3>2. PutInv(UserKey(a.task.user))
      BY <1>1, <2>5, <3>1 DEF UserPuts
    <3>3. Winner(c, UserKey(a.task.user))
      BY <1>1, <2>1, <2>2, <2>5, <3>2, CreateTold DEF PutInv
    <3> QED
      BY <3>1, <3>2, <3>3 DEF PutInv, OneWinner
  <2>6. Created'
    <3>1. ASSUME NEW b \in Ok("CreateUser")', b.task.user # CommandUser
          PROVE  /\ Taken(UserKey(b.task.user))'
                 /\ \A d \in Client : ~Winner(d, UserKey(b.task.user))'
      <4>1. CASE b \in Ok("CreateUser")
        BY <1>1, <1>2, <1>4, <2>1, <2>2, <3>1, <4>1 DEF Created
      <4>2. CASE b = a
        BY <1>4, <2>1, <2>2, <2>5, <3>1, <4>2 DEF Ok
      <4> QED
        BY <2>4, <4>1, <4>2
    <3> QED
      BY <3>1 DEF Created
  <2>7. ASSUME NEW b \in Ok("CreateUser"), a \in Ok("CreateUser")',
               a.task.user = b.task.user, a.task.user # CommandUser
        PROVE  FALSE
    <3>1. Winner(c, UserKey(a.task.user))
      BY <2>5, <2>7 DEF Ok
    <3> QED
      BY <1>1, <2>7, <3>1 DEF Created
  <2> QED
    BY <1>1, <2>3, <2>4, <2>6, <2>7
<1>7. ASSUME NEW c \in Client, OperationDoes(c), NEW w, NEW o, Moves(c, w, o)
      PROVE  UserPuts' /\ Created' /\ Ok("CreateUser")' = Ok("CreateUser")
  BY <1>1, <1>5, <1>7, CallerMoves DEF BaseInv, OperationDoes, Moves, Waiting, Answered
<1>8. ASSUME NEW c \in Client, Accept(c)
      PROVE  UserPuts' /\ Created' /\ Ok("CreateUser")' = Ok("CreateUser")
  BY <1>1, <1>5, <1>8, CallerAccepts DEF BaseInv, Waiting, Answered
<1>9. CASE UNCHANGED tvars
  <2>1. /\ \A k : \A d : Winner(d, k)' <=> Winner(d, k)
        /\ \A k : Taken(k)' <=> Taken(k)
        /\ Ok("CreateUser")' = Ok("CreateUser")
        /\ PutsAnswered' <=> PutsAnswered
    BY <1>9 DEF tvars, vars, Winner, Answered, Taken, Putting, Ok, PutsAnswered
  <2>2. \A k : PutsMeet(k)' <=> PutsMeet(k)
    BY <1>9 DEF tvars, vars, PutsMeet, Putting, Took, Answered
  <2> QED
    BY <1>1, <2>1, <2>2 DEF UserPuts, PutInv, OneWinner, Created
<1> QED
  BY <1>1, <1>3, <1>6, <1>7, <1>8, <1>9, TribblerStep DEF OperationDoes

\* While all servers of a complete cluster stay up, of all the CreateUsers of a name
\* one at most is answered OK, through whatever Tribbler and key-value servers.
THEOREM UsersCreatedOnce ==
    ASSUME B = N
    PROVE  TSpec => []CreatedOnce
<1>1. TInit => BaseInv /\ CreateInv /\ CreatedOnce
  <2> SUFFICES ASSUME TInit PROVE BaseInv /\ CreateInv /\ CreatedOnce
    OBVIOUS
  <2>1. \A op : Ok(op) = {}
    BY DEF TInit, Ok
  <2> QED
    BY <2>1, InitBase, InitPuts DEF CreateInv, UserPuts, Created, CreatedOnce, TInit
<1>2. BaseInv /\ CreateInv /\ CreatedOnce /\ [TNext]_tvars
      => BaseInv' /\ CreateInv' /\ CreatedOnce'
  BY BaseNext, CreateNext
<1> QED
  BY <1>1, <1>2, PTL DEF TSpec

-----------------------------------------------------------------------------
(* One key-value server that all Tribbler servers talk to.  All writes begin *)
(* there, and when one of them is answered every server has taken it.        *)

Hub == CHOOSE s \in Server : \A c \in Client : Entry[c] = s

AtHub == [k \in Key |-> Hub]

\* What the server that broadcasts a write has stored itself.
StoredJob(s) ==
    /\ job[s].kind = "Put" => job[s].key \in DOMAIN simple[s]
    /\ job[s].kind = "AddToList" => Mark(job[s].key, job[s].item) \in Held(s, job[s].key)

JobStored == \A s \in Server : pc[s] = "bcast" => StoredJob(s)

HubInv ==
    /\ BaseInv /\ RoutesInv
    /\ faults = 0 => Rep(AtHub) /\ JobStored

\* All Tribbler servers have it as their entry.
LEMMA HubServes ==
    ASSUME OneEntryOnly
    PROVE  /\ Hub \in Server /\ \A c \in Client : Entry[c] = Hub
           /\ AtHub \in [Key -> Server] /\ \A k \in Key : AtHub[k] = Hub
<1>1. \E s \in Server : \A c \in Client : Entry[c] = s
  <2>1. CASE Client = {}
    BY <2>1, NAssumption DEF Server
  <2>2. CASE Client # {}
    <3>1. PICK c \in Client : TRUE
      BY <2>2
    <3>2. Entry[c] \in Server /\ \A d \in Client : Entry[d] = Entry[c]
      BY <3>1, ClusterAssumption DEF OneEntryOnly
    <3> QED
      BY <3>2
  <2> QED
    BY <2>1, <2>2
<1>2. Hub \in Server /\ \A c \in Client : Entry[c] = Hub
  BY <1>1 DEF Hub
<1> QED
  BY <1>2 DEF AtHub

\* What a server broadcasts it has stored.
LEMMA JobStoredStep ==
    ASSUME CoreInv, Up, faults' = 0, NEW s \in Server, Boot(s) \/ ServerStep(s) \/ Crash(s),
           JobStored
    PROVE  JobStored'
<1>1. ASSUME NEW t \in Server, pc[t] = "bcast", job'[t] = job[t],
             simple'[t] = simple[t], lists'[t] = lists[t]
      PROVE  StoredJob(t)'
  BY <1>1 DEF JobStored, StoredJob, Held
<1>2. CASE UNCHANGED <<simple, lists>> /\ \A t \in Server : pc'[t] = "bcast" =>
              pc[t] = "bcast" /\ job'[t] = job[t]
  BY <1>1, <1>2 DEF JobStored
<1>3. ASSUME NEW h, Serves(s, h)
      PROVE  JobStored'
  <2>1. /\ pc[s] = "serve"
        /\ \A t \in Server \ {s} : simple'[t] = simple[t] /\ lists'[t] = lists[t]
    BY <1>3 DEF Serves
  <2>2. CASE Refuses(s, h)
    BY <1>2, <2>2 DEF Refuses
  <2>3. CASE Obeys(s, h)
    <3>1. ASSUME NEW t \in Server, pc'[t] = "bcast"
          PROVE  pc[t] = "bcast" /\ t # s /\ job'[t] = job[t]
      BY <2>1, <2>3, <3>1 DEF Obeys
    <3> QED
      BY <1>1, <2>1, <3>1 DEF JobStored
  <2>4. CASE Accepts(s, h)
    <3>1. \A t \in Server \ {s} : pc'[t] = pc[t] /\ job'[t] = job[t]
      BY <2>4 DEF Accepts
    <3>2. SameWrite(h, job'[s]) /\ Stores(s, h, job'[s])
      BY <2>4 DEF Accepts
    <3>3. PICK item \in Item :
             /\ item.value = h.item.value
             /\ \/ h.kind = "Put" /\ StoresPut(s, h.key)
                \/ h.kind = "AddToList" /\ StoresItem(s, h.key, item)
                \/ h.kind = "RemoveFromList" /\ StoresRemoval(s, h.key, item)
             /\ IsPost(h) \/ item = h.item
      BY <3>2 DEF Stores
    <3>4. /\ h.kind = job'[s].kind /\ h.key = job'[s].key
          /\ h.item.value = job'[s].item.value
          /\ ~(h.kind = "AddToList" /\ IsTribble(h.key)) => h.item = job'[s].item
      BY <3>2 DEF SameWrite
    <3>5. h.kind = "AddToList" => Mark(h.key, job'[s].item) = Mark(h.key, item)
      BY <3>3, <3>4 DEF Mark, IsPost
    <3>6. h.kind = "Put" => h.key \in DOMAIN simple'[s]
      BY <3>3, PutHeld
    <3>7. h.kind = "AddToList" => Mark(h.key, item) \in Held(s, h.key)'
      BY <3>3, ItemHeld
    <3>8. StoredJob(s)'
      BY <3>4, <3>5, <3>6, <3>7 DEF StoredJob
    <3>9. ASSUME NEW t \in Server \ {s}, pc'[t] = "bcast"
          PROVE  StoredJob(t)'
      BY <1>1, <2>1, <3>1, <3>9
    <3> QED
      BY <3>8, <3>9 DEF JobStored
  <2> QED
    BY <1>3, <2>2, <2>3, <2>4 DEF Serves
<1>4. CASE Calls(s) \/ MovesOn(s)
  BY <1>2, <1>4 DEF Calls, MovesOn
<1>5. ASSUME NEW status, Concludes(s, status)
      PROVE  JobStored'
  BY <1>2, <1>5 DEF Concludes
<1> QED
  BY <1>3, <1>4, <1>5, ServerDoes

\* No call of an operation carries a stamp.
LEMMA AskedPlain ==
    ASSUME NEW w, NEW o, AskedFor(w, o)
    PROVE  o.item.vt = NoStamp
<1>1. \A kind, key, text : MakeOp(kind, key, Plain(text)).item.vt = NoStamp
  BY DEF MakeOp, Plain
<1>2. \A u : /\ GetUser(u).item.vt = NoStamp /\ GetPosts(u).item.vt = NoStamp
             /\ GetSubs(u).item.vt = NoStamp
  BY <1>1 DEF GetUser, GetPosts, GetSubs
<1>3. \A task : task.op \in Writers => WriteOf(task).item.vt = NoStamp
  BY <1>1 DEF WriteOf, Writers
<1> QED
  BY <1>1, <1>2, <1>3 DEF AskedFor

\* One entry server stays ahead of its peers by the write it broadcasts, no more.
LEMMA HubNext ==
    ASSUME OneEntryOnly, HubInv, [TNext]_tvars
    PROVE  HubInv'
<1>1. BaseInv' /\ RoutesInv' /\ CoreInv /\ CoreInv' /\ TypeOK /\ TypeOK'
  BY BaseNext, TribblerRoutes DEF HubInv, BaseInv, TribblerInv, CoreInv, TypeInv
<1> SUFFICES ASSUME faults' = 0 PROVE Rep(AtHub)' /\ JobStored'
  BY <1>1 DEF HubInv
<1>2. /\ faults = 0 /\ Up /\ CallsFit /\ Rep(AtHub) /\ JobStored
      /\ AtHub \in [Key -> Server] /\ \A k \in Key : AtHub[k] = Hub
      /\ \A c \in Client : Entry[c] = Hub
  BY TribblerStep, HubServes DEF HubInv
<1>3. ASSUME UNCHANGED <<pc, job, simple, lists>>
      PROVE  JobStored'
  BY <1>2, <1>3 DEF JobStored, StoredJob, Held
<1>4. ASSUME NEW s \in Server, Boot(s) \/ ServerStep(s) \/ Crash(s)
      PROVE  Rep(AtHub)' /\ JobStored'
  BY <1>1, <1>2, <1>4, ServerRep, JobStoredStep
<1>5. ASSUME NEW c \in Client, NEW o \in Op, Send(c, Entry[c], o), UNCHANGED store,
             o.item.vt = NoStamp
      PROVE  Rep(AtHub)' /\ JobStored'
  <2>1. UNCHANGED <<pc, idx, job, simple, lists, vt>>
    BY <1>5 DEF store
  <2>2. o.key \in Key
    BY <1>5 DEF Op
  <2> QED
    BY <1>1, <1>2, <1>3, <1>5, <2>1, <2>2, ClientSendRep
<1>6. ASSUME NEW c \in Client, Accept(c)
      PROVE  Rep(AtHub)' /\ JobStored'
  <2>1. script[c] \in Seq(Task) /\ script[c] # <<>>
    BY <1>6 DEF HubInv, BaseInv, TribblerInv, TribblerTypeOK, Accept
  <2>2. Head(script[c]).user \in Text
    <3>1. Head(script[c]) \in Task
      BY <2>1
    <3> QED
      BY <3>1 DEF Task
  <2>3. /\ GetUser(Head(script[c]).user) \in Op
        /\ GetUser(Head(script[c]).user).item.vt = NoStamp
    BY <2>2, AskType DEF GetUser, MakeOp, Plain
  <2>4. Send(c, Entry[c], GetUser(Head(script[c]).user)) /\ UNCHANGED store
    BY <1>6 DEF Accept
  <2> QED
    BY <1>5, <2>3, <2>4
<1>7. ASSUME NEW c \in Client, OperationDoes(c)
      PROVE  Rep(AtHub)' /\ JobStored'
  <2>1. ASSUME NEW w \in Work, NEW o \in Op, Moves(c, w, o)
        PROVE  Rep(AtHub)' /\ JobStored'
    BY <1>5, <1>7, <2>1, AskedPlain DEF Moves, OperationDoes
  <2>2. ASSUME NEW a, Gives(c, a)
        PROVE  Rep(AtHub)' /\ JobStored'
    <3>1. Forget(c) /\ UNCHANGED <<pc, idx, job, simple, lists, vt, inbox>>
      BY <1>7, <2>2 DEF Gives, OperationDoes, store
    <3> QED
      BY <1>1, <1>2, <1>3, <3>1, ClientForgetRep
  <2> QED
    BY <1>7, <2>1, <2>2 DEF OperationDoes
<1>8. CASE UNCHANGED tvars
  BY <1>1, <1>2, <1>3, <1>8, StillRep DEF tvars, vars
<1> QED
  BY <1>4, <1>6, <1>7, <1>8, TribblerStep DEF HubInv

\* Nothing is broadcast at first.
LEMMA InitHub ==
    ASSUME OneEntryOnly, B = N, TInit
    PROVE  HubInv
<1>1. ReplicaInv(AtHub)
  BY HubServes, InitReplica DEF TInit
<1>2. \A s \in Server : pc[s] = "serve" /\ inbox[s] = <<>>
  BY DEF TInit, Init, Server
<1>3. RoutesInv /\ JobStored
  BY <1>2 DEF RoutesInv, RouteOK, Listening, JobStored
<1> QED
  BY <1>1, <1>3, InitBase DEF HubInv, ReplicaInv, Rep

\* The store under every key is alike.
AllAlike == \A t \in Server : \A k \in Key : Hub # t => Alike(Hub, t, k)

\* When nothing is untold, everybody has what the entry server has.
LEMMA ToldAlike ==
    ASSUME OneEntryOnly, Rep(AtHub),
           pc[Hub] = "bcast" => \A t \in Server : t # Hub => ~Untold(Hub, t)
    PROVE  AllAlike
<1>1. ASSUME NEW t \in Server, NEW k \in Key, Hub # t
      PROVE  Alike(Hub, t, k)
  <2>1. KeyAgreed(Hub, t, k)
    BY <1>1, HubServes DEF Rep, KeysAgreed
  <2>2. ~Pending(Hub, t, k)
    BY <1>1 DEF Pending
  <2> QED
    BY <2>1, <2>2 DEF KeyAgreed
<1> QED
  BY <1>1 DEF AllAlike

\* An answer to a Tribbler server comes when all servers agree: to a write that was
\* broadcast, or to a call that stored nothing.
HubAnswers(c) ==
    /\ AllAlike /\ UNCHANGED <<simple, lists>> /\ OthersKeep({Hub, c})
    /\ \E status, values :
          /\ Gets(c, status, values)
          /\ \/ /\ pc[Hub] = "bcast" /\ job[Hub].from = c /\ status = "OK"
                /\ values = {} /\ SameWrite(call[c].op, job[Hub]) /\ Writes(job[Hub])
             \/ \E h \in Request : /\ pc[Hub] = "serve" /\ h.from = c
                                   /\ call[c].op.kind = h.kind /\ call[c].op.key = h.key
                                   /\ call[c].op.item = h.item
                                   /\ Says(Hub, h, status, values)

\* Whoever is answered is answered so.
LEMMA AnsweredByHub ==
    ASSUME OneEntryOnly, HubInv, faults = 0, faults' = 0,
           NEW s \in Server, Boot(s) \/ ServerStep(s) \/ Crash(s),
           NEW c \in Client, call'[c] # call[c]
    PROVE  HubAnswers(c)
<1>1. /\ CoreInv /\ TypeOK /\ TypeInv /\ Up /\ Rep(AtHub) /\ RoutesInv
      /\ Hub \in Server /\ \A d \in Client : Entry[d] = Hub
  BY HubServes DEF HubInv, BaseInv, UpInv, TribblerInv, CoreInv, TypeInv
<1>2. c \in Proc /\ c \notin Server
  BY ClusterAssumption DEF Proc
<1>3. ASSUME NEW h, h = Head(inbox[s]), Serves(s, h)
      PROVE  HubAnswers(c)
  <2>1. h.from = c /\ Refuses(s, h)
    <3>1. CASE Accepts(s, h)
      BY <1>2, <1>3, <3>1 DEF Accepts, OthersKeep
    <3>2. CASE Obeys(s, h)
      BY <1>2, <1>3, <3>2 DEF Obeys, OthersKeep
    <3>3. CASE Refuses(s, h)
      BY <1>2, <1>3, <3>3 DEF Refuses, OthersKeep
    <3> QED
      BY <1>3, <3>1, <3>2, <3>3 DEF Serves
  <2>2. 1 \in DOMAIN inbox[s] /\ inbox[s][1] = h
    <3>1. inbox[s] \in Seq(Request) /\ inbox[s] # <<>>
      BY <1>1, <1>3 DEF TypeOK, Serves
    <3> QED
      BY <1>3, <3>1
  <2>3. s = Hub
    BY <1>1, <2>1, <2>2 DEF RoutesInv, RouteOK
  <2>4. pc[Hub] = "serve" /\ Asks(h)
    BY <1>3, <2>3 DEF Serves
  <2>5. AllAlike
    BY <1>1, <2>4, ToldAlike
  <2>6. PICK status : \E values : Gets(c, status, values) /\ Says(Hub, h, status, values)
    BY <2>1, <2>3 DEF Refuses
  <2>7. PICK values : Gets(c, status, values) /\ Says(Hub, h, status, values)
    BY <2>6
  <2>8. UNCHANGED <<simple, lists>> /\ OthersKeep({Hub, c})
    BY <2>1 DEF Refuses, OthersKeep
  <2> QED
    BY <2>1, <2>4, <2>5, <2>7, <2>8 DEF HubAnswers, Asks
<1>4. ASSUME NEW status, Concludes(s, status),
             \/ Answered(s) /\ status = call[s].status /\ status \notin {"OK", "INTERNAL_FAILURE"}
             \/ idx[s] = End /\ status = "OK"
      PROVE  HubAnswers(c)
  <2>1. /\ pc[s] = "bcast" /\ job[s].from = c /\ Gets(c, status, {})
        /\ UNCHANGED <<simple, lists>> /\ OthersKeep({s, c})
    BY <1>2, <1>4 DEF Concludes, OthersKeep
  <2>2. s = Hub
    BY <1>1, <2>1 DEF RoutesInv, RouteOK
  <2>3. idx[s] = End /\ status = "OK"
    BY <1>1, <1>4, <2>1 DEF Rep, AnswersOK
  <2>4. \A t \in Server : t # Hub => ~Untold(Hub, t)
    <3>1. \A t \in Server : t # Hub => IndexOf(Hub, t) \in Int /\ IndexOf(Hub, t) < End
      BY <1>1, OwnIndex
    <3>2. idx[Hub] = End /\ End \in Int
      BY <2>2, <2>3, NAssumption DEF End
    <3> QED
      BY <3>1, <3>2 DEF Untold
  <2>5. AllAlike
    BY <1>1, <2>4, ToldAlike
  <2>6. SameWrite(call[c].op, job[Hub]) /\ Writes(job[Hub])
    BY <1>1, <2>1, <2>2 DEF Up, JobsAsked
  <2> QED
    BY <2>1, <2>2, <2>3, <2>5, <2>6 DEF HubAnswers
<1>5. ~Calls(s) /\ ~MovesOn(s)
  BY <1>2 DEF Calls, MovesOn, OthersKeep
<1> QED
  BY <1>1, <1>3, <1>4, <1>5, ServerDoes

\* The Tribbler servers' writes keep the replicas in step.
THEOREM TribblersKeepReplicas ==
    ASSUME B = N, OneEntryOnly
    PROVE  TSpec => [](DifferOnlyInBroadcasts /\ PeersNeverReject)
<1>1. TInit => HubInv
  BY InitHub
<1>2. HubInv /\ [TNext]_tvars => HubInv'
  BY HubNext
<1>3. HubInv => DifferOnlyInBroadcasts /\ PeersNeverReject
  BY HubServes, ReplicasAgree DEF HubInv, BaseInv, TribblerInv, ReplicaInv, Rep
<1> QED
  BY <1>1, <1>2, <1>3, PTL DEF TSpec

-----------------------------------------------------------------------------
(* Where writes come from, and what becomes of them. *)

\* What a stage of an operation asks for.
LEMMA StageAsks ==
    ASSUME NEW w, NEW o, AskedFor(w, o)
    PROVE  /\ w.stage \in {"user", "again"} => o.kind = "Get" /\ o.key = UserKey(w.task.user)
           /\ w.stage = "other" => /\ o.kind = "Get" /\ o.key = UserKey(w.task.arg)
                                   /\ w.task.op \in {"AddSubscription", "RemoveSubscription"}
           /\ w.stage = "list" => /\ o.kind = "AddToList" /\ o.key = UserList
                                  /\ o.item = Plain(w.task.user) /\ w.task.op = "CreateUser"
           /\ w.stage = "write" =>
                 /\ w.task.op \in Writers
                 /\ w.task.op = "CreateUser" => o.kind = "Put" /\ o.key = UserKey(w.task.user)
                 /\ w.task.op = "AddSubscription" =>
                       /\ o.kind = "AddToList" /\ o.key = SubKey(w.task.user)
                       /\ o.item = Plain(w.task.arg)
                 /\ w.task.op = "RemoveSubscription" =>
                       /\ o.kind = "RemoveFromList" /\ o.key = SubKey(w.task.user)
                       /\ o.item = Plain(w.task.arg)
                 /\ w.task.op = "PostTribble" =>
                       /\ o.kind = "AddToList" /\ o.key = TribbleKey(w.task.user)
                       /\ o.item = Plain(w.task.arg)
           /\ w.stage = "read" => /\ o.kind = "GetList" /\ o.key = TribbleKey(w.task.user)
                                  /\ w.task.op = "GetTribbles"
           /\ w.stage = "subs" => /\ o.kind = "GetList" /\ o.key = SubKey(w.task.user)
                                  /\ w.task.op \in {"GetSubscriptions",
                                                    "GetTribblesBySubscription"}
           /\ w.stage = "posts" => /\ o.kind = "GetList" /\ \E u \in w.subs : o.key = TribbleKey(u)
                                   /\ w.task.op = "GetTribblesBySubscription"
           /\ w.stage = "again" => w.task.op = "GetTribblesBySubscription"
           /\ w.stage \in {"user", "again", "other", "list", "write", "read", "subs", "posts"}
<1>1. \A kind, key, item : /\ MakeOp(kind, key, item).kind = kind
                           /\ MakeOp(kind, key, item).key = key
                           /\ MakeOp(kind, key, item).item = item
  BY DEF MakeOp
<1>2. \A u : /\ GetUser(u).kind = "Get" /\ GetUser(u).key = UserKey(u)
             /\ GetPosts(u).kind = "GetList"
             /\ GetPosts(u).key = TribbleKey(u)
             /\ GetSubs(u).kind = "GetList" /\ GetSubs(u).key = SubKey(u)
  BY DEF GetUser, GetPosts, GetSubs, MakeOp
<1>3. \A task :
         /\ task.op = "CreateUser" =>
               WriteOf(task) = MakeOp("Put", UserKey(task.user), Plain(task.user))
         /\ task.op = "AddSubscription" =>
               WriteOf(task) = MakeOp("AddToList", SubKey(task.user), Plain(task.arg))
         /\ task.op = "RemoveSubscription" =>
               WriteOf(task) = MakeOp("RemoveFromList", SubKey(task.user), Plain(task.arg))
         /\ task.op = "PostTribble" =>
               WriteOf(task) = MakeOp("AddToList", TribbleKey(task.user), Plain(task.arg))
  BY DEF WriteOf
<1>4. w.stage = "write" => w.task.op \in Writers /\ o = WriteOf(w.task)
  BY DEF AskedFor
<1>5. w.stage = "write" =>
         /\ w.task.op \in Writers
         /\ w.task.op = "CreateUser" => o.kind = "Put" /\ o.key = UserKey(w.task.user)
         /\ w.task.op = "AddSubscription" =>
               /\ o.kind = "AddToList" /\ o.key = SubKey(w.task.user)
               /\ o.item = Plain(w.task.arg)
         /\ w.task.op = "RemoveSubscription" =>
               /\ o.kind = "RemoveFromList" /\ o.key = SubKey(w.task.user)
               /\ o.item = Plain(w.task.arg)
         /\ w.task.op = "PostTribble" =>
               /\ o.kind = "AddToList" /\ o.key = TribbleKey(w.task.user)
               /\ o.item = Plain(w.task.arg)
  BY <1>1, <1>3, <1>4
<1> QED
  BY <1>1, <1>2, <1>5 DEF AskedFor

\* What a server is asked to store some Tribbler server is waiting for.
LEMMA WriteSource ==
    ASSUME CoreInv, Up, CallsFit, NEW s \in Server, NEW h, Serves(s, h), Writes(h)
    PROVE  \E c \in Client : /\ ~Idle(c) /\ SameWrite(call[c].op, h)
                             /\ AskedFor(work[c], call[c].op)
<1>1. Asks(h) /\ pc[s] = "serve" /\ inbox[s] # <<>> /\ h = Head(inbox[s]) /\ h \in Request
  BY DEF Serves, Asks
<1>2. CASE h.from \in Client
  <2>1. ~Idle(h.from)
    BY <1>1 DEF Asks, Idle, Waiting
  <2>2. SameWrite(call[h.from].op, h)
    BY <1>1 DEF Asks, SameWrite
  <2> QED
    BY <1>2, <2>1, <2>2 DEF CallsFit
<1>3. CASE h.from \in Server
  <2> DEFINE u == h.from
             c == job[u].from
  <2>1. /\ pc[u] = "bcast" /\ h.kind = job[u].kind /\ h.key = job[u].key
        /\ h.item = job[u].item
    BY <1>1, <1>3, ServerRequest
  <2>2. SameWrite(call[c].op, job[u]) /\ job[u].live /\ c \in Client
    BY <1>3, <2>1 DEF Up, JobsAsked, CoreInv, TypeInv, LoopsOK
  <2>3. Waiting(c)
    BY <1>3, <2>1, <2>2, OthersAsk DEF Proc
  <2>4. SameWrite(call[c].op, h)
    BY <2>1, <2>2 DEF SameWrite
  <2> QED
    BY <2>2, <2>3, <2>4 DEF CallsFit, Idle, Waiting
<1> QED
  BY <1>1, <1>2, <1>3 DEF Request, Proc

\* A removal of the item from the list k has begun.
Undone(k, item) ==
    \E t \in Begun("RemoveSubscription") : k = SubKey(t.user) /\ item = Plain(t.arg)

\* Every server has the item, or somebody has asked for its removal.
Stored(k, item) == \A s \in Server : Mark(k, item) \in Held(s, k)

Kept(k, item) == Stored(k, item) \/ Undone(k, item)

\* Whatever was begun remains so.
LEMMA BegunGrows ==
    ASSUME BaseInv, [TNext]_tvars, faults' = 0, NEW op, NEW t \in Begun(op)
    PROVE  t \in Begun(op)'
<1>1. t.op = op /\ ((\E a \in told : t = a.task) \/ (\E d \in Client : ~Idle(d) /\ t = work[d].task))
  BY DEF Begun
<1>2. CoreInv /\ Up
  BY TribblerStep DEF BaseInv, TribblerInv
<1>3. ASSUME told \subseteq told', \A d \in Client : ~Idle(d) =>
                \/ ~Idle(d)' /\ work'[d].task = work[d].task
                \/ \E a \in told' : a.task = work[d].task
      PROVE  t \in Begun(op)'
  BY <1>1, <1>3 DEF Begun
<1>4. ASSUME NEW s \in Server, Boot(s) \/ ServerStep(s) \/ Crash(s), UNCHANGED <<script, work, told>>
      PROVE  t \in Begun(op)'
  BY <1>2, <1>3, <1>4, ClientOps
<1>5. ASSUME NEW c \in Client, Accept(c)
      PROVE  t \in Begun(op)'
  <2>1. /\ OthersKeep({c}) /\ UNCHANGED told /\ Idle(c)
        /\ \A d \in Client : d # c => work'[d] = work[d]
    BY <1>2, <1>5, CallerAccepts DEF BaseInv
  <2>2. \A d \in Client : d # c => call'[d] = call[d]
    BY <2>1 DEF OthersKeep, Proc
  <2> QED
    BY <1>3, <2>1, <2>2 DEF Idle
<1>6. ASSUME NEW c \in Client, NEW w, NEW o, Moves(c, w, o)
      PROVE  t \in Begun(op)'
  <2>1. /\ OthersKeep({c}) /\ Waiting(c)' /\ work'[c] = w
        /\ \A d \in Client : d # c => work'[d] = work[d]
    BY <1>2, <1>6, CallerMoves DEF BaseInv
  <2>2. \A d \in Client : d # c => call'[d] = call[d]
    BY <2>1 DEF OthersKeep, Proc
  <2>3. w.task = work[c].task /\ UNCHANGED told /\ ~Idle(c)'
    BY <1>6, <2>1 DEF Moves, Waiting, Idle
  <2> QED
    BY <1>3, <2>1, <2>2, <2>3 DEF Idle
<1>7. ASSUME NEW c \in Client, NEW a, Gives(c, a)
      PROVE  t \in Begun(op)'
  <2>1. /\ OthersKeep({c}) /\ told' = told \cup {a} /\ a.task = work[c].task
        /\ \A d \in Client : d # c => work'[d] = work[d]
    BY <1>7, CallerGives DEF BaseInv
  <2>2. \A d \in Client : d # c => call'[d] = call[d]
    BY <2>1 DEF OthersKeep, Proc
  <2> QED
    BY <1>3, <2>1, <2>2 DEF Idle
<1>8. CASE UNCHANGED tvars
  BY <1>3, <1>8 DEF tvars, vars, Idle
<1> QED
  BY <1>4, <1>5, <1>6, <1>7, <1>8, TribblerStep DEF OperationDoes

\* A server loses nothing but what somebody asks to remove.
LEMMA MarksStay ==
    ASSUME CoreInv, Up, CallsFit, TribblerTypeOK, faults' = 0,
           NEW s \in Server, Boot(s) \/ ServerStep(s) \/ Crash(s),
           NEW t \in Server, NEW k, NEW item, Mark(k, item) \in Held(t, k),
           ~Undone(k, item)
    PROVE  Mark(k, item) \in Held(t, k)'
<1>1. CASE lists'[t] = lists[t]
  BY <1>1 DEF Held
<1>2. ASSUME NEW h, Serves(s, h), Obeys(s, h) \/ Accepts(s, h)
      PROVE  Mark(k, item) \in Held(t, k)'
  <2>1. CASE t # s
    BY <1>1, <1>2, <2>1 DEF Serves
  <2>2. CASE t = s
    <3>1. PICK r : Stores(s, h, r) /\ Writes(h)
      BY <1>2 DEF Obeys, Accepts
    <3>2. PICK it \in Item :
             /\ \/ h.kind = "Put" /\ StoresPut(s, h.key)
                \/ h.kind = "AddToList" /\ StoresItem(s, h.key, it)
                \/ h.kind = "RemoveFromList" /\ StoresRemoval(s, h.key, it)
             /\ IsPost(h) \/ it = h.item
      BY <3>1 DEF Stores
    <3>3. CASE k # h.key
      BY <2>2, <3>1, <3>3, StoresElsewhere, SameHeld
    <3>4. CASE k = h.key /\ h.kind = "Put" /\ StoresPut(s, h.key)
      BY <2>2, <3>4, PutHeld
    <3>5. CASE k = h.key /\ h.kind = "AddToList" /\ StoresItem(s, h.key, it)
      BY <2>2, <3>5, ItemHeld
    <3>6. CASE k = h.key /\ h.kind = "RemoveFromList" /\ StoresRemoval(s, h.key, it)
      <4>1. PICK c \in Client : /\ ~Idle(c) /\ SameWrite(call[c].op, h)
                                /\ AskedFor(work[c], call[c].op)
        BY <1>2, <3>1, WriteSource
      <4>2. call[c].op.kind = "RemoveFromList" /\ call[c].op.key = k /\ call[c].op.item = h.item
        BY <3>6, <4>1 DEF SameWrite
      <4>3. /\ work[c].task.op = "RemoveSubscription"
            /\ k = SubKey(work[c].task.user) /\ h.item = Plain(work[c].task.arg)
        BY <4>1, <4>2, StageAsks DEF Writers
      <4>4. work[c].task \in Begun("RemoveSubscription")
        BY <4>1, <4>3 DEF Begun
      <4>5. item # h.item
        BY <4>3, <4>4 DEF Undone
      <4>6. it = h.item /\ ~IsTribble(k)
        BY <3>2, <3>6, <4>3 DEF IsPost, IsTribble, SubKey
      <4>7. Held(s, k)' = Held(s, k) \ {it}
        BY <3>6, <4>6, RemovalHeld
      <4> QED
        BY <2>2, <4>5, <4>6, <4>7 DEF Mark
    <3> QED
      BY <3>2, <3>3, <3>4, <3>5, <3>6
  <2> QED
    BY <2>1, <2>2
<1>3. lists'[t] = lists[t] \/ (\E h : Serves(s, h) /\ (Obeys(s, h) \/ Accepts(s, h)))
  <2>1. ASSUME NEW h, Serves(s, h), Refuses(s, h)
        PROVE  lists'[t] = lists[t]
    BY <2>1 DEF Refuses
  <2>2. ASSUME Calls(s) \/ MovesOn(s) \/ \E status : Concludes(s, status)
        PROVE  lists'[t] = lists[t]
    BY <2>2 DEF Calls, MovesOn, Concludes
  <2>3. \/ Serves(s, Head(inbox[s])) \/ Calls(s) \/ MovesOn(s)
        \/ \E status : Concludes(s, status)
    BY ServerDoes
  <2> QED
    BY <2>1, <2>2, <2>3 DEF Serves
<1> QED
  BY <1>1, <1>2, <1>3

\* What is stored everywhere stays so, unless it is removed on request.
LEMMA KeptStays ==
    ASSUME BaseInv, [TNext]_tvars, faults' = 0, NEW k, NEW item, Kept(k, item)
    PROVE  Kept(k, item)'
<1>1. CASE Undone(k, item)
  <2>1. PICK t \in Begun("RemoveSubscription") : k = SubKey(t.user) /\ item = Plain(t.arg)
    BY <1>1 DEF Undone
  <2>2. t \in Begun("RemoveSubscription")'
    BY BegunGrows
  <2> QED
    BY <2>1, <2>2 DEF Undone, Kept
<1>2. CASE Stored(k, item) /\ ~Undone(k, item)
  <2>1. CASE UNCHANGED lists
    BY <1>2, <2>1 DEF Kept, Stored, Held
  <2>2. ASSUME NEW s \in Server, Boot(s) \/ ServerStep(s) \/ Crash(s)
        PROVE  Kept(k, item)'
    <3>1. CoreInv /\ Up /\ CallsFit /\ TribblerTypeOK
      BY TribblerStep DEF BaseInv, TribblerInv
    <3>2. \A t \in Server : Mark(k, item) \in Held(t, k)'
      BY <1>2, <2>2, <3>1, MarksStay DEF Stored
    <3> QED
      BY <3>2 DEF Kept, Stored
  <2>3. ASSUME NEW c \in Client, Accept(c) \/ OperationDoes(c)
        PROVE  UNCHANGED lists
    BY <2>3 DEF Accept, OperationDoes, store
  <2> QED
    BY <2>1, <2>2, <2>3, TribblerStep DEF tvars, vars
<1> QED
  BY <1>1, <1>2 DEF Kept

-----------------------------------------------------------------------------
(* A Tribbler server's steps, told by what they change. *)

\* Only c, of all Tribbler servers, does anything.
Alone(c) ==
    /\ UNCHANGED store /\ OthersKeep({c}) /\ ~Answered(c)'
    /\ \A d \in Client : d # c => work'[d] = work[d] /\ call'[d] = call[d]

\* It begins the next task of its script.
Begins(c) ==
    /\ Idle(c) /\ Waiting(c)' /\ UNCHANGED told
    /\ work'[c].stage = "user" /\ work'[c].task = Head(script[c])
    /\ work'[c].no = Len(script[c]) /\ work'[c].known = {<<a.by, a.no>> : a \in told}
    /\ work'[c].subs = {} /\ work'[c].found = {}
    /\ script[c] \in Seq(Task) /\ script[c] # <<>>
    /\ script' = [script EXCEPT ![c] = Tail(script[c])]

\* It goes on with w.
Turns(c, w) ==
    /\ Answered(c) /\ Waiting(c)' /\ work'[c] = w /\ UNCHANGED <<script, told>>
    /\ w.task = work[c].task /\ w.no = work[c].no /\ w.known = work[c].known
    /\ w.stage # "idle" /\ AskedFor(w, call'[c].op) /\ GoesFrom(c, w) /\ KeepsLoop(c, w)

\* It answers a.
Tells(c, a) ==
    /\ Answered(c) /\ Idle(c)' /\ work'[c] = NoWork /\ told' = told \cup {a}
    /\ ScriptAfter(c, a)
    /\ a.by = c /\ a.no = work[c].no /\ a.task = work[c].task /\ a.known = work[c].known
    /\ Answers(c, a.status, a.tribbles) /\ Carries(c, a.tribbles, a.subscriptions)

ByServer == \E s \in Server : /\ Boot(s) \/ ServerStep(s) \/ Crash(s)
                              /\ UNCHANGED <<script, work, told>>

\* There are no other steps.
LEMMA TribblerSteps ==
    ASSUME BaseInv, [TNext]_tvars, faults' = 0
    PROVE  \/ ByServer
           \/ \E c \in Client : Alone(c) /\ Begins(c)
           \/ \E c \in Client : Alone(c) /\ \E w : Turns(c, w)
           \/ \E c \in Client : Alone(c) /\ \E a : Tells(c, a)
           \/ UNCHANGED tvars
<1>1. TribblerInv /\ Up /\ CallsFit
  BY TribblerStep DEF BaseInv
<1>2. ASSUME NEW c \in Client, UNCHANGED store, OthersKeep({c}), ~Answered(c)',
             \A d \in Client : d # c => work'[d] = work[d]
      PROVE  Alone(c)
  BY <1>2 DEF Alone, OthersKeep, Proc
<1>3. ASSUME NEW c \in Client, Accept(c)
      PROVE  Alone(c) /\ Begins(c)
  <2> DEFINE w == Begin(Head(script[c]), Len(script[c]), {<<a.by, a.no>> : a \in told})
  <2>1. /\ OthersKeep({c}) /\ Waiting(c)' /\ work'[c] = w /\ UNCHANGED told /\ UNCHANGED store
        /\ \A d \in Client : d # c => work'[d] = work[d]
        /\ w.stage = "user" /\ w.task = Head(script[c]) /\ w.no = Len(script[c])
        /\ w.known = {<<a.by, a.no>> : a \in told} /\ w.subs = {} /\ w.found = {}
        /\ script[c] \in Seq(Task) /\ script[c] # <<>> /\ Idle(c)
        /\ script' = [script EXCEPT ![c] = Tail(script[c])]
    BY <1>1, <1>3, CallerAccepts
  <2> HIDE DEF w
  <2>2. ~Answered(c)'
    BY <2>1 DEF Waiting, Answered
  <2> QED
    BY <1>2, <2>1, <2>2 DEF Begins
<1>4. ASSUME NEW c \in Client, OperationDoes(c), NEW w, NEW o, Moves(c, w, o)
      PROVE  Alone(c) /\ Turns(c, w)
  <2>1. /\ OthersKeep({c}) /\ Waiting(c)' /\ work'[c] = w /\ call'[c].op = o
        /\ \A d \in Client : d # c => work'[d] = work[d]
    BY <1>1, <1>4, CallerMoves
  <2>2. ~Answered(c)' /\ UNCHANGED store /\ Answered(c)
    BY <1>4, <2>1 DEF Waiting, Answered, OperationDoes
  <2> QED
    BY <1>2, <1>4, <2>1, <2>2 DEF Turns, Moves
<1>5. ASSUME NEW c \in Client, OperationDoes(c), NEW a, Gives(c, a)
      PROVE  Alone(c) /\ Tells(c, a)
  <2>1. /\ OthersKeep({c}) /\ Idle(c)' /\ work'[c] = NoWork /\ told' = told \cup {a}
        /\ ScriptAfter(c, a)
        /\ \A d \in Client : d # c => work'[d] = work[d]
        /\ a.by = c /\ a.no = work[c].no /\ a.task = work[c].task /\ a.known = work[c].known
        /\ Answers(c, a.status, a.tribbles) /\ Carries(c, a.tribbles, a.subscriptions)
    BY <1>1, <1>5, CallerGives
  <2>2. ~Answered(c)' /\ UNCHANGED store /\ Answered(c)
    BY <1>5, <2>1 DEF Idle, Answered, OperationDoes
  <2> QED
    BY <1>2, <2>1, <2>2 DEF Tells
<1> QED
  BY <1>3, <1>4, <1>5, TribblerStep DEF OperationDoes, ByServer

\* No server forgets a key of _simpleStorage.
LEMMA KeysStay ==
    ASSUME BaseInv, [TNext]_tvars, faults' = 0, NEW t \in Server
    PROVE  DOMAIN simple[t] \subseteq DOMAIN simple'[t]
<1>1. CoreInv /\ Up
  BY TribblerStep DEF BaseInv, TribblerInv
<1>2. CASE UNCHANGED simple
  BY <1>2
<1>3. CASE ByServer
  BY <1>1, <1>3, KeysGrow DEF ByServer
<1> QED
  BY <1>2, <1>3, TribblerSteps DEF Alone, store, tvars, vars

-----------------------------------------------------------------------------
(* What is answered is so. *)

\* The answer to c's call is true of the store, and remains so.
AnswerTrue(c) ==
    /\ call[c].op.kind = "Get" =>
          /\ call[c].status \in {"OK", "EKEYNOTFOUND"}
          /\ call[c].status = "OK" => call[c].op.key \in DOMAIN simple[Hub]
    /\ call[c].op.kind = "GetList" => call[c].status \in {"OK", "EKEYNOTFOUND"}
    /\ call[c].op.kind = "AddToList" =>
          /\ call[c].status \in {"OK", "EITEMEXISTS"}
          /\ IsTribble(call[c].op.key) => call[c].status = "OK"
          /\ \A k, item : k = call[c].op.key /\ item = call[c].op.item => Kept(k, item)

AnswersTrue == \A c \in Client : Answered(c) => AnswerTrue(c)

\* Whoever is answered is told the truth.
LEMMA HubAnswersTruly ==
    ASSUME OneEntryOnly, HubInv, faults = 0, NEW c \in Client, HubAnswers(c)
    PROVE  AnswerTrue(c)'
<1>1. /\ TypeOK /\ Rep(AtHub) /\ JobStored /\ Hub \in Server
      /\ \A k \in Key : AtHub[k] = Hub
  BY HubServes DEF HubInv, BaseInv, TribblerInv, CoreInv, TypeInv
<1>2. PICK status, values :
         /\ Gets(c, status, values)
         /\ \/ /\ pc[Hub] = "bcast" /\ job[Hub].from = c /\ status = "OK"
               /\ values = {} /\ SameWrite(call[c].op, job[Hub]) /\ Writes(job[Hub])
            \/ \E h \in Request : /\ pc[Hub] = "serve" /\ h.from = c
                                  /\ call[c].op.kind = h.kind /\ call[c].op.key = h.key
                                  /\ call[c].op.item = h.item
                                  /\ Says(Hub, h, status, values)
  BY DEF HubAnswers
<1>3. call'[c].op = call[c].op /\ call'[c].status = status
  BY <1>2 DEF Gets
<1>4. call[c].op \in Op /\ call[c].op.key \in Key
  <2>1. call[c] \in Call
    BY <1>1 DEF TypeOK, Proc
  <2> QED
    BY <2>1 DEF Call, Op
<1>5. UNCHANGED <<simple, lists>> /\ AllAlike
  BY DEF HubAnswers
<1>6. ASSUME NEW k \in Key, NEW item, Mark(k, item) \in Held(Hub, k)
      PROVE  Kept(k, item)'
  <2>1. \A t \in Server : Held(t, k) = Held(Hub, k)
    BY <1>5 DEF AllAlike, Alike, ListAlike
  <2> QED
    BY <1>5, <1>6, <2>1 DEF Kept, Stored, Held
<1>7. CASE /\ pc[Hub] = "bcast" /\ status = "OK"
           /\ SameWrite(call[c].op, job[Hub]) /\ Writes(job[Hub])
  <2>1. call[c].op.kind \notin {"Get", "GetList"}
    BY <1>7 DEF SameWrite, Writes
  <2>2. ASSUME call[c].op.kind = "AddToList"
        PROVE  Mark(call[c].op.key, call[c].op.item) \in Held(Hub, call[c].op.key)
    <3>1. /\ job[Hub].kind = "AddToList" /\ job[Hub].key = call[c].op.key
          /\ job[Hub].item.value = call[c].op.item.value
          /\ ~IsTribble(call[c].op.key) => job[Hub].item = call[c].op.item
      BY <1>7, <2>2 DEF SameWrite
    <3>2. Mark(job[Hub].key, job[Hub].item) \in Held(Hub, job[Hub].key)
      BY <1>1, <1>7, <3>1 DEF JobStored, StoredJob
    <3>3. Mark(job[Hub].key, job[Hub].item) = Mark(call[c].op.key, call[c].op.item)
      BY <3>1 DEF Mark
    <3> QED
      BY <3>1, <3>2, <3>3
  <2> QED
    BY <1>3, <1>4, <1>6, <1>7, <2>1, <2>2 DEF AnswerTrue
<1>8. ASSUME NEW h \in Request, h.from = c,
             call[c].op.kind = h.kind, call[c].op.key = h.key, call[c].op.item = h.item,
             Says(Hub, h, status, values)
      PROVE  AnswerTrue(c)'
  <2>1. h.kind = "Get" => /\ status \in {"OK", "EKEYNOTFOUND"}
                          /\ status = "OK" => h.key \in DOMAIN simple[Hub]
    BY <1>8 DEF Says, StoreGet
  <2>2. h.kind = "GetList" => status \in {"OK", "EKEYNOTFOUND"}
    BY <1>8 DEF Says, StoreGetList
  <2>3. ASSUME h.kind = "AddToList"
        PROVE  status = "EITEMEXISTS" /\ ~IsTribble(h.key) /\ h.item \in ItemsAt(lists[Hub], h.key)
    <3>1. /\ status = "EITEMEXISTS"
          /\ IF IsTribble(h.key)
             THEN \E item \in ItemsAt(lists[Hub], h.key) : item.vt[Hub] = vt[Hub][Hub] + 1
             ELSE h.item \in ItemsAt(lists[Hub], h.key)
      BY <1>8, <2>3 DEF Says, IsPost
    <3>2. ASSUME IsTribble(h.key) PROVE FALSE
      <4>1. PICK item \in ItemsAt(lists[Hub], h.key) : item.vt[Hub] = vt[Hub][Hub] + 1
        BY <3>1, <3>2
      <4>2. item.vt \in Stamp /\ item.vt[Hub] <= vt[Hub][Hub]
        BY <1>1, <1>4, <1>8, <3>2, <4>1 DEF Rep, WriterStamps
      <4>3. vt[Hub][Hub] \in Nat
        BY <1>1 DEF TypeOK, Stamp
      <4> QED
        BY <4>1, <4>2, <4>3
    <3> QED
      BY <3>1, <3>2
  <2>4. h.kind = "AddToList" => Mark(h.key, h.item) \in Held(Hub, h.key)
    BY <2>3 DEF Mark, Held
  <2> QED
    BY <1>3, <1>4, <1>5, <1>6, <1>8, <2>1, <2>2, <2>3, <2>4 DEF AnswerTrue
<1> QED
  BY <1>2, <1>7, <1>8

\* And it stays true.
LEMMA AnswersNext ==
    ASSUME OneEntryOnly, HubInv, AnswersTrue, [TNext]_tvars, faults' = 0
    PROVE  AnswersTrue'
<1>1. /\ BaseInv /\ faults = 0 /\ CoreInv /\ Up /\ Hub \in Server
  BY TribblerStep, HubServes DEF HubInv, BaseInv, TribblerInv
<1>2. ASSUME NEW c \in Client, call'[c] = call[c], Answered(c)'
      PROVE  AnswerTrue(c)'
  <2>1. AnswerTrue(c)
    BY <1>2 DEF AnswersTrue, Answered
  <2>2. DOMAIN simple[Hub] \subseteq DOMAIN simple'[Hub]
    BY <1>1, KeysStay
  <2>3. \A k, item : Kept(k, item) => Kept(k, item)'
    BY <1>1, KeptStays
  <2> QED
    BY <1>2, <2>1, <2>2, <2>3 DEF AnswerTrue
<1>3. CASE ByServer
  BY <1>1, <1>2, <1>3, AnsweredByHub, HubAnswersTruly DEF AnswersTrue, ByServer
<1>4. ASSUME NEW c \in Client, Alone(c)
      PROVE  AnswersTrue'
  BY <1>2, <1>4 DEF AnswersTrue, Alone
<1>5. CASE UNCHANGED tvars
  BY <1>2, <1>5 DEF AnswersTrue, tvars, vars
<1> QED
  BY <1>1, <1>3, <1>4, <1>5, TribblerSteps

-----------------------------------------------------------------------------
(* What a client was told is done is stored everywhere. *)

\* What an operation has brought about when it is told that it succeeded.
Brings(task, k, item) ==
    \/ task.op = "CreateUser" /\ k = UserList /\ item = Plain(task.user)
    \/ task.op = "AddSubscription" /\ k = SubKey(task.user) /\ item = Plain(task.arg)
    \/ task.op = "PostTribble" /\ k = TribbleKey(task.user) /\ item = Plain(task.arg)

\* A user that is being created has been listed.
ListedFirst ==
    \A c \in Client : \A k, item :
        /\ ~Idle(c) /\ work[c].stage = "write" /\ work[c].task.op = "CreateUser"
        /\ Brings(work[c].task, k, item)
        => Kept(k, item)

ToldKept ==
    \A a \in told : \A k, item : a.status = "OK" /\ Brings(a.task, k, item) => Kept(k, item)

ToldInv == faults = 0 => AnswersTrue /\ ListedFirst /\ ToldKept

\* An operation that writes succeeds with its write.
LEMMA OkStage ==
    ASSUME CallsFit, NEW c \in Client, Answered(c), NEW tribbles, Answers(c, "OK", tribbles),
           work[c].task.op \in Writers
    PROVE  work[c].stage = "write" /\ "OK" = WriteStatus(work[c].task.op, call[c].status)
<1>1. AskedFor(work[c], call[c].op)
  BY DEF CallsFit, Idle, Answered
<1>2. work[c].stage \notin {"read", "subs", "posts"}
  BY <1>1, StageAsks DEF Writers
<1> QED
  BY <1>2 DEF Answers

\* What it brings about is stored when it is told so.
LEMMA BroughtAbout ==
    ASSUME CallsFit, AnswersTrue, ListedFirst, NEW c \in Client, Answered(c), NEW tribbles,
           Answers(c, "OK", tribbles), NEW k, NEW item, Brings(work[c].task, k, item)
    PROVE  Kept(k, item)
<1>1. AskedFor(work[c], call[c].op) /\ ~Idle(c)
  BY DEF CallsFit, Idle, Answered
<1>2. work[c].stage = "write"
  BY OkStage DEF Brings, Writers
<1>3. CASE work[c].task.op = "CreateUser"
  BY <1>1, <1>2, <1>3 DEF ListedFirst
<1>4. CASE work[c].task.op # "CreateUser"
  <2>1. call[c].op.kind = "AddToList" /\ k = call[c].op.key /\ item = call[c].op.item
    BY <1>1, <1>2, <1>4, StageAsks DEF Brings
  <2> QED
    BY <2>1 DEF AnswersTrue, AnswerTrue
<1> QED
  BY <1>3, <1>4

\* Every step.
LEMMA ToldNext ==
    ASSUME OneEntryOnly, HubInv, ToldInv, [TNext]_tvars
    PROVE  ToldInv'
<1> SUFFICES ASSUME faults' = 0 PROVE AnswersTrue' /\ ListedFirst' /\ ToldKept'
  BY DEF ToldInv
<1>1. /\ BaseInv /\ faults = 0 /\ CoreInv /\ Up /\ CallsFit
      /\ AnswersTrue /\ ListedFirst /\ ToldKept
  BY TribblerStep DEF HubInv, BaseInv, TribblerInv, ToldInv
<1>2. \A k, item : Kept(k, item) => Kept(k, item)'
  BY <1>1, KeptStays
<1>3. ASSUME UNCHANGED told
      PROVE  ToldKept'
  BY <1>1, <1>2, <1>3 DEF ToldKept
<1>4. ASSUME \A c \in Client : ~Idle(c)' => ~Idle(c) /\ work'[c] = work[c]
      PROVE  ListedFirst'
  BY <1>1, <1>2, <1>4 DEF ListedFirst
<1>5. ASSUME ByServer
      PROVE  ListedFirst' /\ ToldKept'
  <2>1. /\ work' = work /\ told' = told
        /\ \A c \in Client : Idle(c)' <=> Idle(c)
    BY <1>1, <1>5, ClientOps DEF ByServer
  <2> QED
    BY <1>3, <1>4, <2>1
<1>6. ASSUME NEW c \in Client, Alone(c), UNCHANGED told,
             ~Idle(c)' /\ work'[c].stage = "write" /\ work'[c].task.op = "CreateUser" =>
                work[c].stage = "list" /\ work'[c].task = work[c].task /\ Answered(c)
      PROVE  ListedFirst' /\ ToldKept'
  <2>1. ASSUME NEW k, NEW item, ~Idle(c)', work'[c].stage = "write",
               work'[c].task.op = "CreateUser", Brings(work'[c].task, k, item)
        PROVE  Kept(k, item)'
    <3>1. work[c].stage = "list" /\ Brings(work[c].task, k, item) /\ Answered(c)
      BY <1>6, <2>1
    <3>2. work[c].task.op = "CreateUser" /\ AskedFor(work[c], call[c].op)
      BY <1>1, <1>6, <2>1, <3>1 DEF CallsFit, Answered, Idle
    <3>3. /\ call[c].op.kind = "AddToList" /\ k = call[c].op.key /\ item = call[c].op.item
      BY <3>1, <3>2, StageAsks DEF Brings
    <3> QED
      BY <1>1, <1>2, <3>1, <3>3 DEF AnswersTrue, AnswerTrue
  <2>2. ASSUME NEW d \in Client, d # c, NEW k, NEW item, ~Idle(d)', work'[d].stage = "write",
               work'[d].task.op = "CreateUser", Brings(work'[d].task, k, item)
        PROVE  Kept(k, item)'
    <3>1. ~Idle(d) /\ work'[d] = work[d]
      BY <1>6, <2>2 DEF Alone, Idle
    <3> QED
      BY <1>1, <1>2, <2>2, <3>1 DEF ListedFirst
  <2> QED
    BY <1>3, <1>6, <2>1, <2>2 DEF ListedFirst
<1>7. ASSUME NEW c \in Client, Alone(c), Begins(c)
      PROVE  ListedFirst' /\ ToldKept'
  BY <1>6, <1>7 DEF Begins
<1>8. ASSUME NEW c \in Client, Alone(c), NEW w, Turns(c, w)
      PROVE  ListedFirst' /\ ToldKept'
  <2>1. AskedFor(work[c], call[c].op)
    BY <1>1, <1>8 DEF CallsFit, Idle, Answered, Turns
  <2>2. w.stage = "write" /\ w.task.op = "CreateUser" => work[c].stage = "list"
    BY <1>8, <2>1, StageAsks DEF Turns, GoesFrom, Does
  <2> QED
    BY <1>6, <1>8, <2>2 DEF Turns
<1>9. ASSUME NEW c \in Client, Alone(c), NEW a, Tells(c, a)
      PROVE  ListedFirst' /\ ToldKept'
  <2>1. ListedFirst'
    BY <1>4, <1>9 DEF Tells, Alone, Idle
  <2>2. a.status = "OK" => \A k, item : Brings(a.task, k, item) => Kept(k, item)
    BY <1>1, <1>9, BroughtAbout DEF Tells
  <2> QED
    BY <1>1, <1>2, <1>9, <2>1, <2>2 DEF ToldKept, Tells
<1>10. ASSUME UNCHANGED tvars
       PROVE  ListedFirst' /\ ToldKept'
  BY <1>3, <1>4, <1>10 DEF tvars, vars, Idle
<1> QED
  <2>1. AnswersTrue'
    BY <1>1, AnswersNext
  <2> QED
    BY <1>1, <1>5, <1>7, <1>8, <1>9, <1>10, <2>1, TribblerSteps

\* Nothing has been told at first.
LEMMA InitTold ==
    ASSUME TInit
    PROVE  ToldInv
<1>1. \A c \in Client : Idle(c)
  BY NoCallType DEF TInit, Init, Idle, Proc
<1>2. AnswersTrue /\ ListedFirst
  BY <1>1 DEF AnswersTrue, ListedFirst, Answered, Idle
<1> QED
  BY <1>2 DEF TInit, ToldInv, ToldKept

\* The list of users and the tribbles are never removed from.
LEMMA NotUndone ==
    \A k, item, u : k = UserList \/ k = TribbleKey(u) => ~Undone(k, item)
<1>1. \A u : UserList[2] = "" /\ TribbleKey(u)[2] = "_tribble" /\ SubKey(u)[2] = "_sub"
  BY DEF UserList, TribbleKey, SubKey
<1> QED
  BY <1>1 DEF Undone

\* Where something is stored under its mark.
LEMMA StoredItems ==
    ASSUME NEW k, NEW text, Stored(k, Plain(text)), NEW s \in Server
    PROVE  /\ ~IsTribble(k) => Plain(text) \in ItemsAt(lists[s], k)
           /\ \E item \in ItemsAt(lists[s], k) : item.value = text
<1>1. Mark(k, Plain(text)) \in Held(s, k) /\ Plain(text).value = text
  BY DEF Stored, Plain
<1>2. CASE IsTribble(k)
  BY <1>1, <1>2 DEF Held, Mark
<1>3. CASE ~IsTribble(k)
  BY <1>1, <1>3 DEF Held, Mark
<1> QED
  BY <1>2, <1>3

\* While all servers of a complete cluster stay up and the Tribbler servers write
\* through one of them, every server has what a client was told is done: the user, in
\* both places; the subscription, unless its removal was asked for; the tribble.
THEOREM ToldIsStoredAlways ==
    ASSUME B = N, OneEntryOnly
    PROVE  TSpec => []ToldIsStored
<1>1. TInit => HubInv /\ ToldInv /\ CreateInv /\ CreatedOnce
  <2> SUFFICES ASSUME TInit PROVE HubInv /\ ToldInv /\ CreateInv /\ CreatedOnce
    OBVIOUS
  <2>1. \A op : Ok(op) = {}
    BY DEF TInit, Ok
  <2> QED
    BY <2>1, InitHub, InitTold, InitPuts DEF CreateInv, UserPuts, Created, CreatedOnce, TInit
<1>2. HubInv /\ ToldInv /\ CreateInv /\ CreatedOnce /\ [TNext]_tvars
      => HubInv' /\ ToldInv' /\ CreateInv' /\ CreatedOnce'
  BY HubNext, ToldNext, CreateNext DEF HubInv
<1>3. HubInv /\ ToldInv /\ CreateInv => ToldIsStored
  <2> SUFFICES ASSUME HubInv, ToldInv, CreateInv, faults = 0, NEW s \in Server
               PROVE  /\ \A a \in Ok("CreateUser") : a.task.user # CommandUser =>
                            /\ UserKey(a.task.user) \in DOMAIN simple[s]
                            /\ Plain(a.task.user) \in ItemsAt(lists[s], UserList)
                      /\ \A a \in Ok("AddSubscription") :
                            \/ Plain(a.task.arg) \in ItemsAt(lists[s], SubKey(a.task.user))
                            \/ Did("RemoveSubscription", a.task.user, a.task.arg)
                      /\ \A a \in Ok("PostTribble") :
                            \E item \in ItemsAt(lists[s], TribbleKey(a.task.user)) :
                                item.value = a.task.arg
    BY DEF ToldIsStored
  <2>1. ToldKept /\ Created
    BY DEF ToldInv, CreateInv
  <2>2. ASSUME NEW a \in Ok("CreateUser"), a.task.user # CommandUser
        PROVE  /\ UserKey(a.task.user) \in DOMAIN simple[s]
               /\ Plain(a.task.user) \in ItemsAt(lists[s], UserList)
    <3>1. Taken(UserKey(a.task.user))
      BY <2>1, <2>2 DEF Created
    <3>2. Kept(UserList, Plain(a.task.user))
      BY <2>1, <2>2 DEF ToldKept, Brings, Ok
    <3>3. Stored(UserList, Plain(a.task.user)) /\ ~IsTribble(UserList)
      BY <3>2, NotUndone DEF Kept, IsTribble, UserList
    <3> QED
      BY <3>1, <3>3, StoredItems DEF Taken
  <2>3. ASSUME NEW a \in Ok("AddSubscription")
        PROVE  \/ Plain(a.task.arg) \in ItemsAt(lists[s], SubKey(a.task.user))
               \/ Did("RemoveSubscription", a.task.user, a.task.arg)
    <3>1. Kept(SubKey(a.task.user), Plain(a.task.arg))
      BY <2>1, <2>3 DEF ToldKept, Brings, Ok
    <3>2. CASE Stored(SubKey(a.task.user), Plain(a.task.arg))
      BY <3>2, StoredItems DEF IsTribble, SubKey
    <3>3. CASE Undone(SubKey(a.task.user), Plain(a.task.arg))
      BY <3>3 DEF Undone, Did, SubKey, Plain
    <3> QED
      BY <3>1, <3>2, <3>3 DEF Kept
  <2>4. ASSUME NEW a \in Ok("PostTribble")
        PROVE  \E item \in ItemsAt(lists[s], TribbleKey(a.task.user)) : item.value = a.task.arg
    <3>1. Kept(TribbleKey(a.task.user), Plain(a.task.arg))
      BY <2>1, <2>4 DEF ToldKept, Brings, Ok
    <3> QED
      BY <3>1, NotUndone, StoredItems DEF Kept
  <2> QED
    BY <2>2, <2>3, <2>4
<1> QED
  BY <1>1, <1>2, <1>3, PTL DEF TSpec

-----------------------------------------------------------------------------
(* Subscriptions. *)

There(u) == UserKey(u) \in DOMAIN simple[Hub]

Pair(u, v) == u # v /\ There(u) /\ There(v)

\* An operation that has got past its first look-up has found its user.
UsersThere ==
    \A c \in Client : \A u :
        /\ ~Idle(c) /\ work[c].stage # "user"
        /\ work[c].task.op # "CreateUser" /\ work[c].task.user = u
        => There(u)

\* Whoever is being subscribed to somebody is there, and so is the other one.
PairsWritten ==
    \A c \in Client : \A u, v :
        /\ ~Idle(c) /\ work[c].stage = "write"
        /\ work[c].task.op = "AddSubscription"
        /\ work[c].task.user = u /\ work[c].task.arg = v
        => Pair(u, v)

PairsStored ==
    \A s \in Server : \A u, v : Plain(v) \in ItemsAt(lists[s], SubKey(u)) => Pair(u, v)

PairInv == faults = 0 => UsersThere /\ PairsWritten /\ PairsStored

\* A server adds to a list what some Tribbler server asks to add.
LEMMA ItemSource ==
    ASSUME CoreInv, Up, CallsFit, faults' = 0,
           NEW s \in Server, Boot(s) \/ ServerStep(s) \/ Crash(s),
           NEW t \in Server, NEW k, NEW x \in ItemsAt(lists'[t], k), x \notin ItemsAt(lists[t], k)
    PROVE  \E c \in Client :
              /\ ~Idle(c) /\ AskedFor(work[c], call[c].op)
              /\ call[c].op.kind = "AddToList" /\ call[c].op.key = k
              /\ call[c].op.item.value = x.value
              /\ ~IsTribble(k) => call[c].op.item = x
<1>1. PICK h : Serves(s, h) /\ (Obeys(s, h) \/ Accepts(s, h))
  <2>1. ASSUME NEW h, Serves(s, h), Refuses(s, h)
        PROVE  FALSE
    BY <2>1 DEF Refuses
  <2>2. ~(Calls(s) \/ MovesOn(s) \/ \E status : Concludes(s, status))
    BY DEF Calls, MovesOn, Concludes
  <2>3. \/ Serves(s, Head(inbox[s])) \/ Calls(s) \/ MovesOn(s)
        \/ \E status : Concludes(s, status)
    BY ServerDoes
  <2> QED
    BY <2>1, <2>2, <2>3 DEF Serves
<1>2. t = s
  BY <1>1 DEF Serves
<1>3. PICK r : Stores(s, h, r) /\ Writes(h)
  BY <1>1 DEF Obeys, Accepts
<1>4. PICK item \in Item :
         /\ item.value = h.item.value
         /\ \/ h.kind = "Put" /\ StoresPut(s, h.key)
            \/ h.kind = "AddToList" /\ StoresItem(s, h.key, item)
            \/ h.kind = "RemoveFromList" /\ StoresRemoval(s, h.key, item)
         /\ IsPost(h) \/ item = h.item
  BY <1>3 DEF Stores
<1>5. k = h.key
  BY <1>2, <1>3, StoresElsewhere DEF SameAt
<1>6. ~(h.kind = "Put" /\ StoresPut(s, h.key))
  BY <1>2, <1>5, PutHeld
<1>7. ~(h.kind = "RemoveFromList" /\ StoresRemoval(s, h.key, item))
  BY <1>2, <1>5, RemovalHeld
<1>8. h.kind = "AddToList" /\ x = item
  BY <1>2, <1>4, <1>5, <1>6, <1>7, ItemHeld
<1>9. PICK c \in Client : /\ ~Idle(c) /\ SameWrite(call[c].op, h)
                          /\ AskedFor(work[c], call[c].op)
  BY <1>1, <1>3, WriteSource
<1>10. /\ call[c].op.kind = h.kind /\ call[c].op.key = h.key
       /\ call[c].op.item.value = h.item.value
       /\ ~(h.kind = "AddToList" /\ IsTribble(h.key)) => call[c].op.item = h.item
  BY <1>9 DEF SameWrite
<1>11. ~IsTribble(k) => x = h.item
  BY <1>4, <1>5, <1>8 DEF IsPost
<1> QED
  BY <1>4, <1>5, <1>8, <1>9, <1>10, <1>11

\* Which operations add to which lists.
LEMMA KeysApart ==
    \A u, v : /\ (SubKey(u) = SubKey(v) <=> u = v) /\ (TribbleKey(u) = TribbleKey(v) <=> u = v)
              /\ SubKey(u) # UserList /\ TribbleKey(u) # UserList /\ SubKey(u) # TribbleKey(v)
              /\ (Plain(u) = Plain(v) <=> u = v) /\ ~IsTribble(SubKey(u)) /\ ~IsTribble(UserList)
<1>1. \A u : /\ UserList[2] = "" /\ TribbleKey(u)[2] = "_tribble" /\ SubKey(u)[2] = "_sub"
             /\ TribbleKey(u)[1] = u /\ SubKey(u)[1] = u /\ Plain(u).value = u
  BY DEF UserList, TribbleKey, SubKey, Plain
<1>2. \A u : ~IsTribble(SubKey(u)) /\ ~IsTribble(UserList)
  BY <1>1 DEF IsTribble
<1>3. \A u, v : /\ SubKey(u) = SubKey(v) => u = v
                /\ TribbleKey(u) = TribbleKey(v) => u = v
                /\ Plain(u) = Plain(v) => u = v
  <2> SUFFICES ASSUME NEW u, NEW v
               PROVE  /\ SubKey(u) = SubKey(v) => u = v
                      /\ TribbleKey(u) = TribbleKey(v) => u = v
                      /\ Plain(u) = Plain(v) => u = v
    OBVIOUS
  <2>1. SubKey(u) = SubKey(v) => u = v
    <3>1. SubKey(u)[1] = u /\ SubKey(v)[1] = v
      BY <1>1
    <3> QED
      BY <3>1
  <2>2. TribbleKey(u) = TribbleKey(v) => u = v
    <3>1. TribbleKey(u)[1] = u /\ TribbleKey(v)[1] = v
      BY <1>1
    <3> QED
      BY <3>1
  <2>3. Plain(u) = Plain(v) => u = v
    <3>1. Plain(u).value = u /\ Plain(v).value = v
      BY <1>1
    <3> QED
      BY <3>1
  <2> QED
    BY <2>1, <2>2, <2>3
<1>4. \A u, v : SubKey(u) # UserList /\ TribbleKey(u) # UserList /\ SubKey(u) # TribbleKey(v)
  BY <1>1
<1> QED
  BY <1>2, <1>3, <1>4

\* Only an AddSubscription adds to a subscription list.
LEMMA SubscriptionAsked ==
    ASSUME NEW w, NEW o, AskedFor(w, o), o.kind = "AddToList", NEW u, o.key = SubKey(u)
    PROVE  /\ w.stage = "write" /\ w.task.op = "AddSubscription" /\ w.task.user = u
           /\ o.item = Plain(w.task.arg)
<1>1. w.stage = "write"
  BY StageAsks, KeysApart
<1>2. w.task.op = "AddSubscription"
  BY <1>1, StageAsks, KeysApart DEF Writers
<1> QED
  BY <1>1, <1>2, StageAsks, KeysApart

\* Every step.
LEMMA PairNext ==
    ASSUME OneEntryOnly, HubInv, faults = 0 => AnswersTrue, PairInv, [TNext]_tvars
    PROVE  PairInv'
<1> SUFFICES ASSUME faults' = 0 PROVE UsersThere' /\ PairsWritten' /\ PairsStored'
  BY DEF PairInv
<1>1. /\ BaseInv /\ faults = 0 /\ CoreInv /\ Up /\ CallsFit /\ Hub \in Server
      /\ AnswersTrue /\ UsersThere /\ PairsWritten /\ PairsStored
  BY TribblerStep, HubServes DEF HubInv, BaseInv, TribblerInv, PairInv
<1>2. \A u : There(u) => There(u)'
  BY <1>1, KeysStay DEF There
<1>3. \A u, v : Pair(u, v) => Pair(u, v)'
  BY <1>2 DEF Pair
<1>4. ASSUME UNCHANGED lists PROVE PairsStored'
  BY <1>1, <1>3, <1>4 DEF PairsStored
<1>5. ASSUME NEW c \in Client, ~Idle(c)' => ~Idle(c) /\ work'[c] = work[c]
      PROVE  /\ \A u : ~Idle(c)' /\ work'[c].stage # "user" /\ work'[c].task.op # "CreateUser"
                       /\ work'[c].task.user = u => There(u)'
             /\ \A u, v : ~Idle(c)' /\ work'[c].stage = "write"
                          /\ work'[c].task.op = "AddSubscription"
                          /\ work'[c].task.user = u /\ work'[c].task.arg = v => Pair(u, v)'
  BY <1>1, <1>2, <1>3, <1>5 DEF UsersThere, PairsWritten
<1>6. ASSUME ByServer
      PROVE  UsersThere' /\ PairsWritten' /\ PairsStored'
  <2>1. PICK s \in Server : (Boot(s) \/ ServerStep(s) \/ Crash(s)) /\ UNCHANGED <<script, work, told>>
    BY <1>6 DEF ByServer
  <2>2. \A c \in Client : Idle(c)' <=> Idle(c)
    BY <1>1, <2>1, ClientOps
  <2>3. UsersThere' /\ PairsWritten'
    BY <1>5, <2>1, <2>2 DEF UsersThere, PairsWritten
  <2>4. ASSUME NEW t \in Server, NEW u, NEW v, Plain(v) \in ItemsAt(lists'[t], SubKey(u))
        PROVE  Pair(u, v)
    <3>1. CASE Plain(v) \in ItemsAt(lists[t], SubKey(u))
      BY <1>1, <3>1 DEF PairsStored
    <3>2. CASE Plain(v) \notin ItemsAt(lists[t], SubKey(u))
      <4>1. PICK c \in Client :
               /\ ~Idle(c) /\ AskedFor(work[c], call[c].op)
               /\ call[c].op.kind = "AddToList" /\ call[c].op.key = SubKey(u)
               /\ ~IsTribble(SubKey(u)) => call[c].op.item = Plain(v)
        BY <1>1, <2>1, <2>4, <3>2, ItemSource
      <4>2. /\ work[c].stage = "write" /\ work[c].task.op = "AddSubscription"
            /\ work[c].task.user = u /\ Plain(v) = Plain(work[c].task.arg)
        BY <4>1, SubscriptionAsked, KeysApart
      <4>3. work[c].task.arg = v
        BY <4>2, KeysApart
      <4> QED
        BY <1>1, <4>1, <4>2, <4>3 DEF PairsWritten
    <3> QED
      BY <3>1, <3>2
  <2> QED
    BY <1>3, <2>3, <2>4 DEF PairsStored
<1>7. ASSUME NEW c \in Client, Alone(c),
             \A u : ~Idle(c)' /\ work'[c].stage # "user" /\ work'[c].task.op # "CreateUser"
                    /\ work'[c].task.user = u => There(u)',
             \A u, v : ~Idle(c)' /\ work'[c].stage = "write"
                       /\ work'[c].task.op = "AddSubscription"
                       /\ work'[c].task.user = u /\ work'[c].task.arg = v => Pair(u, v)'
      PROVE  UsersThere' /\ PairsWritten' /\ PairsStored'
  <2>1. \A d \in Client : d # c => /\ ~Idle(d)' => ~Idle(d) /\ work'[d] = work[d]
    BY <1>7 DEF Alone, Idle
  <2>2. UNCHANGED lists
    BY <1>7 DEF Alone, store
  <2>3. UsersThere'
    BY <1>5, <1>7, <2>1 DEF UsersThere
  <2>4. PairsWritten'
    BY <1>5, <1>7, <2>1 DEF PairsWritten
  <2> QED
    BY <1>4, <2>2, <2>3, <2>4
<1>8. ASSUME NEW c \in Client, Alone(c), Begins(c)
      PROVE  UsersThere' /\ PairsWritten' /\ PairsStored'
  BY <1>7, <1>8 DEF Begins
<1>9. ASSUME NEW c \in Client, Alone(c), NEW a, Tells(c, a)
      PROVE  UsersThere' /\ PairsWritten' /\ PairsStored'
  BY <1>7, <1>9 DEF Tells
<1>10. ASSUME NEW c \in Client, Alone(c), NEW w, Turns(c, w)
       PROVE  UsersThere' /\ PairsWritten' /\ PairsStored'
  <2>1. AskedFor(work[c], call[c].op) /\ AskedFor(w, call'[c].op) /\ ~Idle(c)
    BY <1>1, <1>10 DEF CallsFit, Idle, Answered, Turns
  <2>2. AnswerTrue(c) /\ Answered(c)
    BY <1>1, <1>10 DEF AnswersTrue, Turns
  <2>3. /\ work'[c] = w /\ w.task = work[c].task /\ GoesFrom(c, w)
    BY <1>10 DEF Turns
  <2>4. ASSUME Exists(c), call[c].op.kind = "Get"
        PROVE  \A u : call[c].op.key = UserKey(u) => There(u)
    BY <2>2, <2>4 DEF AnswerTrue, Exists, There
  <2>5. ASSUME NEW u, w.stage # "user", w.task.op # "CreateUser", w.task.user = u
        PROVE  There(u)
    <3>1. CASE work[c].stage # "user"
      BY <1>1, <2>1, <2>3, <2>5, <3>1 DEF UsersThere
    <3>2. CASE work[c].stage = "user"
      <4>1. call[c].op.kind = "Get" /\ call[c].op.key = UserKey(u)
        BY <2>1, <2>3, <2>5, <3>2, StageAsks
      <4>2. w.stage # "list"
        BY <2>1, <2>5, StageAsks
      <4>3. Exists(c)
        BY <2>3, <3>2, <4>2 DEF GoesFrom
      <4> QED
        BY <2>4, <4>1, <4>3
    <3> QED
      BY <3>1, <3>2
  <2>6. ASSUME NEW u, NEW v, w.stage = "write", w.task.op = "AddSubscription",
               w.task.user = u, w.task.arg = v
        PROVE  Pair(u, v)
    <3>1. work[c].stage # "list"
      BY <2>1, <2>3, <2>6, StageAsks
    <3>2. work[c].stage = "other" /\ Exists(c) /\ User(c) # Arg(c)
      BY <2>3, <2>6, <3>1 DEF GoesFrom, Does
    <3>3. call[c].op.kind = "Get" /\ call[c].op.key = UserKey(v)
      BY <2>1, <2>3, <2>6, <3>2, StageAsks
    <3>4. There(u) /\ There(v)
      BY <2>4, <2>5, <2>6, <3>2, <3>3
    <3> QED
      BY <2>3, <2>6, <3>2, <3>4 DEF Pair, User, Arg
  <2> QED
    BY <1>2, <1>3, <1>7, <1>10, <2>3, <2>5, <2>6
<1>11. ASSUME UNCHANGED tvars
       PROVE  UsersThere' /\ PairsWritten' /\ PairsStored'
  <2>1. UNCHANGED lists /\ \A c \in Client : (Idle(c)' <=> Idle(c)) /\ work'[c] = work[c]
    BY <1>11 DEF tvars, vars, Idle
  <2> QED
    BY <1>4, <1>5, <2>1 DEF UsersThere, PairsWritten
<1> QED
  BY <1>1, <1>6, <1>8, <1>9, <1>10, <1>11, TribblerSteps

\* While all servers of a complete cluster stay up and the Tribbler servers write
\* through one of them, whoever is subscribed to somebody is a user and somebody else.
THEOREM SubscriptionsSoundAlways ==
    ASSUME B = N, OneEntryOnly
    PROVE  TSpec => []SubscriptionsSound
<1>1. TInit => HubInv /\ ToldInv /\ PairInv
  <2> SUFFICES ASSUME TInit PROVE HubInv /\ ToldInv /\ PairInv
    OBVIOUS
  <2>1. \A c \in Client : Idle(c)
    BY NoCallType DEF TInit, Init, Idle, Proc
  <2>2. \A s \in Server : lists[s] = NoMap
    BY DEF TInit, Init
  <2>3. \A s \in Server : \A k : ItemsAt(lists[s], k) = {}
    BY <2>2 DEF ItemsAt, NoMap
  <2> QED
    BY <2>1, <2>3, InitHub, InitTold DEF PairInv, UsersThere, PairsWritten, PairsStored
<1>2. HubInv /\ ToldInv /\ PairInv /\ [TNext]_tvars => HubInv' /\ ToldInv' /\ PairInv'
  BY HubNext, ToldNext, PairNext DEF ToldInv
<1>3. HubInv /\ PairInv => SubscriptionsSound
  <2> SUFFICES ASSUME HubInv, PairInv, faults = 0, NEW s \in Server, NEW u \in Text, NEW v \in Text,
                      Plain(v) \in ItemsAt(lists[s], SubKey(u))
               PROVE  u # v /\ IsUser(s, u) /\ IsUser(s, v)
    BY DEF SubscriptionsSound
  <2>1. Pair(u, v)
    BY DEF PairInv, PairsStored
  <2>2. /\ Hub \in Server /\ KeysAgreed(AtHub) /\ \A k \in Key : AtHub[k] = Hub
    BY HubServes DEF HubInv, Rep
  <2>3. ASSUME NEW x \in Text, There(x)
        PROVE  IsUser(s, x)
    <3>1. UserKey(x) \in Key
      BY KeyType
    <3>2. CASE s = Hub
      BY <2>3, <3>2 DEF There, IsUser
    <3>3. CASE s # Hub
      <4>1. KeyAgreed(Hub, s, UserKey(x))
        BY <2>2, <3>1, <3>3 DEF KeysAgreed
      <4>2. CASE Pending(Hub, s, UserKey(x))
        BY <2>2, <4>2 DEF Pending, IsUser
      <4>3. CASE Alike(Hub, s, UserKey(x))
        BY <2>3, <4>3 DEF Alike, SimpleAlike, There, IsUser
      <4> QED
        BY <4>1, <4>2, <4>3 DEF KeyAgreed
    <3> QED
      BY <3>2, <3>3
  <2> QED
    BY <2>1, <2>3 DEF Pair
<1> QED
  BY <1>1, <1>2, <1>3, PTL DEF TSpec

-----------------------------------------------------------------------------
(* Which answers an operation can have known. *)

Given == {<<a.by, a.no>> : a \in told}

\* The operations of a client are numbered downwards, and none knows an answer that
\* has not been given.
NumbersOK ==
    /\ \A a \in told : /\ Len(script[a.by]) < a.no
                       /\ ~Idle(a.by) => work[a.by].no < a.no
                       /\ a.known \subseteq Given
    /\ \A c \in Client : ~Idle(c) => /\ Len(script[c]) < work[c].no
                                     /\ work[c].known \subseteq Given

\* The successes that an operation that knows those answers knows.
OkIn(known, op) == {b \in Ok(op) : <<b.by, b.no>> \in known}

\* An answer is not taken for an earlier one.
LEMMA FreshAnswer ==
    ASSUME NumbersOK, TribblerTypeOK, NEW c \in Client, NEW a, Tells(c, a)
    PROVE  <<a.by, a.no>> \notin Given
<1> SUFFICES ASSUME NEW b \in told, <<a.by, a.no>> = <<b.by, b.no>> PROVE FALSE
  BY DEF Given
<1>1. b.by = c /\ b.no = work[c].no /\ ~Idle(c)
  BY DEF Tells, Answered, Idle
<1>2. work[c].no < b.no
  BY <1>1 DEF NumbersOK
<1>3. work[c].no \in Nat
  BY DEF TribblerTypeOK
<1> QED
  BY <1>1, <1>2, <1>3

\* Every step.
LEMMA NumbersNext ==
    ASSUME BaseInv, NumbersOK, [TNext]_tvars, faults' = 0
    PROVE  /\ NumbersOK' /\ Given \subseteq Given'
           /\ \A known, op : known \subseteq Given => OkIn(known, op)' = OkIn(known, op)
<1>1. /\ CoreInv /\ Up /\ TribblerTypeOK /\ script \in [Client -> Seq(Task)]
      /\ \A c \in Client : work[c].no \in Nat
      /\ \A a \in told : a.by \in Client /\ a.no \in Nat
  BY TribblerStep DEF BaseInv, TribblerInv, TribblerTypeOK
<1>2. \A c \in Client : Len(script[c]) \in Nat
  BY <1>1
<1> DEFINE Goal == /\ NumbersOK' /\ Given \subseteq Given'
                   /\ \A known, op : known \subseteq Given => OkIn(known, op)' = OkIn(known, op)
<1>3. ASSUME UNCHANGED told
      PROVE  Given' = Given /\ \A known, op : OkIn(known, op)' = OkIn(known, op)
  BY <1>3 DEF Given, OkIn, Ok
<1>4. ASSUME UNCHANGED <<script, work, told>>, \A c \in Client : Idle(c)' <=> Idle(c)
      PROVE  Goal
  <2>1. NumbersOK'
    BY <1>1, <1>3, <1>4 DEF NumbersOK
  <2> QED
    BY <1>3, <1>4, <2>1
<1>5. CASE ByServer
  <2>1. \A c \in Client : Idle(c)' <=> Idle(c)
    BY <1>1, <1>5, ClientOps DEF ByServer
  <2> QED
    BY <1>4, <1>5, <2>1 DEF ByServer
<1>6. CASE UNCHANGED tvars
  BY <1>4, <1>6 DEF tvars, vars, Idle
<1>7. ASSUME NEW c \in Client, Alone(c), Begins(c)
      PROVE  Goal
  <2>1. \A d \in Client : d # c => /\ work'[d] = work[d] /\ (Idle(d)' <=> Idle(d))
                                   /\ script'[d] = script[d]
    BY <1>1, <1>7 DEF Alone, Begins, Idle
  <2>2. /\ script'[c] = Tail(script[c]) /\ script[c] \in Seq(Task) /\ script[c] # <<>>
        /\ work'[c].no = Len(script[c]) /\ work'[c].known = Given /\ UNCHANGED told
    BY <1>1, <1>7 DEF Begins, Given
  <2>3. Len(script'[c]) < Len(script[c])
    BY <2>2
  <2>4. ASSUME NEW a \in told
        PROVE  /\ Len(script'[a.by]) < a.no
               /\ ~Idle(a.by)' => work'[a.by].no < a.no
               /\ a.known \subseteq Given
    <3>1. /\ Len(script[a.by]) < a.no
          /\ ~Idle(a.by) => work[a.by].no < a.no
          /\ a.known \subseteq Given
      BY DEF NumbersOK
    <3>2. CASE a.by # c
      BY <1>1, <2>1, <3>1, <3>2
    <3>3. CASE a.by = c
      <4>1. Len(script'[c]) \in Nat /\ Len(script[c]) \in Nat /\ a.no \in Nat
        BY <1>1, <2>2
      <4>2. Len(script[c]) < a.no
        BY <3>1, <3>3
      <4>3. Len(script'[c]) < a.no /\ work'[c].no < a.no
        BY <2>2, <2>3, <4>1, <4>2
      <4> QED
        BY <3>1, <3>3, <4>3
    <3> QED
      BY <3>2, <3>3
  <2>5. ASSUME NEW d \in Client, ~Idle(d)'
        PROVE  Len(script'[d]) < work'[d].no /\ work'[d].known \subseteq Given
    BY <2>1, <2>2, <2>3, <2>5 DEF NumbersOK
  <2>6. NumbersOK'
    <3>1. \A a \in told' : /\ Len(script'[a.by]) < a.no /\ a.known \subseteq Given'
                           /\ ~Idle(a.by)' => work'[a.by].no < a.no
      BY <1>3, <2>2, <2>4
    <3>2. \A d \in Client : ~Idle(d)' => /\ Len(script'[d]) < work'[d].no
                                         /\ work'[d].known \subseteq Given'
      BY <1>3, <2>2, <2>5
    <3> QED
      BY <3>1, <3>2 DEF NumbersOK
  <2> QED
    BY <1>3, <2>2, <2>6
<1>8. ASSUME NEW c \in Client, Alone(c), NEW w, Turns(c, w)
      PROVE  Goal
  <2>1. \A d \in Client : (~Idle(d)' => ~Idle(d)) /\ work'[d].no = work[d].no
                          /\ work'[d].known = work[d].known
    BY <1>8 DEF Alone, Turns, Idle, Answered
  <2>2. UNCHANGED <<script, told>>
    BY <1>8 DEF Turns
  <2>3. NumbersOK'
    BY <1>1, <1>3, <2>1, <2>2 DEF NumbersOK
  <2> QED
    BY <1>3, <2>2, <2>3
<1>9. ASSUME NEW c \in Client, Alone(c), NEW a, Tells(c, a)
      PROVE  Goal
  <2>1. /\ told' = told \cup {a} /\ a.by = c /\ a.no = work[c].no
        /\ a.known = work[c].known /\ Idle(c)' /\ ~Idle(c)
    BY <1>9 DEF Tells, Idle, Answered
  <2>2. \A d \in Client : ~Idle(d)' => ~Idle(d) /\ work'[d] = work[d]
    BY <1>9, <2>1 DEF Alone, Idle
  <2>20. \A d \in Client : Len(script'[d]) \in Nat /\ Len(script'[d]) <= Len(script[d])
    <3>1. \A d \in Client : script'[d] = script[d] \/ script'[d] = <<>>
      BY <1>1, <1>9 DEF Tells, ScriptAfter
    <3>2. Len(<<>>) = 0
      OBVIOUS
    <3> QED
      BY <1>2, <3>1, <3>2
  <2>3. Given' = Given \cup {<<a.by, a.no>>}
    BY <2>1 DEF Given
  <2>4. \A b \in told : /\ Len(script'[b.by]) < b.no /\ b.known \subseteq Given
                        /\ ~Idle(b.by)' => work'[b.by].no < b.no
    <3>1. \A b \in told : /\ Len(script[b.by]) < b.no /\ b.known \subseteq Given
                          /\ ~Idle(b.by)' => work'[b.by].no < b.no
      BY <1>1, <2>2 DEF NumbersOK
    <3> QED
      BY <1>1, <1>2, <2>20, <3>1
  <2>5. \A d \in Client : ~Idle(d) => /\ Len(script'[d]) < work[d].no
                                      /\ work[d].known \subseteq Given
    BY <1>1, <1>2, <2>20 DEF NumbersOK
  <2>6. NumbersOK'
    <3>1. \A b \in told' : /\ Len(script'[b.by]) < b.no /\ b.known \subseteq Given'
                           /\ ~Idle(b.by)' => work'[b.by].no < b.no
      BY <2>1, <2>3, <2>4, <2>5
    <3>2. \A d \in Client : ~Idle(d)' => /\ Len(script'[d]) < work'[d].no
                                         /\ work'[d].known \subseteq Given'
      BY <2>2, <2>3, <2>5
    <3> QED
      BY <3>1, <3>2 DEF NumbersOK
  <2>7. <<a.by, a.no>> \notin Given
    BY <1>1, <1>9, FreshAnswer
  <2>8. ASSUME NEW known, NEW op, known \subseteq Given
        PROVE  OkIn(known, op)' = OkIn(known, op)
    <3>1. <<a.by, a.no>> \notin known
      BY <2>7, <2>8
    <3> QED
      BY <2>1, <3>1 DEF OkIn, Ok
  <2> QED
    BY <2>3, <2>6, <2>8
<1> QED
  BY <1>5, <1>6, <1>7, <1>8, <1>9, TribblerSteps

-----------------------------------------------------------------------------
(* Look-ups. *)

\* None of the creations that are known is one of u.
Uncreated(known, u) ==
    \A b \in OkIn(known, "CreateUser") : b.task.user = u => u = CommandUser

\* Whoever is not found was not known to have been created, and not found before.
MissesTrue ==
    \A c \in Client : \A u :
        /\ Answered(c) /\ call[c].op.kind = "Get" /\ call[c].op.key = UserKey(u)
        /\ call[c].status = "EKEYNOTFOUND"
        => Uncreated(work[c].known, u) /\ work[c].stage # "again"

\* What the entry server has no key of.
LEMMA HubMisses ==
    ASSUME OneEntryOnly, HubInv, CreateInv, PairInv, faults = 0, NEW c \in Client,
           HubAnswers(c), ~Idle(c), CallsFit, NEW u,
           call[c].op.kind = "Get", call[c].op.key = UserKey(u),
           call'[c].status = "EKEYNOTFOUND"
    PROVE  /\ \A b \in Ok("CreateUser") : b.task.user = u => u = CommandUser
           /\ work[c].stage # "again"
<1>1. PICK status, values :
         /\ Gets(c, status, values)
         /\ \/ SameWrite(call[c].op, job[Hub]) /\ Writes(job[Hub])
            \/ \E h \in Request : /\ call[c].op.kind = h.kind /\ call[c].op.key = h.key
                                  /\ Says(Hub, h, status, values)
  BY DEF HubAnswers
<1>2. ~(SameWrite(call[c].op, job[Hub]) /\ Writes(job[Hub]))
  BY DEF SameWrite, Writes
<1>3. PICK h \in Request : /\ h.kind = "Get" /\ h.key = UserKey(u)
                           /\ Says(Hub, h, "EKEYNOTFOUND", values)
  BY <1>1, <1>2 DEF Gets
<1>4. UserKey(u) \notin DOMAIN simple[Hub]
  BY <1>3 DEF Says, StoreGet
<1>5. Created /\ UsersThere /\ Hub \in Server
  BY HubServes DEF CreateInv, PairInv
<1>6. ASSUME NEW b \in Ok("CreateUser"), b.task.user = u, u # CommandUser
      PROVE  FALSE
  BY <1>4, <1>5, <1>6 DEF Created, Taken
<1>7. ASSUME work[c].stage = "again"
      PROVE  FALSE
  <2>1. AskedFor(work[c], call[c].op)
    BY DEF CallsFit
  <2>2. UserKey(work[c].task.user) = UserKey(u) /\ work[c].task.op = "GetTribblesBySubscription"
    BY <1>7, <2>1, StageAsks
  <2>3. There(work[c].task.user)
    BY <1>5, <1>7, <2>2 DEF UsersThere
  <2> QED
    BY <1>4, <2>2, <2>3 DEF There
<1> QED
  BY <1>6, <1>7

\* Every step.
LEMMA MissesNext ==
    ASSUME OneEntryOnly, HubInv, CreateInv, PairInv, NumbersOK, MissesTrue,
           [TNext]_tvars, faults' = 0
    PROVE  MissesTrue'
<1>1. BaseInv /\ faults = 0 /\ CoreInv /\ Up /\ CallsFit
  BY TribblerStep DEF HubInv, BaseInv, TribblerInv
<1>2. \A known, op : known \subseteq Given => OkIn(known, op)' = OkIn(known, op)
  BY <1>1, NumbersNext
<1>3. \A known, u : known \subseteq Given /\ Uncreated(known, u) => Uncreated(known, u)'
  BY <1>2 DEF Uncreated
<1>4. ASSUME NEW c \in Client, NEW u, call'[c] = call[c], work'[c] = work[c], Answered(c)',
             call'[c].op.kind = "Get", call'[c].op.key = UserKey(u),
             call'[c].status = "EKEYNOTFOUND"
      PROVE  /\ \A known : known = work'[c].known => Uncreated(known, u)'
             /\ work'[c].stage # "again"
  <2>1. Answered(c) /\ ~Idle(c)
    BY <1>4 DEF Answered, Idle
  <2>2. Uncreated(work[c].known, u) /\ work[c].stage # "again"
    BY <1>4, <2>1 DEF MissesTrue
  <2>3. work[c].known \subseteq Given
    BY <2>1 DEF NumbersOK
  <2>4. \A known : known = work[c].known => Uncreated(known, u)'
    BY <1>3, <2>2, <2>3
  <2> QED
    BY <1>4, <2>2, <2>4
<1>5. ASSUME \A c \in Client : \A u :
             /\ Answered(c)' /\ call'[c].op.kind = "Get" /\ call'[c].op.key = UserKey(u)
             /\ call'[c].status = "EKEYNOTFOUND"
             => /\ \A known : known = work'[c].known => Uncreated(known, u)'
                /\ work'[c].stage # "again"
      PROVE  MissesTrue'
  BY <1>5 DEF MissesTrue
<1>6. CASE ByServer
  <2>1. PICK s \in Server : /\ Boot(s) \/ ServerStep(s) \/ Crash(s)
                            /\ UNCHANGED <<script, work, told>>
    BY <1>6 DEF ByServer
  <2>2. ASSUME NEW c \in Client, NEW u, call'[c] # call[c], Answered(c)',
               call'[c].op.kind = "Get", call'[c].op.key = UserKey(u),
               call'[c].status = "EKEYNOTFOUND"
        PROVE  /\ \A known : known = work'[c].known => Uncreated(known, u)'
               /\ work'[c].stage # "again"
    <3>1. HubAnswers(c)
      BY <1>1, <2>1, <2>2, AnsweredByHub
    <3>2. call'[c].op = call[c].op /\ ~Idle(c)
      BY <1>1, <2>1, <2>2, ClientOps DEF Answered, Idle
    <3>3. /\ \A b \in Ok("CreateUser") : b.task.user = u => u = CommandUser
          /\ work[c].stage # "again"
      BY <1>1, <2>2, <3>1, <3>2, HubMisses
    <3>4. Ok("CreateUser")' = Ok("CreateUser")
      BY <2>1 DEF Ok
    <3> QED
      BY <2>1, <3>3, <3>4 DEF Uncreated, OkIn
  <2> QED
    BY <1>4, <1>5, <2>1, <2>2
<1>7. ASSUME NEW c \in Client, Alone(c)
      PROVE  MissesTrue'
  BY <1>4, <1>5, <1>7 DEF Alone
<1>8. CASE UNCHANGED tvars
  BY <1>4, <1>5, <1>8 DEF tvars, vars
<1> QED
  BY <1>1, <1>6, <1>7, <1>8, TribblerSteps

-----------------------------------------------------------------------------
(* Removals. *)

\* The operation of c, a removal, is to end a subscription it knows of.
KnowsAdded(c) ==
    \E b \in OkIn(work[c].known, "AddSubscription") :
        b.task.user = work[c].task.user /\ b.task.arg = work[c].task.arg

\* The entry server still has what c is to remove, and has not answered.
Removable(c) ==
    /\ Plain(work[c].task.arg) \in ItemsAt(lists[Hub], SubKey(work[c].task.user))
    /\ ~(work[c].stage = "write" /\ Answered(c))

\* Somebody else was asked for the same, or c itself before.
Repeated(c) ==
    \/ \E a \in told : a.task = work[c].task
    \/ \E d \in Client : d # c /\ ~Idle(d) /\ work[d].task = work[c].task

\* The entry server has done what c asks for, and has perhaps said so.
Obeyed(c) ==
    \/ pc[Hub] = "bcast" /\ job[Hub].from = c
    \/ work[c].stage = "write" /\ Answered(c) /\ call[c].status = "OK"

Removes(c) == Removable(c) \/ Repeated(c) \/ Obeyed(c)

\* Whoever is to remove what is known to be there can, or is not the only one.
RemovalsGo ==
    \A c \in Client : /\ ~Idle(c) /\ work[c].task.op = "RemoveSubscription" /\ KnowsAdded(c)
                      => Removes(c)

\* What the entry server stores it was asked for by a Tribbler server.
LEMMA HubAsked ==
    ASSUME OneEntryOnly, HubInv, faults = 0, NEW h, Serves(Hub, h), Obeys(Hub, h) \/ Accepts(Hub, h)
    PROVE  h.from \in Client /\ Accepts(Hub, h)
<1>1. /\ CoreInv /\ Up /\ RoutesInv /\ Hub \in Server /\ \A c \in Client : Entry[c] = Hub
      /\ LoopsOK
  BY HubServes DEF HubInv, BaseInv, UpInv, TribblerInv, CoreInv, TypeInv
<1>2. ASSUME h.from \in Server
      PROVE  FALSE
  <2>1. pc[Hub] = "serve" /\ inbox[Hub] # <<>> /\ h = Head(inbox[Hub]) /\ h.live /\ h.from # Hub
    BY DEF Serves, Asks
  <2>2. pc[h.from] = "bcast"
    BY <1>1, <1>2, <2>1, ServerRequest
  <2>3. Entry[job[h.from].from] = h.from /\ job[h.from].from \in Client
    BY <1>1, <1>2, <2>2 DEF RoutesInv, RouteOK, LoopsOK
  <2> QED
    BY <1>1, <2>1, <2>3
<1> QED
  BY <1>2 DEF Obeys, Accepts

\* The entry server does not lose c's removal: it stores it, and answers OK.
LEMMA RemovesByServer ==
    ASSUME OneEntryOnly, HubInv, faults = 0, faults' = 0,
           NEW s \in Server, Boot(s) \/ ServerStep(s) \/ Crash(s),
           UNCHANGED <<script, work, told>>,
           NEW c \in Client, ~Idle(c), work[c].task.op = "RemoveSubscription", Removes(c)
    PROVE  Removes(c)'
<1> DEFINE u == work[c].task.user
           v == work[c].task.arg
           k == SubKey(u)
<1>1. /\ CoreInv /\ TypeOK /\ Up /\ CallsFit /\ Rep(AtHub) /\ RoutesInv /\ TribblerTypeOK
      /\ Hub \in Server
  BY HubServes DEF HubInv, BaseInv, UpInv, Fits, TribblerInv, CoreInv, TypeInv
<1>2. /\ call'[c].op = call[c].op /\ \A d \in Client : Idle(d)' <=> Idle(d)
      /\ Answered(c) => call'[c] = call[c]
  BY <1>1, ClientOps
<1>3. AskedFor(work[c], call[c].op)
  BY <1>1 DEF CallsFit
<1>4. call[c].op.kind \notin {"Get", "GetList"} =>
         /\ work[c].stage = "write" /\ call[c].op.kind = "RemoveFromList"
         /\ call[c].op.key = k /\ call[c].op.item = Plain(v)
  BY <1>3, StageAsks
<1>5. CASE Repeated(c)
  BY <1>2, <1>5 DEF Repeated, Removes
<1>6. CASE work[c].stage = "write" /\ Answered(c) /\ call[c].status = "OK"
  BY <1>2, <1>6 DEF Obeyed, Removes, Answered
<1>7. ASSUME HubAnswers(c), pc[Hub] = "bcast", job[Hub].from = c
      PROVE  Removes(c)'
  <2>1. PICK status, values : Gets(c, status, values) /\ status = "OK"
                              /\ SameWrite(call[c].op, job[Hub]) /\ Writes(job[Hub])
    BY <1>7 DEF HubAnswers
  <2>2. work[c].stage = "write"
    BY <1>4, <2>1 DEF SameWrite, Writes
  <2> QED
    BY <2>1, <2>2 DEF Gets, Answered, Obeyed, Removes
<1>8. CASE pc[Hub] = "bcast" /\ job[Hub].from = c
  <2>1. CASE call'[c] # call[c]
    <3>1. HubAnswers(c)
      BY <1>1, <2>1, AnsweredByHub
    <3> QED
      BY <1>7, <1>8, <3>1
  <2>2. CASE call'[c] = call[c]
    <3>1. ASSUME NEW status, Concludes(s, status), s = Hub
          PROVE  FALSE
      BY <1>8, <2>2, <3>1 DEF Concludes, Gets, Waiting
    <3>2. pc'[Hub] = "bcast" /\ job'[Hub].from = c
      BY <1>1, <1>8, <3>1, ServerDoes DEF Serves, Refuses, Obeys, Accepts, Calls, MovesOn, Concludes
    <3> QED
      BY <3>2 DEF Obeyed, Removes
  <2> QED
    BY <2>1, <2>2
<1>9. CASE Removable(c)
  <2>1. CASE call'[c] # call[c]
    <3>1. HubAnswers(c)
      BY <1>1, <2>1, AnsweredByHub
    <3>2. PICK status, values :
             /\ Gets(c, status, values)
             /\ \/ /\ pc[Hub] = "bcast" /\ job[Hub].from = c
                \/ \E h \in Request : /\ call[c].op.kind = h.kind /\ call[c].op.key = h.key
                                      /\ call[c].op.item = h.item
                                      /\ Says(Hub, h, status, values)
      BY <3>1 DEF HubAnswers
    <3>3. UNCHANGED lists
      BY <3>1 DEF HubAnswers
    <3>4. CASE work[c].stage # "write"
      BY <1>9, <3>3, <3>4 DEF Removable, Removes
    <3>5. CASE pc[Hub] = "bcast" /\ job[Hub].from = c
      BY <1>7, <3>1, <3>5
    <3>6. ASSUME NEW h \in Request, work[c].stage = "write",
                 call[c].op.kind = h.kind, call[c].op.key = h.key, call[c].op.item = h.item,
                 Says(Hub, h, status, values)
          PROVE  FALSE
      <4>1. h.kind = "RemoveFromList" /\ h.key = k /\ h.item = Plain(v)
        BY <1>3, <3>6, StageAsks
      <4>2. h.key \notin DOMAIN lists[Hub] \/ h.item \notin ItemsAt(lists[Hub], h.key)
        BY <3>6, <4>1 DEF Says
      <4> QED
        BY <1>9, <4>1, <4>2 DEF Removable, ItemsAt
    <3> QED
      BY <3>2, <3>4, <3>5, <3>6
  <2>2. CASE call'[c] = call[c] /\ Plain(v) \in ItemsAt(lists'[Hub], k)
    BY <1>9, <2>2 DEF Removable, Removes, Answered
  <2>3. CASE Plain(v) \notin ItemsAt(lists'[Hub], k)
    <3>1. Plain(v) \in ItemsAt(lists[Hub], k)
      BY <1>9 DEF Removable
    <3>2. PICK h : Serves(s, h) /\ (Obeys(s, h) \/ Accepts(s, h))
      <4>1. ASSUME NEW h, Serves(s, h), Refuses(s, h)
            PROVE  FALSE
        BY <2>3, <3>1, <4>1 DEF Refuses
      <4>2. ~(Calls(s) \/ MovesOn(s) \/ \E status : Concludes(s, status))
        BY <2>3, <3>1 DEF Calls, MovesOn, Concludes
      <4>3. \/ Serves(s, Head(inbox[s])) \/ Calls(s) \/ MovesOn(s)
            \/ \E status : Concludes(s, status)
        BY <1>1, ServerDoes
      <4> QED
        BY <4>1, <4>2, <4>3 DEF Serves
    <3>3. s = Hub
      BY <1>1, <2>3, <3>1, <3>2 DEF Serves
    <3>4. h.from \in Client /\ Accepts(Hub, h)
      BY <3>2, <3>3, HubAsked
    <3>5. /\ h \in Request /\ ~Idle(h.from)
          /\ call[h.from].op.kind = h.kind /\ call[h.from].op.key = h.key
          /\ call[h.from].op.item = h.item
      BY <3>2 DEF Serves, Asks, Waiting, Idle
    <3>6. PICK r : Stores(Hub, h, r)
      BY <3>4 DEF Accepts
    <3>7. PICK item \in Item :
             /\ \/ h.kind = "Put" /\ StoresPut(Hub, h.key)
                \/ h.kind = "AddToList" /\ StoresItem(Hub, h.key, item)
                \/ h.kind = "RemoveFromList" /\ StoresRemoval(Hub, h.key, item)
             /\ IsPost(h) \/ item = h.item
      BY <3>6 DEF Stores
    <3>8. h.key = k
      BY <2>3, <3>1, <3>6, StoresElsewhere DEF SameAt
    <3>9. h.kind = "RemoveFromList" /\ StoresRemoval(Hub, k, item)
      BY <2>3, <3>1, <3>7, <3>8, PutHeld, ItemHeld
    <3>10. item = Plain(v)
      BY <2>3, <3>1, <3>9, RemovalHeld
    <3>11. h.item = Plain(v)
      BY <3>7, <3>9, <3>10 DEF IsPost
    <3>12. AskedFor(work[h.from], call[h.from].op)
      BY <1>1, <3>4, <3>5 DEF CallsFit
    <3>13. /\ work[h.from].stage = "write" /\ work[h.from].task.op = "RemoveSubscription"
           /\ SubKey(work[h.from].task.user) = k /\ Plain(work[h.from].task.arg) = Plain(v)
      BY <3>5, <3>8, <3>9, <3>11, <3>12, StageAsks DEF Writers
    <3>14. work[h.from].task.user = u /\ work[h.from].task.arg = v
      BY <3>13, KeysApart
    <3>15. work[h.from].task = work[c].task
      <4>1. work[h.from].task \in Task /\ work[c].task \in Task
        BY <1>1, <3>4 DEF TribblerTypeOK
      <4> QED
        BY <3>13, <3>14, <4>1 DEF Task
    <3>16. CASE h.from # c
      BY <1>2, <3>4, <3>5, <3>15, <3>16 DEF Repeated, Removes
    <3>17. CASE h.from = c
      BY <3>4, <3>17 DEF Accepts, Obeyed, Removes
    <3> QED
      BY <3>16, <3>17
  <2> QED
    BY <2>1, <2>2, <2>3
<1> QED
  BY <1>5, <1>6, <1>8, <1>9 DEF Removes, Obeyed

\* Others that ask for the same go on asking, or have been answered.
LEMMA StillRepeated ==
    ASSUME NEW c \in Client, Repeated(c), work'[c].task = work[c].task, NEW d \in Client, Alone(d),
           Begins(d) \/ (\E w : Turns(d, w)) \/ (\E a : Tells(d, a))
    PROVE  Repeated(c)'
<1>1. CASE \E a \in told : a.task = work[c].task
  <2>1. told \subseteq told'
    BY DEF Begins, Turns, Tells
  <2> QED
    BY <1>1, <2>1 DEF Repeated
<1>2. ASSUME NEW e \in Client, e # c, ~Idle(e), work[e].task = work[c].task
      PROVE  Repeated(c)'
  <2>1. CASE e # d
    BY <1>2, <2>1 DEF Alone, Idle, Repeated
  <2>2. CASE e = d
    <3>1. ~Begins(d)
      BY <1>2, <2>2 DEF Begins
    <3>2. ASSUME NEW w, Turns(d, w) PROVE Repeated(c)'
      BY <1>2, <2>2, <3>2 DEF Turns, Repeated, Idle, Waiting
    <3>3. ASSUME NEW a, Tells(d, a) PROVE Repeated(c)'
      BY <1>2, <2>2, <3>3 DEF Tells, Repeated
    <3> QED
      BY <3>1, <3>2, <3>3
  <2> QED
    BY <2>1, <2>2
<1> QED
  BY <1>1, <1>2 DEF Repeated

\* An operation that begins with what has been told.
LEMMA RemovalBegins ==
    ASSUME OneEntryOnly, HubInv, ToldInv, faults = 0, NEW c \in Client, Alone(c), Begins(c),
           work'[c].task.op = "RemoveSubscription", work'[c].task \in Task,
           NEW b \in Ok("AddSubscription"),
           b.task.user = work'[c].task.user, b.task.arg = work'[c].task.arg
    PROVE  Removes(c)'
<1> DEFINE u == work'[c].task.user
           v == work'[c].task.arg
<1>1. ToldKept /\ TribblerTypeOK /\ Hub \in Server
  BY HubServes DEF ToldInv, HubInv, BaseInv, TribblerInv
<1>2. Kept(SubKey(u), Plain(v))
  BY <1>1 DEF ToldKept, Brings, Ok
<1>3. CASE Stored(SubKey(u), Plain(v))
  <2>1. Plain(v) \in ItemsAt(lists[Hub], SubKey(u))
    BY <1>1, <1>3, StoredItems, KeysApart
  <2> QED
    BY <2>1 DEF Alone, store, Removable, Removes
<1>4. CASE Undone(SubKey(u), Plain(v))
  <2>1. PICK t \in Begun("RemoveSubscription") : SubKey(u) = SubKey(t.user) /\ Plain(v) = Plain(t.arg)
    BY <1>4 DEF Undone
  <2>2. t.user = u /\ t.arg = v /\ t.op = "RemoveSubscription"
    BY <2>1, KeysApart DEF Begun
  <2>3. t \in Task
    BY <1>1 DEF Begun, TribblerTypeOK
  <2>4. t = work'[c].task
    BY <2>2, <2>3 DEF Task
  <2>5. CASE \E a \in told : t = a.task
    BY <2>4, <2>5 DEF Begins, Repeated, Removes
  <2>6. ASSUME NEW e \in Client, ~Idle(e), t = work[e].task
        PROVE  Removes(c)'
    <3>1. e # c
      BY <2>6 DEF Begins
    <3>2. work'[e] = work[e] /\ call'[e] = call[e]
      BY <3>1 DEF Alone
    <3> QED
      BY <2>4, <2>6, <3>1, <3>2 DEF Repeated, Removes, Idle
  <2> QED
    BY <2>5, <2>6 DEF Begun
<1> QED
  BY <1>2, <1>3, <1>4 DEF Kept

\* Every step.
LEMMA RemovalsNext ==
    ASSUME OneEntryOnly, HubInv, ToldInv, NumbersOK, RemovalsGo, [TNext]_tvars, faults' = 0
    PROVE  RemovalsGo'
<1>1. /\ BaseInv /\ faults = 0 /\ CoreInv /\ Up /\ CallsFit /\ TribblerTypeOK'
  BY TribblerStep, TribblerNext DEF HubInv, BaseInv, TribblerInv
<1>2. \A known, op : known \subseteq Given => OkIn(known, op)' = OkIn(known, op)
  BY <1>1, NumbersNext
<1>3. ASSUME NEW c \in Client, ~Idle(c), work'[c].known = work[c].known,
             work'[c].task = work[c].task
      PROVE  KnowsAdded(c)' => KnowsAdded(c)
  <2>1. work[c].known \subseteq Given
    BY <1>3 DEF NumbersOK
  <2>2. \A known : known = work[c].known =>
           OkIn(known, "AddSubscription")' = OkIn(known, "AddSubscription")
    BY <1>2, <2>1
  <2> QED
    BY <1>3, <2>2 DEF KnowsAdded
<1>4. CASE ByServer
  <2>1. PICK s \in Server : /\ Boot(s) \/ ServerStep(s) \/ Crash(s)
                            /\ UNCHANGED <<script, work, told>>
    BY <1>4 DEF ByServer
  <2>2. ASSUME NEW c \in Client, ~Idle(c)', work'[c].task.op = "RemoveSubscription",
               KnowsAdded(c)'
        PROVE  Removes(c)'
    <3>1. ~Idle(c) /\ work[c].task.op = "RemoveSubscription"
      BY <1>1, <2>1, <2>2, ClientOps
    <3>2. Removes(c)
      BY <1>3, <2>1, <2>2, <3>1 DEF RemovalsGo
    <3> QED
      BY <1>1, <2>1, <3>1, <3>2, RemovesByServer
  <2> QED
    BY <2>2 DEF RemovalsGo
<1>5. ASSUME NEW d \in Client, Alone(d),
             Begins(d) \/ (\E w : Turns(d, w)) \/ (\E a : Tells(d, a)),
             NEW c \in Client, c # d, ~Idle(c)', work'[c].task.op = "RemoveSubscription",
             KnowsAdded(c)'
      PROVE  Removes(c)'
  <2>1. work'[c] = work[c] /\ call'[c] = call[c] /\ ~Idle(c)
    BY <1>5 DEF Alone, Idle
  <2>2. Removes(c)
    BY <1>3, <1>5, <2>1 DEF RemovalsGo
  <2>3. CASE Repeated(c)
    BY <1>5, <2>1, <2>3, StillRepeated DEF Removes
  <2>4. CASE Removable(c) \/ Obeyed(c)
    BY <1>5, <2>1, <2>4 DEF Removable, Obeyed, Removes, Alone, store, Answered
  <2> QED
    BY <2>2, <2>3, <2>4 DEF Removes
<1>6. ASSUME NEW c \in Client, Alone(c), Begins(c)
      PROVE  RemovalsGo'
  <2>1. ASSUME work'[c].task.op = "RemoveSubscription", KnowsAdded(c)'
        PROVE  Removes(c)'
    <3>1. PICK b \in Ok("AddSubscription") : b.task.user = work'[c].task.user
                                             /\ b.task.arg = work'[c].task.arg
      BY <1>6, <2>1 DEF KnowsAdded, OkIn, Ok, Begins
    <3>2. work'[c].task \in Task
      BY <1>1 DEF TribblerTypeOK
    <3> QED
      BY <1>1, <1>6, <2>1, <3>1, <3>2, RemovalBegins
  <2> QED
    BY <1>5, <1>6, <2>1 DEF RemovalsGo
<1>7. ASSUME NEW c \in Client, Alone(c), NEW w, Turns(c, w)
      PROVE  RemovalsGo'
  <2>1. ASSUME work'[c].task.op = "RemoveSubscription", KnowsAdded(c)'
        PROVE  Removes(c)'
    <3>1. /\ work'[c].task = work[c].task /\ work'[c].known = work[c].known /\ ~Idle(c)
          /\ Answered(c) /\ GoesFrom(c, w)
      BY <1>7 DEF Turns, Answered, Idle
    <3>2. Removes(c)
      BY <1>3, <2>1, <3>1 DEF RemovalsGo
    <3>3. CASE Repeated(c)
      BY <1>7, <3>1, <3>3, StillRepeated DEF Removes
    <3>4. CASE Removable(c)
      BY <1>7, <3>1, <3>4 DEF Removable, Removes, Alone, store
    <3>5. work[c].stage # "write"
      BY <3>1 DEF GoesFrom
    <3>6. CASE Obeyed(c)
      BY <1>7, <3>5, <3>6 DEF Obeyed, Removes, Alone, store
    <3> QED
      BY <3>2, <3>3, <3>4, <3>6 DEF Removes
  <2> QED
    BY <1>5, <1>7, <2>1 DEF RemovalsGo
<1>8. ASSUME NEW c \in Client, Alone(c), NEW a, Tells(c, a)
      PROVE  RemovalsGo'
  BY <1>5, <1>8 DEF RemovalsGo, Tells
<1>9. CASE UNCHANGED tvars
  <2>1. ASSUME NEW c \in Client
        PROVE  /\ Idle(c)' <=> Idle(c)
               /\ KnowsAdded(c)' <=> KnowsAdded(c)
               /\ Removes(c) => Removes(c)'
    BY <1>9 DEF tvars, vars, Idle, KnowsAdded, OkIn, Ok, Removes, Removable, Repeated, Obeyed,
       Answered
  <2> QED
    BY <1>9, <2>1 DEF tvars, RemovalsGo
<1> QED
  BY <1>1, <1>4, <1>6, <1>7, <1>8, <1>9, TribblerSteps

-----------------------------------------------------------------------------
(* Who asked for what is there. *)

\* Both tasks are to store the same.
SameAim(t, w) == t.op = w.op /\ t.user = w.user /\ (t.op = "CreateUser" \/ t.arg = w.arg)

\* The entry server has what the task is to store.  The tribbles of a user with a name
\* are left out: no two of them are the same.
IsThere(task) ==
    \/ task.op = "CreateUser" /\ There(task.user)
    \/ task.op = "AddSubscription" /\ Plain(task.arg) \in ItemsAt(lists[Hub], SubKey(task.user))
    \/ /\ task.op = "PostTribble" /\ task.user = ""
       /\ Plain(task.arg) \in ItemsAt(lists[Hub], TribbleKey(task.user))

\* The servers use the name of the user themselves.
IsOwn(task) == task.op = "CreateUser" /\ task.user \in OwnNames

\* The entry server has stored what c asked for.
HasWritten(c) == ~Idle(c) /\ work[c].stage = "write" /\ Obeyed(c)

\* Nothing is there that was not asked for.
Origin(task) ==
    \/ IsOwn(task)
    \/ \E a \in told : SameAim(a.task, task)
    \/ \E d \in Client : HasWritten(d) /\ SameAim(work[d].task, task)

Origins == \A task \in Task : IsThere(task) => Origin(task)

\* c is not the only one that was asked for it.
Elsewhere(c) ==
    \/ IsOwn(work[c].task)
    \/ \E a \in told : SameAim(a.task, work[c].task)
    \/ \E d \in Client : d # c /\ ~Idle(d) /\ SameAim(work[d].task, work[c].task)

\* The store has turned c down.
TurnedDown(c) ==
    /\ Answered(c) /\ work[c].stage = "write" /\ call[c].status # "OK"
    /\ work[c].task.op \in {"CreateUser", "AddSubscription", "PostTribble"}

Refusals == \A c \in Client : TurnedDown(c) => Elsewhere(c)

\* Whoever it has not obeyed is not the origin of what is there.
LEMMA OthersOrigin ==
    ASSUME NEW c \in Client, Origin(work[c].task), ~HasWritten(c)
    PROVE  Elsewhere(c)
  BY DEF Origin, Elsewhere, HasWritten

\* What the entry server has done for c it goes on doing, and says so.
LEMMA WroteStays ==
    ASSUME OneEntryOnly, HubInv, faults = 0, faults' = 0,
           NEW s \in Server, Boot(s) \/ ServerStep(s) \/ Crash(s),
           UNCHANGED <<script, work, told>>, NEW c \in Client, HasWritten(c)
    PROVE  HasWritten(c)'
<1>1. CoreInv /\ Up /\ CallsFit /\ Hub \in Server
  BY HubServes DEF HubInv, BaseInv, UpInv, Fits, TribblerInv
<1>2. (Idle(c)' <=> Idle(c)) /\ (Answered(c) => call'[c] = call[c])
  BY <1>1, ClientOps
<1>3. CASE Answered(c) /\ call[c].status = "OK"
  BY <1>2, <1>3 DEF HasWritten, Obeyed, Answered
<1>4. CASE pc[Hub] = "bcast" /\ job[Hub].from = c /\ call'[c] # call[c]
  <2>1. HubAnswers(c)
    BY <1>1, <1>4, AnsweredByHub
  <2>2. PICK status, values : Gets(c, status, values) /\ status = "OK"
    BY <1>4, <2>1 DEF HubAnswers
  <2> QED
    BY <1>2, <2>2 DEF Gets, Answered, Obeyed, HasWritten
<1>5. CASE pc[Hub] = "bcast" /\ job[Hub].from = c /\ call'[c] = call[c]
  <2>1. ASSUME NEW status, Concludes(s, status), s = Hub
        PROVE  FALSE
    BY <1>5, <2>1 DEF Concludes, Gets, Waiting
  <2>2. pc'[Hub] = "bcast" /\ job'[Hub].from = c
    BY <1>1, <1>5, <2>1, ServerDoes DEF Serves, Refuses, Obeys, Accepts, Calls, MovesOn, Concludes
  <2> QED
    BY <1>2, <2>2 DEF Obeyed, HasWritten
<1> QED
  BY <1>3, <1>4, <1>5 DEF HasWritten, Obeyed

\* What the entry server comes to have it has just been asked for.
LEMMA ThereBegins ==
    ASSUME OneEntryOnly, HubInv, faults = 0, faults' = 0,
           NEW s \in Server, Boot(s) \/ ServerStep(s) \/ Crash(s),
           UNCHANGED <<script, work, told>>, NEW task \in Task, IsThere(task)', ~IsThere(task)
    PROVE  \E c \in Client : HasWritten(c)' /\ SameAim(work[c].task, task)
<1>1. /\ CoreInv /\ Up /\ CallsFit /\ TribblerTypeOK /\ Hub \in Server
      /\ faults' = 0
  BY HubServes DEF HubInv, BaseInv, UpInv, Fits, TribblerInv
<1>2. \/ simple'[Hub] # simple[Hub]
      \/ lists'[Hub] # lists[Hub]
  BY DEF IsThere, There
<1>3. PICK h : Serves(s, h) /\ (Obeys(s, h) \/ Accepts(s, h))
  <2>1. ASSUME NEW h, Serves(s, h), Refuses(s, h)
        PROVE  FALSE
    BY <1>2, <2>1 DEF Refuses
  <2>2. ~(Calls(s) \/ MovesOn(s) \/ \E status : Concludes(s, status))
    BY <1>2 DEF Calls, MovesOn, Concludes
  <2>3. \/ Serves(s, Head(inbox[s])) \/ Calls(s) \/ MovesOn(s)
        \/ \E status : Concludes(s, status)
    BY <1>1, ServerDoes
  <2> QED
    BY <2>1, <2>2, <2>3 DEF Serves
<1>4. s = Hub
  BY <1>1, <1>2, <1>3 DEF Serves
<1>5. h.from \in Client /\ Accepts(Hub, h)
  BY <1>3, <1>4, HubAsked
<1> DEFINE c == h.from
<1>6. /\ ~Idle(c) /\ call[c].op.kind = h.kind /\ call[c].op.key = h.key
      /\ call[c].op.item = h.item
  BY <1>3 DEF Serves, Asks, Waiting, Idle
<1>7. AskedFor(work[c], call[c].op)
  BY <1>1, <1>5, <1>6 DEF CallsFit
<1>8. PICK r : Stores(Hub, h, r)
  BY <1>5 DEF Accepts
<1>9. PICK item \in Item :
         /\ \/ h.kind = "Put" /\ StoresPut(Hub, h.key)
            \/ h.kind = "AddToList" /\ StoresItem(Hub, h.key, item)
            \/ h.kind = "RemoveFromList" /\ StoresRemoval(Hub, h.key, item)
         /\ IsPost(h) \/ item = h.item
  BY <1>8 DEF Stores
<1>10. ~Idle(c)'
  BY <1>1, <1>5, <1>6, ClientOps
<1>11. pc'[Hub] = "bcast" /\ job'[Hub].from = c
  BY <1>5 DEF Accepts
<1>12. ASSUME work[c].stage = "write", SameAim(work[c].task, task)
       PROVE  \E d \in Client : HasWritten(d)' /\ SameAim(work[d].task, task)
  BY <1>5, <1>10, <1>11, <1>12 DEF HasWritten, Obeyed
<1>13. CASE task.op = "CreateUser" /\ ~There(task.user) /\ There(task.user)'
  <2>1. h.key = UserKey(task.user)
    BY <1>8, <1>13, StoresElsewhere DEF SameAt, There
  <2>2. h.kind = "Put"
    BY <1>9, <1>13 DEF StoresItem, StoresRemoval, There
  <2>3. /\ work[c].stage = "write" /\ work[c].task.op = "CreateUser"
        /\ UserKey(work[c].task.user) = UserKey(task.user)
    BY <1>6, <1>7, <2>1, <2>2, StageAsks DEF Writers
  <2>4. work[c].task.user = task.user
    BY <2>3 DEF UserKey
  <2> QED
    BY <1>12, <1>13, <2>3, <2>4 DEF SameAim
<1>14. ASSUME NEW k, Plain(task.arg) \in ItemsAt(lists'[Hub], k),
              Plain(task.arg) \notin ItemsAt(lists[Hub], k), ~IsTribble(k)
       PROVE  /\ call[c].op.kind = "AddToList" /\ call[c].op.key = k
              /\ call[c].op.item = Plain(task.arg)
  <2>1. h.key = k
    BY <1>8, <1>14, StoresElsewhere DEF SameAt
  <2>2. h.kind = "AddToList" /\ StoresItem(Hub, k, item)
    BY <1>9, <1>14, <2>1, PutHeld, RemovalHeld
  <2>3. item = Plain(task.arg)
    BY <1>14, <2>2, ItemHeld
  <2>4. h.item = Plain(task.arg)
    BY <1>9, <1>14, <2>1, <2>3 DEF IsPost
  <2> QED
    BY <1>6, <2>1, <2>2, <2>4
<1>15. CASE /\ task.op = "AddSubscription"
            /\ Plain(task.arg) \in ItemsAt(lists'[Hub], SubKey(task.user))
            /\ Plain(task.arg) \notin ItemsAt(lists[Hub], SubKey(task.user))
  <2>1. /\ call[c].op.kind = "AddToList" /\ call[c].op.key = SubKey(task.user)
        /\ call[c].op.item = Plain(task.arg)
    BY <1>14, <1>15, KeysApart
  <2>2. /\ work[c].stage = "write" /\ work[c].task.op = "AddSubscription"
        /\ work[c].task.user = task.user /\ Plain(work[c].task.arg) = Plain(task.arg)
    BY <1>7, <2>1, SubscriptionAsked
  <2>3. work[c].task.arg = task.arg
    BY <2>2, KeysApart
  <2> QED
    BY <1>12, <1>15, <2>2, <2>3 DEF SameAim
<1>16. CASE /\ task.op = "PostTribble" /\ task.user = ""
            /\ Plain(task.arg) \in ItemsAt(lists'[Hub], TribbleKey(task.user))
            /\ Plain(task.arg) \notin ItemsAt(lists[Hub], TribbleKey(task.user))
  <2>1. ~IsTribble(TribbleKey(task.user))
    BY <1>16 DEF IsTribble, TribbleKey
  <2>2. /\ call[c].op.kind = "AddToList" /\ call[c].op.key = TribbleKey(task.user)
        /\ call[c].op.item = Plain(task.arg)
    BY <1>14, <1>16, <2>1
  <2>3. work[c].stage = "write"
    BY <1>7, <2>2, StageAsks, KeysApart
  <2>4. work[c].task.op = "PostTribble"
    BY <1>7, <2>2, <2>3, StageAsks, KeysApart DEF Writers
  <2>5. TribbleKey(work[c].task.user) = TribbleKey(task.user) /\ Plain(work[c].task.arg) = Plain(task.arg)
    BY <1>7, <2>2, <2>3, <2>4, StageAsks
  <2>6. work[c].task.user = task.user /\ work[c].task.arg = task.arg
    BY <2>5, KeysApart
  <2> QED
    BY <1>12, <1>16, <2>3, <2>4, <2>6 DEF SameAim
<1> QED
  BY <1>13, <1>15, <1>16 DEF IsThere

\* Whoever the entry server turns down asked for what is there.
LEMMA RefusedThere ==
    ASSUME OneEntryOnly, HubInv, faults = 0, NEW c \in Client, ~Idle(c), HubAnswers(c),
           AnswerTrue(c)', UNCHANGED work, TurnedDown(c)'
    PROVE  IsThere(work[c].task) /\ ~HasWritten(c)
<1>1. CallsFit /\ Hub \in Server
  BY HubServes DEF HubInv, BaseInv, Fits
<1>2. PICK status, values :
         /\ Gets(c, status, values)
         /\ \/ status = "OK"
            \/ \E h \in Request : /\ pc[Hub] = "serve" /\ h.from = c
                                  /\ call[c].op.kind = h.kind /\ call[c].op.key = h.key
                                  /\ call[c].op.item = h.item
                                  /\ Says(Hub, h, status, values)
  BY DEF HubAnswers
<1>3. call'[c].status = status /\ status # "OK" /\ call'[c].op = call[c].op /\ Waiting(c)
  BY <1>2 DEF Gets, TurnedDown
<1>4. PICK h \in Request : /\ pc[Hub] = "serve" /\ h.from = c
                           /\ call[c].op.kind = h.kind /\ call[c].op.key = h.key
                           /\ call[c].op.item = h.item
                           /\ Says(Hub, h, status, values)
  BY <1>2, <1>3
<1>5. ~HasWritten(c)
  BY <1>3, <1>4 DEF HasWritten, Obeyed, Waiting, Answered
<1>6. /\ work[c].stage = "write" /\ AskedFor(work[c], call[c].op)
      /\ work[c].task.op \in {"CreateUser", "AddSubscription", "PostTribble"}
  BY <1>1 DEF TurnedDown, CallsFit
<1>7. CASE work[c].task.op = "CreateUser"
  <2>1. h.kind = "Put" /\ h.key = UserKey(work[c].task.user)
    BY <1>4, <1>6, <1>7, StageAsks
  <2>2. h.key \in DOMAIN simple[Hub]
    BY <1>3, <1>4, <2>1 DEF Says
  <2> QED
    BY <1>5, <1>7, <2>1, <2>2 DEF IsThere, There
<1>8. ASSUME call[c].op.kind = "AddToList"
      PROVE  ~IsTribble(h.key) /\ h.item \in ItemsAt(lists[Hub], h.key)
  <2>1. ~IsTribble(h.key)
    BY <1>3, <1>4, <1>8 DEF AnswerTrue
  <2> QED
    BY <1>3, <1>4, <1>8, <2>1 DEF Says, IsPost
<1>9. CASE work[c].task.op = "AddSubscription"
  <2>1. /\ call[c].op.kind = "AddToList" /\ call[c].op.key = SubKey(work[c].task.user)
        /\ call[c].op.item = Plain(work[c].task.arg)
    BY <1>6, <1>9, StageAsks
  <2> QED
    BY <1>4, <1>5, <1>8, <1>9, <2>1 DEF IsThere
<1>10. CASE work[c].task.op = "PostTribble"
  <2>1. /\ call[c].op.kind = "AddToList" /\ call[c].op.key = TribbleKey(work[c].task.user)
        /\ call[c].op.item = Plain(work[c].task.arg)
    BY <1>6, <1>10, StageAsks
  <2>2. ~IsTribble(TribbleKey(work[c].task.user))
    BY <1>4, <1>8, <2>1
  <2>3. work[c].task.user = ""
    BY <2>2 DEF IsTribble, TribbleKey
  <2> QED
    BY <1>4, <1>5, <1>8, <1>10, <2>1, <2>3 DEF IsThere
<1> QED
  BY <1>6, <1>7, <1>9, <1>10

\* Others that ask for the same go on asking, or have been answered.
LEMMA ElsewhereStays ==
    ASSUME NEW c \in Client, Elsewhere(c), work'[c].task = work[c].task, NEW d \in Client, Alone(d),
           Begins(d) \/ (\E w : Turns(d, w)) \/ (\E a : Tells(d, a))
    PROVE  Elsewhere(c)'
<1>1. CASE IsOwn(work[c].task) \/ \E a \in told : SameAim(a.task, work[c].task)
  <2>1. told \subseteq told'
    BY DEF Begins, Turns, Tells
  <2> QED
    BY <1>1, <2>1 DEF Elsewhere
<1>2. ASSUME NEW e \in Client, e # c, ~Idle(e), SameAim(work[e].task, work[c].task)
      PROVE  Elsewhere(c)'
  <2>1. CASE e # d
    BY <1>2, <2>1 DEF Alone, Idle, Elsewhere
  <2>2. CASE e = d
    <3>1. ~Begins(d)
      BY <1>2, <2>2 DEF Begins
    <3>2. ASSUME NEW w, Turns(d, w) PROVE Elsewhere(c)'
      BY <1>2, <2>2, <3>2 DEF Turns, Elsewhere, Idle, Waiting
    <3>3. ASSUME NEW a, Tells(d, a) PROVE Elsewhere(c)'
      BY <1>2, <2>2, <3>3 DEF Tells, Elsewhere
    <3> QED
      BY <3>1, <3>2, <3>3
  <2> QED
    BY <2>1, <2>2
<1> QED
  BY <1>1, <1>2 DEF Elsewhere

\* Every step of a server.
LEMMA OriginsByServer ==
    ASSUME OneEntryOnly, HubInv, Origins, Refusals, AnswersTrue', faults = 0, faults' = 0, ByServer
    PROVE  Origins' /\ Refusals'
<1>1. PICK s \in Server : (Boot(s) \/ ServerStep(s) \/ Crash(s)) /\ UNCHANGED <<script, work, told>>
  BY DEF ByServer
<1>2. CoreInv /\ Up /\ TribblerTypeOK
  BY DEF HubInv, BaseInv, UpInv, TribblerInv
<1>3. \A c \in Client : (Idle(c)' <=> Idle(c)) /\ (Answered(c) => call'[c] = call[c])
  BY <1>1, <1>2, ClientOps
<1>4. ASSUME NEW task \in Task, IsThere(task)'
      PROVE  Origin(task)'
  <2>1. CASE ~IsThere(task)
    BY <1>1, <1>4, <2>1, ThereBegins DEF Origin
  <2>2. CASE IsThere(task)
    <3>1. Origin(task)
      BY <2>2 DEF Origins
    <3>2. \A d \in Client : HasWritten(d) => HasWritten(d)'
      BY <1>1, WroteStays
    <3> QED
      BY <1>1, <3>1, <3>2 DEF Origin
  <2> QED
    BY <2>1, <2>2
<1>5. ASSUME NEW c \in Client, Elsewhere(c)
      PROVE  Elsewhere(c)'
  BY <1>1, <1>3, <1>5 DEF Elsewhere
<1>6. ASSUME NEW c \in Client, TurnedDown(c)'
      PROVE  Elsewhere(c)'
  <2>1. CASE call'[c] = call[c]
    <3>1. TurnedDown(c)
      BY <1>1, <1>6, <2>1 DEF TurnedDown, Answered
    <3> QED
      BY <1>5, <3>1 DEF Refusals
  <2>2. CASE call'[c] # call[c]
    <3>1. HubAnswers(c)
      BY <1>1, <2>2, AnsweredByHub
    <3>2. ~Idle(c) /\ AnswerTrue(c)'
      BY <1>3, <1>6 DEF TurnedDown, Answered, Idle, AnswersTrue
    <3>3. IsThere(work[c].task) /\ ~HasWritten(c)
      BY <1>1, <1>6, <3>1, <3>2, RefusedThere
    <3>4. work[c].task \in Task
      BY <1>2 DEF TribblerTypeOK
    <3> QED
      BY <1>5, <3>3, <3>4, OthersOrigin DEF Origins
  <2> QED
    BY <2>1, <2>2
<1> QED
  BY <1>4, <1>6 DEF Origins, Refusals

\* A Tribbler server that goes on or ends leaves what is there and who brought it.
LEMMA OriginsKept ==
    ASSUME Origins, Refusals, NEW d \in Client, Alone(d),
           Begins(d) \/ (\E w : Turns(d, w)) \/ (\E a : Tells(d, a))
    PROVE  Origins' /\ Refusals'
<1>1. \A task : IsThere(task)' => IsThere(task)
  BY DEF Alone, store, IsThere, There
<1>2. ASSUME NEW task, Origin(task)
      PROVE  Origin(task)'
  <2>1. told \subseteq told'
    BY DEF Begins, Turns, Tells
  <2>2. CASE IsOwn(task) \/ \E a \in told : SameAim(a.task, task)
    BY <2>1, <2>2 DEF Origin
  <2>3. ASSUME NEW e \in Client, HasWritten(e), SameAim(work[e].task, task)
        PROVE  Origin(task)'
    <3>1. CASE e # d
      <4>1. HasWritten(e)'
        BY <2>3, <3>1 DEF Alone, store, HasWritten, Obeyed, Idle, Answered
      <4> QED
        BY <2>3, <3>1, <4>1 DEF Alone, Origin
    <3>2. CASE e = d
      <4>1. ~Begins(d) /\ \A w : ~Turns(d, w)
        BY <2>3, <3>2 DEF Begins, Turns, GoesFrom, HasWritten
      <4>2. PICK a : Tells(d, a)
        BY <4>1
      <4> QED
        BY <2>3, <3>2, <4>2 DEF Tells, Origin
    <3> QED
      BY <3>1, <3>2
  <2> QED
    BY <1>2, <2>2, <2>3 DEF Origin
<1>3. ASSUME NEW c \in Client, TurnedDown(c)'
      PROVE  Elsewhere(c)'
  <2>1. c # d
    BY <1>3 DEF Alone, TurnedDown
  <2>2. work'[c] = work[c] /\ call'[c] = call[c]
    BY <2>1 DEF Alone
  <2>3. Elsewhere(c)
    BY <1>3, <2>2 DEF Refusals, TurnedDown, Answered
  <2> QED
    BY <2>2, <2>3, ElsewhereStays
<1> QED
  BY <1>1, <1>2, <1>3 DEF Origins, Refusals

\* Every step.
LEMMA OriginsNext ==
    ASSUME OneEntryOnly, HubInv, ToldInv, Origins, Refusals, [TNext]_tvars, faults' = 0
    PROVE  Origins' /\ Refusals'
<1>1. BaseInv /\ faults = 0 /\ AnswersTrue
  BY TribblerStep DEF HubInv, ToldInv
<1>2. AnswersTrue'
  BY <1>1, AnswersNext
<1>3. CASE ByServer
  BY <1>1, <1>2, <1>3, OriginsByServer
<1>4. CASE UNCHANGED tvars
  <2>1. /\ \A task : (IsThere(task)' <=> IsThere(task)) /\ (Origin(task) => Origin(task)')
        /\ \A c : (TurnedDown(c)' <=> TurnedDown(c)) /\ (Elsewhere(c) => Elsewhere(c)')
    BY <1>4 DEF tvars, vars, IsThere, There, Origin, HasWritten, Obeyed, Idle, Answered, TurnedDown,
       Elsewhere
  <2> QED
    BY <2>1 DEF Origins, Refusals
<1> QED
  BY <1>1, <1>3, <1>4, OriginsKept, TribblerSteps

\* At first the servers have their own names and nothing else.
LEMMA InitOrigins ==
    ASSUME B = N, OneEntryOnly, TInit
    PROVE  Origins /\ Refusals
<1>1. Hub \in Server /\ Hub <= B
  BY HubServes DEF Server
<1>2. simple[Hub] = RunningInfo /\ lists[Hub] = NoMap
  BY <1>1 DEF TInit, Init
<1>3. DOMAIN simple[Hub] = {ServerId, ServerStatus} /\ \A k : ItemsAt(lists[Hub], k) = {}
  BY <1>2 DEF RunningInfo, BootInfo, SetServerInfo, Bind, NoMap, ItemsAt
<1>4. ASSUME NEW task \in Task, IsThere(task)
      PROVE  Origin(task)
  <2>1. task.op = "CreateUser" /\ UserKey(task.user) \in {ServerId, ServerStatus}
    BY <1>3, <1>4 DEF IsThere, There
  <2>2. task.user \in OwnNames
    BY <2>1 DEF UserKey, ServerId, ServerStatus, OwnNames
  <2> QED
    BY <2>1, <2>2 DEF Origin, IsOwn
<1>5. \A c \in Client : ~Answered(c)
  BY NoCallType DEF TInit, Init, Idle, Proc, Answered
<1> QED
  BY <1>4, <1>5 DEF Origins, Refusals, TurnedDown

-----------------------------------------------------------------------------
(* What an answer says is so. *)

Truthful(a) ==
    /\ a.status # "INTERNAL_FAILURE"
    /\ a.status = "INVALID_USER" => Uncreated(a.known, a.task.user)
    /\ a.status = "INVALID_SUBSCRIBETO" =>
          \/ a.task.op = "AddSubscription" /\ a.task.arg = a.task.user
          \/ Uncreated(a.known, a.task.arg)
    /\ a.status \in {"EEXISTS", "STORE_FAILED"} =>
          \/ a.task.op = "CreateUser" /\ (a.task.user \in OwnNames \/ ~OnlyCreation(a))
          \/ a.task.op = "AddSubscription" /\ a.status = "EEXISTS" /\ ~IsUnique(a)
          \/ /\ a.task.op = "PostTribble" /\ a.status = "EEXISTS"
             /\ a.task.user = "" /\ ~IsUnique(a)
          \/ /\ a.task.op = "RemoveSubscription" /\ a.status = "STORE_FAILED"
             /\ IsUnique(a) =>
                  \A b \in OkIn(a.known, "AddSubscription") :
                      b.task.user # a.task.user \/ b.task.arg # a.task.arg

\* A Tribbler server that runs nothing has forgotten what it ran.
IdleBlank == \A c \in Client : Idle(c) => work[c].task.op = "CreateUser"

StatusInv ==
    faults = 0 => /\ NumbersOK /\ MissesTrue /\ RemovalsGo /\ Origins /\ Refusals /\ IdleBlank
                   /\ \A a \in told : Truthful(a)

\* What somebody has asked for twice has been asked for twice.
LEMMA NotUniqueStays ==
    ASSUME BaseInv, NumbersOK, IdleBlank, [TNext]_tvars, faults' = 0, NEW a \in told,
           a.task.op # "CreateUser", IsUnique(a)'
    PROVE  IsUnique(a)
<1>1. CoreInv /\ Up /\ CallsFit /\ TribblerTypeOK
  BY TribblerStep DEF BaseInv, TribblerInv
<1>2. /\ \A b \in told' \ {a} : b.task # a.task
      /\ \A c \in Client : work'[c].task # a.task
  BY DEF IsUnique
<1>3. CASE UNCHANGED work /\ UNCHANGED told
  BY <1>2, <1>3 DEF IsUnique
<1>4. ASSUME NEW c \in Client, Alone(c), told \subseteq told', work[c].task # a.task
      PROVE  IsUnique(a)
  <2>1. \A d \in Client : work[d].task # a.task
    BY <1>2, <1>4 DEF Alone
  <2> QED
    BY <1>2, <1>4, <2>1 DEF IsUnique
<1>5. ASSUME NEW c \in Client, Alone(c), Begins(c)
      PROVE  IsUnique(a)
  BY <1>4, <1>5 DEF Begins, IdleBlank
<1>6. ASSUME NEW c \in Client, Alone(c), NEW w, Turns(c, w)
      PROVE  IsUnique(a)
  BY <1>2, <1>4, <1>6 DEF Turns
<1>7. ASSUME NEW c \in Client, Alone(c), NEW b, Tells(c, b)
      PROVE  IsUnique(a)
  <2>1. <<b.by, b.no>> \notin Given /\ <<a.by, a.no>> \in Given
    BY <1>1, <1>7, FreshAnswer DEF Given
  <2>2. b # a /\ b \in told' /\ told \subseteq told'
    BY <1>7, <2>1 DEF Tells
  <2>3. work[c].task # a.task
    BY <1>2, <1>7, <2>2 DEF Tells
  <2> QED
    BY <1>4, <1>7, <2>2, <2>3
<1> QED
  BY <1>3, <1>5, <1>6, <1>7, TribblerSteps DEF ByServer, tvars

\* A creation that was asked for twice has been asked for twice.
LEMMA OtherCreationStays ==
    ASSUME BaseInv, NumbersOK, [TNext]_tvars, faults' = 0, NEW a \in told, OnlyCreation(a)'
    PROVE  OnlyCreation(a)
<1>1. CoreInv /\ Up /\ CallsFit /\ TribblerTypeOK
  BY TribblerStep DEF BaseInv, TribblerInv
<1>2. /\ \A b \in told' \ {a} : b.task.op = "CreateUser" => b.task.user # a.task.user
      /\ \A c \in Client : ~Idle(c)' /\ work'[c].task.op = "CreateUser" =>
                           work'[c].task.user # a.task.user
  BY DEF OnlyCreation, Does, User
<1>3. ASSUME told \subseteq told',
             \A c \in Client : ~Idle(c) => \/ ~Idle(c)' /\ work'[c].task = work[c].task
                                           \/ \E b \in told' \ {a} : b.task = work[c].task
      PROVE  OnlyCreation(a)
  BY <1>2, <1>3 DEF OnlyCreation, Does, User
<1>4. CASE ByServer
  BY <1>1, <1>3, <1>4, ClientOps DEF ByServer
<1>5. CASE UNCHANGED tvars
  BY <1>3, <1>5 DEF tvars, vars, Idle
<1>6. ASSUME NEW c \in Client, Alone(c)
      PROVE  \A d \in Client \ {c} : ~Idle(d) => ~Idle(d)' /\ work'[d].task = work[d].task
  BY <1>6 DEF Alone, Idle
<1>7. ASSUME NEW c \in Client, Alone(c), Begins(c)
      PROVE  OnlyCreation(a)
  BY <1>3, <1>6, <1>7 DEF Begins
<1>8. ASSUME NEW c \in Client, Alone(c), NEW w, Turns(c, w)
      PROVE  OnlyCreation(a)
  <2>1. ~Idle(c)' /\ work'[c].task = work[c].task /\ told' = told
    BY <1>8 DEF Turns, Waiting, Idle
  <2> QED
    BY <1>3, <1>6, <1>8, <2>1
<1>9. ASSUME NEW c \in Client, Alone(c), NEW b, Tells(c, b)
      PROVE  OnlyCreation(a)
  <2>1. <<b.by, b.no>> \notin Given /\ <<a.by, a.no>> \in Given
    BY <1>1, <1>9, FreshAnswer DEF Given
  <2>2. b # a /\ b \in told' /\ told \subseteq told' /\ b.task = work[c].task
    BY <1>9, <2>1 DEF Tells
  <2> QED
    BY <1>3, <1>6, <1>9, <2>2
<1> QED
  BY <1>4, <1>5, <1>7, <1>8, <1>9, TribblerSteps

\* What was so when it was said remains so.
LEMMA TruthfulStays ==
    ASSUME BaseInv, NumbersOK, IdleBlank, [TNext]_tvars, faults' = 0, NEW a \in told, Truthful(a)
    PROVE  Truthful(a)'
<1>1. a.known \subseteq Given
  BY DEF NumbersOK
<1>2. \A op : OkIn(a.known, op)' = OkIn(a.known, op)
  BY <1>1, NumbersNext
<1>3. a.task.op # "CreateUser" /\ IsUnique(a)' => IsUnique(a)
  BY NotUniqueStays
<1>4. OnlyCreation(a)' => OnlyCreation(a)
  BY OtherCreationStays
<1> QED
  BY <1>2, <1>3, <1>4 DEF Truthful, Uncreated

\* A removal that failed was not the only one, or c knew of nothing to remove.
LEMMA RemovalFailed ==
    ASSUME OneEntryOnly, HubInv, faults = 0, NumbersOK, RemovalsGo, NEW c \in Client, Alone(c),
           NEW a, Tells(c, a), work[c].task.op = "RemoveSubscription",
           work[c].stage = "write", call[c].status # "OK", IsUnique(a)'
    PROVE  ~KnowsAdded(c)
<1>1. CoreInv /\ Up /\ TribblerTypeOK
  BY DEF HubInv, BaseInv, UpInv, TribblerInv
<1>2. /\ a.task = work[c].task /\ told' = told \cup {a} /\ Answered(c) /\ ~Idle(c) /\ ~Waiting(c)
      /\ c \in Proc
  BY DEF Tells, Answered, Idle, Waiting, Proc
<1>3. ~Removable(c)
  BY <1>2 DEF Removable
<1>4. ~Obeyed(c)
  <2>1. ASSUME pc[Hub] = "bcast", job[Hub].from = c, Hub \in Server
        PROVE  FALSE
    <3>1. job[Hub].live
      BY <1>1, <2>1 DEF Up, JobsAsked
    <3> QED
      BY <1>1, <1>2, <2>1, <3>1, OthersAsk
  <2>2. Hub \in Server
    BY HubServes
  <2> QED
    BY <2>1, <2>2 DEF Obeyed
<1>5. ~Repeated(c)
  <2>1. ASSUME NEW b \in told, b.task = work[c].task
        PROVE  FALSE
    <3>1. <<a.by, a.no>> \notin Given
      BY <1>1, FreshAnswer
    <3>2. b # a
      BY <3>1 DEF Given
    <3> QED
      BY <1>2, <2>1, <3>2 DEF IsUnique
  <2>2. ASSUME NEW d \in Client, d # c, work[d].task = work[c].task
        PROVE  FALSE
    <3>1. work'[d] = work[d]
      BY <2>2 DEF Alone
    <3> QED
      BY <1>2, <2>2, <3>1 DEF IsUnique
  <2> QED
    BY <2>1, <2>2 DEF Repeated
<1> QED
  BY <1>2, <1>3, <1>4, <1>5 DEF RemovalsGo, Removes

\* What was asked for elsewhere was not asked for by c alone.
LEMMA ElsewhereTold ==
    ASSUME TribblerTypeOK, NumbersOK, NEW c \in Client, Alone(c), NEW a, Tells(c, a), Elsewhere(c)
    PROVE  /\ a.task.op = "CreateUser" => a.task.user \in OwnNames \/ ~OnlyCreation(a)'
           /\ a.task.op # "CreateUser" => ~IsUnique(a)'
<1>1. a.task = work[c].task /\ told' = told \cup {a} /\ a \notin told
  BY FreshAnswer DEF Tells, Given
<1>2. CASE IsOwn(work[c].task)
  BY <1>1, <1>2 DEF IsOwn
<1>3. ASSUME NEW b \in told, SameAim(b.task, a.task)
      PROVE  /\ a.task.op = "CreateUser" => ~OnlyCreation(a)'
             /\ a.task.op # "CreateUser" => ~IsUnique(a)'
  <2>1. b \in told' \ {a}
    BY <1>1, <1>3
  <2>2. CASE a.task.op = "CreateUser"
    BY <1>3, <2>1, <2>2 DEF SameAim, OnlyCreation
  <2>3. CASE a.task.op # "CreateUser"
    <3>1. b.task \in Task /\ a.task \in Task
      BY <1>1, <1>3 DEF TribblerTypeOK
    <3>2. b.task = a.task
      BY <1>3, <2>3, <3>1 DEF SameAim, Task
    <3> QED
      BY <2>1, <2>3, <3>2 DEF IsUnique
  <2> QED
    BY <2>2, <2>3
<1>4. ASSUME NEW d \in Client, d # c, ~Idle(d), SameAim(work[d].task, a.task)
      PROVE  /\ a.task.op = "CreateUser" => ~OnlyCreation(a)'
             /\ a.task.op # "CreateUser" => ~IsUnique(a)'
  <2>1. ~Idle(d)' /\ work'[d] = work[d]
    BY <1>4 DEF Alone, Idle
  <2>2. CASE a.task.op = "CreateUser"
    BY <1>4, <2>1, <2>2 DEF SameAim, OnlyCreation, Does, User
  <2>3. CASE a.task.op # "CreateUser"
    <3>1. work[d].task \in Task /\ a.task \in Task
      BY <1>1, <1>4 DEF TribblerTypeOK
    <3>2. work[d].task = a.task
      BY <1>4, <2>3, <3>1 DEF SameAim, Task
    <3> QED
      BY <2>1, <2>3, <3>2 DEF IsUnique
  <2> QED
    BY <2>2, <2>3
<1> QED
  BY <1>1, <1>2, <1>3, <1>4 DEF Elsewhere

\* What is said.
LEMMA TruthfulAnswer ==
    ASSUME OneEntryOnly, HubInv, AnswersTrue, NumbersOK, MissesTrue, RemovalsGo, Origins,
           Refusals, [TNext]_tvars, faults = 0, faults' = 0,
           NEW c \in Client, Alone(c), NEW a, Tells(c, a)
    PROVE  Truthful(a)'
<1>1. /\ BaseInv /\ CallsFit /\ Answered(c) /\ ~Idle(c) /\ AskedFor(work[c], call[c].op)
      /\ AnswerTrue(c)
  BY DEF HubInv, BaseInv, Fits, CallsFit, Tells, Answered, Idle, AnswersTrue
<1>2. a.task = work[c].task /\ a.known = work[c].known /\ Answers(c, a.status, a.tribbles)
  BY DEF Tells
<1>3. \A op : OkIn(a.known, op)' = OkIn(a.known, op)
  BY <1>1, <1>2, NumbersNext DEF NumbersOK
<1>4. \A u : Uncreated(a.known, u) => Uncreated(a.known, u)'
  BY <1>3 DEF Uncreated
<1>5. ASSUME NEW u, call[c].op.kind = "Get", call[c].op.key = UserKey(u), ~Exists(c)
      PROVE  Uncreated(a.known, u)' /\ work[c].stage # "again"
  BY <1>1, <1>2, <1>4, <1>5 DEF MissesTrue, Exists
<1>6. CASE work[c].stage = "write" /\ a.status = WriteStatus(work[c].task.op, call[c].status)
  <2>1. /\ a.status \in {"OK", "EEXISTS", "STORE_FAILED"}
        /\ a.status = "EEXISTS" => /\ work[c].task.op \in {"AddSubscription", "PostTribble"}
                                   /\ call[c].status = "EITEMEXISTS"
        /\ a.status = "STORE_FAILED" =>
              \/ /\ work[c].task.op \in {"AddSubscription", "CreateUser"}
                 /\ call[c].status = "EPUTFAILED"
              \/ work[c].task.op = "RemoveSubscription" /\ call[c].status # "OK"
    BY <1>6 DEF WriteStatus
  <2>2. ASSUME work[c].task.op = "PostTribble", call[c].status = "EITEMEXISTS"
        PROVE  work[c].task.user = ""
    <3>1. call[c].op.kind = "AddToList" /\ call[c].op.key = TribbleKey(work[c].task.user)
      BY <1>1, <1>6, <2>2, StageAsks
    <3>2. ~IsTribble(TribbleKey(work[c].task.user))
      BY <1>1, <2>2, <3>1 DEF AnswerTrue
    <3> QED
      BY <3>2 DEF IsTribble, TribbleKey
  <2>3. ASSUME a.status = "STORE_FAILED", work[c].task.op = "RemoveSubscription", IsUnique(a)'
        PROVE  ~KnowsAdded(c)
    BY <1>6, <2>1, <2>3, RemovalFailed
  <2>4. work[c].task.op = "AddSubscription" => call[c].status # "EPUTFAILED"
    <3>1. work[c].task.op = "AddSubscription" => call[c].op.kind = "AddToList"
      BY <1>1, <1>6, StageAsks
    <3> QED
      BY <1>1, <3>1 DEF AnswerTrue
  <2>5. CASE a.status \in {"EEXISTS", "STORE_FAILED"} /\ work[c].task.op # "RemoveSubscription"
    <3>1. TurnedDown(c)
      BY <1>1, <2>1, <2>5, <1>6 DEF TurnedDown
    <3>2. Elsewhere(c)
      BY <3>1 DEF Refusals
    <3>3. /\ a.task.op = "CreateUser" => a.task.user \in OwnNames \/ ~OnlyCreation(a)'
          /\ a.task.op # "CreateUser" => ~IsUnique(a)'
      BY <1>1, <3>2, ElsewhereTold DEF BaseInv, TribblerInv
    <3> QED
      BY <1>2, <2>1, <2>2, <2>4, <2>5, <3>3 DEF Truthful
  <2>6. CASE a.status = "STORE_FAILED" /\ work[c].task.op = "RemoveSubscription"
    BY <1>2, <1>3, <2>3, <2>6 DEF Truthful, KnowsAdded
  <2>7. CASE a.status \notin {"EEXISTS", "STORE_FAILED"}
    BY <2>1, <2>7 DEF Truthful
  <2> QED
    BY <2>1, <2>5, <2>6, <2>7
<1>7. CASE work[c].stage = "user" /\ a.status # "exception"
  <2>1. call[c].op.kind = "Get" /\ call[c].op.key = UserKey(work[c].task.user)
    BY <1>1, <1>7, StageAsks
  <2>2. \/ a.status = "EEXISTS" /\ work[c].task.op = "CreateUser" /\ Exists(c)
        \/ a.status = "INVALID_USER" /\ ~Exists(c)
    BY <1>2, <1>7 DEF Answers, Does
  <2>3. ASSUME work[c].task.op = "CreateUser", Exists(c)
        PROVE  a.task.user \in OwnNames \/ ~OnlyCreation(a)'
    <3>1. IsThere(work[c].task)
      BY <1>1, <2>1, <2>3 DEF AnswerTrue, Exists, IsThere, There
    <3>2. TribblerTypeOK /\ work[c].task \in Task
      BY <1>1 DEF BaseInv, TribblerInv, TribblerTypeOK
    <3>3. Elsewhere(c)
      BY <1>7, <3>1, <3>2, OthersOrigin DEF Origins, HasWritten
    <3> QED
      BY <1>2, <2>3, <3>2, <3>3, ElsewhereTold
  <2> QED
    BY <1>2, <1>5, <2>1, <2>2, <2>3 DEF Truthful
<1>8. CASE work[c].stage = "other" /\ a.status # "exception"
  <2>1. call[c].op.kind = "Get" /\ call[c].op.key = UserKey(work[c].task.arg)
    BY <1>1, <1>8, StageAsks
  <2>2. /\ a.status = "INVALID_SUBSCRIBETO"
        /\ ~Exists(c) \/ (work[c].task.op = "AddSubscription" /\ User(c) = Arg(c))
    BY <1>2, <1>8 DEF Answers, Does
  <2> QED
    BY <1>2, <1>5, <2>1, <2>2 DEF Truthful, User, Arg
<1>9. ASSUME work[c].stage = "again", ~Exists(c)
      PROVE  FALSE
  <2>1. call[c].op.kind = "Get" /\ call[c].op.key = UserKey(work[c].task.user)
    BY <1>1, <1>9, StageAsks
  <2> QED
    BY <1>5, <1>9, <2>1
<1>10. ASSUME work[c].stage \in {"read", "subs"}, ReadStatus(call[c].status) # "OK"
       PROVE  FALSE
  <2>1. call[c].op.kind = "GetList"
    BY <1>1, <1>10, StageAsks
  <2> QED
    BY <1>1, <1>10, <2>1 DEF AnswerTrue, ReadStatus
<1>11. CASE a.status \in {"OK", "exception"}
  BY <1>11 DEF Truthful
<1> QED
  BY <1>2, <1>6, <1>7, <1>8, <1>9, <1>10, <1>11 DEF Answers

\* Every step.
LEMMA StatusNext ==
    ASSUME OneEntryOnly, HubInv, ToldInv, CreateInv, PairInv, StatusInv, [TNext]_tvars
    PROVE  StatusInv'
<1> SUFFICES ASSUME faults' = 0
             PROVE  /\ NumbersOK' /\ MissesTrue' /\ RemovalsGo' /\ Origins' /\ Refusals'
                    /\ IdleBlank' /\ \A a \in told' : Truthful(a)'
  BY DEF StatusInv
<1>1. /\ BaseInv /\ faults = 0 /\ CoreInv /\ Up /\ CallsFit /\ AnswersTrue
      /\ NumbersOK /\ MissesTrue /\ RemovalsGo /\ Origins /\ Refusals /\ IdleBlank
      /\ \A a \in told : Truthful(a)
  BY TribblerStep DEF HubInv, BaseInv, TribblerInv, ToldInv, StatusInv
<1>2. NumbersOK' /\ MissesTrue' /\ RemovalsGo' /\ Origins' /\ Refusals'
  BY <1>1, NumbersNext, MissesNext, RemovalsNext, OriginsNext
<1>3. \A a \in told : Truthful(a)'
  BY <1>1, TruthfulStays
<1>4. ASSUME UNCHANGED told PROVE \A a \in told' : Truthful(a)'
  BY <1>3, <1>4
<1>5. ASSUME NEW c \in Client, Alone(c), Idle(c)' => work'[c].task.op = "CreateUser"
      PROVE  IdleBlank'
  BY <1>1, <1>5 DEF IdleBlank, Alone, Idle
<1>6. CASE ByServer
  <2>1. \A c \in Client : Idle(c)' <=> Idle(c)
    BY <1>1, <1>6, ClientOps DEF ByServer
  <2>2. IdleBlank' /\ UNCHANGED told
    BY <1>1, <1>6, <2>1 DEF IdleBlank, ByServer
  <2> QED
    BY <1>2, <1>4, <2>2
<1>7. ASSUME NEW c \in Client, Alone(c), Begins(c) \/ \E w : Turns(c, w)
      PROVE  IdleBlank' /\ \A a \in told' : Truthful(a)'
  <2>1. Waiting(c)' /\ UNCHANGED told
    BY <1>7 DEF Begins, Turns
  <2> QED
    BY <1>4, <1>5, <1>7, <2>1 DEF Waiting, Idle
<1>8. ASSUME NEW c \in Client, Alone(c), NEW a, Tells(c, a)
      PROVE  IdleBlank' /\ \A b \in told' : Truthful(b)'
  <2>1. Truthful(a)'
    BY <1>1, <1>8, TruthfulAnswer
  <2>2. \A b \in told' : b \in told \/ b = a
    BY <1>8 DEF Tells
  <2>3. NoWork.task = NoTask /\ NoTask.op = "CreateUser"
    BY DEF NoWork, Begin, NoTask
  <2>4. work'[c].task.op = "CreateUser"
    <3>1. work'[c] = NoWork
      BY <1>8 DEF Tells
    <3> QED
      BY <2>3, <3>1
  <2> QED
    BY <1>3, <1>5, <1>8, <2>1, <2>2, <2>4
<1>9. CASE UNCHANGED tvars
  <2>1. IdleBlank' /\ UNCHANGED told
    BY <1>1, <1>9 DEF tvars, vars, IdleBlank, Idle
  <2> QED
    BY <1>2, <1>4, <2>1
<1>10. \/ ByServer \/ UNCHANGED tvars
       \/ \E c \in Client : Alone(c) /\ (Begins(c) \/ \E w : Turns(c, w))
       \/ \E c \in Client : Alone(c) /\ \E a : Tells(c, a)
  BY <1>1, TribblerSteps
<1> QED
  BY <1>2, <1>6, <1>7, <1>8, <1>9, <1>10

\* All that is known of the clients' operations and of their answers.
ServedInv == HubInv /\ ToldInv /\ CreateInv /\ CreatedOnce /\ PairInv /\ StatusInv

\* At first nothing was asked for.
LEMMA InitServed ==
    ASSUME B = N, OneEntryOnly, TInit
    PROVE  ServedInv
<1>1. \A op : Ok(op) = {}
  BY DEF TInit, Ok
<1>2. \A c \in Client : Idle(c)
  BY NoCallType DEF TInit, Init, Idle, Proc
<1>3. \A s \in Server : lists[s] = NoMap
  BY DEF TInit, Init
<1>4. \A s \in Server : \A k : ItemsAt(lists[s], k) = {}
  BY <1>3 DEF ItemsAt, NoMap
<1>5. PairInv
  BY <1>2, <1>4 DEF PairInv, UsersThere, PairsWritten, PairsStored
<1>6. HubInv /\ ToldInv /\ CreateInv /\ CreatedOnce
  BY <1>1, InitHub, InitTold, InitPuts DEF CreateInv, UserPuts, Created, CreatedOnce, TInit
<1>7. NumbersOK /\ MissesTrue /\ RemovalsGo
  BY <1>2 DEF TInit, NumbersOK, MissesTrue, RemovalsGo, Answered, Idle
<1>8. IdleBlank
  <2>1. NoWork.task = NoTask /\ NoTask.op = "CreateUser"
    BY DEF NoWork, Begin, NoTask
  <2>2. \A c \in Client : work[c] = NoWork
    BY DEF TInit
  <2> QED
    BY <2>1, <2>2 DEF IdleBlank
<1> QED
  BY <1>5, <1>6, <1>7, <1>8, InitOrigins DEF ServedInv, StatusInv, TInit

\* Every step.
LEMMA ServedNext ==
    ASSUME OneEntryOnly, ServedInv, [TNext]_tvars
    PROVE  ServedInv'
  BY HubNext, ToldNext, CreateNext, PairNext, StatusNext DEF ServedInv, HubInv, ToldInv

\* All but the exceptions: they are for the proofs about feeds.
LEMMA StatusesSound ==
    ASSUME StatusInv, faults = 0, NEW a \in told
    PROVE  /\ a.status # "INTERNAL_FAILURE"
           /\ a.status = "INVALID_USER" =>
                 \A b \in Ok("CreateUser") :
                     Precedes(b, a) /\ b.task.user # CommandUser => b.task.user # a.task.user
           /\ a.status = "INVALID_SUBSCRIBETO" =>
                 \/ a.task.op = "AddSubscription" /\ a.task.arg = a.task.user
                 \/ \A b \in Ok("CreateUser") :
                       Precedes(b, a) /\ b.task.user # CommandUser => b.task.user # a.task.arg
           /\ a.status \in {"EEXISTS", "STORE_FAILED"} =>
                 \/ a.task.op = "CreateUser" /\ (a.task.user \in OwnNames \/ ~OnlyCreation(a))
                 \/ a.task.op = "AddSubscription" /\ a.status = "EEXISTS" /\ ~IsUnique(a)
                 \/ /\ a.task.op = "PostTribble" /\ a.status = "EEXISTS"
                    /\ a.task.user = "" /\ ~IsUnique(a)
                 \/ /\ a.task.op = "RemoveSubscription" /\ a.status = "STORE_FAILED"
                    /\ IsUnique(a) =>
                         \A b \in Ok("AddSubscription") :
                             Precedes(b, a) =>
                                 b.task.user # a.task.user \/ b.task.arg # a.task.arg
<1>1. Truthful(a)
  BY DEF StatusInv
<1>2. \A op : \A b \in Ok(op) : Precedes(b, a) => b \in OkIn(a.known, op)
  BY DEF OkIn, Precedes
<1>3. \A u : Uncreated(a.known, u) =>
         \A b \in Ok("CreateUser") : Precedes(b, a) /\ b.task.user # CommandUser => b.task.user # u
  BY <1>2 DEF Uncreated
<1> QED
  BY <1>1, <1>2, <1>3 DEF Truthful

-----------------------------------------------------------------------------
(* The order of tribbles: the proof for the cluster's clients needs to know *)
(* which posts are still to be asked for.                                   *)

\* Among all the scripts that clients come with together, no task of posting occurs twice.
ScriptsPostOnce ==
    \A f \in Scripts : \A c, d \in Client : \A m \in DOMAIN f[c], n \in DOMAIN f[d] :
        f[c][m].op = "PostTribble" /\ f[c][m] = f[d][n] => c = d /\ m = n

\* The tasks of c whose writes are ahead: the one it looks up the user for, at 0, and those
\* that are left of its script.
Ahead(c) == {n \in Nat : n = 0 /\ work[c].stage = "user"} \cup DOMAIN script[c]

TaskAhead(c, n) == IF n = 0 THEN work[c].task ELSE script[c][n]

PostsOnce ==
    \A c, d \in Client : \A m \in Ahead(c), n \in Ahead(d) :
        TaskAhead(c, m).op = "PostTribble" /\ TaskAhead(c, m) = TaskAhead(d, n)
            => c = d /\ m = n

\* The posts that the Tribbler servers are still to ask for.
TaskPost(task) == <<TribbleKey(task.user), task.arg>>

PostsAhead ==
    {m \in Posting : \E c \in Client : \E n \in Ahead(c) :
        TaskAhead(c, n).op = "PostTribble" /\ m = TaskPost(TaskAhead(c, n))}

\* The operation of c goes past its look-up, or ends with or without its script.
Passes(c) ==
    /\ \A d \in Client : d # c => work'[d] = work[d] /\ script'[d] = script[d]
    /\ work'[c].stage # "user" /\ script'[c] \in {script[c], <<>>}

\* It asks for no post but that of its task.
AsksOwn(c) ==
    \/ UNCHANGED inbox
    \/ \E o \in Op :
          /\ Send(c, Entry[c], o)
          /\ IsPost(o) => /\ work[c].stage = "user" /\ work[c].task.op = "PostTribble"
                          /\ o.key = TribbleKey(work[c].task.user)
                          /\ o.item.value = work[c].task.arg

\* Tasks that are ahead are tasks, and only those of one post are the same.
LEMMA AheadTasks ==
    ASSUME TribblerTypeOK, NEW c \in Client, NEW n \in Ahead(c)
    PROVE  /\ TaskAhead(c, n) \in Task /\ TaskPost(TaskAhead(c, n)) \in Posting
           /\ n = 0 => work[c].stage = "user"
           /\ n # 0 => n \in DOMAIN script[c]
<1>1. work[c] \in Work /\ script[c] \in Seq(Task)
  BY DEF TribblerTypeOK, Work
<1>2. DOMAIN script[c] = 1..Len(script[c]) /\ Len(script[c]) \in Nat
  BY <1>1
<1>3. n = 0 => work[c].stage = "user"
  BY <1>2 DEF Ahead
<1>4. n # 0 => n \in DOMAIN script[c]
  BY DEF Ahead
<1>5. TaskAhead(c, n) \in Task
  BY <1>1, <1>4 DEF TaskAhead, Work
<1>6. TaskPost(TaskAhead(c, n)) \in Posting
  BY <1>5, KeyType DEF TaskPost, Posting, Task
<1> QED
  BY <1>3, <1>4, <1>5, <1>6

\* Tasks of the same post are the same.
LEMMA SameTask ==
    ASSUME NEW s \in Task, NEW t \in Task, s.op = t.op, TaskPost(s) = TaskPost(t)
    PROVE  s = t
<1>1. s.user = t.user /\ s.arg = t.arg
  BY DEF TaskPost, TribbleKey
<1> QED
  BY <1>1 DEF Task

\* Nothing is ahead that was not, and not what the step is past.
LEMMA PassesAhead ==
    ASSUME TribblerTypeOK, TribblerTypeOK', PostsOnce, NEW c \in Client, Passes(c)
    PROVE  /\ PostsOnce' /\ PostsAhead' \subseteq PostsAhead
           /\ work[c].stage = "user" /\ work[c].task.op = "PostTribble" =>
                 TaskPost(work[c].task) \in PostsAhead \ PostsAhead'
<1>1. ASSUME NEW d \in Client, NEW n \in Ahead(d)'
      PROVE  /\ n \in Ahead(d) /\ TaskAhead(d, n)' = TaskAhead(d, n)
             /\ d = c => n # 0
  <2>1. CASE d # c
    BY <1>1, <2>1 DEF Passes, Ahead, TaskAhead
  <2>2. CASE d = c
    <3>1. n # 0 /\ n \in DOMAIN script'[c]
      BY <1>1, <2>2 DEF Passes, Ahead, TribblerTypeOK
    <3>2. script'[c] = script[c]
      BY <3>1 DEF Passes
    <3> QED
      BY <2>2, <3>1, <3>2 DEF Ahead, TaskAhead
  <2> QED
    BY <2>1, <2>2
<1>2. PostsOnce'
  <2> SUFFICES ASSUME NEW d \in Client, NEW e \in Client, NEW m \in Ahead(d)', NEW n \in Ahead(e)',
                      TaskAhead(d, m)'.op = "PostTribble", TaskAhead(d, m)' = TaskAhead(e, n)'
               PROVE  d = e /\ m = n
    BY DEF PostsOnce
  <2> QED
    BY <1>1 DEF PostsOnce
<1>3. ASSUME NEW m \in PostsAhead'
      PROVE  \E d \in Client : \E n \in Ahead(d) :
                /\ TaskAhead(d, n).op = "PostTribble" /\ m = TaskPost(TaskAhead(d, n))
                /\ d = c => n # 0
  <2>1. PICK d \in Client : \E n \in Ahead(d)' :
           TaskAhead(d, n)'.op = "PostTribble" /\ m = TaskPost(TaskAhead(d, n)')
    BY <1>3 DEF PostsAhead, TaskPost
  <2>2. PICK n \in Ahead(d)' :
           TaskAhead(d, n)'.op = "PostTribble" /\ m = TaskPost(TaskAhead(d, n)')
    BY <2>1
  <2> QED
    BY <1>1, <2>2
<1>4. PostsAhead' \subseteq PostsAhead
  BY <1>3 DEF PostsAhead, Posting
<1>5. ASSUME work[c].stage = "user", work[c].task.op = "PostTribble"
      PROVE  TaskPost(work[c].task) \in PostsAhead \ PostsAhead'
  <2>1. 0 \in Ahead(c) /\ TaskAhead(c, 0) = work[c].task
    BY <1>5 DEF Ahead, TaskAhead
  <2>2. work[c].task \in Task /\ TaskPost(work[c].task) \in Posting
    BY <2>1, AheadTasks
  <2>3. TaskPost(work[c].task) \in PostsAhead
    BY <1>5, <2>1, <2>2 DEF PostsAhead
  <2>4. ASSUME TaskPost(work[c].task) \in PostsAhead' PROVE FALSE
    <3>1. PICK d \in Client : \E n \in Ahead(d) :
             /\ TaskAhead(d, n).op = "PostTribble"
             /\ TaskPost(work[c].task) = TaskPost(TaskAhead(d, n))
             /\ d = c => n # 0
      BY <1>3, <2>4
    <3>2. PICK n \in Ahead(d) :
             /\ TaskAhead(d, n).op = "PostTribble"
             /\ TaskPost(work[c].task) = TaskPost(TaskAhead(d, n))
             /\ d = c => n # 0
      BY <3>1
    <3>3. TaskAhead(d, n) \in Task
      BY AheadTasks
    <3>4. TaskAhead(d, n) = work[c].task
      BY <1>5, <2>2, <3>2, <3>3, SameTask
    <3>5. d = c /\ n = 0
      BY <1>5, <2>1, <3>2, <3>4 DEF PostsOnce
    <3> QED
      BY <3>2, <3>5
  <2> QED
    BY <2>3, <2>4
<1> QED
  BY <1>2, <1>4, <1>5

\* A step that leaves the operations and scripts alone.
LEMMA SameAhead ==
    ASSUME UNCHANGED <<work, script>>, PostsOnce
    PROVE  PostsOnce' /\ PostsAhead' = PostsAhead
<1>1. \A c, n : Ahead(c)' = Ahead(c) /\ TaskAhead(c, n)' = TaskAhead(c, n)
  BY DEF Ahead, TaskAhead
<1>2. PostsOnce'
  BY <1>1 DEF PostsOnce
<1>3. PostsAhead' = PostsAhead
  BY <1>1 DEF PostsAhead, TaskPost
<1> QED
  BY <1>2, <1>3

\* A task that is taken up stays ahead.
LEMMA AcceptAhead ==
    ASSUME TribblerInv, TribblerTypeOK', PostsOnce, NEW c \in Client, Accept(c)
    PROVE  PostsOnce' /\ PostsAhead' \subseteq PostsAhead
<1> DEFINE task == Head(script[c])
           w == Begin(task, Len(script[c]), {<<a.by, a.no>> : a \in told})
<1>1. /\ script \in [Client -> Seq(Task)] /\ work \in [Client -> Work]
      /\ script[c] \in Seq(Task) /\ script[c] # <<>>
  BY DEF TribblerInv, TribblerTypeOK, Work, Accept
<1>2. task = script[c][1] /\ 1 \in DOMAIN script[c]
  BY <1>1
<1>3. script' = [script EXCEPT ![c] = Tail(script[c])] /\ work' = [work EXCEPT ![c] = w]
  BY DEF Accept
<1>4. w.stage = "user" /\ w.task = task
  BY DEF Begin
<1> HIDE DEF w
<1>5. work'[c] = w /\ \A d \in Client : d # c => work'[d] = work[d] /\ script'[d] = script[d]
  BY <1>1, <1>3
<1>6. /\ script'[c] = Tail(script[c])
      /\ \A n \in DOMAIN Tail(script[c]) :
            /\ n \in Nat \ {0} /\ n + 1 \in DOMAIN script[c]
            /\ Tail(script[c])[n] = script[c][n + 1]
  BY <1>1, <1>3
<1> DEFINE At0(d, n) == IF d = c THEN n + 1 ELSE n
<1>7. ASSUME NEW d \in Client, NEW n \in Ahead(d)'
      PROVE  n \in Nat /\ At0(d, n) \in Ahead(d) /\ TaskAhead(d, n)' = TaskAhead(d, At0(d, n))
  <2>1. CASE d # c
    <3>1. n \in Ahead(d) /\ TaskAhead(d, n)' = TaskAhead(d, n)
      BY <1>5, <1>7, <2>1 DEF Ahead, TaskAhead
    <3>2. DOMAIN script[d] \subseteq Nat
      BY <1>1
    <3> QED
      BY <2>1, <3>1, <3>2 DEF Ahead
  <2>2. CASE d = c
    <3>1. CASE n = 0
      BY <1>2, <1>4, <1>5, <2>2, <3>1 DEF Ahead, TaskAhead
    <3>2. CASE n # 0
      <4>1. n \in DOMAIN Tail(script[c])
        BY <1>6, <1>7, <2>2, <3>2 DEF Ahead
      <4>2. n \in Nat \ {0} /\ n + 1 \in DOMAIN script[c] /\ script'[c][n] = script[c][n + 1]
        BY <1>6, <4>1
      <4>3. n + 1 # 0 /\ n + 1 \in Nat /\ At0(d, n) = n + 1
        BY <2>2, <4>2
      <4> HIDE DEF At0
      <4>4. TaskAhead(d, n)' = script'[c][n] /\ TaskAhead(d, At0(d, n)) = script[c][n + 1]
        BY <2>2, <4>2, <4>3 DEF TaskAhead
      <4> QED
        BY <2>2, <4>2, <4>3, <4>4 DEF Ahead
    <3> QED
      BY <3>1, <3>2
  <2> QED
    BY <2>1, <2>2
<1>8. \A d \in Client : \A m, n \in Nat : At0(d, m) = At0(d, n) => m = n
  OBVIOUS
<1> HIDE DEF At0
<1>9. PostsOnce'
  <2> SUFFICES ASSUME NEW d \in Client, NEW e \in Client, NEW m \in Ahead(d)', NEW n \in Ahead(e)',
                      TaskAhead(d, m)'.op = "PostTribble", TaskAhead(d, m)' = TaskAhead(e, n)'
               PROVE  d = e /\ m = n
    BY DEF PostsOnce
  <2>1. d = e /\ At0(d, m) = At0(e, n)
    BY <1>7 DEF PostsOnce
  <2> QED
    BY <1>7, <1>8, <2>1
<1>10. ASSUME NEW m \in PostsAhead' PROVE m \in PostsAhead
  <2>1. PICK d \in Client : \E n \in Ahead(d)' :
           TaskAhead(d, n)'.op = "PostTribble" /\ m = TaskPost(TaskAhead(d, n)')
    BY <1>10 DEF PostsAhead, TaskPost
  <2>2. m \in Posting
    BY <1>10 DEF PostsAhead, Posting
  <2> QED
    BY <1>7, <2>1, <2>2 DEF PostsAhead
<1> QED
  BY <1>9, <1>10

\* The next call of an operation is no look-up of its user.
LEMMA GoesPasses ==
    ASSUME TribblerTypeOK, NEW c \in Client, NEW stage, stage # "user", NEW o, Goes(c, stage, o)
    PROVE  Passes(c) /\ Send(c, Entry[c], o)
<1>1. work \in [Client -> Work] /\ script' = script
  BY DEF TribblerTypeOK, Work, Goes
<1>2. work' = [work EXCEPT ![c].stage = stage] /\ Send(c, Entry[c], o)
  BY DEF Goes
<1>3. work'[c].stage = stage /\ \A d \in Client : d # c => work'[d] = work[d]
  BY <1>1, <1>2 DEF Work
<1> QED
  BY <1>1, <1>2, <1>3 DEF Passes

\* The end of an operation asks for nothing.
LEMMA EndsPass ==
    ASSUME TribblerTypeOK, NEW c \in Client, UNCHANGED inbox,
           work' = [work EXCEPT ![c] = NoWork],
           script' = script \/ script' = [script EXCEPT ![c] = <<>>]
    PROVE  Passes(c) /\ AsksOwn(c)
<1>1. work \in [Client -> Work] /\ script \in [Client -> Seq(Task)]
  BY DEF TribblerTypeOK, Work
<1>2. NoWork.stage = "idle"
  BY DEF NoWork, Begin
<1>3. work'[c] = NoWork /\ \A d \in Client : d # c => work'[d] = work[d]
  BY <1>1
<1>4. script'[c] \in {script[c], <<>>} /\ \A d \in Client : d # c => script'[d] = script[d]
  BY <1>1
<1> QED
  BY <1>2, <1>3, <1>4 DEF Passes, AsksOwn

\* Nor does the loop of GetTribblesBySubscription.
LEMMA FeedPasses ==
    ASSUME TribblerTypeOK, NEW c \in Client, NEW subs \in SUBSET Text, NEW found,
           NextFeed(c, subs, found)
    PROVE  Passes(c) /\ AsksOwn(c)
<1>1. CASE subs = {}
  BY <1>1, EndsPass DEF NextFeed, ShowsFeed, Returns
<1>2. CASE subs # {}
  <2>1. PICK u \in subs :
           /\ work' = [work EXCEPT ![c].stage = "posts", ![c].subs = subs, ![c].found = found]
           /\ Send(c, Entry[c], GetPosts(u)) /\ UNCHANGED <<told, script>>
    BY <1>2 DEF NextFeed
  <2>2. work \in [Client -> Work]
    BY DEF TribblerTypeOK, Work
  <2>3. work'[c].stage = "posts" /\ \A d \in Client : d # c => work'[d] = work[d]
    BY <2>1, <2>2 DEF Work
  <2>4. GetPosts(u) \in Op /\ ~IsPost(GetPosts(u))
    BY AskType DEF GetPosts, MakeOp, IsPost
  <2> QED
    BY <2>1, <2>3, <2>4 DEF Passes, AsksOwn
<1> QED
  BY <1>1, <1>2

\* Every step of an operation goes past its look-up, and posts at most its own task's tribble.
LEMMA OperationPosts ==
    ASSUME TribblerInv, NEW c \in Client, Advances(c)
    PROVE  Passes(c) /\ AsksOwn(c)
<1>1. TypeOK /\ TribblerTypeOK /\ work \in [Client -> Work] /\ work[c] \in Work
  BY DEF TribblerInv, CoreInv, TypeInv, TribblerTypeOK, Work
<1>2. User(c) \in Text /\ Arg(c) \in Text
  BY <1>1 DEF Work, Task, User, Arg
<1> DEFINE Quiet(o) == o \in Op /\ ~IsPost(o)
<1>3. \A u \in Text : Quiet(GetUser(u)) /\ Quiet(GetPosts(u)) /\ Quiet(GetSubs(u))
  BY AskType DEF GetUser, GetPosts, GetSubs, MakeOp, IsPost
<1>4. /\ Quiet(MakeOp("AddToList", UserList, Plain(User(c))))
      /\ Quiet(MakeOp("Put", UserKey(User(c)), Plain(User(c))))
      /\ \A k \in {"AddToList", "RemoveFromList"} :
            Quiet(MakeOp(k, SubKey(User(c)), Plain(Arg(c))))
  <2>1. ~IsTribble(UserList) /\ ~IsTribble(SubKey(User(c)))
    BY KeysApart
  <2> QED
    BY <1>2, <2>1, AskType DEF MakeOp, IsPost
<1> HIDE DEF Quiet
<1>5. ASSUME NEW stage, stage # "user", NEW o, Quiet(o), Goes(c, stage, o)
      PROVE  Passes(c) /\ AsksOwn(c)
  BY <1>1, <1>5, GoesPasses DEF Quiet, AsksOwn
<1>6. ASSUME NEW a, Returns(c, a) PROVE Passes(c) /\ AsksOwn(c)
  BY <1>1, <1>6, EndsPass DEF Returns
<1>7. ASSUME NEW status, Responds(c, status) PROVE Passes(c) /\ AsksOwn(c)
  BY <1>6, <1>7 DEF Responds
<1>8. CASE CreateUser(c) \/ CreateListed(c)
  BY <1>4, <1>5, <1>7, <1>8 DEF CreateUser, CreateListed
<1>9. CASE UserChecked(c)
  <2> DEFINE o == MakeOp("AddToList", TribbleKey(User(c)), Plain(Arg(c)))
  <2>1. ASSUME Does(c, {"PostTribble"}), Goes(c, "write", o) PROVE Passes(c) /\ AsksOwn(c)
    <3>1. /\ o \in Op /\ o.key = TribbleKey(work[c].task.user)
          /\ o.item.value = work[c].task.arg
      BY <1>2, AskType DEF MakeOp, User, Arg, Plain
    <3>2. work[c].stage = "user" /\ work[c].task.op = "PostTribble"
      BY <1>9, <2>1 DEF UserChecked, At, Does
    <3> HIDE DEF o
    <3>3. Passes(c) /\ Send(c, Entry[c], o)
      BY <1>1, <2>1, GoesPasses
    <3> QED
      BY <3>1, <3>2, <3>3 DEF AsksOwn
  <2> QED
    BY <1>2, <1>3, <1>5, <1>7, <1>9, <2>1 DEF UserChecked
<1>10. CASE OtherChecked(c)
  BY <1>4, <1>5, <1>7, <1>10 DEF OtherChecked
<1>11. CASE Written(c) \/ PostsRead(c) \/ SubscriptionsRead(c)
  BY <1>6, <1>7, <1>11 DEF Written, PostsRead, ShowsFeed, SubscriptionsRead
<1>12. CASE CheckedAgain(c)
  BY <1>2, <1>3, <1>5, <1>7, <1>12 DEF CheckedAgain
<1>13. CASE FeedBegins(c)
  BY <1>1, <1>7, <1>13, AnswerType, FeedPasses DEF FeedBegins
<1>14. CASE FeedGoesOn(c)
  BY <1>1, <1>14, FeedPasses DEF FeedGoesOn, Work
<1>15. CASE Throws(c)
  BY <1>1, <1>15, EndsPass DEF Throws, Excepts
<1>16. CASE ReadThrows(c)
  BY <1>1, <1>16, EndsPass DEF ReadThrows, Excepts
<1> QED
  BY <1>8, <1>9, <1>10, <1>11, <1>12, <1>13, <1>14, <1>15, <1>16 DEF OperationStep, Advances

\* The strengthening for Tribbler servers.
TribblersAgree == PostsOnce /\ (NobodyIsBack => Agrees(PostsAhead))

\* A step of a Tribbler server asks for its own post, which was ahead, or for none.
LEMMA AskedAgrees ==
    ASSUME TribblerInv, TribblerInv', TribblersAgree, NEW c \in Client, UNCHANGED store,
           NobodyIsBack', PostsAhead' \subseteq PostsAhead,
           \/ UNCHANGED inbox
           \/ \E o \in Op :
                 /\ Send(c, Entry[c], o)
                 /\ IsPost(o) => PostOf(o.key, o.item) \in PostsAhead \ PostsAhead'
    PROVE  Agrees(PostsAhead)'
<1>1. CoreInv /\ TypeOK'
  BY DEF TribblerInv, CoreInv, TypeInv
<1>2. UNCHANGED <<vt, pc, job, lists, starts>>
  BY DEF store
<1>3. NobodyIsBack
  BY <1>2 DEF NobodyIsBack
<1>4. PICK L : L = PostsAhead
  OBVIOUS
<1>5. PICK M : M = PostsAhead'
  OBVIOUS
<1>6. L \in SUBSET Posting /\ M \in SUBSET L /\ Agrees(L)
  BY <1>3, <1>4, <1>5 DEF TribblersAgree, PostsAhead
<1>7. Agrees(M)'
  BY <1>1, <1>2, <1>4, <1>5, <1>6, ClientAgrees
<1> QED
  BY <1>5, <1>7 DEF Agrees, Fresh

\* No step makes two servers disagree.
LEMMA TribblerAgrees ==
    ASSUME NoForgery, TribblerInv, LeadInv, TribblersAgree, [TNext]_tvars
    PROVE  TribblersAgree'
<1>1. /\ TribblerInv' /\ CoreInv /\ CoreInv' /\ TypeOK /\ TypeOK' /\ StampsInv
      /\ TribblerTypeOK /\ TribblerTypeOK'
  BY TribblerNext DEF TribblerInv, CoreInv, TypeInv
<1>2. ASSUME NEW c \in Client, Advances(c)
      PROVE  TribblersAgree'
  <2>1. Passes(c) /\ AsksOwn(c) /\ UNCHANGED store
    BY <1>2, OperationPosts, OperationProceeds
  <2>2. /\ PostsOnce' /\ PostsAhead' \subseteq PostsAhead
        /\ work[c].stage = "user" /\ work[c].task.op = "PostTribble" =>
              TaskPost(work[c].task) \in PostsAhead \ PostsAhead'
    BY <1>1, <2>1, PassesAhead DEF TribblersAgree
  <2>3. \/ UNCHANGED inbox
        \/ \E o \in Op :
              /\ Send(c, Entry[c], o)
              /\ IsPost(o) => PostOf(o.key, o.item) \in PostsAhead \ PostsAhead'
    BY <2>1, <2>2 DEF AsksOwn, TaskPost, PostOf
  <2> QED
    BY <1>1, <2>1, <2>2, <2>3, AskedAgrees DEF TribblersAgree
<1>3. ASSUME NEW c \in Client, Accept(c)
      PROVE  TribblersAgree'
  <2>1. PostsOnce' /\ PostsAhead' \subseteq PostsAhead
    BY <1>1, <1>3, AcceptAhead DEF TribblersAgree
  <2> DEFINE o == GetUser(Head(script[c]).user)
  <2>2. Send(c, Entry[c], o) /\ UNCHANGED store
    BY <1>3 DEF Accept
  <2>3. o \in Op /\ ~IsPost(o)
    <3>1. script[c] \in Seq(Task) /\ script[c] # <<>>
      BY <1>1, <1>3 DEF TribblerTypeOK, Accept
    <3>2. Head(script[c]) \in Task
      BY <3>1
    <3>3. Head(script[c]).user \in Text
      BY <3>2 DEF Task
    <3> QED
      BY <3>3, AskType DEF GetUser, MakeOp, IsPost
  <2> HIDE DEF o
  <2> QED
    BY <1>1, <2>1, <2>2, <2>3, AskedAgrees DEF TribblersAgree
<1>4. ASSUME NEW s \in Server, ClusterStep(Boot(s) \/ ServerStep(s) \/ Crash(s))
      PROVE  TribblersAgree'
  <2>1. PostsOnce' /\ PostsAhead' = PostsAhead
    BY <1>4, SameAhead DEF ClusterStep, TribblersAgree
  <2> SUFFICES ASSUME NobodyIsBack' PROVE Agrees(PostsAhead)'
    BY <2>1 DEF TribblersAgree
  <2>2. PICK L : L = PostsAhead
    OBVIOUS
  <2>3. L \in SUBSET Posting /\ (NobodyIsBack => Agrees(L))
    BY <2>2 DEF TribblersAgree, PostsAhead
  <2>4. Agrees(L)'
    BY <1>1, <1>4, <2>3, ServerAgreesOn DEF ClusterStep
  <2> QED
    BY <2>1, <2>2, <2>4 DEF Agrees, Fresh
<1>5. ASSUME NEW c \in Client, Dies(c)
      PROVE  TribblersAgree'
  <2>1. /\ work' = [work EXCEPT ![c] = NoWork] /\ script' = [script EXCEPT ![c] = <<>>]
        /\ ClientEnds(c)
    BY <1>5, DiesEnds DEF Restarts
  <2>2. Passes(c)
    <3>1. work \in [Client -> Work] /\ script \in [Client -> Seq(Task)]
      BY <1>1 DEF TribblerTypeOK, Work
    <3>2. NoWork.stage = "idle"
      BY DEF NoWork, Begin
    <3>3. /\ work'[c] = NoWork /\ \A d \in Client : d # c => work'[d] = work[d]
          /\ script'[c] = <<>> /\ \A d \in Client : d # c => script'[d] = script[d]
      BY <2>1, <3>1
    <3> QED
      BY <3>2, <3>3 DEF Passes
  <2>3. PostsOnce' /\ PostsAhead' \subseteq PostsAhead
    BY <1>1, <2>2, PassesAhead DEF TribblersAgree
  <2> SUFFICES ASSUME NobodyIsBack' PROVE Agrees(PostsAhead)'
    BY <2>3 DEF TribblersAgree
  <2>4. NobodyIsBack
    BY <2>1 DEF NobodyIsBack, ClientEnds
  <2>5. PICK L : L = PostsAhead
    OBVIOUS
  <2>6. PICK M : M = PostsAhead'
    OBVIOUS
  <2>7. L \in SUBSET Posting /\ Agrees(L) /\ M \in SUBSET L
    BY <2>3, <2>4, <2>5, <2>6 DEF TribblersAgree, PostsAhead
  <2>8. Agrees(L)'
    BY <1>1, <2>1, <2>7, ClientEndsAgrees
  <2>9. Agrees(M)'
    BY <2>7, <2>8 DEF Agrees, Fresh
  <2> QED
    BY <2>6, <2>9 DEF Agrees, Fresh
<1>6. CASE UNCHANGED <<vars, script, work>>
  <2>1. PostsOnce' /\ PostsAhead' = PostsAhead
    BY <1>6, SameAhead DEF TribblersAgree
  <2>2. UNCHANGED <<pc, job, inbox, lists, vt, starts>>
    BY <1>6 DEF vars
  <2> SUFFICES ASSUME NobodyIsBack' PROVE Agrees(PostsAhead)'
    BY <2>1 DEF TribblersAgree
  <2>3. NobodyIsBack
    BY <2>2 DEF NobodyIsBack
  <2>4. PICK L : L = PostsAhead
    OBVIOUS
  <2>5. L \in SUBSET Posting /\ Agrees(L)
    BY <2>3, <2>4 DEF TribblersAgree, PostsAhead
  <2>6. Agrees(L)'
    BY <1>1, <2>2, <2>5, QuietAgrees
  <2> QED
    BY <2>1, <2>4, <2>6 DEF Agrees, Fresh
<1> QED
  BY <1>2, <1>3, <1>4, <1>5, <1>6 DEF TNext, Advances, Dies, Finished, Settled, tvars

\* At first all posts are ahead.
LEMMA InitAhead ==
    ASSUME ScriptsPostOnce, TInit
    PROVE  TribblersAgree
<1>1. script \in Scripts /\ \A c \in Client : work[c].stage = "idle"
  BY DEF TInit, NoWork, Begin
<1>2. script \in [Client -> Seq(Task)]
  BY <1>1, ScriptAssumption
<1>3. \A c \in Client : 0 \notin DOMAIN script[c]
  BY <1>2
<1>4. \A c \in Client : Ahead(c) = DOMAIN script[c]
  BY <1>1 DEF Ahead
<1>5. \A c \in Client : \A n \in Ahead(c) : TaskAhead(c, n) = script[c][n]
  BY <1>3, <1>4 DEF TaskAhead
<1>6. PostsOnce
  BY <1>1, <1>4, <1>5 DEF PostsOnce, ScriptsPostOnce
<1>7. PICK L : L = PostsAhead
  OBVIOUS
<1>8. L \in SUBSET Posting
  BY <1>7 DEF PostsAhead
<1>9. Agrees(L)
  BY <1>8, InitAgrees DEF TInit
<1> QED
  BY <1>6, <1>7, <1>9 DEF TribblersAgree

\* Whatever the clients of any Tribbler servers do, if no two posts of their scripts are alike
\* and no contents are read with a stamp of their own making: any two servers show any two
\* readable tribbles in the same order until a key-value server comes to serve again, whatever
\* key-value servers and Tribbler servers crash on the way.
THEOREM TribblersAgreeOnOrder ==
    ASSUME ScriptsPostOnce, NoForgery
    PROVE  TSpec => []OrderAgreement
<1>1. TInit => LeadInv /\ TribblersAgree
  BY InitLead, InitAhead DEF TInit
<1>2. TribblerInv /\ LeadInv /\ TribblersAgree /\ [TNext]_tvars => (LeadInv /\ TribblersAgree)'
  BY TribblerLeads, TribblerAgrees
<1>3. TribblerInv /\ TribblersAgree => OrderAgreement
  <2> SUFFICES ASSUME TribblerInv, TribblersAgree PROVE OrderAgreement
    OBVIOUS
  <2>1. PICK L : L = PostsAhead
    OBVIOUS
  <2>2. TypeOK /\ (NobodyIsBack => Agrees(L))
    BY <2>1 DEF TribblersAgree, TribblerInv, CoreInv, TypeInv
  <2> QED
    BY <2>2, AgreeInvOrders
<1> QED
  BY <1>1, <1>2, <1>3, TribblerCorrect, PTL DEF TSpec
=============================================================================
