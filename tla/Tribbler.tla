------------------------------ MODULE Tribbler ------------------------------
(***************************************************************************)
(* The Tribbler servers (Tribbler_server.cpp) on top of the key-value      *)
(* cluster.  Each is one thread that runs one operation of Tribbler.thrift *)
(* at a time, as a sequence of calls to its key-value server: whatever an  *)
(* operation has found out with one call may be out of date at the next.   *)
(* Here a Tribbler server takes the answer to one call and makes the next  *)
(* in one step.  Its clients run scripts, as Tribbler_client.cpp does.     *)
(***************************************************************************)
EXTENDS KVCluster

CONSTANTS
    Scripts,                    \* the scripts the clients may come with
    MaxTribbles                 \* the longest feed, 100 in the code

Operation == {"CreateUser", "AddSubscription", "RemoveSubscription", "PostTribble",
              "GetTribbles", "GetTribblesBySubscription", "GetSubscriptions"}

\* A call of a client: the user who makes it, and subscribeto or tribbleContents.
Task == [op : Operation, user : Text, arg : Text]

ASSUME ScriptAssumption ==
    /\ \A f \in Scripts :
          f \in [Client -> Seq(Task)]
    /\ MaxTribbles \in Nat

\* The Tribbler servers make the calls of their operations and no others.
ASSUME NoPlanAssumption == \A c \in Client : Plan[c] = {}

VARIABLES
    script,     \* calls the client of each Tribbler server has still to make
    work,       \* the operation each Tribbler server is running
    told        \* all the answers that clients have been given

store == <<pc, idx, target, todo, job, running, simple, lists, vt, plan, faults, starts>>

tvars == <<vars, script, work, told>>

TribbleStatus == {"OK", "EEXISTS", "INVALID_USER", "INVALID_SUBSCRIBETO",
                  "STORE_FAILED", "INTERNAL_FAILURE"}

\* Which call of the operation is out.
Stage == {"idle", "user", "other", "list", "write", "read", "again", "subs", "posts"}

NoTask == [op |-> "CreateUser", user |-> "", arg |-> ""]

\* "no" numbers the tasks of a script from its end, "known" is what had been answered
\* when the operation began, "subs" and "found" are the loop of
\* GetTribblesBySubscription.
Begin(task, no, known) ==
    [stage |-> "user", task |-> task, no |-> no, known |-> known,
     subs |-> {}, found |-> {}]

NoWork == [Begin(NoTask, 0, {}) EXCEPT !.stage = "idle"]

-----------------------------------------------------------------------------
(* Tribbles as they are shown.  One that was found is known by its text in   *)
(* the store, one that is shown by what ToMessage makes of that.             *)

Tribble(user, item) == [user |-> user, item |-> item]

PostedBefore(a, b) == PostedLess(ToMessage(a.item).vt, ToMessage(b.item).vt)

Shown(tribble) == [tribble EXCEPT !.item = ToMessage(@)]

F == INSTANCE Feed WITH Older <- PostedBefore

TInit ==
    /\ Init
    /\ script \in Scripts
    /\ work = [c \in Client |-> NoWork]
    /\ told = {}

-----------------------------------------------------------------------------
(* Steps of an operation. *)

\* The operation makes its next call.
Goes(c, stage, op) ==
    /\ work' = [work EXCEPT ![c].stage = stage]
    /\ Send(c, Entry[c], op)
    /\ UNCHANGED <<script, told>>

Answer(c, status, tribbles, subscriptions) ==
    [by |-> c, no |-> work[c].no, task |-> work[c].task, known |-> work[c].known,
     status |-> status, tribbles |-> tribbles, subscriptions |-> subscriptions]

\* The operation returns.
Returns(c, answer) ==
    /\ told' = told \cup {answer}
    /\ work' = [work EXCEPT ![c] = NoWork]
    /\ Forget(c)
    /\ UNCHANGED <<inbox, script>>

Responds(c, status) == Returns(c, Answer(c, status, <<>>, {}))

At(c, stage) == work[c].stage = stage /\ Answered(c)

User(c) == work[c].task.user
Arg(c)  == work[c].task.arg
Does(c, ops) == work[c].task.op \in ops

GetUser(u) == MakeOp("Get", UserKey(u), Plain(""))
GetPosts(u) == MakeOp("GetList", TribbleKey(u), Plain(""))
GetSubs(u) == MakeOp("GetList", SubKey(u), Plain(""))

\* CheckUser.
Exists(c) == call[c].status # "EKEYNOTFOUND"

\* A client makes the next call of its script.  Every operation looks up its user.
Accept(c) ==
    /\ work[c].stage = "idle" /\ script[c] # <<>>
    /\ script' = [script EXCEPT ![c] = Tail(@)]
    /\ work' = [work EXCEPT ![c] =
                  Begin(Head(script[c]), Len(script[c]), {<<a.by, a.no>> : a \in told})]
    /\ Send(c, Entry[c], GetUser(Head(script[c]).user))
    /\ UNCHANGED <<store, told>>

\* Mutant of CreateUser: the list of users is forgotten.
CreateUnlisted(c) ==
    /\ At(c, "user") /\ Does(c, {"CreateUser"})
    /\ IF Exists(c) THEN Responds(c, "EEXISTS")
       ELSE Goes(c, "write", MakeOp("Put", UserKey(User(c)), Plain(User(c))))
    /\ UNCHANGED store

\* CreateUser: a user that is there already is not created.
CreateUser(c) ==
    /\ At(c, "user") /\ Does(c, {"CreateUser"})
    /\ IF Exists(c) THEN Responds(c, "EEXISTS")
       ELSE Goes(c, "list", MakeOp("AddToList", UserList, Plain(User(c))))
    /\ UNCHANGED store

\* The status of AddToList("user_list", ...) is overwritten by that of Put.
CreateListed(c) ==
    /\ At(c, "list")
    /\ Goes(c, "write", MakeOp("Put", UserKey(User(c)), Plain(User(c))))
    /\ UNCHANGED store

\* Every other operation: a user that is not there can do nothing.
UserChecked(c) ==
    /\ At(c, "user") /\ ~Does(c, {"CreateUser"})
    /\ IF ~Exists(c) THEN Responds(c, "INVALID_USER")
       ELSE \/ /\ Does(c, {"AddSubscription", "RemoveSubscription"})
               /\ Goes(c, "other", GetUser(Arg(c)))
            \/ /\ Does(c, {"PostTribble"})
               /\ Goes(c, "write", MakeOp("AddToList", TribbleKey(User(c)), Plain(Arg(c))))
            \/ /\ Does(c, {"GetTribbles"})
               /\ Goes(c, "read", GetPosts(User(c)))
            \/ /\ Does(c, {"GetSubscriptions"})
               /\ Goes(c, "subs", GetSubs(User(c)))
            \/ /\ Does(c, {"GetTribblesBySubscription"})
               /\ Goes(c, "again", GetUser(User(c)))
    /\ UNCHANGED store

\* Mutant of OtherChecked: anybody can be subscribed to.
OtherUnchecked(c) ==
    /\ At(c, "other")
    /\ IF Does(c, {"AddSubscription"}) /\ User(c) = Arg(c)
       THEN Responds(c, "INVALID_SUBSCRIBETO")
       ELSE Goes(c, "write",
                 MakeOp(IF Does(c, {"AddSubscription"}) THEN "AddToList" ELSE "RemoveFromList",
                        SubKey(User(c)), Plain(Arg(c))))
    /\ UNCHANGED store

\* AddSubscription and RemoveSubscription look up the other user.
OtherChecked(c) ==
    /\ At(c, "other")
    /\ IF ~Exists(c) \/ (Does(c, {"AddSubscription"}) /\ User(c) = Arg(c))
       THEN Responds(c, "INVALID_SUBSCRIBETO")
       ELSE Goes(c, "write",
                 MakeOp(IF Does(c, {"AddSubscription"}) THEN "AddToList" ELSE "RemoveFromList",
                        SubKey(User(c)), Plain(Arg(c))))
    /\ UNCHANGED store

\* Mutants of WriteStatus: the status of the store is ignored, or passed on.
WriteStatusOK(op, status) == "OK"

WriteStatusRaw(op, status) == status

\* What each writing operation makes of the status of its last call.
WriteStatus(op, status) ==
    CASE op \in {"AddSubscription", "PostTribble"} /\ status = "EITEMEXISTS" -> "EEXISTS"
      [] op \in {"AddSubscription", "CreateUser"} /\ status = "EPUTFAILED" -> "STORE_FAILED"
      [] op = "RemoveSubscription" /\ status # "OK" -> "STORE_FAILED"
      [] OTHER -> "OK"

Written(c) ==
    /\ At(c, "write")
    /\ Responds(c, WriteStatus(work[c].task.op, call[c].status))
    /\ UNCHANGED store

\* Mutant of ReadStatus: a list that is not there is a failure.
ReadStatusStrict(status) == IF status = "OK" THEN "OK" ELSE "INTERNAL_FAILURE"

\* What the reading operations make of the status of GetList.
ReadStatus(status) ==
    IF status \in {"OK", "EKEYNOTFOUND"} THEN "OK" ELSE "INTERNAL_FAILURE"

\* The tribbles of user u in the answer to GetList.
Listed(c, u) == {Tribble(u, item) : item \in call[c].values}

ShowsFeed(c, found) ==
    \E shown \in F!Feeds(found) :
        Returns(c, Answer(c, "OK", [n \in DOMAIN shown |-> Shown(shown[n])], {}))

\* The tribbles that were found are read one after the other: all of them can be, ...
AllReturn(c) == \A item \in call[c].values : ReadEnds(item) = "returns"

\* ... or one is come to whose reading ends otherwise.
ComesTo(c, ends) ==
    /\ At(c, "read") \/ At(c, "posts")
    /\ \E item \in call[c].values : ReadEnds(item) = ends

\* GetTribbles.
PostsRead(c) ==
    /\ At(c, "read") /\ AllReturn(c)
    /\ IF ReadStatus(call[c].status) = "OK" THEN ShowsFeed(c, Listed(c, User(c)))
       ELSE Responds(c, "INTERNAL_FAILURE")
    /\ UNCHANGED store

\* GetTribblesBySubscription calls GetSubscriptions, which looks up the user again.
CheckedAgain(c) ==
    /\ At(c, "again")
    /\ IF Exists(c) THEN Goes(c, "subs", GetSubs(User(c)))
       ELSE Responds(c, "INTERNAL_FAILURE")
    /\ UNCHANGED store

Subscriptions(c) == {item.value : item \in call[c].values}

\* GetSubscriptions, called by a client.
SubscriptionsRead(c) ==
    /\ At(c, "subs") /\ Does(c, {"GetSubscriptions"})
    /\ LET status == ReadStatus(call[c].status)
       IN  Returns(c, Answer(c, status, <<>>, Subscriptions(c)))
    /\ UNCHANGED store

\* Mutant of NextFeed: the loop ends one subscription too early.
NextFeedShort(c, subs, found) ==
    IF Cardinality(subs) <= 1 THEN ShowsFeed(c, found)
    ELSE \E u \in subs :
            /\ work' = [work EXCEPT ![c].stage = "posts", ![c].subs = subs,
                                    ![c].found = found]
            /\ Send(c, Entry[c], GetPosts(u))
            /\ UNCHANGED <<script, told>>

\* One round of the loop over the subscriptions, or its end.
NextFeed(c, subs, found) ==
    IF subs = {} THEN ShowsFeed(c, found)
    ELSE \E u \in subs :
            /\ work' = [work EXCEPT ![c].stage = "posts", ![c].subs = subs,
                                    ![c].found = found]
            /\ Send(c, Entry[c], GetPosts(u))
            /\ UNCHANGED <<script, told>>

\* GetTribblesBySubscription, after its call of GetSubscriptions.
FeedBegins(c) ==
    /\ At(c, "subs") /\ Does(c, {"GetTribblesBySubscription"})
    /\ IF ReadStatus(call[c].status) = "OK" THEN NextFeed(c, Subscriptions(c), {})
       ELSE Responds(c, "INTERNAL_FAILURE")
    /\ UNCHANGED store

\* Mutant of FeedGoesOn: the loop does not advance.
FeedStays(c) ==
    /\ At(c, "posts") /\ AllReturn(c)
    /\ LET u == call[c].op.key[1]
       IN  NextFeed(c, work[c].subs, work[c].found \cup Listed(c, u))
    /\ UNCHANGED store

\* Mutant of FeedGoesOn: a user without tribbles fails the feed.
FeedFails(c) ==
    /\ At(c, "posts") /\ AllReturn(c)
    /\ LET u == call[c].op.key[1]
       IN  IF call[c].status = "OK"
           THEN NextFeed(c, work[c].subs \ {u}, work[c].found \cup Listed(c, u))
           ELSE Responds(c, "INTERNAL_FAILURE")
    /\ UNCHANGED store

\* A list that is not there, or that an error was answered for, is left out.
FeedGoesOn(c) ==
    /\ At(c, "posts") /\ AllReturn(c)
    /\ LET u == call[c].op.key[1]
       IN  NextFeed(c, work[c].subs \ {u}, work[c].found \cup Listed(c, u))
    /\ UNCHANGED store

\* The handler throws: the client is sent an exception, which ends its script.
Excepts(c) ==
    /\ told' = told \cup {Answer(c, "exception", <<>>, {})}
    /\ work' = [work EXCEPT ![c] = NoWork]
    /\ script' = [script EXCEPT ![c] = <<>>]
    /\ Forget(c)
    /\ UNCHANGED <<inbox, store>>

\* The call to the key-value server throws.
Throws(c) == Broken(c) /\ Excepts(c)

\* ToMessage throws.
ReadThrows(c) == ComesTo(c, "throws") /\ Excepts(c)

\* The Tribbler server is restarted, and its client has seen the connection close.
Restarts(c) ==
    /\ work' = [work EXCEPT ![c] = NoWork]
    /\ script' = [script EXCEPT ![c] = <<>>]
    /\ UNCHANGED told

\* An assertion of jsoncpp fails in ToMessage.
TribblerAborts(c) ==
    /\ ComesTo(c, "aborts")
    /\ ClientEnds(c)
    /\ Restarts(c)

\* The process is killed while it runs an operation.
TribblerCrash(c) == ClientCrash(c) /\ Restarts(c)

-----------------------------------------------------------------------------

OperationStep(c) ==
    \/ CreateUser(c) \/ CreateListed(c)
    \/ UserChecked(c) \/ OtherChecked(c) \/ Written(c)
    \/ PostsRead(c) \/ SubscriptionsRead(c)
    \/ CheckedAgain(c) \/ FeedBegins(c) \/ FeedGoesOn(c)
    \/ Throws(c) \/ ReadThrows(c) \/ TribblerAborts(c)

\* The cluster goes on by itself.
ClusterStep(A) == A /\ UNCHANGED <<script, work, told>>

Finished ==
    /\ \A c \in Client : script[c] = <<>> /\ work[c].stage = "idle"
    /\ Settled
    /\ UNCHANGED <<script, work, told>>

TNext ==
    \/ \E s \in Server : ClusterStep(Boot(s) \/ ServerStep(s) \/ Crash(s))
    \/ \E c \in Client : Accept(c) \/ OperationStep(c) \/ TribblerCrash(c)
    \/ Finished

TSpec == TInit /\ [][TNext]_tvars

\* Every process that can go on does; no client is obliged to make a call.
TFairness ==
    /\ \A s \in Server : WF_tvars(ClusterStep(ServerStep(s)))
    /\ \A c \in Client : WF_tvars(OperationStep(c))

TFairSpec == TSpec /\ TFairness
=============================================================================
