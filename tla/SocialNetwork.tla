---------------------------- MODULE SocialNetwork ----------------------------
(***************************************************************************)
(* What Tribbler.thrift promises, without servers: one set of users, one   *)
(* of subscriptions and one list of tribbles in the order of their         *)
(* posting.  Every operation takes effect, and its answer is decided, at   *)
(* one moment between the call and the answer; only the feed by            *)
(* subscription looks at one user after the other.                         *)
(***************************************************************************)
EXTENDS Naturals, Sequences, FiniteSets

CONSTANTS
    Client,                     \* one script runs at a time for each
    Scripts,                    \* what they may ask for: functions to sequences of tasks
    MaxTribbles,                \* the longest feed
    Initial                     \* names that are taken from the start

VARIABLES
    users,
    follows,    \* pairs of users
    posts,      \* tribbles with their numbers
    script,     \* tasks not yet begun
    doing,      \* the task each client waits for
    told        \* answers given

vars == <<users, follows, posts, script, doing, told>>

PostedBefore(a, b) == a.no < b.no

F == INSTANCE Feed WITH Older <- PostedBefore

\* The feed of some tribbles; numbers differ, so that there is only one.
FeedOf(some) ==
    LET feed == CHOOSE s \in F!Feeds(some) : TRUE
    IN  [n \in DOMAIN feed |-> [user |-> feed[n].user, contents |-> feed[n].contents]]

Answer(status, tribbles, subscriptions) ==
    [status |-> status, tribbles |-> tribbles, subscriptions |-> subscriptions]

Status(status) == Answer(status, <<>>, {})

NoAnswer == Status("none")

\* "left" and "found" belong to the feed by subscription: who is still to be looked
\* at, and what the others had posted.
Doing(task, no, answer, left, found) ==
    [task |-> task, no |-> no, answer |-> answer, left |-> left, found |-> found]

Nothing == Doing([op |-> "none", user |-> "", arg |-> ""], 0, NoAnswer, {}, {})

Init ==
    /\ users = Initial
    /\ follows = {}
    /\ posts = {}
    /\ script \in Scripts
    /\ doing = [c \in Client |-> Nothing]
    /\ told = {}

-----------------------------------------------------------------------------

Begin(c) ==
    /\ doing[c] = Nothing /\ script[c] # <<>>
    /\ doing' = [doing EXCEPT ![c] = Doing(Head(script[c]), Len(script[c]), NoAnswer, {}, {})]
    /\ script' = [script EXCEPT ![c] = Tail(@)]
    /\ UNCHANGED <<users, follows, posts, told>>

\* c waits for one of these operations, and its user is one or not.
Asks(c, ops, known) ==
    /\ doing[c].task.op \in ops
    /\ doing[c].answer = NoAnswer
    /\ (doing[c].task.user \in users) = known

User(c) == doing[c].task.user
Arg(c)  == doing[c].task.arg

Decide(c, answer) ==
    /\ doing' = [doing EXCEPT ![c].answer = answer, ![c].left = {}, ![c].found = {}]
    /\ UNCHANGED <<script, told>>

Create(c) ==
    /\ Asks(c, {"CreateUser"}, FALSE)
    /\ users' = users \cup {User(c)}
    /\ Decide(c, Status("OK"))
    /\ UNCHANGED <<follows, posts>>

\* The name is taken; which status says so depends on how long it has been.
Taken(c) ==
    /\ Asks(c, {"CreateUser"}, TRUE)
    /\ \E status \in {"EEXISTS", "STORE_FAILED"} : Decide(c, Status(status))
    /\ UNCHANGED <<users, follows, posts>>

Refuse(c) ==
    /\ doing[c] # Nothing /\ doing[c].task.op # "CreateUser"
    /\ Asks(c, {doing[c].task.op}, FALSE)
    /\ Decide(c, Status("INVALID_USER"))
    /\ UNCHANGED <<users, follows, posts>>

RefuseOther(c) ==
    /\ Asks(c, {"AddSubscription", "RemoveSubscription"}, TRUE)
    /\ \/ Arg(c) \notin users
       \/ doing[c].task.op = "AddSubscription" /\ Arg(c) = User(c)
    /\ Decide(c, Status("INVALID_SUBSCRIBETO"))
    /\ UNCHANGED <<users, follows, posts>>

Subscribe(c) ==
    /\ Asks(c, {"AddSubscription"}, TRUE) /\ Arg(c) \in users \ {User(c)}
    /\ follows' = follows \cup {<<User(c), Arg(c)>>}
    /\ Decide(c, Status(IF <<User(c), Arg(c)>> \in follows THEN "EEXISTS" ELSE "OK"))
    /\ UNCHANGED <<users, posts>>

Unsubscribe(c) ==
    /\ Asks(c, {"RemoveSubscription"}, TRUE) /\ Arg(c) \in users
    /\ follows' = follows \ {<<User(c), Arg(c)>>}
    /\ Decide(c, Status(IF <<User(c), Arg(c)>> \in follows THEN "OK" ELSE "STORE_FAILED"))
    /\ UNCHANGED <<users, posts>>

Post(c) ==
    /\ Asks(c, {"PostTribble"}, TRUE)
    /\ posts' = posts \cup
          {[user |-> User(c), contents |-> Arg(c), no |-> Cardinality(posts) + 1]}
    /\ Decide(c, Status("OK"))
    /\ UNCHANGED <<users, follows>>

PostsOf(u) == {p \in posts : p.user = u}

Show(c) ==
    /\ Asks(c, {"GetTribbles"}, TRUE)
    /\ Decide(c, Answer("OK", FeedOf(PostsOf(User(c))), {}))
    /\ UNCHANGED <<users, follows, posts>>

FollowedBy(u) == {v \in users : <<u, v>> \in follows}

List(c) ==
    /\ Asks(c, {"GetSubscriptions"}, TRUE)
    /\ Decide(c, Answer("OK", <<>>, FollowedBy(User(c))))
    /\ UNCHANGED <<users, follows, posts>>

\* The feed is decided when everybody has been looked at.
Look(c, left, found) ==
    /\ IF left = {} THEN Decide(c, Answer("OK", FeedOf(found), {}))
       ELSE doing' = [doing EXCEPT ![c].left = left, ![c].found = found]
            /\ UNCHANGED <<script, told>>
    /\ UNCHANGED <<users, follows, posts>>

LookUp(c) ==
    /\ Asks(c, {"GetTribblesBySubscription"}, TRUE) /\ doing[c].left = {}
    /\ Look(c, FollowedBy(User(c)), {})

LookAt(c, u) ==
    /\ u \in doing[c].left
    /\ Look(c, doing[c].left \ {u}, doing[c].found \cup PostsOf(u))

Tell(c) ==
    /\ doing[c].answer # NoAnswer
    /\ told' = told \cup {[by |-> c, no |-> doing[c].no, task |-> doing[c].task,
                           answer |-> doing[c].answer]}
    /\ doing' = [doing EXCEPT ![c] = Nothing]
    /\ UNCHANGED <<users, follows, posts, script>>

Next == \E c \in Client :
    \/ Begin(c) \/ Tell(c)
    \/ Create(c) \/ Taken(c) \/ Refuse(c) \/ RefuseOther(c)
    \/ Subscribe(c) \/ Unsubscribe(c) \/ Post(c)
    \/ Show(c) \/ List(c) \/ LookUp(c) \/ \E u \in doing[c].left : LookAt(c, u)

Spec == Init /\ [][Next]_vars
=============================================================================
