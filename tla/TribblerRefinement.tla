------------------------- MODULE TribblerRefinement -------------------------
(***************************************************************************)
(* Tribbler servers that share one key-value server, whose peers may hold  *)
(* replicas, implement SocialNetwork as long as nothing crashes, for users *)
(* with names of their own and tribbles that can be read back.  What is    *)
(* true is what that server, Home, has stored: an operation takes effect   *)
(* when Home handles its last call, even if the peers hear of it later.    *)
(***************************************************************************)
EXTENDS TribblerClient

Home == CHOOSE s \in Server : \A c \in Client : Entry[c] = s

\* For users with names of their own and contents that can be read back: the server takes
\* "server_syscmd" for a command and a tribble of the user with the empty name for none.
TaskFits(task) ==
    /\ task.op = "CreateUser" => task.user # CommandUser
    /\ task.op = "PostTribble" => task.user # "" /\ task.arg \notin Unescaped

ScriptsFit ==
    \A f \in Scripts : \A c \in Client : \A n \in DOMAIN f[c] : TaskFits(f[c][n])

\* Home has handled the outstanding call of c, which it may be telling its peers of.
IsHandled(c) == Answered(c) \/ (pc[Home] = "bcast" /\ job[Home].from = c)

HandledStatus(c) == IF Answered(c) THEN call[c].status ELSE "OK"

-----------------------------------------------------------------------------
(* Tribbles.  The number of one is its place in the order of the stamps. *)

Number(msg) ==
    Cardinality({t \in Tribbles(Home) : PostedLess(t.msg.vt, msg.vt)}) + 1

Numbered(user, msg) == [user |-> user, contents |-> msg.value, no |-> Number(msg)]

\* A feed as it is shown, without the stamps.
Unstamped(shown) ==
    [n \in DOMAIN shown |->
        [user |-> shown[n].user, contents |-> shown[n].item.value]]

FeedOf(found) ==
    LET feed == CHOOSE s \in F!Feeds(found) : TRUE
    IN  Unstamped([n \in DOMAIN feed |-> Shown(feed[n])])

\* Whom GetTribblesBySubscription has still to look at, and what it has found.
LeftOf(c) ==
    CASE work[c].stage = "subs" /\ IsHandled(c) -> Subscriptions(c)
      [] work[c].stage = "posts" /\ IsHandled(c) -> work[c].subs \ {call[c].op.key[1]}
      [] OTHER -> work[c].subs

FoundBy(c) ==
    work[c].found \cup
    (IF work[c].stage = "posts" /\ IsHandled(c) THEN Listed(c, call[c].op.key[1]) ELSE {})

-----------------------------------------------------------------------------
(* Answers, from when on they can only be the one that will be given. *)

Answering(status, tribbles, subscriptions) ==
    [status |-> status, tribbles |-> tribbles, subscriptions |-> subscriptions]

Open == Answering("none", <<>>, {})

CheckDecides(failed, status) ==
    IF failed THEN Answering(status, <<>>, {}) ELSE Open

AnswerOf(c) ==
    LET op == work[c].task.op
    IN  IF ~IsHandled(c) THEN Open
        ELSE CASE work[c].stage = "user" /\ op = "CreateUser" ->
                CheckDecides(Exists(c), "EEXISTS")
          [] work[c].stage = "user" /\ op # "CreateUser" ->
                CheckDecides(~Exists(c), "INVALID_USER")
          [] work[c].stage = "other" ->
                CheckDecides(~Exists(c) \/ (op = "AddSubscription" /\ User(c) = Arg(c)),
                             "INVALID_SUBSCRIBETO")
          [] work[c].stage = "write" ->
                Answering(WriteStatus(op, HandledStatus(c)), <<>>, {})
          [] work[c].stage = "read" ->
                Answering("OK", FeedOf(Listed(c, User(c))), {})
          [] work[c].stage = "subs" /\ op = "GetSubscriptions" ->
                Answering("OK", <<>>, Subscriptions(c))
          [] work[c].stage \in {"subs", "posts"} /\ op # "GetSubscriptions" /\ LeftOf(c) = {} ->
                Answering("OK", FeedOf(FoundBy(c)), {})
          [] OTHER -> Open

DoingOf(c) ==
    IF Idle(c)
    THEN [task |-> [op |-> "none", user |-> "", arg |-> ""], no |-> 0,
          answer |-> Open, left |-> {}, found |-> {}]
    ELSE [task |-> work[c].task, no |-> work[c].no, answer |-> AnswerOf(c),
          left |-> IF AnswerOf(c) = Open THEN LeftOf(c) ELSE {},
          found |-> IF AnswerOf(c) = Open
                    THEN {Numbered(t.user, ToMessage(t.item)) : t \in FoundBy(c)} ELSE {}]

ToldOf(a) ==
    [by |-> a.by, no |-> a.no, task |-> a.task,
     answer |-> Answering(a.status, Unstamped(a.tribbles), a.subscriptions)]

-----------------------------------------------------------------------------

NetUsers == {u \in Text : UserKey(u) \in DOMAIN simple[Home]}

NetFollows ==
    UNION {{<<u, item.value>> : item \in ItemsAt(lists[Home], SubKey(u))} : u \in Text}

NetPosts == {Numbered(t.key[1], t.msg) : t \in Tribbles(Home)}

NetDoing == [c \in Client |-> DoingOf(c)]

NetTold == {ToldOf(a) : a \in told}

Net == INSTANCE SocialNetwork WITH
    Initial <- {"server_id", "server_status"},
    users <- NetUsers,
    follows <- NetFollows,
    posts <- NetPosts,
    doing <- NetDoing,
    told <- NetTold

\* The detailed specification implements the abstract one: it begins where that
\* begins, and until a process crashes every step of the servers is one of the
\* network or changes nothing there.  Operations are as good as atomic but for the
\* feed by subscription, although each is several calls with others in between.
ImplementsSocialNetwork ==
    /\ Net!Init
    /\ [][faults' = 0 => [Net!Next]_(Net!vars)]_tvars
=============================================================================
