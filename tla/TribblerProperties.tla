------------------------- MODULE TribblerProperties -------------------------
(***************************************************************************)
(* What the clients of the Tribbler servers can rely on while no process   *)
(* crashes and no key-value server's handler throws (faults = 0), although *)
(* every operation is several calls and nothing locks anything between     *)
(* them.  CreatedOnce holds whatever key-value servers they use; the       *)
(* others if they share one, or if there are only two, since of more       *)
(* servers one may be left without what two others write at once.          *)
(***************************************************************************)
EXTENDS Tribbler, KVClusterProperties

\* The types of the Tribbler servers' variables; a client sees statuses of its own
\* interface and never one of the store's.
TribblerTypeOK ==
    /\ script \in [Client -> Seq(Task)]
    /\ work \in [Client -> [stage : Stage, task : Task, no : Nat,
                            known : SUBSET (Client \X Nat), subs : SUBSET Text,
                            found : SUBSET [user : Text, item : Item]]]
    /\ \A a \in told : /\ a.by \in Client /\ a.no \in Nat /\ a.task \in Task
                     /\ a.status \in TribbleStatus \cup {"exception"}
    /\ \A c \in Client : Idle(c) <=> work[c].stage = "idle"

-----------------------------------------------------------------------------
(* Answers. *)

Ok(op) == {a \in told : a.task.op = op /\ a.status = "OK"}

\* The answer b had been given when the operation of a began.
Precedes(b, a) == <<b.by, b.no>> \in a.known

\* Operations that have begun, whether they have ended or not.
Begun(op) ==
    {t \in {a.task : a \in told} \cup {work[c].task : c \in {d \in Client : ~Idle(d)}} :
        t.op = op}

Did(op, user, arg) == \E t \in Begun(op) : t.user = user /\ t.arg = arg

\* Nobody else asked for what a is the answer to.
IsUnique(a) ==
    /\ \A b \in told \ {a} : b.task # a.task
    /\ \A c \in Client : work[c].task # a.task

\* The user that no CreateUser stores: its name is that of the command key.
CommandUser == ServerSyscmd[1]

-----------------------------------------------------------------------------
(* Users and subscriptions. *)

\* Of all the CreateUsers of a name one at most is answered OK, however they meet at
\* one key-value server or at several, between the look-up and the Put of each other.
CreatedOnce ==
    faults = 0 =>
        \A a, b \in Ok("CreateUser") :
            a.task.user = b.task.user /\ a.task.user # CommandUser => a = b

\* What a client was told is done is in the store of every server, and a user is in
\* both places that CreateUser writes to; only a removal can undo a subscription.
ToldIsStored ==
    faults = 0 => \A s \in Server :
        /\ \A a \in Ok("CreateUser") : a.task.user # CommandUser =>
              /\ UserKey(a.task.user) \in DOMAIN simple[s]
              /\ Plain(a.task.user) \in ItemsAt(lists[s], UserList)
        /\ \A a \in Ok("AddSubscription") :
              \/ Plain(a.task.arg) \in ItemsAt(lists[s], SubKey(a.task.user))
              \/ Did("RemoveSubscription", a.task.user, a.task.arg)
        /\ \A a \in Ok("PostTribble") :
              \E item \in ItemsAt(lists[s], TribbleKey(a.task.user)) :
                  item.value = a.task.arg

\* A user that s has, or is being told of.
IsUser(s, u) ==
    \/ UserKey(u) \in DOMAIN simple[s]
    \/ \E t \in Server : pc[t] = "bcast" /\ job[t].key = UserKey(u)

\* Whoever is subscribed to somebody on any server: both are users there, and they are
\* two, although the checks and the addition are three calls to perhaps another server.
SubscriptionsSound ==
    faults = 0 => \A s \in Server, u, v \in Text :
        Plain(v) \in ItemsAt(lists[s], SubKey(u)) =>
            u # v /\ IsUser(s, u) /\ IsUser(s, v)

\* Nobody else asked for the creation that a is the answer to.
OnlyCreation(a) ==
    /\ \A b \in told \ {a} : b.task.op = "CreateUser" => b.task.user # a.task.user
    /\ \A c \in Client : ~Idle(c) /\ Does(c, {"CreateUser"}) => User(c) # a.task.user

\* The keys of a server's own that a user can be called like.
OwnNames == {ServerId[1], ServerStatus[1]}

\* The text that is stored when the user posts the contents, whatever its stamp is.
Posted(user, contents) ==
    IF IsTribble(TribbleKey(user)) THEN ToJSON(contents, Zero) ELSE Plain(contents)

\* The feed of a may have taken in a tribble of u.
MayFollow(a, u) ==
    \/ a.task.op = "GetTribbles" /\ a.task.user = u
    \/ a.task.op = "GetTribblesBySubscription" /\ Did("AddSubscription", a.task.user, u)

\* Statuses say what is so.  A user is invalid only before its creation has been
\* answered; it is there already, or cannot be stored, only if somebody else asked for
\* it or the servers use its name themselves; a subscription is there only if somebody
\* else asked for it, and a post only if it was posted twice by the user without a
\* name, whose key is no tribble key; a removal fails only if it was asked for twice or
\* nothing was added yet; an exception means a feed of somebody whose tribble ToMessage
\* throws on.  Nothing else fails.
StatusesTrue ==
    faults = 0 => \A a \in told :
        /\ a.status # "INTERNAL_FAILURE"
        /\ a.status = "exception" =>
              \E u, text \in Text :
                  /\ MayFollow(a, u) /\ Did("PostTribble", u, text)
                  /\ ReadEnds(Posted(u, text)) = "throws"
        /\ a.status = "INVALID_USER" =>
              \A b \in Ok("CreateUser") :
                  Precedes(b, a) /\ b.task.user # CommandUser => b.task.user # a.task.user
        /\ a.status = "INVALID_SUBSCRIBETO" =>
              \/ a.task.op = "AddSubscription" /\ a.task.arg = a.task.user
              \/ \A b \in Ok("CreateUser") :
                    Precedes(b, a) /\ b.task.user # CommandUser => b.task.user # a.task.arg
        /\ a.status \in {"EEXISTS", "STORE_FAILED"} =>
              \/ a.task.op = "CreateUser" /\ (a.task.user \in OwnNames \/ ~OnlyCreation(a))
              \/ a.task.op = "AddSubscription" /\ a.status = "EEXISTS" /\ ~IsUnique(a)
              \/ /\ a.task.op = "PostTribble" /\ a.status = "EEXISTS"
                 /\ a.task.user = "" /\ ~IsUnique(a)
              \/ /\ a.task.op = "RemoveSubscription" /\ a.status = "STORE_FAILED"
                 /\ IsUnique(a) =>
                      \A b \in Ok("AddSubscription") :
                          Precedes(b, a) =>
                              b.task.user # a.task.user \/ b.task.arg # a.task.arg

-----------------------------------------------------------------------------
(* Feeds. *)

Feeds == Ok("GetTribbles") \cup Ok("GetTribblesBySubscription")

\* What a reader sees of it.
SeenAs(user, contents) == ToMessage(Posted(user, contents)).value

\* Where the answer a shows the tribble that was posted with b, or one that looks alike.
Places(a, b) ==
    {n \in DOMAIN a.tribbles :
        /\ a.tribbles[n].user = b.task.user
        /\ a.tribbles[n].item.value = SeenAs(b.task.user, b.task.arg)}

\* The feed of a takes in the tribbles of u: its own, or those of a subscription
\* that nobody has tried to remove.
Follows(a, u) ==
    \/ a.task.op = "GetTribbles" /\ a.task.user = u
    \/ /\ a.task.op = "GetTribblesBySubscription"
       /\ ~Did("RemoveSubscription", a.task.user, u)
       /\ \E b \in Ok("AddSubscription") :
             Precedes(b, a) /\ b.task.user = a.task.user /\ b.task.arg = u

\* A feed shows every tribble whose post was answered before the feed was asked for,
\* through whatever server, unless it is full, in the way it is read back, readable or
\* not; and it shows nothing but what was posted by the users it follows.
FeedsComplete ==
    faults = 0 => \A a \in Feeds :
        /\ Len(a.tribbles) <= MaxTribbles
        /\ \A b \in Ok("PostTribble") :
              Precedes(b, a) /\ Follows(a, b.task.user) =>
                  Places(a, b) # {} \/ Len(a.tribbles) = MaxTribbles
        /\ \A n \in DOMAIN a.tribbles :
              LET t == a.tribbles[n]
              IN  /\ MayFollow(a, t.user)
                  /\ \E text \in Text :
                        /\ Did("PostTribble", t.user, text)
                        /\ SeenAs(t.user, text) = t.item.value

\* The answer b is to a post that is read back as it was posted and that no other
\* text its user has posted looks like.
Legible(b) ==
    /\ b.task.user # "" /\ b.task.arg \notin Unescaped
    /\ \A text \in Unescaped :
          Did("PostTribble", b.task.user, text) => SeenAs(b.task.user, text) # b.task.arg

\* When one post had been answered before another was begun, through whatever server,
\* no feed shows the first above the second, or the first without the second when it
\* was asked for after both, whatever stamps unreadable tribbles are read with.
FeedsInOrder ==
    faults = 0 => \A a \in Feeds, b1, b2 \in Ok("PostTribble") :
        ( /\ Precedes(b1, b2) /\ IsUnique(b1) /\ IsUnique(b2)
          /\ Legible(b1) /\ Legible(b2) ) =>
            /\ \A m \in Places(a, b1), n \in Places(a, b2) : n < m
            /\ Precedes(b2, a) /\ Follows(a, b2.task.user) /\ Places(a, b1) # {} =>
                  Places(a, b2) # {}

-----------------------------------------------------------------------------

\* Every operation ends, with an answer or an exception, whoever crashes.
OperationsEnd == \A c \in Client : ~Idle(c) ~> Idle(c)
=============================================================================
