---------------------------- MODULE MCKVCluster ----------------------------
(***************************************************************************)
(* Small clusters for TLC: three servers, one or two Tribbler servers and  *)
(* the calls each of them makes.                                           *)
(***************************************************************************)
EXTENDS KVClusterProperties, TLC

CONSTANTS c1, c2

\* Contents with quotes in them, named for what becomes of them: they end the string
\* early, so that they are read as other contents; they also bring a stamp, which may
\* have more components than there are servers; or they bring a member of a type that
\* asString and asInt throw on, or jsoncpp asserts not to see.
MCUnescaped == {"cut", "forged", "long", "throws", "aborts"}

MCText == Reserved \cup {"ann", "bob", "hi", "yo"} \cup MCUnescaped

ReadingAs(ends, own, value, stamp) ==
    [ends |-> ends, own |-> own, value |-> value, vt |-> stamp]

MCMisread == [text \in MCUnescaped |->
    CASE text = "cut"    -> ReadingAs("returns", TRUE, "hi", <<>>)
      [] text = "forged" -> ReadingAs("returns", FALSE, "hi", <<2, 0, 2>>)
      [] text = "long"   -> ReadingAs("returns", FALSE, "hi", <<0, -1, 2, 1>>)
      [] OTHER           -> ReadingAs(text, FALSE, "", <<>>)]

\* No text is JSON without what ToJSON prints around it.
MCBare == [text \in MCText |->
    ReadingAs(IF text \in {"throws", "aborts"} THEN text ELSE "returns", FALSE, "", <<>>)]

PutUser(u)     == MakeOp("Put", UserKey(u), Plain(u))
ListUser(u)    == MakeOp("AddToList", UserList, Plain(u))
Post(u, t)     == MakeOp("AddToList", TribbleKey(u), Plain(t))
Subscribe(u, v)   == MakeOp("AddToList", SubKey(u), Plain(v))
Unsubscribe(u, v) == MakeOp("RemoveFromList", SubKey(u), Plain(v))
ReadPosts(u)   == MakeOp("GetList", TribbleKey(u), Plain(""))

TwoClients == {c1, c2}

\* Each Tribbler server has a key-value server of its own.
TwoEntries == (c1 :> 1) @@ (c2 :> 3)

\* Both talk to the same key-value server.
OneEntry == (c1 :> 1) @@ (c2 :> 1)

\* Posts through two servers, one of contents that cannot be read back, and the
\* creation of a user with the name of the command key, which advances a clock and
\* nothing else.
PostsPlan == (c1 :> {Post("ann", "hi")} \cup {Post("ann", text) : text \in MCUnescaped})
          @@ (c2 :> {Post("ann", "yo"), PutUser("server_syscmd")})

\* Posts by two users through two servers, one of them read as another one's contents
\* under its own stamp.
OrderPlan == (c1 :> {Post("ann", "hi"), Post("bob", "cut")})
          @@ (c2 :> {Post("ann", "yo"), Post("bob", "hi")})

\* One of the unreadable contents is posted at most.
OneUnreadable ==
    Cardinality({text \in MCUnescaped : Post("ann", text) \notin plan[c1]}) <= 1

\* Every key is written through one of the servers: one user and the list of users
\* through the first, another user and a tribble through the other; both add and
\* remove a subscription.
WritesPlan == (c1 :> {PutUser("ann"), ListUser("ann"), Subscribe("ann", "bob"),
                      Unsubscribe("ann", "bob")})
           @@ (c2 :> {PutUser("bob"), Post("bob", "hi"), Subscribe("bob", "ann"),
                      Unsubscribe("bob", "ann")})

\* The Tribbler servers make the calls of either plan.
BothPlans == [c \in Client |-> PostsPlan[c] \cup WritesPlan[c]]

\* The calls of one plan only are made, those of the second while nothing crashes.
OnePlan ==
    \/ \A c \in Client : WritesPlan[c] \subseteq plan[c]
    \/ faults = 0 /\ \A c \in Client : PostsPlan[c] \subseteq plan[c]

\* Removals that meet an addition made through the other server.
RemovalPlan == (c1 :> {Unsubscribe("ann", "bob")})
            @@ (c2 :> {Subscribe("ann", "bob"), Subscribe("ann", "hi")})

\* Additions through one server while others join, the last one of a name that
\* no other server can create.
JoinsPlan == (c1 :> {ListUser("ann"), PutUser("ann")})
          @@ (c2 :> {Subscribe("ann", "bob"), ListUser("server_id")})

\* A write and a read, for the runs about time.
LivePlan == (c1 :> {ListUser("ann")}) @@ (c2 :> {ReadPosts("ann")})

\* One write and one post, for the runs about one scenario.
ShortPlan == (c1 :> {ListUser("ann")}) @@ (c2 :> {Post("ann", "hi")})

\* The state space ends where one fault more than MaxCrashes has happened.
FewCrashes == faults <= MaxCrashes

\* Servers boot while no Tribbler server has anything to do with the cluster.
QuietBoots ==
    (\E s \in Server : pc'[s] \in {"find", "users", "subs", "join"}) =>
        /\ \A c \in Client : call'[c].st = "idle"
        /\ plan' = plan
=============================================================================
