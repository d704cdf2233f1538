----------------------------- MODULE MCTribbler -----------------------------
(***************************************************************************)
(* Small instances for TLC: two Tribbler servers, the key-value servers    *)
(* they talk to, and the scripts of their clients.                         *)
(***************************************************************************)
EXTENDS TribblerRefinement, TLC

CONSTANTS c1, c2

\* Contents with quotes in them: they end the string early and are read as others, or
\* they bring a stamp of their own as well, or a member that ToMessage throws on or
\* jsoncpp asserts not to see.
MCUnescaped == {"cut", "forged", "throws", "aborts"}

MCText == Reserved \cup {"ann", "bob", "hi", "ok", "yo"} \cup MCUnescaped

ReadingAs(ends, own, value, stamp) ==
    [ends |-> ends, own |-> own, value |-> value, vt |-> stamp]

MCMisread == [text \in MCUnescaped |->
    CASE text = "cut"    -> ReadingAs("returns", TRUE, "hi", <<>>)
      [] text = "forged" -> ReadingAs("returns", FALSE, "yo", <<2, 1>>)
      [] OTHER           -> ReadingAs(text, FALSE, "", <<>>)]

\* No text is JSON without what ToJSON prints around it.
MCBare == [text \in Text |->
    ReadingAs(IF text \in {"throws", "aborts"} THEN text ELSE "returns", FALSE, "", <<>>)]

Two == {c1, c2}

NoPlan == [c \in Client |-> {}]

OneEntry   == (c1 :> 1) @@ (c2 :> 1)
TwoEntries == (c1 :> 1) @@ (c2 :> 2)

Do(op, user, arg) == [op |-> op, user |-> user, arg |-> arg]

Create(u)         == Do("CreateUser", u, "")
Subscribe(u, v)   == Do("AddSubscription", u, v)
Unsubscribe(u, v) == Do("RemoveSubscription", u, v)
Post(u, text)     == Do("PostTribble", u, text)
Show(u)           == Do("GetTribbles", u, "")
Follow(u)         == Do("GetTribblesBySubscription", u, "")
List(u)           == Do("GetSubscriptions", u, "")

\* The clients create the same users, or one that has a reserved name; or they add
\* and remove the same subscription, perhaps at once, and try to subscribe a user to
\* itself; or both post by the same user, perhaps a tribble that is read back as
\* another one, and show the feed; or they post by a user without a name, one thing
\* twice or something that cannot be read at all, and show that user's tribbles or the
\* feed of a follower, who is there without having been created.
SharedScripts ==
    {(c1 :> <<Create("ann"), Create("bob"), Create("server_id")>>)
  @@ (c2 :> <<Create("bob"), Create("ann"), Create("server_syscmd"), List("ann")>>),
     (c1 :> <<Create("ann"), Subscribe("ann", "bob"), Unsubscribe("ann", "bob")>>)
  @@ (c2 :> <<Create("bob"), Subscribe("ann", "bob"), Subscribe("bob", "bob"), List("ann")>>),
     (c1 :> <<Create("ann"), Create("bob"), Subscribe("ann", "bob"), Unsubscribe("ann", "bob")>>)
  @@ (c2 :> <<Unsubscribe("ann", "bob"), List("ann")>>)}
    \cup
    {(c1 :> <<Create("ann"), Post("ann", t), Post("ann", "yo"), Show("ann")>>)
  @@ (c2 :> <<Create("ann"), Post("ann", "yo"), Post("ann", "hi"), Show("ann")>>) :
        t \in {"ok", "cut", "forged"}}
    \cup
    {(c1 :> <<Create(""), Post("", "hi"), Post("", t), Show("")>>)
  @@ (c2 :> <<Subscribe("server_id", ""), Post("", t), Follow("server_id")>>) :
        t \in {"hi", "throws", "aborts"}}

\* The sample client has the cluster to itself; or a user posts whom another one
\* follows, a user who is there without having been created.
NetworkText == MCText \cup {"alice", "cindy", Beautiful}

NetworkScripts ==
    {(c1 :> ClientScript) @@ (c2 :> <<>>),
     (c1 :> <<Create("ann"), Post("ann", "hi"), Post("ann", "yo")>>)
  @@ (c2 :> <<Subscribe("server_id", "ann"), Follow("server_id")>>)}
=============================================================================
