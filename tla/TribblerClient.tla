--------------------------- MODULE TribblerClient ---------------------------
(***************************************************************************)
(* The sample client (Tribbler_client.cpp): one connection, one script, and *)
(* the end when a call throws.                                             *)
(***************************************************************************)
EXTENDS TribblerProperties

Does1(op, user) == [op |-> op, user |-> user, arg |-> ""]

Does2(op, user, arg) == [op |-> op, user |-> user, arg |-> arg]

Beautiful == "What a beautiful day!"

ClientScript ==
    << Does1("CreateUser", "alice"), Does1("CreateUser", "bob"), Does1("CreateUser", "cindy"),
       Does2("AddSubscription", "alice", "bob"), Does2("AddSubscription", "alice", "cindy"),
       Does2("AddSubscription", "bob", "cindy"), Does2("AddSubscription", "cindy", "alice"),
       Does1("GetSubscriptions", "alice"), Does1("GetSubscriptions", "bob"),
       Does1("GetSubscriptions", "cindy"),
       Does2("RemoveSubscription", "alice", "cindy"),
       Does1("GetSubscriptions", "alice"),
       Does2("PostTribble", "alice", Beautiful),
       Does1("GetTribbles", "alice"), Does1("GetTribblesBySubscription", "bob") >>

\* The answer is to a call of the script.
AnswersCall(a) == a.task = ClientScript[Len(ClientScript) + 1 - a.no]

\* What the n-th last call of the script has been answered.
AnswersTo(n) == {a \in told : a.no = n}

\* On a cluster that nobody else uses and in which nothing crashes the client has
\* nothing to complain about: no call fails, the subscription that was removed is
\* gone, alice sees what she posted, and bob, whose only subscription is to cindy,
\* who never posted, gets an empty feed and no failure.
ScriptWorks ==
    ( /\ faults = 0
      /\ \A a \in told : a.no <= Len(ClientScript) /\ AnswersCall(a) ) =>
        /\ \A a \in told : a.status = "OK"
        /\ \A a \in AnswersTo(8) : a.subscriptions = {"bob", "cindy"}
        /\ \A a \in AnswersTo(4) : a.subscriptions = {"bob"}
        /\ \A a \in AnswersTo(2) :
              /\ Len(a.tribbles) = 1
              /\ a.tribbles[1].user = "alice" /\ a.tribbles[1].item.value = Beautiful
        /\ \A a \in AnswersTo(1) : a.tribbles = <<>>
=============================================================================
