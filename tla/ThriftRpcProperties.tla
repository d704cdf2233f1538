------------------------- MODULE ThriftRpcProperties -------------------------
(***************************************************************************)
(* What the connections between clients and servers guarantee.             *)
(***************************************************************************)
EXTENDS ThriftRpc

\* How many messages of a call are under way: in either direction, or in the hands
\* of process_.
UnderWay(x) ==
    Len(sent[x]) + Len(replied[x]) + (IF link[x] \in {"call", "reply"} THEN 1 ELSE 0)

\* Requests and answers stay in step on every connection, although nothing numbers
\* them: a caller that waits has exactly one message under way (none only if the
\* server has closed the connection), one that does not wait has none, and whatever
\* is under way is about the last call made.  This is what lets recv_ take the first
\* answer it finds for its own.
InStep ==
    \A x \in Conn :
        /\ client[x] = "sent" => UnderWay(x) = 1 \/ (link[x] = "cut" /\ UnderWay(x) = 0)
        /\ client[x] = "open" => UnderWay(x) = 0
        /\ UnderWay(x) <= 1
        /\ \A q \in {sent[x], replied[x]} : \A n \in DOMAIN q :
              q[n].name = Last(made[x]).name
        /\ link[x] \in {"call", "reply"} => job.name = Last(made[x]).name

\* recv_ never reads past an answer it does not expect, and never meets an answer
\* without a result: both would need client and server to disagree.
AnswersFit ==
    \A x \in Conn :
        /\ client[x] # "stuck"
        /\ \A n \in DOMAIN got[x] : got[x][n] # Failure("missing result")

-----------------------------------------------------------------------------
(* The inductive invariant behind them. *)

Outcome ==
    {Value(v) : v \in UNION {Answer[n] : n \in DOMAIN Processor}}
        \cup {Failure(k) : k \in {"exception", "unknown method", "broken"}}

AnyRequest == UNION {Request[x] : x \in Conn}

\* The variables have the types the code gives them.
TypeOK ==
    /\ client \in [Conn -> {"new", "open", "sent", "stuck", "closed"}]
    /\ link \in [Conn -> {"none", "backlog", "cut"} \cup Accepted]
    /\ DOMAIN sent = Conn /\ DOMAIN replied = Conn
    /\ backlog \in Seq(Conn)
    /\ serving \in BOOLEAN
    /\ crashes \in Nat
    /\ made \in [Conn -> Seq(AnyRequest)]
    /\ ran \in [Conn -> Seq([call : AnyRequest, outcome : Outcome])]
    /\ got \in [Conn -> Seq(Outcome)]

CallMessage(x) ==
    LET r == Last(made[x])
    IN  Message("T_CALL", r.name, Write(Client[x][r.name].args, r.args))

NotRun(x) == Len(ran[x]) + 1 = Len(made[x])

HasRun(x) == made[x] # <<>> /\ Len(ran[x]) = Len(made[x])

\* Where the last call made over x is, from the sending to the answer.
Sent(x) ==
    /\ link[x] \in {"backlog", "peek"} /\ NotRun(x)
    /\ sent[x] = <<CallMessage(x)>> /\ replied[x] = <<>>

Handled(x) ==
    /\ sent[x] = <<>> /\ replied[x] = <<>> /\ link[x] = "call" /\ NotRun(x)
    /\ job.name \in DOMAIN Processor
    /\ Last(made[x]) = [name |-> job.name, args |-> job.args]

Concluded(x) ==
    /\ sent[x] = <<>> /\ replied[x] = <<>> /\ link[x] = "reply" /\ HasRun(x)
    /\ job.name \in DOMAIN Processor
    /\ job.name = Last(made[x]).name /\ job.outcome = Last(ran[x]).outcome

RightAnswer(x, m) ==
    LET n == Last(made[x]).name
    IN  \/ n \in DOMAIN Processor /\ HasRun(x) /\ m = ReplyTo(n, Last(ran[x]).outcome)
        \/ n \notin DOMAIN Processor /\ NotRun(x) /\ m = Message("T_EXCEPTION", n, "unknown method")

Replied(x) ==
    /\ sent[x] = <<>> /\ link[x] \in {"peek", "cut"}
    /\ replied[x] # <<>> /\ replied[x] = <<Head(replied[x])>>
    /\ RightAnswer(x, Head(replied[x]))

\* No message of x is under way.
Quiet(x) ==
    sent[x] = <<>> /\ replied[x] = <<>> /\ link[x] \in {"none", "backlog", "peek", "cut"}

OnlyValues(x) == \A n \in DOMAIN got[x] : got[x][n].kind = "value"

\* Every call is one that may be made here, and every run is of a call that was made
\* and ended as the handler may end.
RunsAreSound(x) ==
    /\ \A n \in DOMAIN made[x] : made[x][n] \in Request[x]
    /\ Len(ran[x]) <= Len(made[x])
    /\ \A n \in DOMAIN ran[x] :
          /\ ran[x][n].call = made[x][n]
          /\ ran[x][n].outcome \in {Value(v) : v \in Answer[made[x][n].name]} \cup {Thrown}

ConnectionOK(x) ==
    /\ Sent(x) \/ Handled(x) \/ Concluded(x) \/ Replied(x) \/ Quiet(x)
    /\ client[x] = "new" <=> link[x] = "none" /\ client[x] # "closed"
    /\ client[x] = "new" => Quiet(x) /\ made[x] = <<>> /\ ran[x] = <<>> /\ got[x] = <<>>
    /\ client[x] = "open" =>
          Quiet(x) /\ OnlyValues(x) /\ Len(ran[x]) = Len(made[x]) /\ Len(got[x]) = Len(made[x])
    /\ client[x] = "sent" =>
          OnlyValues(x) /\ Len(got[x]) + 1 = Len(made[x]) /\ (Quiet(x) => link[x] = "cut")
    /\ client[x] # "stuck"

OneJob == \A x, y \in Conn : link[x] \in Accepted /\ link[y] \in Accepted => x = y

BacklogOK ==
    /\ \A n \in DOMAIN backlog : link[backlog[n]] = "backlog"
    /\ \A m, n \in DOMAIN backlog : backlog[m] = backlog[n] => m = n

RpcInv == TypeOK /\ OneJob /\ BacklogOK /\ \A x \in Conn : ConnectionOK(x) /\ RunsAreSound(x)

-----------------------------------------------------------------------------
\* The generated code implements RemoteCall: at most one run per call, with the
\* call's own arguments, and its outcome is what the caller gets.
ImplementsRemoteCall == Abstract!Spec

\* Every call ends, whoever crashes, and every connection is accepted or cut: no
\* client of this code keeps the server's only thread by holding on to a connection.
CallsEnd ==
    \A x \in Conn :
        /\ client[x] = "sent" ~> client[x] # "sent"
        /\ link[x] = "backlog" ~> link[x] # "backlog"
=============================================================================
