------------------------------ MODULE ThriftRpc ------------------------------
(***************************************************************************)
(* Calls over Thrift connections (the generated send_, recv_, dispatchCall *)
(* and process_ functions of KeyValueStore.cpp and Tribbler.cpp, and the   *)
(* TSimpleServer that both servers run in).  A connection is one TSocket   *)
(* and the client object made for it, which the code never uses again once *)
(* a call has thrown.  Calls carry no number that anybody looks at: which  *)
(* answer belongs to which call is a matter of their order alone.          *)
(***************************************************************************)
EXTENDS ThriftStruct

CONSTANTS
    Conn,                       \* connections that may be opened
    Client,                     \* the stubs of each connection's client object
    Processor,                  \* the server's methods
    Request,                    \* the calls that may be made over each connection
    Answer,                     \* what the handler of each method may return
    MaxCalls,                   \* calls made over one connection
    MaxCrashes                  \* processes that crash

\* What a caller passes and what a handler returns are objects of the classes.
ASSUME RpcAssumption ==
    /\ \A x \in Conn : \A r \in Request[x] :
          /\ r = [name |-> r.name, args |-> r.args]
          /\ r.name \in DOMAIN Client[x]
          /\ IsObject(Client[x][r.name].args, r.args)
    /\ \A n \in DOMAIN Processor : \A v \in Answer[n] :
          IsResponse(Processor[n].response, v)
    /\ MaxCalls \in Nat /\ MaxCrashes \in Nat

\* The classes of the two sides were generated from the same .thrift file.
ASSUME ClassesAgree ==
    \A x \in Conn : \A n \in DOMAIN Client[x] :
        /\ Client[x][n].name = n
        /\ n \in DOMAIN Processor => /\ Client[x][n] = Processor[n]
                                     /\ DOMAIN Processor[n].result = {0}

VARIABLES
    client,     \* what the caller at each connection's one end is doing
    link,       \* what the server at its other end is doing with it
    sent,       \* messages on their way to the server
    replied,    \* messages on their way to the caller
    backlog,    \* connections that were opened and not accepted yet
    job,        \* the call whose process_ function is running
    serving,    \* whether the server runs
    crashes,    \* processes that have crashed
    made, ran, got      \* calls made, handlers run, outcomes seen: see RemoteCall

vars == <<client, link, sent, replied, backlog, job, serving, crashes, made, ran, got>>

Abstract == INSTANCE RemoteCall WITH Served <- DOMAIN Processor

Value(v) == Abstract!Value(v)
Failure(kind) == Abstract!Failure(kind)
Thrown == Abstract!Thrown
Last(s) == Abstract!Last(s)

Message(type, name, body) == [type |-> type, name |-> name, body |-> body]

NoJob == [name |-> "", args |-> <<>>, outcome |-> Thrown]

Init ==
    /\ client = [x \in Conn |-> "new"]
    /\ link = [x \in Conn |-> "none"]
    /\ sent = [x \in Conn |-> <<>>]
    /\ replied = [x \in Conn |-> <<>>]
    /\ backlog = <<>>
    /\ job = NoJob
    /\ serving = TRUE
    /\ crashes = 0
    /\ Abstract!Init

-----------------------------------------------------------------------------
(* The client. *)

\* transport->open(), refused when the server does not run.
Open(x) ==
    /\ client[x] = "new"
    /\ IF serving
       THEN /\ client' = [client EXCEPT ![x] = "open"]
            /\ link' = [link EXCEPT ![x] = "backlog"]
            /\ backlog' = Append(backlog, x)
       ELSE /\ client' = [client EXCEPT ![x] = "closed"]
            /\ UNCHANGED <<link, backlog>>
    /\ UNCHANGED <<sent, replied, job, serving, crashes, made, ran, got>>

\* send_: nobody reads what is written to a connection the server has closed.
SendCall(x) ==
    /\ client[x] = "open" /\ Len(made[x]) < MaxCalls
    /\ \E r \in Request[x] :
          /\ made' = [made EXCEPT ![x] = Append(@, r)]
          /\ sent' = IF link[x] = "cut" THEN sent
                     ELSE [sent EXCEPT ![x] = Append(@,
                             Message("T_CALL", r.name, Write(Client[x][r.name].args, r.args)))]
    /\ client' = [client EXCEPT ![x] = "sent"]
    /\ UNCHANGED <<link, replied, backlog, job, serving, crashes, ran, got>>

\* The call is over; after an exception the caller drops the connection.
CallEnds(x, outcome) ==
    /\ got' = [got EXCEPT ![x] = Append(@, outcome)]
    /\ client' = [client EXCEPT ![x] = IF outcome.kind = "value" THEN "open" ELSE "closed"]

\* result.read, and the check of __isset.success.
ReadResult(stub, body) ==
    IF 0 \in Found(stub.result, body)
    THEN Value(Decode(stub.response, Read(stub.result, New(stub.result), body)[0]))
    ELSE Failure("missing result")

\* recv_.  A message of another type or name is skipped, and the function goes on to
\* read a struct that does not follow.
Receive(x) ==
    /\ client[x] = "sent" /\ replied[x] # <<>>
    /\ LET m    == Head(replied[x])
           stub == Client[x][Last(made[x]).name]
       IN  IF m.type = "T_EXCEPTION" THEN CallEnds(x, Failure(m.body))
           ELSE IF m.type # "T_REPLY" \/ m.name # stub.name
           THEN client' = [client EXCEPT ![x] = "stuck"] /\ UNCHANGED got
           ELSE CallEnds(x, ReadResult(stub, m.body))
    /\ replied' = [replied EXCEPT ![x] = Tail(@)]
    /\ UNCHANGED <<link, sent, backlog, job, serving, crashes, made, ran>>

\* A read meets the end of the stream.
ReceiveNothing(x) ==
    /\ client[x] \in {"sent", "stuck"} /\ link[x] = "cut" /\ replied[x] = <<>>
    /\ CallEnds(x, Failure("broken"))
    /\ UNCHANGED <<link, sent, replied, backlog, job, serving, crashes, made, ran>>

\* transport->close(), or the end of the TSocket.
Close(x) ==
    /\ client[x] = "open"
    /\ client' = [client EXCEPT ![x] = "closed"]
    /\ UNCHANGED <<link, sent, replied, backlog, job, serving, crashes, made, ran, got>>

\* The caller's process ends; its system closes the connection.
CallerCrash(x) ==
    /\ client[x] \in {"open", "sent", "stuck"} /\ crashes < MaxCrashes
    /\ client' = [client EXCEPT ![x] = "closed"]
    /\ crashes' = crashes + 1
    /\ UNCHANGED <<link, sent, replied, backlog, job, serving, made, ran, got>>

-----------------------------------------------------------------------------
(* The server: one connection at a time, one call after the other on it.     *)

Accepted == {"peek", "call", "reply"}

Accept ==
    /\ serving /\ backlog # <<>>
    /\ \A x \in Conn : link[x] \notin Accepted
    /\ link' = [link EXCEPT ![Head(backlog)] = "peek"]
    /\ backlog' = Tail(backlog)
    /\ UNCHANGED <<client, sent, replied, job, serving, crashes, made, ran, got>>

\* dispatchCall: an unknown method's arguments are skipped and the caller is told.
Reject(x) ==
    /\ link[x] = "peek" /\ sent[x] # <<>>
    /\ LET m == Head(sent[x])
       IN  /\ m.name \notin DOMAIN Processor
           /\ replied' = [replied EXCEPT ![x] = Append(@,
                             Message("T_EXCEPTION", m.name, "unknown method"))]
    /\ sent' = [sent EXCEPT ![x] = Tail(@)]
    /\ UNCHANGED <<client, link, backlog, job, serving, crashes, made, ran, got>>

\* dispatchCall and the first half of process_: the arguments are read.
Dispatch(x) ==
    /\ link[x] = "peek" /\ sent[x] # <<>>
    /\ LET m    == Head(sent[x])
           args == Processor[m.name].args
       IN  /\ m.name \in DOMAIN Processor
           /\ job' = [name |-> m.name, args |-> Read(args, New(args), m.body),
                      outcome |-> Thrown]
    /\ sent' = [sent EXCEPT ![x] = Tail(@)]
    /\ link' = [link EXCEPT ![x] = "call"]
    /\ UNCHANGED <<client, replied, backlog, serving, crashes, made, ran, got>>

\* iface_->method(args) returns, or throws what process_ catches.
Handle(x) ==
    /\ link[x] = "call"
    /\ \E o \in {Value(v) : v \in Answer[job.name]} \cup {Thrown} :
          /\ job' = [name |-> job.name, args |-> job.args, outcome |-> o]
          /\ ran' = [ran EXCEPT ![x] = Append(@,
                        [call |-> [name |-> job.name, args |-> job.args], outcome |-> o])]
    /\ link' = [link EXCEPT ![x] = "reply"]
    /\ UNCHANGED <<client, sent, replied, backlog, serving, crashes, made, got>>

\* Mutant of ReplyTo: __isset.success is not set.
ReplyToUnset(name, outcome) ==
    IF outcome.kind = "value"
    THEN Message("T_REPLY", name, WriteSet(Processor[name].result, <<>>, {}))
    ELSE Message("T_EXCEPTION", name, outcome.kind)

\* The second half of process_.
ReplyTo(name, outcome) ==
    LET p == Processor[name]
    IN  IF outcome.kind = "value"
        THEN Message("T_REPLY", name,
                     WriteSet(p.result, [i \in {0} |-> Encode(p.response, outcome.value)], {0}))
        ELSE Message("T_EXCEPTION", name, outcome.kind)

\* Mutant of Reply: the call stays open until the caller has read the answer.
ReplyAgain(x) ==
    /\ link[x] = "reply"
    /\ replied' = [replied EXCEPT ![x] = Append(@, ReplyTo(job.name, job.outcome))]
    /\ link' = [link EXCEPT ![x] = IF client[x] = "sent" THEN "call" ELSE "peek"]
    /\ UNCHANGED <<client, sent, backlog, job, serving, crashes, made, ran, got>>

Reply(x) ==
    /\ link[x] = "reply"
    /\ replied' = [replied EXCEPT ![x] = Append(@, ReplyTo(job.name, job.outcome))]
    /\ link' = [link EXCEPT ![x] = "peek"]
    /\ job' = NoJob
    /\ UNCHANGED <<client, sent, backlog, serving, crashes, made, ran, got>>

\* Mutant of HangUp: the end of the stream is not noticed.
HangUpNever(x) == link[x] = "peek" /\ sent[x] = <<>> /\ UNCHANGED vars

\* peek() finds the stream at its end.
HangUp(x) ==
    /\ link[x] = "peek" /\ sent[x] = <<>> /\ client[x] = "closed"
    /\ link' = [link EXCEPT ![x] = "cut"]
    /\ UNCHANGED <<client, sent, replied, backlog, job, serving, crashes, made, ran, got>>

\* The server's process ends, and every connection with it.
ServerCrash ==
    /\ serving /\ crashes < MaxCrashes
    /\ serving' = FALSE
    /\ crashes' = crashes + 1
    /\ link' = [x \in Conn |-> IF link[x] = "none" THEN "none" ELSE "cut"]
    /\ sent' = [x \in Conn |-> <<>>]
    /\ backlog' = <<>>
    /\ job' = NoJob
    /\ UNCHANGED <<client, replied, made, ran, got>>

ServerRestart ==
    /\ ~serving
    /\ serving' = TRUE
    /\ UNCHANGED <<client, link, sent, replied, backlog, job, crashes, made, ran, got>>

-----------------------------------------------------------------------------

CallerStep(x) ==
    Open(x) \/ SendCall(x) \/ Receive(x) \/ ReceiveNothing(x) \/ Close(x)

Serve(x) == Reject(x) \/ Dispatch(x) \/ Handle(x) \/ Reply(x) \/ HangUp(x)

ServerStep == Accept \/ \E x \in Conn : Serve(x)

\* Every connection has been used and closed.
Done ==
    /\ \A x \in Conn : client[x] = "closed" /\ link[x] \in {"none", "cut"}
    /\ UNCHANGED vars

Next ==
    \/ \E x \in Conn : CallerStep(x) \/ CallerCrash(x)
    \/ ServerStep \/ ServerCrash \/ ServerRestart
    \/ Done

Spec == Init /\ [][Next]_vars

\* Nobody is obliged to open a connection, to crash or to restart, but no program
\* here keeps a connection open without using it, and every process goes on.
Fairness ==
    /\ \A x \in Conn : WF_vars(Receive(x) \/ ReceiveNothing(x) \/ Close(x))
    /\ WF_vars(ServerStep)

FairSpec == Spec /\ Fairness
=============================================================================
