--------------------------- MODULE ThriftRpcProofs ---------------------------
(***************************************************************************)
(* Proofs about the connections: what is written is read back, client and  *)
(* server stay in step, and the generated code implements RemoteCall.      *)
(***************************************************************************)
EXTENDS ThriftRpcProperties, TLAPS

-----------------------------------------------------------------------------
(* Structs. *)

\* An object written by one side and read into a new one by the other is the same.
LEMMA ReadBack ==
    ASSUME NEW class, NEW object, IsObject(class, object)
    PROVE  Read(class, New(class), Write(class, object)) = object
<1> DEFINE wire == Write(class, object)
<1>1. Found(class, wire) = DOMAIN class
  BY DEF Found, Write, Wired
<1>2. \A i \in DOMAIN class : wire[i].data = object[i]
  BY DEF Write, Wired
<1>3. Read(class, New(class), wire) = [i \in DOMAIN class |-> object[i]]
  BY <1>1, <1>2 DEF Read
<1> QED
  BY <1>3 DEF IsObject

\* The same for a list of structs.
LEMMA ReadEachBack ==
    ASSUME NEW class, NEW list, list = [n \in DOMAIN list |-> list[n]],
           \A n \in DOMAIN list : IsObject(class, list[n])
    PROVE  ReadEach(class, WriteEach(class, list)) = list
<1>1. \A n \in DOMAIN list : Read(class, New(class), Write(class, list[n])) = list[n]
  BY ReadBack
<1>2. WriteEach(class, list) = [n \in DOMAIN list |-> Write(class, list[n])]
  BY DEF WriteEach
<1>3. ReadEach(class, WriteEach(class, list))
        = [n \in DOMAIN list |-> Read(class, New(class), Write(class, list[n]))]
  BY <1>2 DEF ReadEach
<1> QED
  BY <1>1, <1>3

\* A response is decoded to what was encoded, the tribbles in it included.
LEMMA ResponseBack ==
    ASSUME NEW r, NEW v, IsResponse(r, v)
    PROVE  Decode(r, Encode(r, v)) = v
<1>1. CASE r = Bare
  BY <1>1 DEF Decode, Encode
<1>2. CASE r # Bare
  <2> DEFINE e == [i \in DOMAIN r.fields |->
                      IF HasStructs(r, i) THEN WriteEach(r.element, v[i]) ELSE v[i]]
             w == Read(r.fields, New(r.fields), Write(r.fields, e))
  <2>1. IsObject(r.fields, e)
    BY DEF IsObject
  <2>2. w = e
    BY <2>1, ReadBack
  <2>3. Decode(r, Encode(r, v)) =
            [i \in DOMAIN r.fields |->
                IF HasStructs(r, i) THEN ReadEach(r.element, w[i]) ELSE w[i]]
    BY <1>2 DEF Decode, Encode
  <2>4. IsObject(r.fields, v)
    BY <1>2 DEF IsResponse
  <2>5. ASSUME NEW i \in DOMAIN r.fields, HasStructs(r, i)
        PROVE  ReadEach(r.element, e[i]) = v[i]
    <3>1. v[i] = [n \in DOMAIN v[i] |-> v[i][n]]
      BY <1>2, <2>5 DEF IsResponse
    <3>2. \A n \in DOMAIN v[i] : IsObject(r.element, v[i][n])
      BY <1>2, <2>5 DEF IsResponse
    <3>3. ReadEach(r.element, WriteEach(r.element, v[i])) = v[i]
      BY <3>1, <3>2, ReadEachBack
    <3> QED
      BY <2>5, <3>3
  <2>6. \A i \in DOMAIN r.fields :
            (IF HasStructs(r, i) THEN ReadEach(r.element, e[i]) ELSE e[i]) = v[i]
    BY <2>5
  <2>7. Decode(r, Encode(r, v)) = [i \in DOMAIN r.fields |-> v[i]]
    <3> HIDE DEF e
    <3> QED  BY <2>2, <2>3, <2>6
  <2> QED
    BY <2>4, <2>7 DEF IsObject
<1> QED
  BY <1>1, <1>2

\* What recv_ makes of the result that process_ writes is the handler's answer.
LEMMA ResultBack ==
    ASSUME NEW m, NEW v, DOMAIN m.result = {0}, IsResponse(m.response, v)
    PROVE  ReadResult(m, WriteSet(m.result, [i \in {0} |-> Encode(m.response, v)], {0}))
             = Value(v)
<1> DEFINE body == WriteSet(m.result, [i \in {0} |-> Encode(m.response, v)], {0})
<1>1. body = [i \in {0} |-> Wired(m.result[i], Encode(m.response, v))]
  BY DEF WriteSet
<1>2. Found(m.result, body) = {0}
  BY <1>1 DEF Found, Wired
<1>3. body[0].data = Encode(m.response, v)
  BY <1>1 DEF Wired
<1>4. Read(m.result, New(m.result), body)[0] = Encode(m.response, v)
  BY <1>2, <1>3 DEF Read
<1> QED
  BY <1>2, <1>4, ResponseBack DEF ReadResult

-----------------------------------------------------------------------------
(* Sequences. *)

\* A sequence of one message.
LEMMA Singleton ==
    ASSUME NEW m
    PROVE  /\ Append(<<>>, m) = <<m>> /\ <<m>> # <<>>
           /\ Head(<<m>>) = m /\ Tail(<<m>>) = <<>>
  OBVIOUS

\* What a sequence is after something was appended to it.
LEMMA Appended ==
    ASSUME NEW S, NEW s \in Seq(S), NEW e \in S
    PROVE  /\ Append(s, e) \in Seq(S)
           /\ Len(Append(s, e)) = Len(s) + 1 /\ Len(s) \in Nat
           /\ Append(s, e) # <<>>
           /\ Last(Append(s, e)) = e
           /\ DOMAIN Append(s, e) = DOMAIN s \cup {Len(s) + 1}
           /\ \A n \in DOMAIN s : Append(s, e)[n] = s[n]
           /\ Append(s, e)[Len(s) + 1] = e
  BY DEF Last, Abstract!Last

-----------------------------------------------------------------------------
(* The invariant. *)

Same(y) ==
    /\ client'[y] = client[y] /\ link'[y] = link[y]
    /\ sent'[y] = sent[y] /\ replied'[y] = replied[y]
    /\ made'[y] = made[y] /\ ran'[y] = ran[y] /\ got'[y] = got[y]

\* A connection that a step leaves alone stays as it should be, if the step keeps
\* its hands off the job when that is the connection's.
LEMMA OtherConnection ==
    ASSUME NEW y \in Conn, ConnectionOK(y), RunsAreSound(y), Same(y),
           link[y] \in {"call", "reply"} => job' = job
    PROVE  ConnectionOK(y)' /\ RunsAreSound(y)'
<1>1. /\ Last(made'[y]) = Last(made[y]) /\ Last(ran'[y]) = Last(ran[y])
      /\ CallMessage(y)' = CallMessage(y)
  BY DEF Same, CallMessage
<1>2. \A m : RightAnswer(y, m)' <=> RightAnswer(y, m)
  BY <1>1 DEF Same, RightAnswer, HasRun, NotRun
<1>3. /\ Sent(y) => Sent(y)'
      /\ Handled(y) => Handled(y)'
      /\ Concluded(y) => Concluded(y)'
      /\ Replied(y) => Replied(y)'
      /\ Quiet(y)' <=> Quiet(y)
  BY <1>1, <1>2 DEF Same, Sent, Handled, Concluded, Replied, Quiet, HasRun, NotRun
<1>4. ConnectionOK(y)'
  BY <1>3 DEF Same, ConnectionOK, OnlyValues
<1>5. RunsAreSound(y)'
  BY DEF Same, RunsAreSound
<1> QED
  BY <1>4, <1>5

\* A step of one connection that neither opens nor accepts it.
LEMMA OneConnection ==
    ASSUME NEW x \in Conn, RpcInv, TypeOK',
           \A y \in Conn \ {x} : Same(y),
           \A y \in Conn \ {x} : link[y] \in {"call", "reply"} => job' = job,
           link'[x] \in Accepted => link[x] \in Accepted,
           backlog' = backlog, link[x] = "backlog" => link'[x] = "backlog",
           ConnectionOK(x)', RunsAreSound(x)'
    PROVE  RpcInv'
<1>1. \A y \in Conn : ConnectionOK(y)' /\ RunsAreSound(y)'
  BY OtherConnection DEF RpcInv
<1>2. OneJob'
  BY DEF RpcInv, OneJob, Same
<1>3. BacklogOK'
  BY DEF RpcInv, BacklogOK, Same, TypeOK
<1> QED
  BY <1>1, <1>2, <1>3 DEF RpcInv

\* The invariant holds initially.
LEMMA RpcInit == Init => RpcInv
<1> SUFFICES ASSUME Init PROVE RpcInv
  OBVIOUS
<1> USE DEF Init, Abstract!Init
<1>1. TypeOK
  BY RpcAssumption DEF TypeOK, Accepted
<1>2. OneJob /\ BacklogOK
  BY DEF OneJob, BacklogOK, Accepted
<1>3. \A x \in Conn : ConnectionOK(x) /\ RunsAreSound(x)
  BY DEF ConnectionOK, RunsAreSound, Quiet
<1> QED
  BY <1>1, <1>2, <1>3 DEF RpcInv

\* A connection is opened, or refused.
LEMMA OpenStep ==
    ASSUME RpcInv, NEW x \in Conn, Open(x)
    PROVE  RpcInv'
<1>1. /\ Append(backlog, x) \in Seq(Conn) /\ Len(backlog) \in Nat
      /\ DOMAIN Append(backlog, x) = DOMAIN backlog \cup {Len(backlog) + 1}
      /\ \A n \in DOMAIN backlog : Append(backlog, x)[n] = backlog[n]
      /\ Append(backlog, x)[Len(backlog) + 1] = x
  BY Appended DEF RpcInv, TypeOK
<1>2. TypeOK'
  BY <1>1 DEF TypeOK, RpcInv, Open
<1>3. \A y \in Conn \ {x} : Same(y)
  BY DEF Same, TypeOK, RpcInv, Open
<1>4. /\ client[x] = "new" /\ Quiet(x) /\ link[x] = "none"
      /\ made[x] = <<>> /\ ran[x] = <<>> /\ got[x] = <<>>
  BY DEF ConnectionOK, RpcInv, Open
<1>5. ConnectionOK(x)' /\ RunsAreSound(x)'
  BY <1>4 DEF ConnectionOK, RunsAreSound, Quiet, TypeOK, OnlyValues, RpcInv, Open
<1>6. \A y \in Conn : ConnectionOK(y)' /\ RunsAreSound(y)'
  BY <1>3, <1>5, OtherConnection DEF RpcInv, Open
<1>7. OneJob'
  BY <1>4 DEF OneJob, TypeOK, Accepted, RpcInv, Open
<1>8. BacklogOK'
  <2>1. CASE ~serving
    BY <2>1 DEF BacklogOK, RpcInv, Open
  <2>2. CASE serving
    <3>1. backlog' = Append(backlog, x) /\ link' = [link EXCEPT ![x] = "backlog"]
      BY <2>2 DEF Open
    <3>2. \A n \in DOMAIN backlog : backlog[n] # x /\ backlog[n] \in Conn
      BY <1>4 DEF RpcInv, BacklogOK, TypeOK
    <3>3. ASSUME NEW n \in DOMAIN backlog' PROVE link'[backlog'[n]] = "backlog"
      <4>1. CASE n \in DOMAIN backlog
        BY <1>1, <3>1, <3>2, <4>1 DEF RpcInv, BacklogOK, TypeOK
      <4>2. CASE n = Len(backlog) + 1
        BY <1>1, <3>1, <4>2 DEF RpcInv, TypeOK
      <4> QED
        BY <1>1, <3>1, <4>1, <4>2
    <3>4. \A n \in DOMAIN backlog : backlog'[n] = backlog[n] /\ backlog'[n] # x
      BY <1>1, <3>1, <3>2
    <3>5. backlog'[Len(backlog) + 1] = x
      BY <1>1, <3>1
    <3>6. DOMAIN backlog' = DOMAIN backlog \cup {Len(backlog) + 1}
      BY <1>1, <3>1
    <3>7. \A m, n \in DOMAIN backlog : backlog[m] = backlog[n] => m = n
      BY DEF RpcInv, BacklogOK
    <3>8. \A m, n \in DOMAIN backlog' : backlog'[m] = backlog'[n] => m = n
      BY <3>4, <3>5, <3>6, <3>7
    <3> QED
      BY <3>3, <3>8 DEF BacklogOK
  <2> QED
    BY <2>1, <2>2
<1> QED
  BY <1>2, <1>6, <1>7, <1>8 DEF RpcInv

\* A call is sent.
LEMMA SendStep ==
    ASSUME RpcInv, NEW x \in Conn, SendCall(x)
    PROVE  RpcInv'
<1>1. PICK r \in Request[x] :
        /\ made' = [made EXCEPT ![x] = Append(@, r)]
        /\ sent' = IF link[x] = "cut" THEN sent
                   ELSE [sent EXCEPT ![x] = Append(@,
                           Message("T_CALL", r.name, Write(Client[x][r.name].args, r.args)))]
  BY DEF SendCall
<1> USE DEF RpcInv
<1>2. /\ client[x] = "open" /\ client' = [client EXCEPT ![x] = "sent"]
      /\ UNCHANGED <<link, replied, backlog, job, serving, crashes, ran, got>>
  BY DEF SendCall
<1>3. r \in AnyRequest
  BY DEF AnyRequest
<1>4. TypeOK'
  BY <1>1, <1>2, <1>3, Appended DEF TypeOK
<1>5. \A y \in Conn \ {x} : Same(y)
  BY <1>1, <1>2 DEF Same, TypeOK
<1>6. /\ Quiet(x) /\ OnlyValues(x)
      /\ Len(ran[x]) = Len(made[x]) /\ Len(got[x]) = Len(made[x])
      /\ link[x] # "none"
  BY <1>2 DEF ConnectionOK
<1>7. /\ made'[x] = Append(made[x], r) /\ Last(made'[x]) = r
      /\ Len(made'[x]) = Len(made[x]) + 1 /\ Len(made[x]) \in Nat
      /\ \A n \in DOMAIN made[x] : made'[x][n] = made[x][n]
  BY <1>1, <1>3, Appended DEF TypeOK
<1>8. NotRun(x)'
  BY <1>2, <1>6, <1>7 DEF NotRun
<1>9. ASSUME link[x] = "cut" PROVE ConnectionOK(x)'
  BY <1>1, <1>2, <1>6, <1>7, <1>9 DEF ConnectionOK, Quiet, OnlyValues, TypeOK
<1>10. ASSUME link[x] # "cut" PROVE ConnectionOK(x)'
  <2>1. sent'[x] = <<CallMessage(x)'>>
    BY <1>1, <1>6, <1>7, <1>10, Singleton DEF CallMessage, Quiet, TypeOK
  <2>2. Sent(x)'
    BY <1>2, <1>6, <1>8, <1>10, <2>1 DEF Sent, Quiet
  <2>3. ~Quiet(x)'
    BY <2>1 DEF Quiet
  <2>4. OnlyValues(x)'
    BY <1>2, <1>6 DEF OnlyValues
  <2>5. /\ client'[x] = "sent" /\ link'[x] # "none" /\ Len(got'[x]) + 1 = Len(made'[x])
    BY <1>2, <1>6, <1>7 DEF TypeOK
  <2> QED
    BY <2>2, <2>3, <2>4, <2>5 DEF ConnectionOK
<1>11. ConnectionOK(x)'
  BY <1>9, <1>10
<1>12. RunsAreSound(x)'
  <2>1. DOMAIN ran[x] \subseteq DOMAIN made[x] /\ ran[x] = ran'[x]
    BY <1>2, <1>6 DEF TypeOK
  <2>2. \A n \in DOMAIN made'[x] : made'[x][n] \in Request[x]
    <3>1. DOMAIN made'[x] = DOMAIN made[x] \cup {Len(made[x]) + 1}
      BY <1>1, <1>3, Appended DEF TypeOK
    <3>2. made'[x][Len(made[x]) + 1] = r
      BY <1>1, <1>3, Appended DEF TypeOK
    <3> QED
      BY <1>7, <3>1, <3>2 DEF RunsAreSound
  <2> QED
    BY <1>6, <1>7, <2>1, <2>2 DEF RunsAreSound
<1> QED
  BY <1>2, <1>4, <1>5, <1>11, <1>12, OneConnection

\* Where a connection is when a message is under way on it.
LEMMA WhereItIs ==
    ASSUME NEW x \in Conn, ConnectionOK(x)
    PROVE  /\ sent[x] # <<>> => Sent(x)
           /\ link[x] = "call" => Handled(x)
           /\ link[x] = "reply" => Concluded(x)
           /\ replied[x] # <<>> => Replied(x)
           /\ ~Quiet(x) => client[x] \notin {"new", "open"}
<1>1. <<CallMessage(x)>> # <<>>
  OBVIOUS
<1> QED
  BY <1>1 DEF ConnectionOK, Sent, Handled, Concluded, Replied, Quiet

\* The caller has gone, with whatever was under way.
LEMMA Gone ==
    ASSUME NEW x \in Conn, RpcInv, TypeOK', client[x] # "new",
           client' = [client EXCEPT ![x] = "closed"],
           UNCHANGED <<link, sent, replied, backlog, job, made, ran>>,
           \A y \in Conn \ {x} : got'[y] = got[y]
    PROVE  RpcInv'
<1>1. \A y \in Conn \ {x} : Same(y)
  BY DEF Same, RpcInv, TypeOK
<1>2. client'[x] = "closed" /\ RunsAreSound(x)'
  BY DEF RpcInv, TypeOK, RunsAreSound
<1>3. /\ Last(made'[x]) = Last(made[x]) /\ Last(ran'[x]) = Last(ran[x])
      /\ CallMessage(x)' = CallMessage(x)
  BY DEF CallMessage
<1>4. \A m : RightAnswer(x, m)' <=> RightAnswer(x, m)
  BY <1>3 DEF RightAnswer, HasRun, NotRun
<1>5. /\ Sent(x) => Sent(x)'
      /\ Handled(x) => Handled(x)'
      /\ Concluded(x) => Concluded(x)'
      /\ Replied(x) => Replied(x)'
      /\ Quiet(x) => Quiet(x)'
  BY <1>3, <1>4 DEF Sent, Handled, Concluded, Replied, Quiet, HasRun, NotRun
<1>6. ConnectionOK(x)'
  BY <1>2, <1>5 DEF ConnectionOK, RpcInv
<1> QED
  BY <1>1, <1>2, <1>6, OneConnection

\* Closing, and a caller that dies.
LEMMA CloseStep ==
    ASSUME RpcInv, NEW x \in Conn, Close(x) \/ CallerCrash(x)
    PROVE  RpcInv'
<1>1. TypeOK'
  <2>1. CASE Close(x)
    BY <2>1 DEF RpcInv, TypeOK, Close
  <2>2. CASE CallerCrash(x)
    <3>1. crashes' \in Nat
      BY <2>2 DEF RpcInv, TypeOK, CallerCrash
    <3>2. client' \in [Conn -> {"new", "open", "sent", "stuck", "closed"}]
      BY <2>2 DEF RpcInv, TypeOK, CallerCrash
    <3> QED
      BY <2>2, <3>1, <3>2 DEF RpcInv, TypeOK, CallerCrash
  <2> QED
    BY <2>1, <2>2
<1> QED
  BY <1>1, Gone DEF Close, CallerCrash

\* The end of the stream.
LEMMA ReceiveNothingStep ==
    ASSUME RpcInv, NEW x \in Conn, ReceiveNothing(x)
    PROVE  RpcInv'
<1>1. Failure("broken") \in Outcome /\ Failure("broken").kind = "broken"
  BY DEF Outcome, Failure, Abstract!Failure
<1>2. /\ got' = [got EXCEPT ![x] = Append(@, Failure("broken"))]
      /\ client' = [client EXCEPT ![x] = "closed"]
      /\ UNCHANGED <<link, sent, replied, backlog, job, serving, crashes, made, ran>>
      /\ client[x] # "new"
  BY <1>1 DEF ReceiveNothing, CallEnds
<1>3. TypeOK'
  BY <1>1, <1>2, Appended DEF RpcInv, TypeOK
<1>4. \A y \in Conn \ {x} : got'[y] = got[y]
  BY <1>2 DEF RpcInv, TypeOK
<1> QED
  BY <1>2, <1>3, <1>4, Gone

\* The server's next connection.
LEMMA AcceptStep ==
    ASSUME RpcInv, Accept
    PROVE  RpcInv'
<1>1. PICK x \in Conn :
      /\ x = backlog[1] /\ 1 \in DOMAIN backlog
      /\ backlog' \in Seq(Conn) /\ backlog' = Tail(backlog)
      /\ link' = [link EXCEPT ![x] = "peek"]
      /\ \A y \in Conn : link[y] \notin Accepted
      /\ UNCHANGED <<client, sent, replied, job, serving, crashes, made, ran, got>>
  <2>1. backlog \in Seq(Conn) /\ backlog # <<>>
    BY DEF Accept, RpcInv, TypeOK
  <2>2. /\ Head(backlog) \in Conn /\ Head(backlog) = backlog[1]
        /\ 1 \in DOMAIN backlog /\ Tail(backlog) \in Seq(Conn)
    BY <2>1
  <2> QED
    BY <2>2 DEF Accept
<1>2. \A n \in DOMAIN backlog' : n + 1 \in DOMAIN backlog /\ backlog'[n] = backlog[n + 1] /\ n \in Nat \ {0}
  BY <1>1 DEF RpcInv, TypeOK
<1>3. link[x] = "backlog"
  BY <1>1 DEF RpcInv, BacklogOK
<1>4. TypeOK'
  BY <1>1 DEF RpcInv, TypeOK, Accepted
<1>5. OneJob'
  BY <1>1 DEF RpcInv, TypeOK, OneJob
<1>6. BacklogOK'
  <2>1. \A n \in DOMAIN backlog' : backlog'[n] # x /\ backlog'[n] \in Conn /\ link[backlog'[n]] = "backlog"
    <3> SUFFICES ASSUME NEW n \in DOMAIN backlog'
                 PROVE  backlog'[n] # x /\ backlog'[n] \in Conn /\ link[backlog'[n]] = "backlog"
      OBVIOUS
    <3>1. n + 1 # 1 /\ n + 1 \in DOMAIN backlog
      BY <1>2
    <3>2. backlog[n + 1] # backlog[1]
      BY <1>1, <3>1 DEF RpcInv, BacklogOK
    <3>3. backlog[n + 1] \in Conn
      BY <3>1 DEF RpcInv, TypeOK
    <3> QED
      BY <1>1, <1>2, <3>1, <3>2, <3>3 DEF RpcInv, BacklogOK
  <2>2. \A n \in DOMAIN backlog' : link'[backlog'[n]] = "backlog"
    BY <1>1, <2>1 DEF RpcInv, TypeOK
  <2>3. ASSUME NEW m \in DOMAIN backlog', NEW n \in DOMAIN backlog', backlog'[m] = backlog'[n]
        PROVE  m = n
    <3>1. m + 1 = n + 1
      BY <1>2, <2>3 DEF RpcInv, BacklogOK
    <3> QED
      BY <1>2, <3>1
  <2> QED
    BY <2>2, <2>3 DEF BacklogOK
<1>7. ASSUME NEW y \in Conn \ {x} PROVE ConnectionOK(y)' /\ RunsAreSound(y)'
  <2>1. Same(y)
    BY <1>1 DEF Same, RpcInv, TypeOK
  <2> QED
    BY <1>1, <2>1, OtherConnection DEF RpcInv
<1>8. ConnectionOK(x)' /\ RunsAreSound(x)'
  <2>1. ConnectionOK(x) /\ RunsAreSound(x)
    BY <1>1 DEF RpcInv
  <2>2. link'[x] = "peek"
    BY <1>1 DEF RpcInv, TypeOK
  <2>3. Sent(x) \/ Quiet(x)
    BY <1>3, <2>1 DEF ConnectionOK, Handled, Concluded, Replied
  <2>4. /\ Sent(x) => Sent(x)'
        /\ Quiet(x) => Quiet(x)'
        /\ Quiet(x)' => Quiet(x)
    BY <1>1, <1>3, <2>2 DEF Sent, Quiet, CallMessage, NotRun
  <2>5. ConnectionOK(x)'
    BY <1>1, <1>3, <2>1, <2>2, <2>3, <2>4 DEF ConnectionOK, OnlyValues
  <2> QED
    BY <1>1, <2>1, <2>5 DEF RunsAreSound
<1> QED
  BY <1>1, <1>4, <1>5, <1>6, <1>7, <1>8 DEF RpcInv

\* A step of the server at the connection x that it has accepted.
LEMMA ServedConnection ==
    ASSUME NEW x \in Conn, RpcInv, link[x] \in Accepted,
           TypeOK', ConnectionOK(x)', RunsAreSound(x)',
           \A y \in Conn \ {x} : Same(y), backlog' = backlog
    PROVE  RpcInv'
<1>1. \A y \in Conn \ {x} : link[y] \in {"call", "reply"} => job' = job
  BY DEF RpcInv, OneJob, Accepted
<1>2. link[x] # "backlog"
  BY DEF Accepted
<1> QED
  BY <1>1, <1>2, OneConnection

\* An unknown method.
LEMMA RejectStep ==
    ASSUME RpcInv, NEW x \in Conn, Reject(x)
    PROVE  RpcInv'
<1> DEFINE n == Last(made[x]).name
           m == Message("T_EXCEPTION", n, "unknown method")
<1>1. ConnectionOK(x) /\ RunsAreSound(x)
  BY DEF RpcInv
<1>2. Sent(x) /\ link[x] = "peek" /\ client[x] \notin {"new", "open"}
  BY <1>1, WhereItIs DEF Reject, Quiet
<1>3. Head(sent[x]) = CallMessage(x) /\ Tail(sent[x]) = <<>>
  BY <1>2, Singleton DEF Sent
<1>4. CallMessage(x).name = n
  BY DEF CallMessage, Message
<1>5. /\ n \notin DOMAIN Processor
      /\ replied' = [replied EXCEPT ![x] = Append(@, m)]
      /\ sent' = [sent EXCEPT ![x] = <<>>]
      /\ UNCHANGED <<client, link, backlog, job, serving, crashes, made, ran, got>>
  BY <1>3, <1>4 DEF Reject
<1>6. replied'[x] = <<m>> /\ sent'[x] = <<>>
  BY <1>2, <1>5, Singleton DEF Sent, RpcInv, TypeOK
<1>7. TypeOK'
  BY <1>5 DEF RpcInv, TypeOK
<1>8. Replied(x)'
  <2>1. RightAnswer(x, m)'
    BY <1>2, <1>5 DEF RightAnswer, Sent, NotRun
  <2> QED
    BY <1>2, <1>5, <1>6, <2>1, Singleton DEF Replied
<1>9. ConnectionOK(x)'
  BY <1>1, <1>2, <1>5, <1>6, <1>8, Singleton DEF ConnectionOK, Quiet, OnlyValues
<1>10. RunsAreSound(x)'
  BY <1>1, <1>5 DEF RunsAreSound
<1>11. \A y \in Conn \ {x} : Same(y)
  BY <1>5 DEF Same, RpcInv, TypeOK
<1> QED
  BY <1>2, <1>5, <1>7, <1>9, <1>10, <1>11, ServedConnection DEF Accepted

\* What process_ reads are the arguments the call was made with.
LEMMA ArgumentsBack ==
    ASSUME NEW x \in Conn, NEW r \in Request[x], r.name \in DOMAIN Processor
    PROVE  LET args == Processor[r.name].args
           IN  Read(args, New(args), Write(Client[x][r.name].args, r.args)) = r.args
<1>1. Client[x][r.name] = Processor[r.name]
  BY RpcAssumption, ClassesAgree
<1>2. IsObject(Processor[r.name].args, r.args)
  BY <1>1, RpcAssumption
<1> QED
  BY <1>1, <1>2, ReadBack

\* The last call made is one that may be made.
LEMMA LastCall ==
    ASSUME TypeOK, NEW x \in Conn, RunsAreSound(x), made[x] # <<>>
    PROVE  /\ Last(made[x]) \in Request[x] /\ Last(made[x]) \in AnyRequest
           /\ Last(made[x]) = made[x][Len(made[x])] /\ Len(made[x]) \in DOMAIN made[x]
           /\ Last(made[x]) = [name |-> Last(made[x]).name, args |-> Last(made[x]).args]
<1>1. made[x] \in Seq(AnyRequest) /\ Len(made[x]) \in DOMAIN made[x]
  BY DEF TypeOK
<1>2. Last(made[x]) = made[x][Len(made[x])]
  BY DEF Last, Abstract!Last
<1>3. Last(made[x]) \in Request[x]
  BY <1>1, <1>2 DEF RunsAreSound
<1> QED
  BY <1>1, <1>2, <1>3, RpcAssumption DEF AnyRequest

\* A call reaches process_.
LEMMA DispatchStep ==
    ASSUME RpcInv, NEW x \in Conn, Dispatch(x)
    PROVE  RpcInv'
<1> DEFINE r == Last(made[x])
<1>1. ConnectionOK(x) /\ RunsAreSound(x)
  BY DEF RpcInv
<1>2. Sent(x) /\ link[x] = "peek" /\ client[x] \notin {"new", "open"}
  BY <1>1, WhereItIs DEF Dispatch, Quiet
<1>3. Head(sent[x]) = CallMessage(x) /\ Tail(sent[x]) = <<>>
  BY <1>2, Singleton DEF Sent
<1>4. /\ CallMessage(x).name = r.name
      /\ CallMessage(x).body = Write(Client[x][r.name].args, r.args)
  BY DEF CallMessage, Message
<1>5. made[x] # <<>>
  <2>1. Len(made[x]) # 0
    BY <1>2 DEF Sent, NotRun, RpcInv, TypeOK
  <2> QED
    BY <2>1
<1>6. r \in Request[x] /\ r = [name |-> r.name, args |-> r.args]
  BY <1>1, <1>5, LastCall DEF RpcInv
<1>7. /\ r.name \in DOMAIN Processor
      /\ job' = [name |-> r.name, args |-> r.args, outcome |-> Thrown]
      /\ sent' = [sent EXCEPT ![x] = <<>>]
      /\ link' = [link EXCEPT ![x] = "call"]
      /\ UNCHANGED <<client, replied, backlog, serving, crashes, made, ran, got>>
  <2>1. r.name \in DOMAIN Processor
    BY <1>3, <1>4 DEF Dispatch
  <2> QED
    BY <1>3, <1>4, <1>6, <2>1, ArgumentsBack DEF Dispatch
<1> HIDE DEF r
<1>8. /\ job'.name = r.name /\ job'.args = r.args
      /\ sent'[x] = <<>> /\ link'[x] = "call"
  BY <1>7 DEF RpcInv, TypeOK
<1>9. Last(made'[x]) = r
  BY <1>7 DEF r
<1>10. Handled(x)'
  BY <1>2, <1>6, <1>7, <1>8, <1>9 DEF Handled, Sent, NotRun
<1>11. ConnectionOK(x)'
  BY <1>1, <1>2, <1>7, <1>8, <1>10 DEF ConnectionOK, Quiet, OnlyValues
<1>12. RunsAreSound(x)'
  BY <1>1, <1>7 DEF RunsAreSound
<1>13. TypeOK'
  BY <1>7 DEF RpcInv, TypeOK, Accepted
<1>14. \A y \in Conn \ {x} : Same(y)
  BY <1>7 DEF Same, RpcInv, TypeOK
<1> QED
  BY <1>2, <1>7, <1>11, <1>12, <1>13, <1>14, ServedConnection DEF Accepted

\* The handler returns or throws.
LEMMA HandleStep ==
    ASSUME RpcInv, NEW x \in Conn, Handle(x)
    PROVE  RpcInv'
<1> DEFINE r == Last(made[x])
<1>1. ConnectionOK(x) /\ RunsAreSound(x)
  BY DEF RpcInv
<1>2. Handled(x) /\ link[x] = "call" /\ client[x] \notin {"new", "open"}
  BY <1>1, WhereItIs DEF Handle, Quiet
<1>3. made[x] # <<>> /\ Len(ran[x]) + 1 = Len(made[x])
  <2>1. Len(made[x]) # 0
    BY <1>2 DEF Handled, NotRun, RpcInv, TypeOK
  <2> QED
    BY <1>2, <2>1 DEF Handled, NotRun
<1>4. r \in AnyRequest /\ r.name = job.name /\ r.name \in DOMAIN Processor
      /\ r = made[x][Len(made[x])] /\ Len(made[x]) \in DOMAIN made[x]
  BY <1>1, <1>2, <1>3, LastCall DEF RpcInv, Handled
<1>5. PICK o \in {Value(v) : v \in Answer[job.name]} \cup {Thrown} :
        /\ job' = [name |-> job.name, args |-> job.args, outcome |-> o]
        /\ ran' = [ran EXCEPT ![x] = Append(@,
                      [call |-> [name |-> job.name, args |-> job.args], outcome |-> o])]
  BY DEF Handle
<1>6. /\ link' = [link EXCEPT ![x] = "reply"]
      /\ UNCHANGED <<client, sent, replied, backlog, serving, crashes, made, got>>
  BY DEF Handle
<1> DEFINE e == [call |-> r, outcome |-> o]
<1>7. ran' = [ran EXCEPT ![x] = Append(@, e)]
  BY <1>2, <1>5 DEF Handled
<1>8. e \in [call : AnyRequest, outcome : Outcome]
  <2>1. o \in Outcome
    BY <1>4, <1>5 DEF Outcome, Thrown, Failure, Abstract!Thrown, Abstract!Failure
  <2> QED
    BY <1>4, <2>1
<1>9. /\ e.call = r /\ e.outcome = o
  OBVIOUS
<1> HIDE DEF e, r
<1>10. TypeOK'
  BY <1>6, <1>7, <1>8, Appended DEF RpcInv, TypeOK, Accepted
<1>11. /\ ran'[x] = Append(ran[x], e) /\ link'[x] = "reply"
       /\ Len(ran'[x]) = Len(ran[x]) + 1 /\ Last(ran'[x]) = e
       /\ DOMAIN ran'[x] = DOMAIN ran[x] \cup {Len(ran[x]) + 1}
       /\ \A n \in DOMAIN ran[x] : ran'[x][n] = ran[x][n]
       /\ ran'[x][Len(ran[x]) + 1] = e
  <2>1. ran'[x] = Append(ran[x], e) /\ link'[x] = "reply"
    BY <1>6, <1>7 DEF RpcInv, TypeOK
  <2> DEFINE S == [call : AnyRequest, outcome : Outcome]
  <2>2. ran[x] \in Seq(S) /\ e \in S
    BY <1>8 DEF RpcInv, TypeOK
  <2> HIDE DEF S
  <2>3. /\ Len(Append(ran[x], e)) = Len(ran[x]) + 1 /\ Last(Append(ran[x], e)) = e
        /\ DOMAIN Append(ran[x], e) = DOMAIN ran[x] \cup {Len(ran[x]) + 1}
        /\ \A n \in DOMAIN ran[x] : Append(ran[x], e)[n] = ran[x][n]
        /\ Append(ran[x], e)[Len(ran[x]) + 1] = e
    BY <2>2, Appended
  <2> QED
    BY <2>1, <2>3
<1>12. job'.name = job.name /\ job'.outcome = o
  BY <1>5
<1>13. Concluded(x)'
  BY <1>2, <1>3, <1>4, <1>6, <1>9, <1>11, <1>12 DEF Concluded, Handled, HasRun, r
<1>14. ConnectionOK(x)'
  BY <1>1, <1>2, <1>6, <1>11, <1>13 DEF ConnectionOK, Quiet, OnlyValues
<1>15. RunsAreSound(x)'
  <2>1. Len(ran'[x]) <= Len(made'[x])
    BY <1>3, <1>6, <1>11 DEF RpcInv, TypeOK
  <2>2. ASSUME NEW n \in DOMAIN ran'[x]
        PROVE  /\ ran'[x][n].call = made[x][n]
               /\ ran'[x][n].outcome \in {Value(v) : v \in Answer[made[x][n].name]} \cup {Thrown}
    <3>1. CASE n \in DOMAIN ran[x]
      BY <1>1, <1>11, <3>1 DEF RunsAreSound
    <3>2. CASE n = Len(ran[x]) + 1
      BY <1>3, <1>4, <1>5, <1>9, <1>11, <3>2
    <3> QED
      BY <1>11, <3>1, <3>2
  <2> QED
    BY <1>1, <1>6, <2>1, <2>2 DEF RunsAreSound
<1>16. \A y \in Conn \ {x} : Same(y)
  BY <1>6, <1>7 DEF Same, RpcInv, TypeOK
<1> QED
  BY <1>2, <1>6, <1>10, <1>14, <1>15, <1>16, ServedConnection DEF Accepted

\* The answer is sent.
LEMMA ReplyStep ==
    ASSUME RpcInv, NEW x \in Conn, Reply(x)
    PROVE  RpcInv'
<1> DEFINE m == ReplyTo(job.name, job.outcome)
<1>1. ConnectionOK(x) /\ RunsAreSound(x)
  BY DEF RpcInv
<1>2. Concluded(x) /\ link[x] = "reply" /\ client[x] \notin {"new", "open"}
  BY <1>1, WhereItIs DEF Reply, Quiet
<1>3. /\ replied' = [replied EXCEPT ![x] = Append(@, m)]
      /\ link' = [link EXCEPT ![x] = "peek"]
      /\ UNCHANGED <<client, sent, backlog, serving, crashes, made, ran, got>>
  BY DEF Reply
<1>4. RightAnswer(x, m)
  BY <1>2 DEF RightAnswer, Concluded
<1>5. \A mm : RightAnswer(x, mm) => RightAnswer(x, mm)'
  BY <1>3 DEF RightAnswer, HasRun, NotRun
<1>6. PICK a : a = m
  OBVIOUS
<1> HIDE DEF m
<1>7. replied'[x] = <<a>> /\ link'[x] = "peek"
  BY <1>2, <1>3, <1>6, Singleton DEF Concluded, RpcInv, TypeOK
<1>8. Replied(x)'
  BY <1>2, <1>3, <1>4, <1>5, <1>6, <1>7, Singleton DEF Replied, Concluded
<1>9. ConnectionOK(x)'
  BY <1>1, <1>2, <1>3, <1>7, <1>8, Singleton DEF ConnectionOK, Quiet, OnlyValues
<1>10. RunsAreSound(x)'
  BY <1>1, <1>3 DEF RunsAreSound
<1>11. TypeOK'
  BY <1>3 DEF RpcInv, TypeOK, Accepted
<1>12. \A y \in Conn \ {x} : Same(y)
  BY <1>3 DEF Same, RpcInv, TypeOK
<1> QED
  BY <1>2, <1>3, <1>9, <1>10, <1>11, <1>12, ServedConnection DEF Accepted

\* The server closes a connection.
LEMMA HangUpStep ==
    ASSUME RpcInv, NEW x \in Conn, HangUp(x)
    PROVE  RpcInv'
<1>1. ConnectionOK(x) /\ RunsAreSound(x)
  BY DEF RpcInv
<1>2. /\ link[x] = "peek" /\ sent[x] = <<>> /\ client[x] = "closed"
      /\ link' = [link EXCEPT ![x] = "cut"]
      /\ UNCHANGED <<client, sent, replied, backlog, job, serving, crashes, made, ran, got>>
  BY DEF HangUp
<1>3. link'[x] = "cut"
  BY <1>2 DEF RpcInv, TypeOK
<1>4. Replied(x) \/ Quiet(x)
  BY <1>1, <1>2, Singleton DEF ConnectionOK, Sent, Handled, Concluded
<1>5. \A m : RightAnswer(x, m) => RightAnswer(x, m)'
  BY <1>2 DEF RightAnswer, HasRun, NotRun
<1>6. Replied(x)' \/ Quiet(x)'
  BY <1>2, <1>3, <1>4, <1>5 DEF Replied, Quiet
<1>7. ConnectionOK(x)'
  BY <1>2, <1>3, <1>6 DEF ConnectionOK
<1>8. RunsAreSound(x)'
  BY <1>1, <1>2 DEF RunsAreSound
<1>9. TypeOK'
  BY <1>2 DEF RpcInv, TypeOK
<1>10. \A y \in Conn \ {x} : Same(y)
  BY <1>2 DEF Same, RpcInv, TypeOK
<1> QED
  BY <1>2, <1>7, <1>8, <1>9, <1>10, ServedConnection DEF Accepted

\* The server's process ends or starts again.
LEMMA ServerStepInv ==
    ASSUME RpcInv, ServerCrash \/ ServerRestart
    PROVE  RpcInv'
<1>1. CASE ServerRestart
  <2>1. \A y \in Conn : Same(y)
    BY <1>1 DEF ServerRestart, Same
  <2>2. \A y \in Conn : ConnectionOK(y)' /\ RunsAreSound(y)'
    BY <1>1, <2>1, OtherConnection DEF ServerRestart, RpcInv
  <2> QED
    BY <1>1, <2>2 DEF ServerRestart, RpcInv, TypeOK, OneJob, BacklogOK
<1>2. CASE ServerCrash
  <2>1. /\ link' = [y \in Conn |-> IF link[y] = "none" THEN "none" ELSE "cut"]
        /\ sent' = [y \in Conn |-> <<>>]
        /\ backlog' = <<>> /\ serving' = FALSE /\ crashes' = crashes + 1
        /\ UNCHANGED <<client, replied, made, ran, got>>
    BY <1>2 DEF ServerCrash
  <2>2. TypeOK'
    <3>1. link' \in [Conn -> {"none", "backlog", "cut"} \cup Accepted]
      BY <2>1
    <3>2. DOMAIN sent' = Conn
      BY <2>1
    <3>3. backlog' \in Seq(Conn)
      BY <2>1
    <3>4. serving' \in BOOLEAN
      BY <2>1
    <3>5. crashes' \in Nat
      BY <2>1 DEF RpcInv, TypeOK
    <3> QED
      BY <2>1, <3>1, <3>2, <3>3, <3>4, <3>5 DEF RpcInv, TypeOK
  <2>3. OneJob' /\ BacklogOK'
    BY <2>1 DEF OneJob, BacklogOK, Accepted
  <2>4. ASSUME NEW y \in Conn PROVE ConnectionOK(y)' /\ RunsAreSound(y)'
    <3>1. ConnectionOK(y) /\ RunsAreSound(y)
      BY DEF RpcInv
    <3>2. /\ sent'[y] = <<>> /\ link'[y] \in {"none", "cut"}
          /\ link'[y] = "none" <=> link[y] = "none"
      BY <2>1
    <3>3. \A m : RightAnswer(y, m) => RightAnswer(y, m)'
      BY <2>1 DEF RightAnswer, HasRun, NotRun
    <3>4. /\ Replied(y) => Replied(y)'
          /\ Sent(y) \/ Handled(y) \/ Concluded(y) \/ Quiet(y) => Quiet(y)'
      BY <2>1, <3>2, <3>3 DEF Sent, Handled, Concluded, Replied, Quiet
    <3>5. client[y] = "open" => Quiet(y)'
      BY <2>1, <3>1, <3>2 DEF ConnectionOK, Quiet
    <3>6. client[y] = "new" => Quiet(y)'
      BY <2>1, <3>1, <3>2 DEF ConnectionOK, Quiet
    <3>7. ConnectionOK(y)'
      BY <2>1, <3>1, <3>2, <3>4, <3>5, <3>6 DEF ConnectionOK, OnlyValues
    <3> QED
      BY <2>1, <3>1, <3>7 DEF RunsAreSound
  <2> QED
    BY <2>2, <2>3, <2>4 DEF RpcInv
<1> QED
  BY <1>1, <1>2

\* What recv_ makes of the message that it finds, when that is the right answer.
LEMMA AnswerRead ==
    ASSUME NEW x \in Conn, RpcInv, Receive(x)
    PROVE  LET n == Last(made[x]).name
           IN  \E outcome \in Outcome :
                  /\ CallEnds(x, outcome)
                  /\ outcome # Failure("missing result")
                  /\ \/ HasRun(x) /\ outcome = Last(ran[x]).outcome
                     \/ /\ n \notin DOMAIN Processor /\ NotRun(x)
                        /\ outcome = Failure("unknown method")
<1> DEFINE r == Last(made[x])
           n == r.name
           m == Head(replied[x])
           stub == Client[x][n]
<1>1. ConnectionOK(x) /\ RunsAreSound(x) /\ TypeOK
  BY DEF RpcInv
<1>2. Replied(x)
  BY <1>1, WhereItIs DEF Receive
<1>3. RightAnswer(x, m)
  BY <1>2 DEF Replied
<1>4. \/ m.type = "T_EXCEPTION" /\ CallEnds(x, Failure(m.body))
      \/ /\ m.type # "T_EXCEPTION"
         /\ m.type # "T_REPLY" \/ m.name # stub.name
      \/ /\ m.type = "T_REPLY" /\ m.name = stub.name
         /\ CallEnds(x, ReadResult(stub, m.body))
  BY DEF Receive
<1> HIDE DEF m, n
<1>5. CASE n \notin DOMAIN Processor /\ NotRun(x) /\ m = Message("T_EXCEPTION", n, "unknown method")
  <2>1. m.type = "T_EXCEPTION" /\ m.body = "unknown method"
    BY <1>5 DEF Message
  <2>2. CallEnds(x, Failure("unknown method"))
    BY <1>4, <2>1
  <2>3. /\ Failure("unknown method") \in Outcome
        /\ Failure("unknown method") # Failure("missing result")
    BY DEF Outcome, Failure, Abstract!Failure
  <2> QED
    BY <1>5, <2>2, <2>3 DEF n
<1>6. CASE n \in DOMAIN Processor /\ HasRun(x) /\ m = ReplyTo(n, Last(ran[x]).outcome)
  <2> DEFINE o == Last(ran[x]).outcome
  <2>1. made[x] # <<>> /\ Len(ran[x]) = Len(made[x])
    BY <1>6 DEF HasRun
  <2>2. /\ r \in Request[x] /\ r = made[x][Len(made[x])]
        /\ Len(ran[x]) \in DOMAIN ran[x]
    <3>1. r \in Request[x] /\ r = made[x][Len(made[x])] /\ Len(made[x]) \in DOMAIN made[x]
      BY <1>1, <2>1, LastCall
    <3>2. made[x] \in Seq(AnyRequest) /\ DOMAIN ran[x] = 1..Len(ran[x])
      BY <1>1 DEF TypeOK
    <3> QED
      BY <2>1, <3>1, <3>2
  <2>3. Last(ran[x]) = ran[x][Len(ran[x])]
    BY DEF Last, Abstract!Last
  <2>4. o \in {Value(v) : v \in Answer[n]} \cup {Thrown}
    BY <1>1, <2>1, <2>2, <2>3 DEF RunsAreSound, n
  <2>5. stub = Processor[n] /\ stub.name = n /\ DOMAIN stub.result = {0}
    BY <1>6, <2>2, RpcAssumption, ClassesAgree DEF n
  <2>6. PICK p : p = o
    OBVIOUS
  <2>7. /\ p \in {Value(v) : v \in Answer[n]} \cup {Thrown}
        /\ m = ReplyTo(n, p) /\ p = Last(ran[x]).outcome
    BY <1>6, <2>4, <2>6
  <2> HIDE DEF o
  <2>8. ASSUME p = Thrown
        PROVE  CallEnds(x, p) /\ p \in Outcome /\ p # Failure("missing result")
    <3>1. p.kind = "exception" /\ p = Failure("exception")
      BY <2>8 DEF Thrown, Abstract!Thrown, Abstract!Failure, Failure
    <3>2. m = Message("T_EXCEPTION", n, "exception")
      BY <2>7, <3>1 DEF ReplyTo
    <3>3. m.type = "T_EXCEPTION" /\ m.body = "exception"
      BY <3>2 DEF Message
    <3>4. CallEnds(x, p)
      BY <1>4, <3>1, <3>3
    <3>5. p \in Outcome /\ p # Failure("missing result")
      BY <3>1 DEF Outcome, Failure, Abstract!Failure
    <3> QED
      BY <3>4, <3>5
  <2>9. ASSUME NEW v \in Answer[n], p = Value(v)
        PROVE  CallEnds(x, p) /\ p \in Outcome /\ p # Failure("missing result")
    <3> DEFINE body == WriteSet(stub.result, [i \in {0} |-> Encode(stub.response, v)], {0})
    <3>1. p.kind = "value" /\ p.value = v /\ p # Failure("missing result")
      BY <2>9 DEF Value, Abstract!Value, Failure, Abstract!Failure
    <3>2. m = Message("T_REPLY", n, body)
      BY <2>5, <2>7, <3>1 DEF ReplyTo
    <3>3. m.type = "T_REPLY" /\ m.name = n /\ m.body = body
      BY <3>2 DEF Message
    <3>4. CallEnds(x, ReadResult(stub, body))
      BY <1>4, <2>5, <3>3
    <3>5. IsResponse(stub.response, v)
      BY <1>6, <2>5, RpcAssumption DEF n
    <3>6. ReadResult(stub, body) = p
      BY <2>5, <2>9, <3>5, ResultBack
    <3>7. p \in Outcome
      BY <1>6, <2>9 DEF Outcome, n
    <3> QED
      BY <3>1, <3>4, <3>6, <3>7
  <2>10. CallEnds(x, p) /\ p \in Outcome /\ p # Failure("missing result")
    <3>1. CASE p = Thrown
      BY <2>8, <3>1
    <3> QED
      BY <2>7, <2>9, <3>1
  <2> QED
    BY <1>6, <2>7, <2>10 DEF n
<1> QED
  BY <1>3, <1>5, <1>6 DEF RightAnswer, n

\* An answer is read.
LEMMA ReceiveStep ==
    ASSUME RpcInv, NEW x \in Conn, Receive(x)
    PROVE  RpcInv'
<1>1. PICK outcome \in Outcome :
        /\ CallEnds(x, outcome)
        /\ \/ HasRun(x) /\ outcome = Last(ran[x]).outcome
           \/ NotRun(x) /\ outcome = Failure("unknown method")
  BY AnswerRead
<1>2. ConnectionOK(x) /\ RunsAreSound(x)
  BY DEF RpcInv
<1>3. /\ client[x] = "sent" /\ replied[x] # <<>>
      /\ replied' = [replied EXCEPT ![x] = Tail(@)]
      /\ UNCHANGED <<link, sent, backlog, job, serving, crashes, made, ran>>
  BY DEF Receive
<1>4. /\ got' = [got EXCEPT ![x] = Append(@, outcome)]
      /\ client' = [client EXCEPT ![x] = IF outcome.kind = "value" THEN "open" ELSE "closed"]
  BY <1>1 DEF CallEnds
<1>5. Replied(x)
  BY <1>2, <1>3, WhereItIs
<1>6. Tail(replied[x]) = <<>>
  BY <1>5, Singleton DEF Replied
<1>7. Quiet(x)' /\ link[x] # "none"
  BY <1>3, <1>5, <1>6 DEF Replied, Quiet, RpcInv, TypeOK
<1>8. OnlyValues(x) /\ Len(got[x]) + 1 = Len(made[x])
  BY <1>2, <1>3 DEF ConnectionOK
<1>9. TypeOK'
  <2>1. client' \in [Conn -> {"new", "open", "sent", "stuck", "closed"}]
    BY <1>4 DEF RpcInv, TypeOK
  <2>2. got' \in [Conn -> Seq(Outcome)]
    BY <1>4, Appended DEF RpcInv, TypeOK
  <2> QED
    BY <1>3, <2>1, <2>2 DEF RpcInv, TypeOK
<1>10. ConnectionOK(x)'
  <2>1. CASE outcome.kind = "value"
    <3>1. outcome # Failure("unknown method")
      <4>1. Failure("unknown method").kind = "unknown method"
        BY DEF Failure, Abstract!Failure
      <4> QED
        BY <2>1, <4>1
    <3>2. Len(ran[x]) = Len(made[x])
      BY <1>1, <3>1 DEF HasRun
    <3>3. got'[x] = Append(got[x], outcome) /\ got[x] \in Seq(Outcome)
      BY <1>4 DEF RpcInv, TypeOK
    <3>4. /\ Len(got'[x]) = Len(got[x]) + 1
          /\ DOMAIN got'[x] = DOMAIN got[x] \cup {Len(got[x]) + 1}
          /\ \A n \in DOMAIN got[x] : got'[x][n] = got[x][n]
          /\ got'[x][Len(got[x]) + 1] = outcome
      BY <3>3, Appended
    <3>5. OnlyValues(x)'
      BY <1>8, <2>1, <3>4 DEF OnlyValues
    <3>6. client'[x] = "open"
      BY <1>4, <2>1 DEF RpcInv, TypeOK
    <3> QED
      BY <1>3, <1>7, <1>8, <3>2, <3>4, <3>5, <3>6 DEF ConnectionOK
  <2>2. CASE outcome.kind # "value"
    <3>1. client'[x] = "closed"
      BY <1>4, <2>2 DEF RpcInv, TypeOK
    <3> QED
      BY <1>7, <3>1 DEF ConnectionOK
  <2> QED
    BY <2>1, <2>2
<1>11. RunsAreSound(x)'
  BY <1>2, <1>3 DEF RunsAreSound
<1>12. \A y \in Conn \ {x} : Same(y)
  BY <1>3, <1>4 DEF Same, RpcInv, TypeOK
<1> QED
  BY <1>3, <1>9, <1>10, <1>11, <1>12, OneConnection

\* Every step keeps the invariant.
LEMMA RpcStep == RpcInv /\ [Next]_vars => RpcInv'
<1> SUFFICES ASSUME RpcInv, [Next]_vars PROVE RpcInv'
  OBVIOUS
<1>1. CASE UNCHANGED vars
  <2>1. \A y \in Conn : Same(y)
    BY <1>1 DEF vars, Same
  <2>2. \A y \in Conn : ConnectionOK(y)' /\ RunsAreSound(y)'
    BY <1>1, <2>1, OtherConnection DEF vars, RpcInv
  <2> QED
    BY <1>1, <2>2 DEF vars, RpcInv, TypeOK, OneJob, BacklogOK
<1>2. ASSUME NEW x \in Conn, CallerStep(x) PROVE RpcInv'
  BY <1>2, OpenStep, SendStep, ReceiveStep, ReceiveNothingStep, CloseStep DEF CallerStep
<1>3. ASSUME NEW x \in Conn, CallerCrash(x) PROVE RpcInv'
  BY <1>3, CloseStep
<1>4. ASSUME NEW x \in Conn, Serve(x) PROVE RpcInv'
  BY <1>4, RejectStep, DispatchStep, HandleStep, ReplyStep, HangUpStep DEF Serve
<1>5. CASE ServerStep
  BY <1>4, <1>5, AcceptStep DEF ServerStep
<1>6. CASE ServerCrash \/ ServerRestart
  BY <1>6, ServerStepInv
<1>7. CASE Done
  BY <1>1, <1>7 DEF Done
<1> QED
  BY <1>1, <1>2, <1>3, <1>5, <1>6, <1>7 DEF Next

\* Client and server never lose track of each other, on any number of connections,
\* with any methods, and whoever crashes.
THEOREM RpcInvariant == Spec => []RpcInv
  BY RpcInit, RpcStep, PTL DEF Spec

\* The answer that recv_ finds first is the answer to the call it waits for: messages
\* of one call only are under way.
THEOREM InStepAlways == Spec => []InStep
<1>1. RpcInv => InStep
  <2> SUFFICES ASSUME RpcInv, NEW x \in Conn
      PROVE  /\ client[x] = "sent" => UnderWay(x) = 1 \/ (link[x] = "cut" /\ UnderWay(x) = 0)
             /\ client[x] = "open" => UnderWay(x) = 0
             /\ UnderWay(x) <= 1
             /\ \A q \in {sent[x], replied[x]} : \A n \in DOMAIN q :
                   q[n].name = Last(made[x]).name
             /\ link[x] \in {"call", "reply"} => job.name = Last(made[x]).name
    BY DEF InStep
  <2>1. ConnectionOK(x)
    BY DEF RpcInv
  <2>2. CASE Quiet(x)
    BY <2>1, <2>2 DEF ConnectionOK, Quiet, UnderWay
  <2>3. CASE Sent(x)
    <3>1. CallMessage(x).name = Last(made[x]).name
      BY DEF CallMessage, Message
    <3>2. ~Quiet(x)
      BY <2>3 DEF Sent, Quiet
    <3> QED
      BY <2>1, <2>3, <3>1, <3>2 DEF ConnectionOK, Sent, UnderWay
  <2>4. CASE Handled(x) \/ Concluded(x)
    <3>1. /\ ~Quiet(x) /\ sent[x] = <<>> /\ replied[x] = <<>>
          /\ link[x] \in {"call", "reply"}
      BY <2>4 DEF Handled, Concluded, Quiet
    <3>2. job.name = Last(made[x]).name
      BY <2>4 DEF Handled, Concluded
    <3>3. UnderWay(x) = 1
      BY <3>1 DEF UnderWay
    <3> QED
      BY <2>1, <3>1, <3>2, <3>3 DEF ConnectionOK
  <2>5. CASE Replied(x)
    <3>1. ~Quiet(x)
      BY <2>5 DEF Replied, Quiet
    <3>2. PICK m : replied[x] = <<m>> /\ RightAnswer(x, m)
      BY <2>5 DEF Replied
    <3>3. ReplyTo(Last(made[x]).name, Last(ran[x]).outcome).name = Last(made[x]).name
      BY DEF ReplyTo, Message
    <3>4. Message("T_EXCEPTION", Last(made[x]).name, "unknown method").name = Last(made[x]).name
      BY DEF Message
    <3>5. \/ m = ReplyTo(Last(made[x]).name, Last(ran[x]).outcome)
          \/ m = Message("T_EXCEPTION", Last(made[x]).name, "unknown method")
      BY <3>2 DEF RightAnswer
    <3>6. m.name = Last(made[x]).name
      BY <3>3, <3>4, <3>5
    <3> QED
      BY <2>1, <2>5, <3>1, <3>2, <3>6 DEF ConnectionOK, Replied, UnderWay
  <2> QED
    BY <2>1, <2>2, <2>3, <2>4, <2>5 DEF ConnectionOK
<1> QED
  BY <1>1, RpcInvariant, PTL

\* recv_ never meets an answer of another kind, for another call, or without a result.
THEOREM AnswersFitAlways == Spec => []AnswersFit
<1>1. RpcInv => AnswersFit
  <2> SUFFICES ASSUME RpcInv, NEW x \in Conn
      PROVE  /\ client[x] # "stuck"
             /\ \A n \in DOMAIN got[x] : got[x][n] # Failure("missing result")
    BY DEF AnswersFit
  <2>1. client[x] # "stuck"
    BY DEF RpcInv, ConnectionOK
  <2>2. \A n \in DOMAIN got[x] : got[x][n] \in Outcome
    BY DEF RpcInv, TypeOK
  <2>3. Failure("missing result") \notin Outcome
    BY DEF Outcome, Failure, Abstract!Failure, Value, Abstract!Value
  <2> QED
    BY <2>1, <2>2, <2>3
<1> QED
  BY <1>1, RpcInvariant, PTL

-----------------------------------------------------------------------------
(* The refinement. *)

\* Every step makes, runs, answers or breaks one call, or none of these.
LEMMA StepIsAbstract ==
    ASSUME RpcInv, [Next]_vars
    PROVE  [Abstract!Next]_(Abstract!vars)
<1> USE DEF Abstract!vars
<1>1. ASSUME NEW x \in Conn, SendCall(x) PROVE Abstract!Next
  <2>1. PICK r \in Request[x] : made' = [made EXCEPT ![x] = Append(@, r)]
    BY <1>1 DEF SendCall
  <2>2. OnlyValues(x) /\ Len(got[x]) = Len(made[x]) /\ got[x] \in Seq(Outcome) /\ Len(got[x]) \in Nat
    BY <1>1 DEF SendCall, RpcInv, ConnectionOK, TypeOK
  <2>3. ~Abstract!Waiting(x)
    BY <2>2 DEF Abstract!Waiting
  <2>4. ~Abstract!Failed(x)
    <3>1. got[x] # <<>> => Len(got[x]) \in DOMAIN got[x]
      BY <2>2
    <3> QED
      BY <2>2, <3>1 DEF Abstract!Failed, Abstract!Last, OnlyValues
  <2>5. UNCHANGED <<ran, got>>
    BY <1>1 DEF SendCall
  <2>6. Abstract!Make(x)
    BY <2>1, <2>3, <2>4, <2>5 DEF Abstract!Make
  <2> QED
    BY <2>6 DEF Abstract!Next
<1>2. ASSUME NEW x \in Conn, Handle(x) PROVE Abstract!Next
  <2>1. Handled(x)
    BY <1>2, WhereItIs DEF Handle, RpcInv
  <2>2. PICK o \in {Value(v) : v \in Answer[job.name]} \cup {Thrown} :
          ran' = [ran EXCEPT ![x] = Append(@,
                     [call |-> [name |-> job.name, args |-> job.args], outcome |-> o])]
    BY <1>2 DEF Handle
  <2>3. Len(ran[x]) < Len(made[x])
    BY <2>1 DEF Handled, NotRun, RpcInv, TypeOK
  <2>4. /\ Abstract!Last(made[x]) = [name |-> job.name, args |-> job.args]
        /\ job.name \in DOMAIN Processor
    BY <2>1 DEF Handled, Last
  <2>5. \E oo \in {Abstract!Value(v) : v \in Answer[job.name]} \cup {Abstract!Thrown} :
          ran' = [ran EXCEPT ![x] = Append(@,
                     [call |-> [name |-> job.name, args |-> job.args], outcome |-> oo])]
    BY <2>2 DEF Value, Thrown
  <2>6. UNCHANGED <<made, got>>
    BY <1>2 DEF Handle
  <2>7. [name |-> job.name, args |-> job.args].name = job.name
    OBVIOUS
  <2>8. Abstract!Run(x)
    BY <2>3, <2>4, <2>5, <2>6, <2>7 DEF Abstract!Run
  <2> QED
    BY <2>8 DEF Abstract!Next
<1>3. ASSUME NEW x \in Conn, client[x] = "sent" PROVE Abstract!Waiting(x)
  BY <1>3 DEF RpcInv, ConnectionOK, TypeOK, Abstract!Waiting
<1>4. ASSUME NEW x \in Conn, Receive(x) PROVE Abstract!Next
  <2>1. Abstract!Waiting(x) /\ UNCHANGED <<made, ran>>
    BY <1>3, <1>4 DEF Receive
  <2>2. PICK outcome \in Outcome :
          /\ CallEnds(x, outcome)
          /\ \/ HasRun(x) /\ outcome = Last(ran[x]).outcome
             \/ /\ Last(made[x]).name \notin DOMAIN Processor
                /\ outcome = Failure("unknown method")
    BY <1>4, AnswerRead
  <2>3. Abstract!Gets(x, outcome)
    BY <2>1, <2>2 DEF CallEnds, Abstract!Gets
  <2>4. Abstract!Return(x) \/ Abstract!Refuse(x)
    BY <2>1, <2>2, <2>3 DEF Abstract!Return, Abstract!Refuse, HasRun, Last, Failure
  <2> QED
    BY <2>4 DEF Abstract!Next
<1>5. ASSUME NEW x \in Conn, ReceiveNothing(x) PROVE Abstract!Next
  <2>1. client[x] = "sent"
    BY <1>5 DEF ReceiveNothing, RpcInv, ConnectionOK
  <2>2. Abstract!Gets(x, Abstract!Failure("broken"))
    BY <1>5 DEF ReceiveNothing, CallEnds, Abstract!Gets, Failure
  <2>3. Abstract!Break(x)
    BY <1>3, <2>1, <2>2 DEF Abstract!Break
  <2> QED
    BY <2>3 DEF Abstract!Next
<1>6. ASSUME NEW x \in Conn,
             \/ Open(x) \/ Close(x) \/ CallerCrash(x)
             \/ Reject(x) \/ Dispatch(x) \/ Reply(x) \/ HangUp(x)
      PROVE  UNCHANGED <<made, ran, got>>
  BY <1>6 DEF Open, Close, CallerCrash, Reject, Dispatch, Reply, HangUp
<1>7. Accept \/ ServerCrash \/ ServerRestart \/ Done \/ UNCHANGED vars
        => UNCHANGED <<made, ran, got>>
  BY DEF Accept, ServerCrash, ServerRestart, Done, vars
<1> QED
  BY <1>1, <1>2, <1>4, <1>5, <1>6, <1>7 DEF Next, CallerStep, ServerStep, Serve

\* The generated code implements RemoteCall: whatever crashes, a call runs at most
\* once, with its own arguments, and its caller gets the outcome of that run.
THEOREM Implements == Spec => ImplementsRemoteCall
<1>1. Init => Abstract!Init
  BY DEF Init
<1> QED
  BY <1>1, StepIsAbstract, RpcInvariant, PTL DEF Spec, ImplementsRemoteCall, Abstract!Spec

=============================================================================
