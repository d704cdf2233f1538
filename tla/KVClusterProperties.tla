------------------------ MODULE KVClusterProperties ------------------------
(***************************************************************************)
(* What the key-value cluster promises, and when.  Each property says      *)
(* which circumstances it needs: some hold in every run, some only while   *)
(* nothing crashes or throws (faults = 0), some only when all writes enter *)
(* at one server.                                                          *)
(***************************************************************************)
EXTENDS KVCluster

\* Every server has a map with values in V.
AreMaps(f, V) ==
    /\ f \in [Server -> {f[s] : s \in Server}]
    /\ \A s \in Server : IsMap(f[s], V)

\* Type invariant of the cluster: every variable keeps the C++ type it models.
TypeOK ==
    /\ pc \in [Server -> Phase]
    /\ idx \in [Server -> 0..End]
    /\ target \in [Server -> {-1} \cup Index]
    /\ todo \in [Server -> SUBSET Text]
    /\ job \in [Server -> Request]
    /\ running \in [Server -> SUBSET Index]
    /\ AreMaps(simple, Text)
    /\ AreMaps(lists, SUBSET Item)
    /\ vt \in [Server -> Stamp]
    /\ call \in [Proc -> Call]
    /\ inbox \in [Server -> Seq(Request)]
    /\ plan \in [Client -> SUBSET Op]
    /\ faults \in Nat
    /\ starts \in [Server -> Nat]

-----------------------------------------------------------------------------
(* Timestamps. *)

\* The tribbles a server stores that are read back as they were posted.
Tribbles(s) ==
    UNION {{[key |-> k, msg |-> item] : item \in {i \in lists[s][k] : IsReadable(i)}} :
              k \in {k \in DOMAIN lists[s] : IsTribble(k)}}

\* No readable tribble is stored with a stamp later than its server's own clock,
\* whatever crashes and whatever stamps the contents of others make their readers
\* merge: AddToList merges every stamp it stores into _vt first.
StampsKnown ==
    \A s \in Server : \A t \in Tribbles(s) : Leq(t.msg.vt, vt[s])

\* A server that takes a readable tribble from a Tribbler server stamps it later, in
\* the order GetTribbles sorts by, than every readable tribble it stores already,
\* whatever crashes and whatever stamps others are read with.
NewPostIsNewest ==
    [][\A s \in Server :
          (inbox[s] # <<>> /\ Head(inbox[s]).from \in Client /\ PostTribble(s)) =>
             \A new \in Tribbles(s)' \ Tribbles(s) : \A old \in Tribbles(s) :
                PostedLess(old.msg.vt, new.msg.vt)]_vars

\* No server has come to serve for a second time.  One that has starts its clock at
\* zero again, and the next two properties fail.
NobodyIsBack == \A s \in Server : starts[s] <= 1

\* Nobody's contents are read with a stamp of their own making.  Contents that are
\* defeat the next two properties.
NoForgery ==
    \A text \in Unescaped :
        Misread[text].ends = "returns" => Misread[text].own \/ Misread[text].vt = NoStamp

\* Until a server comes to serve again, nobody knows more of a serving server's clock
\* than that server, whatever crashes and whoever boots for the first time: the
\* component only ever comes from stamps it sent.
OwnClockLeads ==
    NobodyIsBack =>
        \A s, t \in Server : Listening(s) => vt[t][s] <= vt[s][s]

\* Two tribbles in the order GetTribbles shows them, the later one first.
LaterThan(a, b) == PostedLess(b.msg.vt, a.msg.vt)

\* The same contents posted by the same user, under whatever stamps.
SameTribble(a, b) == a.key = b.key /\ a.msg.value = b.msg.value

\* Until a server comes to serve again, any two servers show any two readable
\* tribbles in the same order, whatever crashes and whoever boots for the first time,
\* although a tribble's own server stores it under an older stamp than its peers, some
\* peers may lack it, and the call of a server or Tribbler server that died may deliver
\* a tribble long after later ones.
OrderAgreement ==
    NobodyIsBack =>
        \A s, t \in Server :
            \A a1, a2 \in Tribbles(s), b1, b2 \in Tribbles(t) :
                SameTribble(a1, b1) /\ SameTribble(a2, b2) /\ ~SameTribble(a1, a2)
                => \/ LaterThan(a1, a2) /\ LaterThan(b1, b2)
                   \/ LaterThan(a2, a1) /\ LaterThan(b2, b1)

-----------------------------------------------------------------------------
(* Replication. *)

\* What a server stores under k, stamps apart.
Contents(s, k) ==
    [simple |-> k \in DOMAIN simple[s],
     list   |-> k \in DOMAIN lists[s],
     values |-> {item.value : item \in ItemsAt(lists[s], k)}]

StoredKeys == UNION {DOMAIN simple[s] \cup DOMAIN lists[s] : s \in Server}

\* While all servers are up and nothing has failed, two servers differ in a key
\* only while a write to that key is being broadcast, provided that every key is
\* written through one server: two servers that write the same thing at once can
\* turn each other down and leave a third one without it for ever.
DifferOnlyInBroadcasts ==
    faults = 0 =>
        \A s, t \in Server : \A k \in StoredKeys :
            \/ Contents(s, k) = Contents(t, k)
            \/ \E u \in Server : pc[u] = "bcast" /\ job[u].key = k

\* There, too, no peer turns a broadcast down, so that no write stops half-way
\* with some peers updated and the rest not.
PeersNeverReject ==
    faults = 0 =>
        \A s \in Server : pc[s] = "bcast" /\ Answered(s) => call[s].status = "OK"

\* When only additions are made and all enter at one server that stays up, no
\* other server holds something that one does not, whoever joins meanwhile.  The
\* exception is a user listed there and not created yet: CreateUser stores the
\* name in two calls, and a server that copies between them creates the user.
NothingInvented ==
    faults = 0 => \A c \in Client : \A t \in Server :
        /\ \A k \in StoredKeys : Contents(t, k).values \subseteq Contents(Entry[c], k).values
        /\ \A u \in Text : UserKey(u) \in DOMAIN simple[t] \ (DOMAIN simple[Entry[c]]) =>
              Plain(u) \in ItemsAt(lists[Entry[c]], UserList)

-----------------------------------------------------------------------------
(* Membership. *)

\* While nothing crashes, whoever is in a server's _runningServer has finished
\* copying its data: nobody is sent writes that a later copy could clash with.
MembersSynced ==
    faults = 0 =>
        \A s \in Server : \A i \in running[s] :
            pc[Peer(s, i)] \in {"join", "serve", "bcast"}

-----------------------------------------------------------------------------
(* Calls. *)

Waiting(p) == call[p].st = "waiting"

\* The live requests of p that s holds: in its queue, or as its broadcast's job.
RequestsAt(p, s) ==
    {n \in DOMAIN inbox[s] : inbox[s][n].from = p /\ inbox[s][n].live}
    \cup (IF pc[s] = "bcast" /\ job[s].from = p /\ job[s].live THEN {0} ELSE {})

\* Whatever crashes and restarts, a caller is blocked if and only if exactly
\* one live request of its is held by the server it called and none by any
\* other: no answer is lost, and none goes to a later call than its own.
OneRequestPerCall ==
    \A p \in Proc : \A s \in Server :
        Cardinality(RequestsAt(p, s)) = IF Waiting(p) /\ call[p].to = s THEN 1 ELSE 0

\* What makes the type invariant inductive: the index arithmetic stays within
\* the list of peers because every answer finds its caller in the loop that made
\* the call, and because no server is ever asked by itself to let it join.
LoopsOK ==
    \A s \in Server :
        /\ pc[s] \in {"down", "serve"} => Idle(s)
        /\ pc[s] \in {"find", "join", "bcast"} /\ ~Idle(s) => idx[s] \in Index
        /\ pc[s] \in {"users", "subs"} => target[s] \in Index
        /\ pc[s] = "bcast" => job[s].from \in Client

NoSelfCalls ==
    \A s \in Server : \A n \in DOMAIN inbox[s] : inbox[s][n].from # s

\* OneRequestPerCall for one caller, without numbers.
CallOK(p) ==
    /\ Waiting(p) => RequestsAt(p, call[p].to) # {}
    /\ \A s \in Server : \A m \in RequestsAt(p, s) :
          Waiting(p) /\ call[p].to = s /\ RequestsAt(p, s) = {m}

CallsOK == \A p \in Proc : CallOK(p)

TypeInv == TypeOK /\ LoopsOK /\ NoSelfCalls

\* The inductive invariant behind the theorems.
CoreInv == TypeInv /\ CallsOK

\* When all Tribbler servers write through one server, no set of servers ever
\* waits for each other, whatever boots, joins and crashes.
NoWaitCycle ==
    \A S \in SUBSET Server :
        S # {} => \E s \in S : ~(Waiting(s) /\ call[s].to \in S)

\* There, every call a Tribbler server makes returns, with an answer or an error.
CallsReturn == \A c \in Client : Waiting(c) ~> ~Waiting(c)

\* There, every server that starts comes to serve, or dies trying.
BootEnds == \A s \in Server : pc[s] = "find" ~> pc[s] \in {"serve", "down"}

-----------------------------------------------------------------------------
(* What the repository says of the cluster and the code does not do. *)

\* Only a dead server breaks a call: KeyValueStore_server.cpp tells the others
\* "I am ready" in its step 3, so a server they know of answers.
ReadyServersAnswer ==
    \A s \in Server : pc[s] = "bcast" /\ Broken(s) => pc[call[s].to] = "down"

\* "get data from running server": a server that serves without anything
\* being under way holds what the server it copied from holds.
SyncedServersHoldData ==
    (\A s \in Server : pc[s] \in {"down", "serve"}) =>
        \A s \in Server : pc[s] = "serve" /\ target[s] # -1 =>
            \A k \in DOMAIN lists[Peer(s, target[s])] :
                Contents(Peer(s, target[s]), k).values \subseteq Contents(s, k).values

\* "duplicate in lists", KeyValueStore.thrift says of EITEMEXISTS: an item that
\* was added once only is not one.
OnlyDuplicatesExist ==
    \A c \in Client :
        Answered(c) /\ call[c].op.kind = "AddToList" => call[c].status # "EITEMEXISTS"

\* "item not found in lists", it says of EITEMNOTFOUND: a removal that took the
\* item out of the list is not answered that way.
OnlyMissingItemsAreNotFound ==
    [][\A s \in Server : BcastRejected(s) => call[s].status # "EITEMNOTFOUND"]_vars
=============================================================================
