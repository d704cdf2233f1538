----------------------------- MODULE MCThriftRpc -----------------------------
(***************************************************************************)
(* A small instance of ThriftRpc for TLC: a Tribbler server with two       *)
(* clients of its own and a third one that was given the wrong port and    *)
(* has the stubs of the other service.                                     *)
(***************************************************************************)
EXTENDS ThriftRpcProperties, TLC

CONSTANTS x1, x2, x3

KV  == INSTANCE KeyValueStoreService
Tri == INSTANCE TribblerService

ThreeConn == {x1, x2, x3}

Ask(name, args) == [name |-> name, args |-> args]

-----------------------------------------------------------------------------
(* A Tribbler server and two test clients. *)

TriProcessor == Tri!TribblerProcessor

TriClient == (x1 :> Tri!TribblerClient) @@ (x2 :> Tri!TribblerClient)
          @@ (x3 :> KV!KeyValueStoreClient)

TriRequest ==
    (x1 :> {Ask("PostTribble", <<"ann", "hi">>), Ask("GetTribbles", <<"ann">>)})
 @@ (x2 :> {Ask("GetSubscriptions", <<"bob">>)})
 @@ (x3 :> {Ask("Get", <<"ann">>)})

\* Two tribbles, one of them without a stamp.
Shown == << <<"ann", <<2, 1>>, "hi">>, <<"ann", <<>>, "?">> >>

TriAnswer ==
    [n \in DOMAIN TriProcessor |->
        CASE n \in {"GetTribbles", "GetTribblesBySubscription"} ->
                {<<Shown, Tri!TribbleStatus.OK>>}
          [] n = "GetSubscriptions" -> {<<<<"bob">>, Tri!TribbleStatus.OK>>}
          [] OTHER -> {Tri!TribbleStatus.EEXISTS}]

-----------------------------------------------------------------------------
(* A key-value server answers in the same way: its classes carry the results *)
(* of its handlers over a connection unchanged.                              *)

KVAnswer(n) ==
    CASE n = "Get" -> {<<KV!KVStoreStatus.OK, "ann">>, <<KV!KVStoreStatus.EKEYNOTFOUND, "">>}
      [] n = "GetList" -> {<<KV!KVStoreStatus.OK, <<"ann", "bob">>>>,
                           <<KV!KVStoreStatus.EKEYNOTFOUND, <<>>>>}
      [] OTHER -> {KV!KVStoreStatus[s] : s \in DOMAIN KV!KVStoreStatus}

ASSUME KeyValueStoreAnswersArrive ==
    \A n \in DOMAIN KV!KeyValueStoreProcessor :
        LET p == KV!KeyValueStoreProcessor[n]
        IN  \A v \in KVAnswer(n) :
               LET wire == WriteSet(p.result, [i \in {0} |-> Encode(p.response, v)], {0})
               IN  /\ Found(KV!KeyValueStoreClient[n].result, wire) = {0}
                   /\ Decode(KV!KeyValueStoreClient[n].response,
                             Read(p.result, New(p.result), wire)[0]) = v
=============================================================================
