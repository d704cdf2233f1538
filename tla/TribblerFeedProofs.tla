-------------------------- MODULE TribblerFeedProofs --------------------------
(***************************************************************************)
(* Proofs about feeds, from the invariants of TribblerProofs: while all    *)
(* servers of a complete cluster stay up and the Tribbler servers share    *)
(* one key-value server, a feed lacks nothing that was posted before it    *)
(* was asked for unless it is full, and shows posts in the order in which  *)
(* they were made.                                                         *)
(***************************************************************************)
EXTENDS TribblerProofs, SequenceTheorems

\* The tribbles and the subscriptions of u where all Tribbler servers read them.
HubPosts(u) == ItemsAt(lists[Hub], TribbleKey(u))

HubSubs(u) == ItemsAt(lists[Hub], SubKey(u))

\* A user whose tribbles get stamps.
Named(u) == u \in Text /\ u # ""

-----------------------------------------------------------------------------
(* What a feed shows of the tribbles that were found. *)

\* The entries are different ones of those found, the newest first; those left out are
\* no newer, and there are none unless the feed is full.
LEMMA FeedShows ==
    ASSUME NEW all, IsFiniteSet(all), \A t \in all : t = Tribble(t.user, t.item),
           NEW tribbles, Shows(all, tribbles)
    PROVE  \E k \in Nat :
              /\ k <= MaxTribbles /\ DOMAIN tribbles = 1..k /\ Len(tribbles) = k
              /\ \A n \in 1..k : \E t \in all : /\ tribbles[n].user = t.user
                                               /\ tribbles[n].item = ToMessage(t.item)
              /\ \A m, n \in 1..k :
                    m < n => ~PostedLess(tribbles[m].item.vt, tribbles[n].item.vt)
              /\ \A t \in all :
                    \/ \E n \in 1..k : /\ tribbles[n].user = t.user
                                       /\ tribbles[n].item = ToMessage(t.item)
                    \/ /\ k = MaxTribbles
                       /\ \A n \in 1..k :
                             ~PostedLess(tribbles[n].item.vt, ToMessage(t.item).vt)
<1>1. PICK shown \in F!Feeds(all) : tribbles = [n \in DOMAIN shown |-> Shown(shown[n])]
  BY DEF Shows
<1>0. \A kept : F!Cardinality(kept) = Cardinality(kept)
  BY DEF F!Cardinality, Cardinality
<1>2. PICK kept \in SUBSET all :
         /\ F!IsCut(kept, all) /\ shown \in [1..Cardinality(kept) -> kept]
         /\ F!Lists(shown, kept) /\ F!NewestFirst(shown)
  BY <1>0, <1>1 DEF F!Feeds
<1> DEFINE k == Cardinality(kept)
<1>3. k \in Nat
  BY <1>2, FS_Subset, FS_CardinalityType
<1>4. k <= MaxTribbles /\ (kept # all => k = MaxTribbles)
  BY <1>0, <1>2 DEF F!IsCut
<1>5. DOMAIN tribbles = 1..k /\ \A n \in 1..k : tribbles[n] = Shown(shown[n]) /\ shown[n] \in kept
  BY <1>1, <1>2
<1>6. Len(tribbles) = k
  <2>1. tribbles \in [1..k -> {tribbles[n] : n \in 1..k}]
    BY <1>1, <1>5
  <2>2. tribbles \in Seq({tribbles[n] : n \in 1..k})
    BY <1>3, <2>1, SeqDef
  <2> QED
    BY <1>3, <1>5, <2>2, LenProperties
<1>7. \A t \in all : Shown(t).user = t.user /\ Shown(t).item = ToMessage(t.item)
  <2> SUFFICES ASSUME NEW t \in all PROVE Shown(t).user = t.user /\ Shown(t).item = ToMessage(t.item)
    OBVIOUS
  <2>1. t = [user |-> t.user, item |-> t.item]
    BY DEF Tribble
  <2> QED
    BY <2>1 DEF Shown
<1>8. \A n \in 1..k : /\ tribbles[n].user = shown[n].user
                      /\ tribbles[n].item = ToMessage(shown[n].item) /\ shown[n] \in all
  BY <1>2, <1>5, <1>7
<1>9. ASSUME NEW m \in 1..k, NEW n \in 1..k, m < n
      PROVE  ~PostedLess(tribbles[m].item.vt, tribbles[n].item.vt)
  <2>1. ~PostedBefore(shown[m], shown[n])
    BY <1>2, <1>9 DEF F!NewestFirst
  <2> QED
    BY <1>8, <2>1 DEF PostedBefore
<1>10. ASSUME NEW t \in kept
       PROVE  \E n \in 1..k : tribbles[n].user = t.user /\ tribbles[n].item = ToMessage(t.item)
  <2>1. PICK n \in 1..k : shown[n] = t
    BY <1>2 DEF F!Lists
  <2> QED
    BY <1>8, <2>1
<1>11. ASSUME NEW t \in all, t \notin kept, NEW n \in 1..k
       PROVE  ~PostedLess(tribbles[n].item.vt, ToMessage(t.item).vt)
  <2>1. ~PostedBefore(shown[n], t)
    BY <1>2, <1>5, <1>11 DEF F!IsCut, F!AreNewest
  <2> QED
    BY <1>8, <2>1 DEF PostedBefore
<1> HIDE DEF k
<1> QED
  BY <1>3, <1>4, <1>5, <1>6, <1>8, <1>9, <1>10, <1>11

-----------------------------------------------------------------------------
(* What a server's list of tribbles gets. *)

\* A stamp is never the empty one.
LEMMA StampedStamp == Zero \in Stamp /\ \A v \in Stamp : v # NoStamp
<1>1. Zero \in Stamp
  BY DEF Zero, Stamp
<1>2. 1 \in Server /\ DOMAIN NoStamp = {} /\ \A v \in Stamp : DOMAIN v = Server
  BY NAssumption DEF Stamp, NoStamp, Server
<1> QED
  BY <1>1, <1>2

\* The tribbles of users with names have stamps.
LEMMA PostStamped ==
    ASSUME OneEntryOnly, HubInv, faults = 0, NEW u, Named(u), NEW x \in HubPosts(u)
    PROVE  x.vt \in Stamp
<1>1. Hub \in Server /\ Rep(AtHub)
  BY HubServes DEF HubInv
<1>2. TribbleKey(u) \in Key /\ IsTribble(TribbleKey(u))
  BY KeyType DEF IsTribble, TribbleKey, Named
<1>3. x \in ItemsAt(lists[Hub], TribbleKey(u))
  BY DEF HubPosts
<1> QED
  BY <1>1, <1>2, <1>3 DEF Rep, WriterStamps


\* What was begun remains so.
LEMMA DidStays ==
    ASSUME BaseInv, [TNext]_tvars, faults' = 0
    PROVE  \A op, user, arg : Did(op, user, arg) => Did(op, user, arg)'
<1> SUFFICES ASSUME NEW op, NEW user, NEW arg, Did(op, user, arg) PROVE Did(op, user, arg)'
  OBVIOUS
<1>1. PICK t \in Begun(op) : t.user = user /\ t.arg = arg
  BY DEF Did
<1>2. t \in Begun(op)'
  BY BegunGrows
<1> QED
  BY <1>1, <1>2 DEF Did

\* An operation that runs has begun.
LEMMA RunningDid ==
    ASSUME NEW c \in Client, ~Idle(c)
    PROVE  Did(work[c].task.op, work[c].task.user, work[c].task.arg)
  BY DEF Did, Begun

\* Only a PostTribble adds to a list of tribbles.
LEMMA PostAsked ==
    ASSUME NEW w, NEW o, AskedFor(w, o), o.kind = "AddToList", NEW u, o.key = TribbleKey(u)
    PROVE  /\ w.stage = "write" /\ w.task.op = "PostTribble" /\ w.task.user = u
           /\ o.item = Plain(w.task.arg)
<1>1. w.stage = "write"
  BY StageAsks, KeysApart
<1>2. w.task.op = "PostTribble"
  BY <1>1, StageAsks, KeysApart DEF Writers
<1> QED
  BY <1>1, <1>2, StageAsks, KeysApart

\* Nobody removes tribbles, and a step adds one at most.
LEMMA PostsGrow ==
    ASSUME CoreInv, Up, CallsFit, faults' = 0, Hub \in Server,
           NEW s \in Server, Boot(s) \/ ServerStep(s) \/ Crash(s), NEW u
    PROVE  HubPosts(u) \subseteq HubPosts(u)' /\ \E x : HubPosts(u)' \subseteq HubPosts(u) \cup {x}
<1> DEFINE k == TribbleKey(u)
<1>1. CASE lists'[Hub] = lists[Hub]
  BY <1>1 DEF HubPosts
<1>2. ASSUME NEW h, Serves(s, h), Obeys(s, h) \/ Accepts(s, h), s = Hub
      PROVE  HubPosts(u) \subseteq HubPosts(u)' /\ \E x : HubPosts(u)' \subseteq HubPosts(u) \cup {x}
  <2>1. PICK r : Stores(s, h, r) /\ Writes(h)
    BY <1>2 DEF Obeys, Accepts
  <2>2. PICK it \in Item :
           \/ h.kind = "Put" /\ StoresPut(s, h.key)
           \/ h.kind = "AddToList" /\ StoresItem(s, h.key, it)
           \/ h.kind = "RemoveFromList" /\ StoresRemoval(s, h.key, it)
    BY <2>1 DEF Stores
  <2>3. CASE k # h.key
    BY <1>2, <2>1, <2>3, StoresElsewhere DEF SameAt, HubPosts
  <2>4. CASE k = h.key /\ StoresPut(s, h.key)
    BY <1>2, <2>4, PutHeld DEF HubPosts
  <2>5. CASE k = h.key /\ StoresItem(s, h.key, it)
    BY <1>2, <2>5, ItemHeld DEF HubPosts
  <2>6. CASE k = h.key /\ h.kind = "RemoveFromList"
    <3>1. PICK c \in Client : SameWrite(call[c].op, h) /\ AskedFor(work[c], call[c].op)
      BY <1>2, <2>1, WriteSource
    <3>2. call[c].op.kind = "RemoveFromList" /\ call[c].op.key = k
      BY <2>6, <3>1 DEF SameWrite
    <3>3. k = SubKey(work[c].task.user)
      BY <3>1, <3>2, StageAsks DEF Writers
    <3> QED
      BY <3>3, KeysApart
  <2> QED
    BY <2>2, <2>3, <2>4, <2>5, <2>6
<1>3. lists'[Hub] = lists[Hub] \/ (s = Hub /\ \E h : Serves(s, h) /\ (Obeys(s, h) \/ Accepts(s, h)))
  <2>1. ASSUME NEW h, Serves(s, h), Refuses(s, h)
        PROVE  lists'[Hub] = lists[Hub]
    BY <2>1 DEF Refuses
  <2>2. ASSUME Calls(s) \/ MovesOn(s) \/ \E status : Concludes(s, status)
        PROVE  lists'[Hub] = lists[Hub]
    BY <2>2 DEF Calls, MovesOn, Concludes
  <2>3. \/ Serves(s, Head(inbox[s])) \/ Calls(s) \/ MovesOn(s)
        \/ \E status : Concludes(s, status)
    BY ServerDoes
  <2> QED
    BY <2>1, <2>2, <2>3 DEF Serves
<1> HIDE DEF k
<1> QED
  BY <1>1, <1>2, <1>3

\* A tribble that the shared server takes is stamped after all that it stores.
LEMMA NewPostLast ==
    ASSUME OneEntryOnly, HubInv, faults = 0, faults' = 0,
           NEW s \in Server, Boot(s) \/ ServerStep(s) \/ Crash(s),
           NEW u, Named(u), NEW x, x \in HubPosts(u)', x \notin HubPosts(u),
           NEW v, Named(v), NEW y, y \in HubPosts(v), y.value \notin Unescaped
    PROVE  PostedLess(y.vt, x.vt)
<1> DEFINE k == TribbleKey(u)
           h == Head(inbox[s])
<1>1. /\ CoreInv /\ TypeOK /\ TypeInv /\ Up /\ CallsFit /\ StampsInv /\ Rep(AtHub) /\ RoutesInv
      /\ Hub \in Server /\ \A c \in Client : Entry[c] = Hub
  BY HubServes DEF HubInv, BaseInv, UpInv, Fits, TribblerInv, CoreInv, TypeInv
<1>2. k \in Key /\ IsTribble(k) /\ TribbleKey(v) \in Key /\ IsTribble(TribbleKey(v))
  BY KeyType DEF IsTribble, TribbleKey, Named
<1>3. x \in ItemsAt(lists'[Hub], k) /\ x \notin ItemsAt(lists[Hub], k)
  BY DEF HubPosts
<1> HIDE DEF k
<1>4. Serves(s, h) /\ (Obeys(s, h) \/ Accepts(s, h))
  <2>1. ~(Serves(s, h) /\ Refuses(s, h))
    BY <1>3 DEF Refuses
  <2>2. ~(Calls(s) \/ MovesOn(s) \/ \E status : Concludes(s, status))
    BY <1>3 DEF Calls, MovesOn, Concludes
  <2>3. \/ Serves(s, h) \/ Calls(s) \/ MovesOn(s) \/ \E status : Concludes(s, status)
    BY <1>1, ServerDoes
  <2> QED
    BY <2>1, <2>2, <2>3 DEF Serves
<1>5. s = Hub /\ pc[s] = "serve" /\ inbox[s] # <<>>
  BY <1>1, <1>3, <1>4 DEF Serves
<1>6. h.kind = "AddToList" /\ h.key = k
  <2>1. PICK r : Stores(s, h, r)
    BY <1>4 DEF Obeys, Accepts
  <2>2. h.key = k
    BY <1>3, <1>5, <2>1, StoresElsewhere DEF SameAt
  <2>3. ~(h.kind = "Put" /\ StoresPut(s, h.key))
    BY <1>3, <1>5, <2>2, PutHeld
  <2>4. ASSUME NEW item, StoresRemoval(s, h.key, item)
        PROVE  FALSE
    <3>1. ItemsAt(lists'[s], h.key) = ItemsAt(lists[s], h.key) \ {item}
      BY <2>4, RemovalHeld
    <3> QED
      BY <1>3, <1>5, <2>2, <3>1
  <2> QED
    BY <2>1, <2>2, <2>3, <2>4 DEF Stores
<1>7. h.from \in Client
  <2>1. ASSUME h.from \in Server
        PROVE  FALSE
    <3>1. h.from # s /\ pc[h.from] = "bcast"
      BY <1>1, <1>5, <2>1, ServerRequest
    <3>2. job[h.from].from \in Client /\ Entry[job[h.from].from] = h.from
      BY <1>1, <2>1, <3>1 DEF TypeInv, LoopsOK, RoutesInv, RouteOK
    <3> QED
      BY <1>1, <1>5, <3>1, <3>2
  <2>2. h \in Request
    BY <1>4 DEF Serves, Asks
  <2> QED
    BY <2>1, <2>2 DEF Request, Proc
<1>8. PostTribble(s)
  <2>1. Handler(s)
    BY <1>1, <1>5, UpSteps DEF BcastCall, BcastAnswer, BcastRejected, BcastDone
  <2>2. ~(Read(s) \/ Put(s) \/ RemoveFromList(s))
    BY <1>6 DEF Read, Put, RemoveFromList, HasRequest
  <2>3. ~AddToList(s)
    BY <1>2, <1>6 DEF AddToList
  <2>4. ~ReceiveTribble(s)
    BY <1>7, ClusterAssumption DEF ReceiveTribble, HasTribble
  <2> QED
    BY <2>1, <2>2, <2>3, <2>4 DEF Handler
<1> DEFINE stamp == Inc(vt[s], s)
<1>9. x.vt = stamp
  <2> DEFINE new == ToJSON(h.item.value, stamp)
  <2>1. lists'[s] = StoreAddToList(lists[s], h.key, new).map
    BY <1>1, <1>8 DEF PostTribble, WriteList, TypeOK, AreMaps
  <2>2. new.vt = stamp
    BY DEF ToJSON
  <2> HIDE DEF new, stamp
  <2>3. ItemsAt(lists'[s], k) \subseteq ItemsAt(lists[s], k) \cup {new}
    <3>1. \A m, z : ItemsAt(StoreAddToList(m, k, z).map, k) \subseteq ItemsAt(m, k) \cup {z}
      BY AddedItems
    <3> QED
      BY <1>6, <2>1, <3>1
  <2> QED
    BY <1>3, <1>5, <2>2, <2>3
<1>10. /\ vt[s] \in Stamp /\ stamp \in Stamp /\ stamp[s] = vt[s][s] + 1 /\ Leq(vt[s], stamp)
  BY <1>1, IncType DEF TypeOK
<1>11. /\ y.vt \in Stamp /\ Leq(y.vt, vt[s]) /\ y.vt[s] <= vt[s][s]
  <2>1. y \in ItemsAt(lists[s], TribbleKey(v))
    BY <1>5 DEF HubPosts
  <2>2. y.vt \in Stamp /\ y.vt[AtHub[TribbleKey(v)]] <= vt[AtHub[TribbleKey(v)]][AtHub[TribbleKey(v)]]
    BY <1>2, <2>1 , <1>1 DEF Rep, WriterStamps
  <2>3. AtHub[TribbleKey(v)] = s
    BY <1>2, <1>5, HubServes
  <2>4. IsReadable(y)
    BY <2>2, StampedStamp DEF IsReadable
  <2>5. Leq(y.vt, vt[s])
    BY <1>1, <1>2, <2>1, <2>4 DEF StampsInv, KnownAt
  <2> QED
    BY <2>2, <2>3, <2>5
<1> HIDE DEF stamp
<1>12. Leq(y.vt, stamp) /\ y.vt \in AnyStamp
  BY <1>10, <1>11, LeqTransitive DEF AnyStamp
<1>13. y.vt[s] < stamp[s]
  <2>1. y.vt[s] \in Nat /\ vt[s][s] \in Nat
    BY <1>10, <1>11 DEF Stamp
  <2>2. stamp[s] = vt[s][s] + 1
    BY <1>10
  <2>3. y.vt[s] <= vt[s][s]
    BY <1>11
  <2> QED
    BY <2>1, <2>2, <2>3
<1> QED
  BY <1>9, <1>10, <1>12, <1>13, CausesSortFirst

-----------------------------------------------------------------------------
(* Where what is stored and what is read comes from. *)

\* The shared server stores what somebody asked for, and no list is without end.
ListsAsked ==
    \A u : /\ IsFiniteSet(HubPosts(u))
           /\ \A x \in HubPosts(u) : /\ Did("PostTribble", u, x.value)
                                     /\ u = "" => x = Plain(x.value)
           /\ \A x \in HubSubs(u) : Did("AddSubscription", u, x.value)

\* Every step.
LEMMA ListsNext ==
    ASSUME OneEntryOnly, BaseInv, ListsAsked, [TNext]_tvars, faults = 0, faults' = 0
    PROVE  ListsAsked' /\ \A u : HubPosts(u) \subseteq HubPosts(u)'
<1>1. /\ CoreInv /\ Up /\ CallsFit /\ Hub \in Server
      /\ \A op, user, arg : Did(op, user, arg) => Did(op, user, arg)'
  BY DidStays, HubServes DEF BaseInv, UpInv, Fits, TribblerInv
<1>2. CASE UNCHANGED lists
  BY <1>1, <1>2 DEF ListsAsked, HubPosts, HubSubs
<1>3. CASE ByServer
  <2>1. PICK s \in Server : Boot(s) \/ ServerStep(s) \/ Crash(s)
    BY <1>3 DEF ByServer
  <2> SUFFICES ASSUME NEW u
               PROVE  /\ IsFiniteSet(HubPosts(u))' /\ HubPosts(u) \subseteq HubPosts(u)'
                      /\ \A x \in HubPosts(u)' : /\ Did("PostTribble", u, x.value)'
                                                 /\ u = "" => x = Plain(x.value)
                      /\ \A x \in HubSubs(u)' : Did("AddSubscription", u, x.value)'
    BY DEF ListsAsked
  <2>2. HubPosts(u) \subseteq HubPosts(u)'
    BY <1>1, <2>1, PostsGrow
  <2>3. PICK x : HubPosts(u)' \subseteq HubPosts(u) \cup {x}
    BY <1>1, <2>1, PostsGrow
  <2>4. IsFiniteSet(HubPosts(u)')
    <3>1. IsFiniteSet(HubPosts(u) \cup {x})
      BY FS_AddElement DEF ListsAsked
    <3> QED
      BY <2>3, <3>1, FS_Subset
  <2>5. ASSUME NEW op, NEW k, NEW y \in ItemsAt(lists'[Hub], k), y \notin ItemsAt(lists[Hub], k),
               \/ op = "PostTribble" /\ k = TribbleKey(u)
               \/ op = "AddSubscription" /\ k = SubKey(u)
        PROVE  Did(op, u, y.value) /\ (u = "" => y = Plain(y.value))
    <3>1. PICK c \in Client :
             /\ ~Idle(c) /\ AskedFor(work[c], call[c].op)
             /\ call[c].op.kind = "AddToList" /\ call[c].op.key = k
             /\ call[c].op.item.value = y.value
             /\ ~IsTribble(k) => call[c].op.item = y
      BY <1>1, <2>1, <2>5, ItemSource
    <3>2. work[c].task.op = op /\ work[c].task.user = u /\ call[c].op.item = Plain(work[c].task.arg)
      BY <2>5, <3>1, PostAsked, SubscriptionAsked
    <3>3. y.value = work[c].task.arg
      BY <3>1, <3>2 DEF Plain
    <3>4. u = "" => ~IsTribble(k)
      <4>1. CASE k = TribbleKey(u)
        BY <4>1 DEF IsTribble, TribbleKey
      <4>2. CASE k = SubKey(u)
        BY <4>2 DEF IsTribble, SubKey
      <4> QED
        BY <2>5, <4>1, <4>2
    <3> QED
      BY <3>1, <3>2, <3>3, <3>4, RunningDid
  <2>6. \A y \in HubPosts(u)' : Did("PostTribble", u, y.value)' /\ (u = "" => y = Plain(y.value))
    BY <1>1, <2>5 DEF ListsAsked, HubPosts
  <2>7. \A y \in HubSubs(u)' : Did("AddSubscription", u, y.value)'
    BY <1>1, <2>5 DEF ListsAsked, HubSubs
  <2> QED
    BY <2>2, <2>4, <2>6, <2>7
<1> QED
  BY <1>2, <1>3, TribblerSteps DEF Alone, store, tvars, vars

\* A reader sees the same of whatever is stored for the same post.
LEMMA SeenRight ==
    ASSUME OneEntryOnly, HubInv, ListsAsked, faults = 0, NEW u, NEW x \in HubPosts(u)
    PROVE  /\ u \in Text /\ x.value \in Text /\ Did("PostTribble", u, x.value)
           /\ SeenAs(u, x.value) = ToMessage(x).value
           /\ ReadEnds(Posted(u, x.value)) = ReadEnds(x)
           /\ u # "" /\ x.value \notin Unescaped => IsReadable(x)
<1>1. Did("PostTribble", u, x.value) /\ (u = "" => x = Plain(x.value))
  BY DEF ListsAsked
<1>2. u \in Text /\ x.value \in Text
  <2>1. PICK t \in Begun("PostTribble") : t.user = u /\ t.arg = x.value
    BY <1>1 DEF Did
  <2>2. t \in Task
    BY <2>1 DEF Begun, HubInv, BaseInv, TribblerInv, TribblerTypeOK
  <2> QED
    BY <2>1, <2>2 DEF Task
<1>3. CASE u = ""
  <2>1. Posted(u, x.value) = x /\ IsReadable(x) \in BOOLEAN
    BY <1>1, <1>3 DEF Posted, IsTribble, TribbleKey, IsReadable
  <2> QED
    BY <1>1, <1>2, <1>3, <2>1 DEF SeenAs
<1>4. CASE u # ""
  <2>1. Posted(u, x.value) = ToJSON(x.value, Zero)
    BY <1>4 DEF Posted, IsTribble, TribbleKey
  <2>2. PICK p : p = Posted(u, x.value)
    OBVIOUS
  <2>3. p.value = x.value /\ p.vt # NoStamp /\ x.vt # NoStamp
    <3>1. x.vt \in Stamp
      BY <1>2, <1>4, PostStamped DEF Named
    <3>2. p.value = x.value /\ p.vt = Zero
      BY <2>1, <2>2 DEF ToJSON
    <3> QED
      BY <3>1, <3>2, StampedStamp
  <2>4. (IsReadable(p) <=> IsReadable(x)) /\ (IsReadable(x) <=> x.value \notin Unescaped)
    BY <2>3 DEF IsReadable
  <2>5. ReadingOf(p) = ReadingOf(x)
    BY <2>3 DEF ReadingOf
  <2>6. ToMessage(p).value = ToMessage(x).value /\ ReadEnds(p) = ReadEnds(x)
    BY <2>3, <2>4, <2>5 DEF ToMessage, ReadEnds
  <2> QED
    BY <1>1, <1>2, <2>2, <2>4, <2>6 DEF SeenAs
<1> QED
  BY <1>3, <1>4

\* Contents that ToJSON need not escape are seen as they were posted.
LEMMA SeenItself ==
    ASSUME NEW u, Named(u), NEW text, text \notin Unescaped
    PROVE  SeenAs(u, text) = text
<1>1. Posted(u, text) = ToJSON(text, Zero)
  BY DEF Posted, IsTribble, TribbleKey, Named
<1>2. IsReadable(ToJSON(text, Zero))
  BY StampedStamp DEF IsReadable, ToJSON
<1> QED
  BY <1>1, <1>2 DEF SeenAs, ToMessage, ToJSON

\* A list that c has been given is the shared server's: it holds what somebody asked
\* for, and everything that c knows to have been stored.
ReadTrue(c) ==
    call[c].op.kind = "GetList" => \A u :
        /\ call[c].op.key = TribbleKey(u) =>
              /\ IsFiniteSet(call[c].values) /\ call[c].values \subseteq HubPosts(u)
              /\ \A b \in OkIn(work[c].known, "PostTribble") :
                    b.task.user = u => \E x \in call[c].values : x.value = b.task.arg
        /\ call[c].op.key = SubKey(u) =>
              /\ \A x \in call[c].values : Did("AddSubscription", u, x.value)
              /\ \A b \in OkIn(work[c].known, "AddSubscription") : b.task.user = u =>
                    \/ Plain(b.task.arg) \in call[c].values
                    \/ Did("RemoveSubscription", u, b.task.arg)

ReadsTrue == \A c \in Client : Answered(c) => ReadTrue(c)

\* The shared server reads out what it stores.
LEMMA HubReads ==
    ASSUME OneEntryOnly, HubInv, ToldInv, ListsAsked, faults = 0, NEW c \in Client, HubAnswers(c)
    PROVE  call[c].op.kind = "GetList" => \A u :
              /\ call[c].op.key = TribbleKey(u) =>
                    /\ IsFiniteSet(call'[c].values) /\ call'[c].values \subseteq HubPosts(u)
                    /\ \A b \in OkIn(work[c].known, "PostTribble") :
                          b.task.user = u => \E x \in call'[c].values : x.value = b.task.arg
              /\ call[c].op.key = SubKey(u) =>
                    /\ \A x \in call'[c].values : Did("AddSubscription", u, x.value)
                    /\ \A b \in OkIn(work[c].known, "AddSubscription") : b.task.user = u =>
                          \/ Plain(b.task.arg) \in call'[c].values
                          \/ Did("RemoveSubscription", u, b.task.arg)
<1> SUFFICES ASSUME call[c].op.kind = "GetList"
             PROVE  \A u :
              /\ call[c].op.key = TribbleKey(u) =>
                    /\ IsFiniteSet(call'[c].values) /\ call'[c].values \subseteq HubPosts(u)
                    /\ \A b \in OkIn(work[c].known, "PostTribble") :
                          b.task.user = u => \E x \in call'[c].values : x.value = b.task.arg
              /\ call[c].op.key = SubKey(u) =>
                    /\ \A x \in call'[c].values : Did("AddSubscription", u, x.value)
                    /\ \A b \in OkIn(work[c].known, "AddSubscription") : b.task.user = u =>
                          \/ Plain(b.task.arg) \in call'[c].values
                          \/ Did("RemoveSubscription", u, b.task.arg)
  OBVIOUS
<1>1. Hub \in Server /\ ToldKept
  BY HubServes DEF ToldInv
<1>2. call'[c].values = ItemsAt(lists[Hub], call[c].op.key)
  <2>1. PICK status, values :
           /\ Gets(c, status, values)
           /\ \/ SameWrite(call[c].op, job[Hub]) /\ Writes(job[Hub])
              \/ \E h \in Request : /\ call[c].op.kind = h.kind /\ call[c].op.key = h.key
                                    /\ Says(Hub, h, status, values)
    BY DEF HubAnswers
  <2>2. ~(SameWrite(call[c].op, job[Hub]) /\ Writes(job[Hub]))
    BY DEF SameWrite, Writes
  <2>3. PICK h \in Request : /\ call[c].op.kind = h.kind /\ call[c].op.key = h.key
                             /\ Says(Hub, h, status, values)
    BY <2>1, <2>2
  <2>4. values = StoreGetList(lists[Hub], h.key).values
    BY <2>3 DEF Says
  <2>5. StoreGetList(lists[Hub], h.key).values = ItemsAt(lists[Hub], h.key)
    BY DEF StoreGetList, ItemsAt
  <2> QED
    BY <2>1, <2>3, <2>4, <2>5 DEF Gets
<1>3. ASSUME NEW u, NEW b \in OkIn(work[c].known, "PostTribble"), b.task.user = u
      PROVE  \E x \in HubPosts(u) : x.value = b.task.arg
  <2>1. Kept(TribbleKey(u), Plain(b.task.arg))
    BY <1>1, <1>3 DEF ToldKept, Brings, Ok, OkIn
  <2> QED
    BY <1>1, <2>1, NotUndone, StoredItems DEF Kept, HubPosts
<1>4. ASSUME NEW u, NEW b \in OkIn(work[c].known, "AddSubscription"), b.task.user = u
      PROVE  Plain(b.task.arg) \in HubSubs(u) \/ Did("RemoveSubscription", u, b.task.arg)
  <2>1. Kept(SubKey(u), Plain(b.task.arg))
    BY <1>1, <1>4 DEF ToldKept, Brings, Ok, OkIn
  <2>2. CASE Stored(SubKey(u), Plain(b.task.arg))
    BY <1>1, <2>2, StoredItems, KeysApart DEF HubSubs
  <2>3. CASE Undone(SubKey(u), Plain(b.task.arg))
    BY <2>3, KeysApart DEF Undone, Did
  <2> QED
    BY <2>1, <2>2, <2>3 DEF Kept
<1> QED
  BY <1>2, <1>3, <1>4 DEF ListsAsked, HubPosts, HubSubs

\* What an operation knew when it began it goes on knowing, and nothing else.
LEMMA KnownStays ==
    ASSUME BaseInv, NumbersOK, [TNext]_tvars, faults' = 0, NEW c \in Client, ~Idle(c),
           work'[c].known = work[c].known
    PROVE  \A op : \A b : b \in OkIn(work[c].known, op)' <=> b \in OkIn(work[c].known, op)
<1> SUFFICES ASSUME NEW op, NEW b
             PROVE  b \in OkIn(work[c].known, op)' <=> b \in OkIn(work[c].known, op)
  OBVIOUS
<1>1. work[c].known \subseteq Given
  BY DEF NumbersOK
<1>2. \A known : known = work[c].known => OkIn(known, op)' = OkIn(known, op)
  BY <1>1, NumbersNext
<1>3. \A known : known = work[c].known =>
         (b \in OkIn(known, op)' <=> b \in OkIn(work[c].known, op)')
  BY DEF OkIn
<1> QED
  BY <1>2, <1>3

\* Every step.
LEMMA ReadsNext ==
    ASSUME OneEntryOnly, HubInv, ToldInv, NumbersOK, ListsAsked, ReadsTrue, [TNext]_tvars,
           faults = 0, faults' = 0
    PROVE  ReadsTrue'
<1>1. /\ BaseInv /\ CoreInv /\ Up /\ CallsFit /\ Hub \in Server
      /\ \A op, user, arg : Did(op, user, arg) => Did(op, user, arg)'
      /\ \A known, op : known \subseteq Given => OkIn(known, op)' = OkIn(known, op)
      /\ \A u : HubPosts(u) \subseteq HubPosts(u)'
  BY DidStays, HubServes, NumbersNext, ListsNext DEF HubInv, BaseInv, UpInv, Fits, TribblerInv
<1>3. ASSUME NEW c \in Client, call'[c] = call[c], work'[c] = work[c], Answered(c)'
      PROVE  ReadTrue(c)'
  <2>1. Answered(c) /\ ~Idle(c) /\ ReadTrue(c)
    BY <1>3 DEF ReadsTrue, Answered, Idle
  <2>2. \A op : \A b : b \in OkIn(work[c].known, op)' <=> b \in OkIn(work[c].known, op)
    BY <1>1, <1>3, <2>1, KnownStays
  <2> QED
    BY <1>1, <1>3, <2>1, <2>2 DEF ReadTrue
<1>4. CASE ByServer
  <2>1. PICK s \in Server : /\ Boot(s) \/ ServerStep(s) \/ Crash(s)
                            /\ UNCHANGED <<script, work, told>>
    BY <1>4 DEF ByServer
  <2>2. ASSUME NEW c \in Client, call'[c] # call[c]
        PROVE  ReadTrue(c)'
    <3>1. HubAnswers(c)
      BY <2>1, <2>2, AnsweredByHub
    <3>2. call'[c].op = call[c].op /\ ~Idle(c)
      BY <1>1, <2>1, <2>2, ClientOps, <3>1 DEF HubAnswers, Gets, Waiting, Idle
    <3>3. \A op : \A b : b \in OkIn(work[c].known, op)' <=> b \in OkIn(work[c].known, op)
      BY <1>1, <2>1, <3>2, KnownStays
    <3>4. UNCHANGED lists
      BY <3>1 DEF HubAnswers
    <3> QED
      BY <1>1, <3>1, <3>2, <3>3, <3>4, HubReads DEF ReadTrue
  <2> QED
    BY <1>3, <2>1, <2>2 DEF ReadsTrue
<1>5. ASSUME NEW c \in Client, Alone(c)
      PROVE  ReadsTrue'
  BY <1>3, <1>5 DEF ReadsTrue, Alone
<1>6. CASE UNCHANGED tvars
  BY <1>3, <1>6 DEF ReadsTrue, tvars, vars
<1> QED
  BY <1>1, <1>4, <1>5, <1>6, TribblerSteps

-----------------------------------------------------------------------------
(* What the operations that read tribbles have found. *)

\* A feed for the task may show the tribbles of u.
Sources(task, u) ==
    \/ task.op = "GetTribbles" /\ task.user = u
    \/ task.op = "GetTribblesBySubscription" /\ Did("AddSubscription", task.user, u)

\* It has to, when those answers were known; Follows says it of an answer.
Covered(task, known, u) ==
    \/ task.op = "GetTribbles" /\ task.user = u
    \/ /\ task.op = "GetTribblesBySubscription"
       /\ ~Did("RemoveSubscription", task.user, u)
       /\ \E b \in OkIn(known, "AddSubscription") : b.task.user = task.user /\ b.task.arg = u

\* All were posted by users that the task reads, and all that it knows to be posted by
\* those whom it follows are there, or it has still to come to the user.
Collects(task, known, rest, all) ==
    /\ IsFiniteSet(all)
    /\ \A t \in all : /\ t = Tribble(t.user, t.item) /\ t.item \in HubPosts(t.user)
                      /\ Sources(task, t.user)
    /\ \A b \in OkIn(known, "PostTribble") : Covered(task, known, b.task.user) =>
          \/ b.task.user \in rest
          \/ \E t \in all : t.user = b.task.user /\ t.item.value = b.task.arg

\* The loop over the subscriptions.
LoopTrue(c) ==
    /\ Collects(work[c].task, work[c].known, work[c].subs, work[c].found)
    /\ \A u \in work[c].subs : Did("AddSubscription", work[c].task.user, u)

LoopsTrue == \A c \in Client : ~Idle(c) /\ work[c].stage = "posts" => LoopTrue(c)

\* A feed was made of what there was.
FeedTrue(a) == \E all : Collects(a.task, a.known, {}, all) /\ Shows(all, a.tribbles)

\* An exception was met at what one of those had posted whom the task reads.
ThrowTrue(task) ==
    \E u, text \in Text : /\ Sources(task, u) /\ Did("PostTribble", u, text)
                          /\ ReadEnds(Posted(u, text)) = "throws"

ThrowsTrue == \A a \in told : a.status = "exception" => ThrowTrue(a.task)

FeedInv ==
    faults = 0 => /\ ListsAsked /\ ReadsTrue /\ LoopsTrue /\ ThrowsTrue
                  /\ \A a \in Feeds : FeedTrue(a)

\* What was found remains so.
LEMMA CollectsStays ==
    ASSUME OneEntryOnly, BaseInv, NumbersOK, ListsAsked, [TNext]_tvars, faults = 0, faults' = 0
    PROVE  \A task, known, rest, all :
              known \subseteq Given /\ Collects(task, known, rest, all)
              => Collects(task, known, rest, all)'
<1> SUFFICES ASSUME NEW task, NEW known, NEW rest, NEW all, known \subseteq Given,
                    Collects(task, known, rest, all)
             PROVE  Collects(task, known, rest, all)'
  OBVIOUS
<1>1. /\ \A op, user, arg : Did(op, user, arg) => Did(op, user, arg)'
      /\ \A op : OkIn(known, op)' = OkIn(known, op)
      /\ \A u : HubPosts(u) \subseteq HubPosts(u)'
  BY DidStays, NumbersNext, ListsNext
<1>2. \A u : Sources(task, u) => Sources(task, u)'
  BY <1>1 DEF Sources
<1>3. \A u : Covered(task, known, u)' => Covered(task, known, u)
  BY <1>1 DEF Covered
<1> QED
  BY <1>1, <1>2, <1>3 DEF Collects

\* What an answer to GetList adds to what was found.
LEMMA Collected ==
    ASSUME CallsFit, NEW c \in Client, Answered(c), ReadTrue(c),
           work[c].stage = "posts" => LoopTrue(c)
    PROVE  /\ work[c].stage = "read" =>
                 Collects(work[c].task, work[c].known, {}, Listed(c, User(c)))
           /\ work[c].stage = "subs" /\ work[c].task.op = "GetTribblesBySubscription" =>
                 /\ Collects(work[c].task, work[c].known, Subscriptions(c), {})
                 /\ \A u \in Subscriptions(c) : Did("AddSubscription", work[c].task.user, u)
           /\ work[c].stage = "posts" =>
                 Collects(work[c].task, work[c].known, work[c].subs \ {Asked(c)},
                          work[c].found \cup Listed(c, Asked(c)))
<1> DEFINE task == work[c].task
           known == work[c].known
<1>1. AskedFor(work[c], call[c].op)
  BY DEF CallsFit, Answered, Idle
<1>2. ASSUME NEW u, call[c].op.kind = "GetList", call[c].op.key = TribbleKey(u), Sources(task, u)
      PROVE  /\ IsFiniteSet(Listed(c, u))
             /\ \A t \in Listed(c, u) : /\ t = Tribble(t.user, t.item) /\ t.item \in HubPosts(t.user)
                                        /\ Sources(task, t.user) /\ t.user = u
             /\ \A b \in OkIn(known, "PostTribble") : b.task.user = u =>
                   \E t \in Listed(c, u) : t.user = u /\ t.item.value = b.task.arg
  <2>1. /\ IsFiniteSet(call[c].values) /\ call[c].values \subseteq HubPosts(u)
        /\ \A b \in OkIn(known, "PostTribble") :
              b.task.user = u => \E x \in call[c].values : x.value = b.task.arg
    BY <1>2 DEF ReadTrue
  <2>2. \A x : Tribble(u, x).user = u /\ Tribble(u, x).item = x
    BY DEF Tribble
  <2>3. IsFiniteSet({Tribble(u, x) : x \in call[c].values})
    <3> DEFINE f == [x \in call[c].values |-> Tribble(u, x)]
               S == {Tribble(u, x) : x \in call[c].values}
    <3>1. f \in Surjection(call[c].values, S)
      BY DEF Surjection
    <3> QED
      BY <2>1, <3>1, FS_Surjection
  <2>4. /\ \A t \in Listed(c, u) : \E x \in call[c].values : t = Tribble(u, x)
        /\ \A x \in call[c].values : Tribble(u, x) \in Listed(c, u)
    BY DEF Listed
  <2>5. \A t \in Listed(c, u) : /\ t = Tribble(t.user, t.item) /\ t.item \in HubPosts(t.user)
                                /\ Sources(task, t.user) /\ t.user = u
    BY <1>2, <2>1, <2>2, <2>4
  <2>6. ASSUME NEW b \in OkIn(known, "PostTribble"), b.task.user = u
        PROVE  \E t \in Listed(c, u) : t.user = u /\ t.item.value = b.task.arg
    <3>1. PICK x \in call[c].values : x.value = b.task.arg
      BY <2>1, <2>6
    <3> QED
      BY <2>2, <2>4, <3>1
  <2> QED
    BY <2>3, <2>5, <2>6 DEF Listed
<1>3. ASSUME work[c].stage = "read"
      PROVE  Collects(task, known, {}, Listed(c, User(c)))
  <2>1. /\ call[c].op.kind = "GetList" /\ call[c].op.key = TribbleKey(User(c))
        /\ task.op = "GetTribbles" /\ task.user = User(c)
    BY <1>1, <1>3, StageAsks DEF User
  <2>2. Sources(task, User(c)) /\ \A u : Covered(task, known, u) => u = User(c)
    BY <2>1 DEF Sources, Covered
  <2> HIDE DEF task, known
  <2> QED
    BY <1>2, <2>1, <2>2 DEF Collects
<1>4. ASSUME work[c].stage = "subs", task.op = "GetTribblesBySubscription"
      PROVE  /\ Collects(task, known, Subscriptions(c), {})
             /\ \A u \in Subscriptions(c) : Did("AddSubscription", task.user, u)
  <2>1. call[c].op.kind = "GetList" /\ call[c].op.key = SubKey(task.user)
    BY <1>1, <1>4, StageAsks
  <2>2. /\ \A x \in call[c].values : Did("AddSubscription", task.user, x.value)
        /\ \A b \in OkIn(known, "AddSubscription") : b.task.user = task.user =>
              \/ Plain(b.task.arg) \in call[c].values
              \/ Did("RemoveSubscription", task.user, b.task.arg)
    BY <2>1 DEF ReadTrue
  <2>3. \A u : Covered(task, known, u) => u \in Subscriptions(c)
    <3>1. \A u : Covered(task, known, u) => Plain(u) \in call[c].values
      BY <1>4, <2>2 DEF Covered
    <3>2. \A u : Plain(u).value = u
      BY DEF Plain
    <3> QED
      BY <3>1, <3>2 DEF Subscriptions
  <2>4. IsFiniteSet({})
    BY FS_EmptySet
  <2> HIDE DEF task, known
  <2> QED
    BY <2>2, <2>3, <2>4 DEF Collects, Subscriptions
<1>5. ASSUME work[c].stage = "posts"
      PROVE  Collects(task, known, work[c].subs \ {Asked(c)},
                      work[c].found \cup Listed(c, Asked(c)))
  <2>1. PICK u \in work[c].subs : call[c].op.key = TribbleKey(u)
    BY <1>1, <1>5, StageAsks
  <2>2. /\ call[c].op.kind = "GetList" /\ task.op = "GetTribblesBySubscription" /\ Asked(c) = u
    BY <1>1, <1>5, <2>1, StageAsks DEF Asked, TribbleKey
  <2>3. Collects(task, known, work[c].subs, work[c].found) /\ Sources(task, u)
    BY <1>5, <2>1, <2>2 DEF LoopTrue, Sources
  <2>4. IsFiniteSet(work[c].found \cup Listed(c, u))
    BY <1>2, <2>1, <2>2, <2>3, FS_Union DEF Collects
  <2> HIDE DEF task, known
  <2> QED
    BY <1>2, <2>1, <2>2, <2>3, <2>4 DEF Collects
<1> QED
  BY <1>3, <1>4, <1>5

\* The loop of c after a step.
LEMMA LoopHolds ==
    ASSUME NEW c, NEW task, NEW known, NEW rest, NEW all,
           work'[c].task = task, work'[c].known = known,
           work'[c].subs = rest, work'[c].found = all,
           Collects(task, known, rest, all)',
           \A u \in rest : Did("AddSubscription", task.user, u)'
    PROVE  LoopTrue(c)'
  BY DEF LoopTrue, Collects, Sources, Covered, OkIn, Did

\* A feed is answered when all was found.
LEMMA FeedAnswered ==
    ASSUME CallsFit, NEW c \in Client, Answered(c), ReadTrue(c),
           work[c].stage = "posts" => LoopTrue(c), NEW tribbles, Answers(c, "OK", tribbles),
           work[c].task.op \in {"GetTribbles", "GetTribblesBySubscription"}
    PROVE  \E all : Collects(work[c].task, work[c].known, {}, all) /\ Shows(all, tribbles)
<1>1. AskedFor(work[c], call[c].op)
  BY DEF CallsFit, Answered, Idle
<1>2. work[c].stage # "write"
  BY <1>1, StageAsks DEF Writers
<1>3. \/ work[c].stage = "read" /\ Shows(Listed(c, User(c)), tribbles)
      \/ /\ work[c].stage = "subs" /\ work[c].task.op = "GetTribblesBySubscription"
         /\ Subscriptions(c) = {} /\ Shows({}, tribbles)
      \/ /\ work[c].stage = "posts" /\ work[c].subs \ {Asked(c)} = {}
         /\ Shows(work[c].found \cup Listed(c, Asked(c)), tribbles)
  BY <1>2 DEF Answers, Does
<1> QED
  BY <1>3, Collected

\* Only a tribble that ToMessage throws on makes an operation throw.
LEMMA FeedThrows ==
    ASSUME OneEntryOnly, HubInv, ListsAsked, faults = 0, CallsFit,
           NEW c \in Client, Answered(c), ReadTrue(c), work[c].stage = "posts" => LoopTrue(c),
           NEW tribbles, Answers(c, "exception", tribbles)
    PROVE  ThrowTrue(work[c].task)
<1>1. AskedFor(work[c], call[c].op)
  BY DEF CallsFit, Answered, Idle
<1>2. WriteStatus(work[c].task.op, call[c].status) # "exception"
  BY DEF WriteStatus
<1>3. ComesTo(c, "throws")
  BY <1>2 DEF Answers
<1>4. PICK x \in call[c].values : ReadEnds(x) = "throws"
  BY <1>3 DEF ComesTo
<1>5. \E u : /\ call[c].op.kind = "GetList" /\ call[c].op.key = TribbleKey(u)
              /\ Sources(work[c].task, u)
  <2>1. CASE work[c].stage = "read"
    BY <1>1, <2>1, StageAsks DEF Sources
  <2>2. CASE work[c].stage = "posts"
    BY <1>1, <2>2, StageAsks DEF Sources, LoopTrue
  <2> QED
    BY <1>3, <2>1, <2>2 DEF ComesTo, At
<1>6. PICK u : /\ call[c].op.kind = "GetList" /\ call[c].op.key = TribbleKey(u)
               /\ Sources(work[c].task, u)
  BY <1>5
<1>7. x \in HubPosts(u)
  BY <1>4, <1>6 DEF ReadTrue
<1> QED
  BY <1>4, <1>6, <1>7, SeenRight DEF ThrowTrue

\* Every step.
LEMMA FeedNext ==
    ASSUME OneEntryOnly, HubInv, ToldInv, StatusInv, FeedInv, [TNext]_tvars
    PROVE  FeedInv'
<1> SUFFICES ASSUME faults' = 0
             PROVE  /\ ListsAsked' /\ ReadsTrue' /\ LoopsTrue' /\ ThrowsTrue'
                    /\ \A a \in Feeds' : FeedTrue(a)'
  BY DEF FeedInv
<1>1. /\ BaseInv /\ faults = 0 /\ CoreInv /\ Up /\ CallsFit /\ NumbersOK
      /\ ListsAsked /\ ReadsTrue /\ LoopsTrue /\ ThrowsTrue /\ \A a \in Feeds : FeedTrue(a)
  BY TribblerStep DEF HubInv, BaseInv, TribblerInv, StatusInv, FeedInv
<1>2. ListsAsked' /\ ReadsTrue'
  BY <1>1, ListsNext, ReadsNext
<1>3. /\ \A op, user, arg : Did(op, user, arg) => Did(op, user, arg)'
      /\ \A task, known, rest, all :
            known \subseteq Given /\ Collects(task, known, rest, all)
            => Collects(task, known, rest, all)'
  BY <1>1, DidStays, CollectsStays
<1>4. \A a \in Feeds : FeedTrue(a)'
  <2> SUFFICES ASSUME NEW a \in Feeds PROVE FeedTrue(a)'
    OBVIOUS
  <2>1. a.known \subseteq Given
    BY <1>1 DEF NumbersOK, Feeds, Ok
  <2>2. FeedTrue(a)
    BY <1>1
  <2>3. PICK all : Collects(a.task, a.known, {}, all) /\ Shows(all, a.tribbles)
    BY <2>2 DEF FeedTrue
  <2>4. Collects(a.task, a.known, {}, all)'
    BY <1>3, <2>1, <2>3
  <2> QED
    BY <2>3, <2>4 DEF FeedTrue
<1>5. \A task : ThrowTrue(task) => ThrowTrue(task)'
  <2> SUFFICES ASSUME NEW task, ThrowTrue(task) PROVE ThrowTrue(task)'
    OBVIOUS
  <2>1. PICK u \in Text, text \in Text : /\ Sources(task, u) /\ Did("PostTribble", u, text)
                                          /\ ReadEnds(Posted(u, text)) = "throws"
    BY DEF ThrowTrue
  <2>2. Sources(task, u)' /\ Did("PostTribble", u, text)'
    BY <1>3, <2>1 DEF Sources
  <2> QED
    BY <2>1, <2>2 DEF ThrowTrue
<1>6. \A a \in told : a.status = "exception" => ThrowTrue(a.task)'
  <2> SUFFICES ASSUME NEW a \in told, a.status = "exception", NEW task, task = a.task
               PROVE  ThrowTrue(task)'
    OBVIOUS
  <2> QED
    BY <1>1, <1>5 DEF ThrowsTrue
<1>7. ASSUME UNCHANGED told PROVE ThrowsTrue' /\ \A a \in Feeds' : FeedTrue(a)'
  BY <1>4, <1>7, <1>6 DEF Feeds, Ok, ThrowsTrue
<1>8. ASSUME NEW c \in Client, ~Idle(c), work[c].stage = "posts", work'[c] = work[c]
      PROVE  LoopTrue(c)'
  <2>1. LoopTrue(c) /\ work[c].known \subseteq Given
    BY <1>1, <1>8 DEF LoopsTrue, NumbersOK
  <2>2. PICK task, known, rest, all :
           task = work[c].task /\ known = work[c].known /\ rest = work[c].subs /\ all = work[c].found
    OBVIOUS
  <2>3. Collects(task, known, rest, all) /\ \A u \in rest : Did("AddSubscription", task.user, u)
    BY <2>1, <2>2 DEF LoopTrue
  <2>4. Collects(task, known, rest, all)' /\ \A u \in rest : Did("AddSubscription", task.user, u)'
    BY <1>3, <2>1, <2>2, <2>3
  <2> QED
    BY <1>8, <2>2, <2>4, LoopHolds
<1>9. ASSUME NEW c \in Client, Alone(c), ~Idle(c)' /\ work'[c].stage = "posts" => LoopTrue(c)'
      PROVE  LoopsTrue'
  BY <1>8, <1>9 DEF LoopsTrue, Alone, Idle
<1>10. ASSUME \A c \in Client : ~Idle(c)' => ~Idle(c) /\ work'[c] = work[c]
      PROVE  LoopsTrue'
  BY <1>8, <1>10 DEF LoopsTrue
<1>11. CASE ByServer
  <2>1. work' = work /\ told' = told /\ \A c \in Client : Idle(c)' <=> Idle(c)
    BY <1>1, <1>11, ClientOps DEF ByServer
  <2> QED
    BY <1>2, <1>7, <1>10, <2>1
<1>12. ASSUME NEW c \in Client, Alone(c), Begins(c)
       PROVE  LoopsTrue' /\ ThrowsTrue' /\ \A a \in Feeds' : FeedTrue(a)'
  BY <1>7, <1>9, <1>12 DEF Begins
<1>13. ASSUME NEW c \in Client, Alone(c), NEW w, Turns(c, w)
       PROVE  LoopsTrue' /\ ThrowsTrue' /\ \A a \in Feeds' : FeedTrue(a)'
  <2>1. /\ Answered(c) /\ ~Idle(c) /\ work'[c] = w /\ UNCHANGED told
        /\ w.task = work[c].task /\ w.known = work[c].known /\ GoesFrom(c, w)
        /\ AskedFor(w, call'[c].op)
    BY <1>13 DEF Turns, Answered, Idle
  <2>2. ReadTrue(c) /\ (work[c].stage = "posts" => LoopTrue(c)) /\ work[c].known \subseteq Given
    BY <1>1, <2>1 DEF ReadsTrue, LoopsTrue, NumbersOK
  <2>3. ASSUME w.stage = "posts"
        PROVE  /\ Collects(work[c].task, work[c].known, w.subs, w.found)
               /\ \A u \in w.subs : Did("AddSubscription", work[c].task.user, u)
    <3>1. w.task.op = "GetTribblesBySubscription"
      BY <2>1, <2>3, StageAsks
    <3>2. \/ work[c].stage = "subs" /\ w.subs = Subscriptions(c) /\ w.found = {}
          \/ /\ work[c].stage = "posts" /\ w.subs = work[c].subs \ {Asked(c)}
             /\ w.found = work[c].found \cup Listed(c, Asked(c))
      BY <2>1, <2>3 DEF GoesFrom
    <3>3. CASE work[c].stage = "subs" /\ w.subs = Subscriptions(c) /\ w.found = {}
      BY <1>1, <2>1, <2>2, <3>1, <3>3, Collected
    <3>4. CASE /\ work[c].stage = "posts" /\ w.subs = work[c].subs \ {Asked(c)}
               /\ w.found = work[c].found \cup Listed(c, Asked(c))
      <4>1. LoopTrue(c)
        BY <2>2, <3>4
      <4> QED
        BY <1>1, <2>1, <2>2, <3>4, <4>1, Collected DEF LoopTrue
    <3> QED
      BY <3>2, <3>3, <3>4
  <2>4. ASSUME w.stage = "posts"
        PROVE  LoopTrue(c)'
    <3>1. PICK task, known, rest, all :
             task = work[c].task /\ known = work[c].known /\ rest = w.subs /\ all = w.found
      OBVIOUS
    <3>2. Collects(task, known, rest, all) /\ \A u \in rest : Did("AddSubscription", task.user, u)
      BY <2>3, <2>4, <3>1
    <3>3. Collects(task, known, rest, all)' /\ \A u \in rest : Did("AddSubscription", task.user, u)'
      BY <1>3, <2>2, <3>1, <3>2
    <3> QED
      BY <2>1, <3>1, <3>3, LoopHolds
  <2> QED
    BY <1>7, <1>9, <1>13, <2>1, <2>4
<1>14. ASSUME NEW c \in Client, Alone(c), NEW a, Tells(c, a)
       PROVE  LoopsTrue' /\ ThrowsTrue' /\ \A b \in Feeds' : FeedTrue(b)'
  <2>1. LoopsTrue'
    BY <1>9, <1>14 DEF Tells
  <2>2. ASSUME a \in Feeds'
        PROVE  FeedTrue(a)'
    <3>1. /\ Answered(c) /\ ~Idle(c) /\ a.task = work[c].task /\ a.known = work[c].known
          /\ Answers(c, a.status, a.tribbles)
      BY <1>14 DEF Tells, Answered, Idle
    <3>2. /\ a.status = "OK" /\ a.task.op \in {"GetTribbles", "GetTribblesBySubscription"}
      BY <2>2 DEF Feeds, Ok
    <3>3. ReadTrue(c) /\ (work[c].stage = "posts" => LoopTrue(c)) /\ work[c].known \subseteq Given
      BY <1>1, <3>1 DEF ReadsTrue, LoopsTrue, NumbersOK
    <3>4. PICK all : Collects(work[c].task, work[c].known, {}, all) /\ Shows(all, a.tribbles)
      BY <1>1, <3>1, <3>2, <3>3, FeedAnswered
    <3>5. Collects(a.task, a.known, {}, all)
      BY <3>1, <3>4
    <3>6. Collects(a.task, a.known, {}, all)'
      BY <1>3, <3>1, <3>3, <3>5
    <3> QED
      BY <3>4, <3>6 DEF FeedTrue
  <2>3. \A b \in Feeds' : b \in Feeds \/ b = a
    BY <1>14 DEF Tells, Feeds, Ok
  <2>4. ASSUME a.status = "exception"
        PROVE  ThrowTrue(a.task)'
    <3>1. /\ Answered(c) /\ ~Idle(c) /\ a.task = work[c].task
          /\ Answers(c, "exception", a.tribbles)
      BY <1>14, <2>4 DEF Tells, Answered, Idle
    <3>2. ReadTrue(c) /\ (work[c].stage = "posts" => LoopTrue(c))
      BY <1>1, <3>1 DEF ReadsTrue, LoopsTrue
    <3>3. ThrowTrue(work[c].task)
      BY <1>1, <3>1, <3>2, FeedThrows
    <3> DEFINE task == a.task
    <3>4. ThrowTrue(task)
      BY <3>1, <3>3
    <3> HIDE DEF task
    <3>5. ThrowTrue(task)'
      BY <1>5, <3>4
    <3> QED
      BY <3>5 DEF task
  <2>5. ThrowsTrue'
    BY <1>14, <1>6, <2>4 DEF Tells, ThrowsTrue
  <2> QED
    BY <1>4, <2>1, <2>2, <2>3, <2>5
<1>15. CASE UNCHANGED tvars
  BY <1>2, <1>7, <1>10, <1>15 DEF tvars, vars, Idle
<1> QED
  BY <1>1, <1>2, <1>11, <1>12, <1>13, <1>14, <1>15, TribblerSteps

-----------------------------------------------------------------------------

\* At first there are no lists and no answers.
LEMMA InitFeed ==
    ASSUME OneEntryOnly, TInit
    PROVE  FeedInv
<1>1. \A op : Ok(op) = {}
  BY DEF TInit, Ok
<1>2. \A c \in Client : Idle(c)
  BY NoCallType DEF TInit, Init, Idle, Proc
<1>3. \A k : ItemsAt(lists[Hub], k) = {}
  <2>1. lists[Hub] = NoMap
    BY HubServes DEF TInit, Init
  <2> QED
    BY <2>1 DEF ItemsAt, NoMap
<1>4. ListsAsked
  BY <1>3, FS_EmptySet DEF ListsAsked, HubPosts, HubSubs
<1>5. ReadsTrue /\ LoopsTrue /\ ThrowsTrue
  BY <1>2 DEF TInit, ReadsTrue, LoopsTrue, ThrowsTrue, Answered, Idle
<1> QED
  BY <1>1, <1>4, <1>5 DEF FeedInv, Feeds

\* A feed lacks no post that was answered before it was asked for unless it is full,
\* and holds nothing but posts that it takes in.
LEMMA FeedComplete ==
    ASSUME OneEntryOnly, HubInv, faults = 0, NEW a \in Feeds, FeedTrue(a), ListsAsked
    PROVE  /\ Len(a.tribbles) <= MaxTribbles
           /\ \A b \in Ok("PostTribble") :
                 Precedes(b, a) /\ Follows(a, b.task.user) =>
                     Places(a, b) # {} \/ Len(a.tribbles) = MaxTribbles
           /\ \A n \in DOMAIN a.tribbles :
                 /\ Sources(a.task, a.tribbles[n].user)
                 /\ \E text \in Text :
                       /\ Did("PostTribble", a.tribbles[n].user, text)
                       /\ SeenAs(a.tribbles[n].user, text) = a.tribbles[n].item.value
<1>1. PICK all : Collects(a.task, a.known, {}, all) /\ Shows(all, a.tribbles)
  BY DEF FeedTrue
<1>2. /\ IsFiniteSet(all)
      /\ \A t \in all : /\ t = Tribble(t.user, t.item) /\ t.item \in HubPosts(t.user)
                        /\ Sources(a.task, t.user)
      /\ \A b \in OkIn(a.known, "PostTribble") : Covered(a.task, a.known, b.task.user) =>
            \E t \in all : t.user = b.task.user /\ t.item.value = b.task.arg
  BY <1>1 DEF Collects
<1>3. PICK k \in Nat :
         /\ k <= MaxTribbles /\ DOMAIN a.tribbles = 1..k /\ Len(a.tribbles) = k
         /\ \A n \in 1..k : \E t \in all : /\ a.tribbles[n].user = t.user
                                          /\ a.tribbles[n].item = ToMessage(t.item)
         /\ \A m, n \in 1..k :
               m < n => ~PostedLess(a.tribbles[m].item.vt, a.tribbles[n].item.vt)
         /\ \A t \in all :
               \/ \E n \in 1..k : /\ a.tribbles[n].user = t.user
                                  /\ a.tribbles[n].item = ToMessage(t.item)
               \/ /\ k = MaxTribbles
                  /\ \A n \in 1..k : ~PostedLess(a.tribbles[n].item.vt, ToMessage(t.item).vt)
  <2>1. \A t \in all : t = Tribble(t.user, t.item)
    BY <1>2
  <2>2. IsFiniteSet(all) /\ Shows(all, a.tribbles)
    BY <1>1, <1>2
  <2>3. PICK tribbles : tribbles = a.tribbles
    OBVIOUS
  <2> QED
    BY <2>1, <2>2, <2>3, FeedShows
<1>4. ASSUME NEW b \in Ok("PostTribble"), Precedes(b, a), Follows(a, b.task.user)
      PROVE  Places(a, b) # {} \/ Len(a.tribbles) = MaxTribbles
  <2>1. Covered(a.task, a.known, b.task.user) /\ b \in OkIn(a.known, "PostTribble")
    BY <1>4 DEF Follows, Covered, Precedes, OkIn
  <2>2. PICK t \in all : t.user = b.task.user /\ t.item.value = b.task.arg
    BY <1>2, <2>1
  <2>3. ToMessage(t.item).value = SeenAs(b.task.user, b.task.arg)
    BY <1>2, <2>2, SeenRight
  <2> QED
    BY <1>3, <2>2, <2>3 DEF Places
<1>5. ASSUME NEW n \in 1..k
      PROVE  /\ Sources(a.task, a.tribbles[n].user)
             /\ \E text \in Text :
                   /\ Did("PostTribble", a.tribbles[n].user, text)
                   /\ SeenAs(a.tribbles[n].user, text) = a.tribbles[n].item.value
  <2>1. PICK t \in all : a.tribbles[n].user = t.user /\ a.tribbles[n].item = ToMessage(t.item)
    BY <1>3
  <2>2. Sources(a.task, t.user) /\ t.item \in HubPosts(t.user)
    BY <1>2
  <2> QED
    BY <2>1, <2>2, SeenRight
<1> QED
  BY <1>3, <1>4, <1>5

\* While all servers of a complete cluster stay up and the Tribbler servers share one
\* key-value server, a feed shows every tribble whose post was answered before the feed
\* was asked for, unless it is full, in the way its contents are read back, and nothing
\* but what the users it takes in have posted, although it reads one list after the
\* other.
THEOREM FeedsCompleteAlways ==
    ASSUME B = N, OneEntryOnly
    PROVE  TSpec => []FeedsComplete
<1> DEFINE Inv == ServedInv /\ FeedInv
<1>1. TInit => Inv
  BY InitServed, InitFeed
<1>2. Inv /\ [TNext]_tvars => Inv'
  BY ServedNext, FeedNext DEF ServedInv
<1>3. Inv => FeedsComplete
  <2> SUFFICES ASSUME Inv, faults = 0
               PROVE  \A a \in Feeds :
                        /\ Len(a.tribbles) <= MaxTribbles
                        /\ \A b \in Ok("PostTribble") :
                              Precedes(b, a) /\ Follows(a, b.task.user) =>
                                  Places(a, b) # {} \/ Len(a.tribbles) = MaxTribbles
                        /\ \A n \in DOMAIN a.tribbles :
                              /\ Sources(a.task, a.tribbles[n].user)
                              /\ \E text \in Text :
                                    /\ Did("PostTribble", a.tribbles[n].user, text)
                                    /\ SeenAs(a.tribbles[n].user, text) = a.tribbles[n].item.value
    BY DEF FeedsComplete, Sources, MayFollow
  <2> QED
    BY FeedComplete DEF FeedInv, ServedInv
<1> QED
  BY <1>1, <1>2, <1>3, PTL DEF TSpec

\* While all servers of a complete cluster stay up and the Tribbler servers write
\* through one of them, every status says what is so: a user is invalid only before its
\* creation has been answered; a user is there already only if somebody else asked for
\* it too or the servers use its name, a subscription and a post only if somebody else
\* asked for them too; a removal that nobody else asked for fails only if nothing had
\* been added; an exception means a tribble that ToMessage throws on, in a list that
\* the operation reads; and nothing else fails inside.
THEOREM StatusesTrueAlways ==
    ASSUME B = N, OneEntryOnly
    PROVE  TSpec => []StatusesTrue
<1> DEFINE Inv == ServedInv /\ FeedInv
<1>1. TInit => Inv
  BY InitServed, InitFeed
<1>2. Inv /\ [TNext]_tvars => Inv'
  BY ServedNext, FeedNext DEF ServedInv
<1>3. Inv => StatusesTrue
  <2> SUFFICES ASSUME ServedInv, FeedInv PROVE StatusesTrue
    OBVIOUS
  <2>1. ASSUME faults = 0, NEW a \in told, a.status = "exception"
        PROVE  \E u, text \in Text : /\ MayFollow(a, u) /\ Did("PostTribble", u, text)
                                     /\ ReadEnds(Posted(u, text)) = "throws"
    <3>1. ThrowTrue(a.task)
      BY <2>1 DEF FeedInv, ThrowsTrue
    <3> QED
      BY <3>1 DEF ThrowTrue, Sources, MayFollow
  <2> QED
    BY <2>1, StatusesSound DEF ServedInv, StatusesTrue
<1> QED
  BY <1>1, <1>2, <1>3, PTL DEF TSpec

-----------------------------------------------------------------------------
(* The order of posts. *)

\* Whatever the shared server stores of the one is older than what it stores of the
\* other.
Before(t1, t2) ==
    \A x1 \in HubPosts(t1.user), x2 \in HubPosts(t2.user) :
        x1.value = t1.arg /\ x2.value = t2.arg => PostedLess(x1.vt, x2.vt)

\* A post that can be told apart and read back, and that gets a stamp.
Comparable(b) == IsUnique(b) /\ b.task.arg \notin Unescaped /\ Named(b.task.user)

\* c runs such a post.
Single(c) ==
    /\ work[c].task.op = "PostTribble"
    /\ work[c].task.arg \notin Unescaped /\ Named(work[c].task.user)
    /\ \A a \in told : a.task # work[c].task
    /\ \A d \in Client \ {c} : work[d].task # work[c].task

\* Of two posts that were answered.
OrderTold ==
    \A b2 \in Ok("PostTribble") : \A b1 \in OkIn(b2.known, "PostTribble") :
        Comparable(b1) /\ Comparable(b2) => Before(b1.task, b2.task)

\* Of one that was answered before the other, which is running, was begun.
OrderRuns ==
    \A c \in Client : \A t :
        ~Idle(c) /\ Single(c) /\ t = work[c].task =>
            \A b \in OkIn(work[c].known, "PostTribble") : Comparable(b) => Before(b.task, t)

OrderInv == faults = 0 => OrderTold /\ OrderRuns

\* A post that nobody is making remains older than another.
LEMMA BeforeStays ==
    ASSUME OneEntryOnly, HubInv, [TNext]_tvars, faults = 0, faults' = 0,
           NEW t1 \in Task, t1.op = "PostTribble", t1.arg \notin Unescaped, Named(t1.user),
           NEW t2 \in Task, Named(t2.user),
           \A c \in Client : work[c].task # t1, Before(t1, t2)
    PROVE  Before(t1, t2)'
<1>1. /\ BaseInv /\ CoreInv /\ Up /\ CallsFit /\ TribblerTypeOK /\ Hub \in Server
  BY HubServes, TribblerStep DEF HubInv, BaseInv, TribblerInv
<1>2. CASE UNCHANGED lists
  BY <1>2 DEF Before, HubPosts
<1>3. CASE ByServer
  <2>1. PICK s \in Server : Boot(s) \/ ServerStep(s) \/ Crash(s)
    BY <1>3 DEF ByServer
  <2> SUFFICES ASSUME NEW x1 \in HubPosts(t1.user)', NEW x2 \in HubPosts(t2.user)',
                      x1.value = t1.arg, x2.value = t2.arg
               PROVE  PostedLess(x1.vt, x2.vt)
    BY DEF Before
  <2>2. x1 \in HubPosts(t1.user)
    <3> SUFFICES ASSUME x1 \notin HubPosts(t1.user) PROVE FALSE
      OBVIOUS
    <3>1. x1 \in ItemsAt(lists'[Hub], TribbleKey(t1.user)) /\ x1 \notin ItemsAt(lists[Hub], TribbleKey(t1.user))
      BY DEF HubPosts
    <3>2. PICK c \in Client :
             /\ ~Idle(c) /\ AskedFor(work[c], call[c].op)
             /\ call[c].op.kind = "AddToList" /\ call[c].op.key = TribbleKey(t1.user)
             /\ call[c].op.item.value = x1.value
      BY <1>1, <2>1, <3>1, ItemSource
    <3>3. /\ work[c].task.op = "PostTribble" /\ work[c].task.user = t1.user
          /\ call[c].op.item = Plain(work[c].task.arg)
      BY <3>2, PostAsked
    <3>4. work[c].task.arg = t1.arg
      BY <3>2, <3>3 DEF Plain
    <3>5. work[c].task \in Task
      BY <1>1 DEF TribblerTypeOK
    <3>6. work[c].task = t1
      BY <3>3, <3>4, <3>5 DEF Task
    <3> QED
      BY <3>6
  <2>3. CASE x2 \in HubPosts(t2.user)
    BY <2>2, <2>3 DEF Before
  <2>4. CASE x2 \notin HubPosts(t2.user)
    BY <2>1, <2>2, <2>4, NewPostLast
  <2> QED
    BY <2>3, <2>4
<1> QED
  BY <1>1, <1>2, <1>3, TribblerSteps DEF Alone, store, tvars, vars

\* What a beginning post could be mixed up with was not there before.
LEMMA PostBegins ==
    ASSUME ListsAsked, IdleBlank, NEW c \in Client, Alone(c), Begins(c), TribblerTypeOK,
           work'[c].task \in Task, Single(c)', NEW t1
    PROVE  Before(t1, work'[c].task)
<1>1. PICK t \in Task : t = work'[c].task
  OBVIOUS
<1>2. ASSUME NEW x \in HubPosts(t.user), x.value = t.arg
      PROVE  FALSE
  <2>1. Did("PostTribble", t.user, t.arg)
    BY <1>2 DEF ListsAsked
  <2>2. PICK u \in Begun("PostTribble") : u.user = t.user /\ u.arg = t.arg
    BY <2>1 DEF Did
  <2>3. u.op = "PostTribble" /\ u \in Task
    BY <2>2 DEF Begun, TribblerTypeOK
  <2>4. t.op = "PostTribble"
    BY <1>1 DEF Single
  <2>5. u = t
    BY <2>2, <2>3, <2>4 DEF Task
  <2>6. \A a \in told : a.task # t
    BY <1>1 DEF Single, Begins
  <2>7. \A d \in Client : ~Idle(d) => work[d].task # t
    BY <1>1 DEF Single, Begins, Alone
  <2> QED
    BY <2>2, <2>5, <2>6, <2>7 DEF Begun
<1> QED
  BY <1>1, <1>2 DEF Before

\* Every step.
LEMMA OrderNext ==
    ASSUME OneEntryOnly, ServedInv, FeedInv, OrderInv, [TNext]_tvars
    PROVE  OrderInv'
<1> SUFFICES ASSUME faults' = 0
             PROVE  OrderTold' /\ OrderRuns'
  BY DEF OrderInv
<1>1. /\ HubInv /\ BaseInv /\ faults = 0 /\ CoreInv /\ Up /\ CallsFit
      /\ TribblerTypeOK /\ NumbersOK /\ IdleBlank /\ ListsAsked /\ OrderTold /\ OrderRuns
  BY TribblerStep DEF ServedInv, HubInv, BaseInv, TribblerInv, StatusInv, FeedInv, OrderInv
<1>2. TribblerTypeOK'
  BY <1>1, BaseNext DEF BaseInv, TribblerInv
<1>3. \A known, op : known \subseteq Given => OkIn(known, op)' = OkIn(known, op)
  BY <1>1, NumbersNext
<1>4. \A b \in Ok("PostTribble") : Comparable(b)' => Comparable(b)
  <2> SUFFICES ASSUME NEW b \in Ok("PostTribble"), Comparable(b)' PROVE Comparable(b)
    OBVIOUS
  <2>1. b \in told /\ b.task.op # "CreateUser" /\ IsUnique(b)'
    BY DEF Ok, Comparable
  <2>2. IsUnique(b)
    BY <1>1, <2>1, NotUniqueStays
  <2> QED
    BY <2>2 DEF Comparable
<1>5. ASSUME NEW b \in Ok("PostTribble"), Comparable(b), NEW t \in Task, Named(t.user),
             Before(b.task, t)
      PROVE  Before(b.task, t)'
  <2>1. b.task \in Task /\ b.task.op = "PostTribble"
    BY <1>1 DEF TribblerTypeOK, Ok
  <2>2. b.task.arg \notin Unescaped /\ Named(b.task.user) /\ \A c \in Client : work[c].task # b.task
    BY <1>5 DEF Comparable, IsUnique
  <2>3. PICK t1 \in Task : t1 = b.task
    BY <2>1
  <2>4. Before(t1, t)'
    BY <1>1, <1>5, <2>1, <2>2, <2>3, BeforeStays
  <2> QED
    BY <2>3, <2>4
<1>6. ASSUME NEW b2 \in Ok("PostTribble"), Comparable(b2)',
             NEW b1 \in OkIn(b2.known, "PostTribble"), Comparable(b1)'
      PROVE  Before(b1.task, b2.task)'
  <2>1. b1 \in Ok("PostTribble") /\ Comparable(b1) /\ Comparable(b2)
    BY <1>4, <1>6 DEF OkIn
  <2>2. PICK t \in Task : t = b2.task
    BY <1>1 DEF TribblerTypeOK, Ok
  <2>3. Before(b1.task, t) /\ Named(t.user)
    BY <1>1, <1>6, <2>1, <2>2 DEF OrderTold, Comparable
  <2>4. Before(b1.task, t)'
    BY <1>5, <2>1, <2>3
  <2> QED
    BY <2>2, <2>4
<1>7. ASSUME UNCHANGED told
      PROVE  OrderTold'
  <2>1. \A b2 \in Ok("PostTribble") : OkIn(b2.known, "PostTribble")' = OkIn(b2.known, "PostTribble")
    BY <1>1, <1>3 DEF NumbersOK, Ok
  <2> QED
    BY <1>6, <1>7, <2>1 DEF OrderTold, Ok
<1>8. ASSUME NEW c \in Client, ~Idle(c), Single(c),
             work'[c].task = work[c].task, work'[c].known = work[c].known
      PROVE  \A t : t = work'[c].task =>
                \A b \in OkIn(work[c].known, "PostTribble")' : Comparable(b)' => Before(b.task, t)'
  <2> SUFFICES ASSUME NEW t, t = work[c].task
               PROVE  \A b \in OkIn(work[c].known, "PostTribble")' :
                         Comparable(b)' => Before(b.task, t)'
    BY <1>8
  <2>1. t \in Task /\ Named(t.user)
    BY <1>1, <1>8 DEF TribblerTypeOK, Single
  <2> SUFFICES ASSUME NEW b \in OkIn(work[c].known, "PostTribble")', Comparable(b)'
               PROVE  Before(b.task, t)'
    OBVIOUS
  <2>2. PICK known : known = work[c].known
    OBVIOUS
  <2>3. known \subseteq Given /\ b \in OkIn(known, "PostTribble")'
    BY <1>1, <1>8, <2>2 DEF NumbersOK, OkIn
  <2>4. b \in OkIn(work[c].known, "PostTribble")
    BY <1>3, <2>2, <2>3
  <2>5. b \in Ok("PostTribble") /\ Comparable(b)
    BY <1>4, <2>4 DEF OkIn
  <2>6. Before(b.task, t)
    BY <1>1, <1>8, <2>4, <2>5 DEF OrderRuns
  <2> QED
    BY <1>5, <2>1, <2>5, <2>6
<1>9. CASE ByServer
  <2>1. work' = work /\ told' = told /\ \A c \in Client : Idle(c)' <=> Idle(c)
    BY <1>1, <1>9, ClientOps DEF ByServer
  <2>2. \A c \in Client : Single(c)' <=> Single(c)
    BY <2>1 DEF Single
  <2> QED
    BY <1>7, <1>8, <2>1, <2>2 DEF OrderRuns
<1>10. ASSUME NEW c \in Client, Alone(c), NEW d \in Client, d # c, ~Idle(d)',
              Single(d), NEW t, t = work'[d].task
       PROVE  \A b \in OkIn(work[d].known, "PostTribble")' : Comparable(b)' => Before(b.task, t)'
  <2>1. work'[d] = work[d] /\ ~Idle(d)
    BY <1>10 DEF Alone, Idle
  <2> QED
    BY <1>8, <1>10, <2>1
<1>11. ASSUME NEW c \in Client, Alone(c), Begins(c)
       PROVE  OrderTold' /\ OrderRuns'
  <2>1. ASSUME NEW d \in Client, d # c, Single(d)'
        PROVE  Single(d)
    <3>1. work'[d] = work[d] /\ told' = told
      BY <1>11, <2>1 DEF Alone, Begins
    <3>2. work[c].task # work[d].task
      BY <1>1, <1>11, <2>1, <3>1 DEF IdleBlank, Begins, Single
    <3>3. \A e \in Client : e # c => work'[e] = work[e]
      BY <1>11 DEF Alone
    <3> QED
      BY <2>1, <3>1, <3>2, <3>3 DEF Single
  <2>2. ASSUME NEW t, t = work'[c].task, Single(c)', NEW b \in OkIn(work[c].known, "PostTribble")'
        PROVE  Before(b.task, t)'
    <3>1. work'[c].task \in Task
      BY <1>2 DEF TribblerTypeOK
    <3>2. PICK t1 : t1 = b.task
      OBVIOUS
    <3>3. Before(t1, t)
      BY <1>1, <1>11, <2>2, <3>1, PostBegins
    <3>4. Before(t1, t)'
      BY <1>11, <3>3 DEF Before, HubPosts, Alone, store
    <3> QED
      BY <3>2, <3>4
  <2>3. OrderRuns'
    BY <1>10, <1>11, <2>1, <2>2 DEF OrderRuns
  <2> QED
    BY <1>7, <1>11, <2>3 DEF Begins
<1>12. ASSUME NEW c \in Client, Alone(c), NEW w, Turns(c, w)
       PROVE  OrderTold' /\ OrderRuns'
  <2>1. /\ told' = told /\ ~Idle(c) /\ work'[c].task = work[c].task /\ work'[c].known = work[c].known
        /\ \A d \in Client : work'[d].task = work[d].task
    BY <1>12 DEF Turns, Alone, Answered, Idle
  <2>2. \A d \in Client : Single(d)' => Single(d)
    BY <2>1 DEF Single
  <2>3. OrderRuns'
    BY <1>8, <1>10, <1>12, <2>1, <2>2 DEF OrderRuns
  <2> QED
    BY <1>7, <2>1, <2>3
<1>13. ASSUME NEW c \in Client, Alone(c), NEW a, Tells(c, a)
       PROVE  OrderTold' /\ OrderRuns'
  <2>1. /\ told' = told \cup {a} /\ Idle(c)' /\ ~Idle(c) /\ a.task = work[c].task
        /\ a.known = work[c].known /\ a.by = c
        /\ \A d \in Client : d # c => work'[d] = work[d]
    BY <1>13 DEF Tells, Alone, Answered, Idle
  <2>2. ASSUME NEW d \in Client, d # c, Single(d)'
        PROVE  Single(d)
    BY <2>1, <2>2 DEF Single
  <2>3. OrderRuns'
    BY <1>10, <1>13, <2>1, <2>2 DEF OrderRuns
  <2>4. a \notin told /\ \A known : known \subseteq Given => \A op : a \notin OkIn(known, op)'
    BY <1>1, <1>13, FreshAnswer DEF OkIn, Given
  <2>5. ASSUME NEW b2 \in Ok("PostTribble")', Comparable(b2)',
               NEW b1 \in OkIn(b2.known, "PostTribble")', Comparable(b1)'
        PROVE  Before(b1.task, b2.task)'
    <3>1. CASE b2 # a
      <4>1. b2 \in Ok("PostTribble") /\ b2.known \subseteq Given
        BY <1>1, <2>1, <3>1 DEF Ok, NumbersOK
      <4>2. b1 \in OkIn(b2.known, "PostTribble")
        BY <1>3, <4>1
      <4> QED
        BY <1>6, <2>5, <4>1, <4>2
    <3>2. CASE b2 = a
      <4>1. PICK t \in Task : t = a.task
        BY <1>1, <2>1 DEF TribblerTypeOK
      <4>2. t.op = "PostTribble" /\ Named(t.user) /\ t.arg \notin Unescaped
        BY <2>5, <3>2, <4>1 DEF Ok, Comparable
      <4>3. \A b \in told : b.task # t
        BY <2>1, <2>4, <2>5, <3>2, <4>1 DEF Comparable, IsUnique
      <4>4. \A d \in Client \ {c} : work[d].task # t
        BY <2>1, <2>5, <3>2, <4>1 DEF Comparable, IsUnique
      <4>5. Single(c)
        BY <2>1, <4>1, <4>2, <4>3, <4>4 DEF Single
      <4>6. PICK known : known = work[c].known
        OBVIOUS
      <4>7. known \subseteq Given /\ b1 \in OkIn(known, "PostTribble")'
        BY <1>1, <2>1, <2>5, <3>2, <4>6 DEF NumbersOK, OkIn
      <4>8. b1 \in OkIn(work[c].known, "PostTribble")
        BY <1>3, <4>6, <4>7
      <4>9. b1 \in Ok("PostTribble") /\ Comparable(b1)
        BY <1>4, <2>5, <4>8 DEF OkIn
      <4>10. Before(b1.task, t)
        BY <1>1, <2>1, <4>1, <4>5, <4>8, <4>9 DEF OrderRuns
      <4>11. Before(b1.task, t)'
        BY <1>5, <4>2, <4>9, <4>10
      <4> QED
        BY <3>2, <4>1, <4>11
    <3> QED
      BY <3>1, <3>2
  <2> QED
    BY <2>3, <2>5 DEF OrderTold
<1>14. CASE UNCHANGED tvars
  <2>1. /\ told' = told /\ \A c \in Client : (Idle(c)' <=> Idle(c)) /\ work'[c] = work[c]
        /\ \A c \in Client : Single(c)' <=> Single(c)
    BY <1>14 DEF tvars, vars, Idle, Single
  <2>2. OrderRuns'
    BY <1>8, <2>1 DEF OrderRuns
  <2> QED
    BY <1>7, <2>1, <2>2
<1> QED
  BY <1>1, <1>9, <1>11, <1>12, <1>13, <1>14, TribblerSteps

\* A feed shows posts in the order in which they were made.
LEMMA FeedOrdered ==
    ASSUME OneEntryOnly, HubInv, ListsAsked, faults = 0, OrderTold, NEW a \in Feeds, FeedTrue(a),
           NEW b1 \in Ok("PostTribble"), NEW b2 \in Ok("PostTribble"),
           Precedes(b1, b2), Comparable(b1), Comparable(b2), Legible(b1), Legible(b2)
    PROVE  /\ \A m \in Places(a, b1), n \in Places(a, b2) : n < m
           /\ Precedes(b2, a) /\ Follows(a, b2.task.user) /\ Places(a, b1) # {} =>
                 Places(a, b2) # {}
<1>1. PICK all : Collects(a.task, a.known, {}, all) /\ Shows(all, a.tribbles)
  BY DEF FeedTrue
<1>2. /\ IsFiniteSet(all)
      /\ \A t \in all : t = Tribble(t.user, t.item)
      /\ \A t \in all : t.item \in HubPosts(t.user)
      /\ \A b \in OkIn(a.known, "PostTribble") : Covered(a.task, a.known, b.task.user) =>
            \E t \in all : t.user = b.task.user /\ t.item.value = b.task.arg
  BY <1>1 DEF Collects
<1>3. PICK k \in Nat :
         /\ k <= MaxTribbles /\ DOMAIN a.tribbles = 1..k /\ Len(a.tribbles) = k
         /\ \A n \in 1..k : \E t \in all : /\ a.tribbles[n].user = t.user
                                          /\ a.tribbles[n].item = ToMessage(t.item)
         /\ \A m, n \in 1..k :
               m < n => ~PostedLess(a.tribbles[m].item.vt, a.tribbles[n].item.vt)
         /\ \A t \in all :
               \/ \E n \in 1..k : /\ a.tribbles[n].user = t.user
                                  /\ a.tribbles[n].item = ToMessage(t.item)
               \/ /\ k = MaxTribbles
                  /\ \A n \in 1..k : ~PostedLess(a.tribbles[n].item.vt, ToMessage(t.item).vt)
  <2>1. PICK tribbles : tribbles = a.tribbles
    OBVIOUS
  <2> QED
    BY <1>1, <1>2, <2>1, FeedShows
<1>4. Before(b1.task, b2.task)
  BY DEF OrderTold, OkIn, Precedes
<1>5. ASSUME NEW b \in {b1, b2}, NEW n \in Places(a, b)
      PROVE  /\ n \in 1..k /\ a.tribbles[n].item \in HubPosts(b.task.user)
             /\ a.tribbles[n].item.value = b.task.arg
  <2>1. /\ Legible(b) /\ Named(b.task.user)
        /\ n \in 1..k /\ a.tribbles[n].user = b.task.user
        /\ a.tribbles[n].item.value = SeenAs(b.task.user, b.task.arg)
    BY <1>3 DEF Places, Comparable
  <2>2. SeenAs(b.task.user, b.task.arg) = b.task.arg
    BY <2>1, SeenItself DEF Legible
  <2>3. PICK t \in all : a.tribbles[n].user = t.user /\ a.tribbles[n].item = ToMessage(t.item)
    BY <1>3, <2>1
  <2>4. t.item \in HubPosts(b.task.user)
    BY <1>2, <2>1, <2>3
  <2>5. /\ Did("PostTribble", b.task.user, t.item.value)
        /\ SeenAs(b.task.user, t.item.value) = b.task.arg
        /\ t.item.value \notin Unescaped => IsReadable(t.item)
    BY <2>1, <2>2, <2>3, <2>4, SeenRight DEF Legible
  <2>6. IsReadable(t.item)
    BY <2>1, <2>5 DEF Legible
  <2> QED
    BY <2>1, <2>2, <2>3, <2>4, <2>6 DEF ToMessage
<1>6. ASSUME NEW m \in Places(a, b1), NEW n \in Places(a, b2)
      PROVE  n < m
  <2>1. /\ m \in 1..k /\ a.tribbles[m].item \in HubPosts(b1.task.user)
        /\ a.tribbles[m].item.value = b1.task.arg
        /\ n \in 1..k /\ a.tribbles[n].item \in HubPosts(b2.task.user)
        /\ a.tribbles[n].item.value = b2.task.arg
    BY <1>5, <1>6
  <2>2. PostedLess(a.tribbles[m].item.vt, a.tribbles[n].item.vt)
    BY <1>4, <2>1 DEF Before
  <2>3. a.tribbles[m].item.vt \in Stamp
    BY <2>1, PostStamped DEF Comparable
  <2>4. \A v \in Stamp : ~PostedLess(v, v)
    BY DEF PostedLess, Stamp
  <2>5. m # n /\ ~(m < n)
    BY <1>3, <2>1, <2>2, <2>3, <2>4
  <2> QED
    BY <2>1, <2>5
<1>7. ASSUME Precedes(b2, a), Follows(a, b2.task.user), NEW m \in Places(a, b1)
      PROVE  Places(a, b2) # {}
  <2>1. Covered(a.task, a.known, b2.task.user) /\ b2 \in OkIn(a.known, "PostTribble")
    BY <1>7 DEF Follows, Covered, Precedes, OkIn
  <2>2. PICK t \in all : t.user = b2.task.user /\ t.item.value = b2.task.arg
    BY <1>2, <2>1
  <2>3. t.item \in HubPosts(b2.task.user) /\ b2.task.user # ""
    BY <1>2, <2>2 DEF Legible
  <2>4. IsReadable(t.item)
    BY <2>2, <2>3, SeenRight DEF Legible
  <2>5. ToMessage(t.item) = t.item /\ SeenAs(b2.task.user, b2.task.arg) = b2.task.arg
    BY <2>4, SeenItself DEF ToMessage, Comparable
  <2>6. /\ m \in 1..k /\ a.tribbles[m].item \in HubPosts(b1.task.user)
        /\ a.tribbles[m].item.value = b1.task.arg
    BY <1>5, <1>7
  <2>7. PostedLess(a.tribbles[m].item.vt, t.item.vt)
    BY <1>4, <2>2, <2>3, <2>6 DEF Before
  <2>8. PICK n \in 1..k : a.tribbles[n].user = t.user /\ a.tribbles[n].item = t.item
    BY <1>3, <2>5, <2>6, <2>7
  <2> QED
    BY <1>3, <2>2, <2>5, <2>8 DEF Places
<1> QED
  BY <1>6, <1>7

\* While all servers of a complete cluster stay up and the Tribbler servers share one
\* key-value server, no feed shows a post above one that was begun after it had been
\* answered, or without that one when it was asked for after both, although the time of
\* a post is what that server happens to count.
THEOREM FeedsInOrderAlways ==
    ASSUME B = N, OneEntryOnly
    PROVE  TSpec => []FeedsInOrder
<1> DEFINE Inv == ServedInv /\ FeedInv /\ OrderInv
<1>1. TInit => Inv
  <2> SUFFICES ASSUME TInit PROVE OrderInv
    BY InitServed, InitFeed
  <2>1. \A op : Ok(op) = {} /\ \A known : OkIn(known, op) = {}
    BY DEF TInit, Ok, OkIn
  <2> QED
    BY <2>1 DEF OrderInv, OrderTold, OrderRuns
<1>2. Inv /\ [TNext]_tvars => Inv'
  BY ServedNext, FeedNext, OrderNext DEF ServedInv
<1>3. Inv => FeedsInOrder
  <2> SUFFICES ASSUME Inv, faults = 0, NEW a \in Feeds,
                      NEW b1 \in Ok("PostTribble"), NEW b2 \in Ok("PostTribble"),
                      Precedes(b1, b2), IsUnique(b1), IsUnique(b2),
                      Legible(b1), Legible(b2)
               PROVE  /\ \A m \in Places(a, b1), n \in Places(a, b2) : n < m
                      /\ Precedes(b2, a) /\ Follows(a, b2.task.user) /\ Places(a, b1) # {} =>
                            Places(a, b2) # {}
    BY DEF FeedsInOrder
  <2>1. HubInv /\ TribblerTypeOK /\ ListsAsked /\ OrderTold /\ FeedTrue(a)
    BY DEF ServedInv, HubInv, BaseInv, TribblerInv, FeedInv, OrderInv
  <2>2. Comparable(b1) /\ Comparable(b2)
    <3>1. \A b \in Ok("PostTribble") : b.task.user \in Text
      BY <2>1 DEF TribblerTypeOK, Ok, Task
    <3> QED
      BY <3>1 DEF Comparable, Legible, Named
  <2> QED
    BY <2>1, <2>2, FeedOrdered
<1> QED
  BY <1>1, <1>2, <1>3, PTL DEF TSpec
=============================================================================
