-------------------------- MODULE TribbleFeedProofs --------------------------
(***************************************************************************)
(* Proof that both loops give the newest tribbles, newest first, for every *)
(* set of tribbles and every limit.                                        *)
(***************************************************************************)
EXTENDS TribbleFeed, FiniteSetTheorems, TLAPS

Listed == {tribbles[i] : i \in DOMAIN tribbles}

TopsFirst == \A i, j \in DOMAIN tribbles : i < j => ~Older(tribbles[j], tribbles[i])

TypeOK ==
    /\ loop \in {"GetTribbles", "GetTribblesBySubscription"}
    /\ left \subseteq Found /\ pq \subseteq Found \ left
    /\ count = Cardinality(Found \ left)
    /\ tribbles \in Seq(Found)
    /\ pc \in {"fill", "empty", "done"}

\* While the queue is emptied: what was kept is in it or in the list already.
Emptying ==
    /\ left = {} /\ pq \cap Listed = {} /\ IsCut(pq \cup Listed, Found)
    /\ TopsFirst /\ \A t \in Listed, u \in pq : ~Older(u, t)
    /\ \A i, j \in DOMAIN tribbles : tribbles[i] = tribbles[j] => i = j

FeedInv ==
    /\ TypeOK
    /\ pc = "fill" => tribbles = <<>> /\ IsCut(pq, Found \ left)
    /\ pc = "empty" => Emptying
    /\ pc = "done" => IsFeed(tribbles, Found)

-----------------------------------------------------------------------------
(* The cut. *)

\* A tribble more, while there is room for it.
LEMMA RoomForOne ==
    ASSUME NEW S \in SUBSET Found, NEW t \in Found \ S, NEW kept, IsCut(kept, S),
           Cardinality(S) < MaxTribbles
    PROVE  IsCut(kept \cup {t}, S \cup {t})
<1>1. IsFiniteSet(S) /\ Cardinality(S) \in Nat
  BY FeedAssumption, FS_Subset, FS_CardinalityType
<1>2. kept \subseteq S /\ IsFiniteSet(kept) /\ Cardinality(kept) <= Cardinality(S)
  BY <1>1, FS_Subset DEF IsCut, AreNewest
<1>3. Cardinality(kept) \in Nat
  BY <1>2, FS_CardinalityType
<1>4. kept = S
  BY <1>1, <1>2, <1>3, FeedAssumption DEF IsCut
<1>5. Cardinality(S \cup {t}) = Cardinality(S) + 1
  BY <1>1, FS_AddElement
<1>6. Cardinality(S \cup {t}) <= MaxTribbles
  BY <1>1, <1>5, FeedAssumption
<1> QED
  BY <1>4, <1>6 DEF IsCut, AreNewest

\* A tribble more than there may be, and an oldest one less.
LEMMA OneForOne ==
    ASSUME NEW S \in SUBSET Found, NEW t \in Found \ S, NEW kept, IsCut(kept, S),
           Cardinality(S) >= MaxTribbles, NEW u \in Tops(kept \cup {t})
    PROVE  IsCut((kept \cup {t}) \ {u}, S \cup {t})
<1> DEFINE rest == (kept \cup {t}) \ {u}
<1>1. IsFiniteSet(S) /\ Cardinality(S) \in Nat
  BY FeedAssumption, FS_Subset, FS_CardinalityType
<1>2. kept \subseteq S /\ IsFiniteSet(kept) /\ Cardinality(kept) <= Cardinality(S)
  BY <1>1, FS_Subset DEF IsCut, AreNewest
<1>3. Cardinality(kept) \in Nat
  BY <1>2, FS_CardinalityType
<1>4. Cardinality(kept) = MaxTribbles
  BY <1>1, <1>2, <1>3, FeedAssumption DEF IsCut
<1>5. IsFiniteSet(kept \cup {t}) /\ Cardinality(kept \cup {t}) = MaxTribbles + 1
  BY <1>2, <1>4, FS_AddElement
<1>6. u \in kept \cup {t} /\ \A v \in kept \cup {t} : ~Older(v, u)
  BY DEF Tops
<1>7. Cardinality(rest) = MaxTribbles
  <2>1. Cardinality(rest) = Cardinality(kept \cup {t}) - 1
    BY <1>5, <1>6, FS_RemoveElement
  <2> QED
    BY <1>5, <2>1, FeedAssumption
<1>8. rest \subseteq S \cup {t}
  BY <1>2
<1>9. ASSUME NEW a \in rest, NEW b \in (S \cup {t}) \ rest PROVE ~Older(a, b)
  <2>1. CASE b = u
    BY <1>6, <2>1
  <2>2. CASE b # u
    <3>1. b \in S \ kept /\ b # t
      BY <1>2, <2>2
    <3>2. \A v \in kept : ~Older(v, b)
      BY <3>1 DEF IsCut, AreNewest
    <3>3. CASE a \in kept
      BY <3>2, <3>3
    <3>4. CASE a = t
      <4>1. u \in kept /\ ~Older(a, u)
        BY <1>6, <3>4
      <4>2. ~Older(u, b)
        BY <3>2, <4>1
      <4>3. a \in Found /\ u \in Found /\ b \in Found
        BY <1>2, <3>1, <3>4, <4>1
      <4> QED
        BY <4>1, <4>2, <4>3, OlderAssumption
    <3> QED
      BY <3>3, <3>4
  <2> QED
    BY <2>1, <2>2
<1> QED
  BY <1>7, <1>8, <1>9, FeedAssumption DEF IsCut, AreNewest

-----------------------------------------------------------------------------
(* The steps. *)

\* The invariant holds initially.
LEMMA FeedInit == Init => FeedInv
<1> SUFFICES ASSUME Init PROVE FeedInv
  OBVIOUS
<1>1. Found \ left = {} /\ Cardinality({}) = 0
  BY FS_EmptySet DEF Init
<1>2. TypeOK
  <2>1. tribbles \in Seq(Found) /\ pq \subseteq Found \ left /\ left \subseteq Found
    BY DEF Init
  <2>2. count = Cardinality(Found \ left)
    BY <1>1 DEF Init
  <2> QED
    BY <2>1, <2>2 DEF Init, TypeOK
<1>3. IsCut({}, {})
  BY <1>1, FeedAssumption DEF IsCut, AreNewest
<1> QED
  BY <1>1, <1>2, <1>3 DEF Init, FeedInv

\* A round of the loop.
LEMMA PushStep ==
    ASSUME FeedInv, NEW t \in left, Push(t)
    PROVE  FeedInv'
<1> DEFINE S == Found \ left
<1>1. /\ pc = "fill" /\ pc' = "fill" /\ left' = left \ {t} /\ count' = count + 1
      /\ loop' = loop /\ tribbles' = tribbles
      /\ TypeOK /\ tribbles = <<>> /\ IsCut(pq, S)
  BY DEF Push, FeedInv
<1>2. S \in SUBSET Found /\ t \in Found \ S /\ Found \ left' = S \cup {t}
  BY <1>1 DEF TypeOK
<1>3. IsFiniteSet(S) /\ Cardinality(S) \in Nat /\ count = Cardinality(S)
  BY <1>1, FeedAssumption, FS_Subset, FS_CardinalityType DEF TypeOK
<1>4. count' = Cardinality(S \cup {t})
  BY <1>1, <1>2, <1>3, FS_AddElement
<1>5. IsFull(count') <=> count >= MaxTribbles
  BY <1>1, <1>3, FeedAssumption DEF IsFull, TypeOK
<1>6. IsCut(pq', S \cup {t}) /\ pq' \subseteq S \cup {t}
  <2>1. CASE count >= MaxTribbles
    <3>1. PICK u \in Tops(pq \cup {t}) : pq' = (pq \cup {t}) \ {u}
      BY <1>5, <2>1 DEF Push
    <3>2. IsCut(pq', S \cup {t})
      BY <1>1, <1>2, <1>3, <2>1, <3>1, OneForOne
    <3> QED
      BY <3>2 DEF IsCut, AreNewest
  <2>2. CASE count < MaxTribbles
    <3>1. pq' = pq \cup {t}
      BY <1>3, <1>5, <2>2, FeedAssumption DEF Push
    <3>2. IsCut(pq', S \cup {t})
      BY <1>1, <1>2, <1>3, <2>2, <3>1, RoomForOne
    <3> QED
      BY <3>2 DEF IsCut, AreNewest
  <2> QED
    BY <1>3, <2>1, <2>2, FeedAssumption
<1>7. TypeOK'
  BY <1>1, <1>2, <1>4, <1>6 DEF TypeOK
<1> QED
  BY <1>1, <1>2, <1>6, <1>7 DEF FeedInv

\* The loop is over.
LEMMA FilledStep ==
    ASSUME FeedInv, Filled
    PROVE  FeedInv'
<1>1. /\ pc = "fill" /\ left = {} /\ pc' = "empty"
      /\ UNCHANGED <<loop, left, pq, count, tribbles>>
      /\ TypeOK /\ tribbles = <<>> /\ IsCut(pq, Found \ left)
  BY DEF Filled, FeedInv
<1>2. Listed' = {} /\ DOMAIN tribbles' = {}
  BY <1>1 DEF Listed
<1>3. Found \ left = Found
  BY <1>1
<1>4. Emptying'
  BY <1>1, <1>2, <1>3 DEF Emptying, TopsFirst
<1>5. TypeOK'
  BY <1>1 DEF TypeOK
<1> QED
  BY <1>1, <1>4, <1>5 DEF FeedInv

\* An oldest tribble of the queue goes to the end of the list.
LEMMA PopStep ==
    ASSUME FeedInv, Pop
    PROVE  FeedInv'
<1>1. PICK t \in Tops(pq) : pq' = pq \ {t} /\ tribbles' = Append(tribbles, t)
  BY DEF Pop
<1>2. pc = "empty" /\ UNCHANGED <<loop, left, count, pc>> /\ TypeOK /\ Emptying
  BY DEF Pop, FeedInv
<1>3. t \in pq /\ \A u \in pq : ~Older(u, t)
  BY DEF Tops
<1>4. t \in Found /\ tribbles \in Seq(Found)
  BY <1>2, <1>3 DEF TypeOK
<1>5. /\ tribbles' \in Seq(Found) /\ Len(tribbles) \in Nat
      /\ DOMAIN tribbles = 1..Len(tribbles)
      /\ DOMAIN tribbles' = 1..(Len(tribbles) + 1)
      /\ \A i \in DOMAIN tribbles : tribbles'[i] = tribbles[i]
      /\ tribbles'[Len(tribbles) + 1] = t
  BY <1>1, <1>4
<1>6. DOMAIN tribbles' = DOMAIN tribbles \cup {Len(tribbles) + 1}
  BY <1>5
<1>7. Listed' = Listed \cup {t}
  BY <1>5, <1>6 DEF Listed
<1>8. pq' \cup Listed' = pq \cup Listed
  BY <1>1, <1>3, <1>7
<1>9. \A i \in DOMAIN tribbles : tribbles[i] \in Listed
  BY DEF Listed
<1>10. t \notin Listed
  BY <1>2, <1>3 DEF Emptying
<1>11. TopsFirst'
  <2> SUFFICES ASSUME NEW i \in DOMAIN tribbles', NEW j \in DOMAIN tribbles', i < j
               PROVE  ~Older(tribbles'[j], tribbles'[i])
    BY DEF TopsFirst
  <2>1. i \in DOMAIN tribbles
    BY <1>5
  <2>2. CASE j \in DOMAIN tribbles
    BY <1>2, <1>5, <2>1, <2>2 DEF Emptying, TopsFirst
  <2>3. CASE j = Len(tribbles) + 1
    BY <1>2, <1>3, <1>5, <1>9, <2>1, <2>3 DEF Emptying
  <2> QED
    BY <1>6, <2>2, <2>3
<1>12. ASSUME NEW i \in DOMAIN tribbles', NEW j \in DOMAIN tribbles',
              tribbles'[i] = tribbles'[j]
       PROVE  i = j
  <2>1. CASE i \in DOMAIN tribbles /\ j \in DOMAIN tribbles
    BY <1>2, <1>5, <1>12, <2>1 DEF Emptying
  <2>2. CASE i \notin DOMAIN tribbles \/ j \notin DOMAIN tribbles
    BY <1>5, <1>6, <1>9, <1>10, <1>12, <2>2
  <2> QED
    BY <2>1, <2>2
<1>13. \A v \in Listed', u \in pq' : ~Older(u, v)
  BY <1>1, <1>2, <1>3, <1>7 DEF Emptying
<1>14. Emptying'
  BY <1>1, <1>2, <1>7, <1>8, <1>11, <1>12, <1>13 DEF Emptying
<1>15. TypeOK'
  BY <1>1, <1>2, <1>5 DEF TypeOK
<1> QED
  BY <1>2, <1>14, <1>15 DEF FeedInv

\* The list is reversed.
LEMMA ReversedStep ==
    ASSUME FeedInv, Reversed
    PROVE  FeedInv'
<1> DEFINE n == Len(tribbles)
<1>1. /\ pc = "empty" /\ pc' = "done" /\ pq = {} /\ tribbles' = Reverse(tribbles)
      /\ UNCHANGED <<loop, left, pq, count>> /\ TypeOK /\ Emptying
  BY DEF Reversed, FeedInv
<1>2. tribbles \in Seq(Found) /\ n \in Nat /\ DOMAIN tribbles = 1..n
  BY <1>1 DEF TypeOK
<1>3. \A i \in 1..n : n + 1 - i \in 1..n /\ n + 1 - (n + 1 - i) = i
  BY <1>2
<1>4. /\ DOMAIN tribbles' = 1..n
      /\ \A i \in 1..n : tribbles'[i] = tribbles[n + 1 - i]
  BY <1>1 DEF Reverse
<1>5. tribbles' \in Seq(Found)
  <2>1. \A i \in 1..n : tribbles[n + 1 - i] \in Found
    BY <1>2, <1>3
  <2>2. tribbles' \in [1..n -> Found]
    BY <1>1, <2>1 DEF Reverse
  <2> QED
    BY <1>2, <2>2
<1>6. Listed' = Listed
  BY <1>2, <1>3, <1>4 DEF Listed
<1>7. ASSUME NEW i \in 1..n, NEW j \in 1..n, i < j
      PROVE  ~Older(tribbles'[i], tribbles'[j])
  <2>1. n + 1 - j < n + 1 - i
    BY <1>2, <1>7
  <2> QED
    BY <1>1, <1>2, <1>3, <1>4, <2>1 DEF Emptying, TopsFirst
<1>8. ASSUME NEW i \in 1..n, NEW j \in 1..n, tribbles'[i] = tribbles'[j]
      PROVE  i = j
  <2>1. n + 1 - i = n + 1 - j
    BY <1>1, <1>2, <1>3, <1>4, <1>8 DEF Emptying
  <2> QED
    BY <1>2, <2>1
<1>9. IsCut(Listed, Found)
  <2>1. pq \cup Listed = Listed
    BY <1>1
  <2> QED
    BY <1>1, <2>1 DEF Emptying
<1>10. Lists(tribbles', Listed) /\ NewestFirst(tribbles')
  BY <1>4, <1>6, <1>7, <1>8 DEF Lists, NewestFirst, Listed
<1>11. IsFeed(tribbles, Found)'
  BY <1>9, <1>10 DEF IsFeed, IsCut, AreNewest
<1>12. TypeOK'
  BY <1>1, <1>5 DEF TypeOK
<1> QED
  BY <1>1, <1>11, <1>12 DEF FeedInv

\* Every step keeps the invariant.
LEMMA FeedStep == FeedInv /\ [Next]_vars => FeedInv'
<1> SUFFICES ASSUME FeedInv, [Next]_vars PROVE FeedInv'
  OBVIOUS
<1>1. CASE Done \/ UNCHANGED vars
  <2>1. UNCHANGED vars
    BY <1>1 DEF Done
  <2> QED
    BY <2>1 DEF vars, FeedInv, TypeOK, Emptying, TopsFirst, Listed
<1> QED
  BY <1>1, PushStep, FilledStep, PopStep, ReversedStep DEF Next

\* Both loops hold the newest tribbles that they have come to, at most MaxTribbles.
THEOREM QueueIsNewest == Spec => []KeepsNewest
<1>1. FeedInv => KeepsNewest
  BY DEF FeedInv, KeepsNewest
<1> QED
  BY <1>1, FeedInit, FeedStep, PTL DEF Spec

\* The answer of both is the feed of all the tribbles that were found.
THEOREM FeedIsRight == Spec => []AnswersFeed
<1>1. FeedInv => AnswersFeed
  BY DEF FeedInv, AnswersFeed
<1> QED
  BY <1>1, FeedInit, FeedStep, PTL DEF Spec
=============================================================================
